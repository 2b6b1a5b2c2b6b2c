--------------------------- MODULE DailySubmissions ---------------------------
(***************************************************************************)
(* SubmissionService: the owner ends, edits and completes a day; an admin  *)
(* edits it and reopens it.  A request loads the day and checks it, then   *)
(* flushes its edit, and completes or reopens the parent workorder.        *)
(***************************************************************************)
EXTENDS Store

\* The request loads day s and keeps `edited` in its session.
LoadDay(r, operation, s, edited, label) ==
    Proceed(r, label, [Blank EXCEPT !.op = operation, !.s = s, !.day = submissions[s],
                                    !.edit = edited])

Bumped(row) == [row EXCEPT !.version = @ + 1]

\* The request is accepted for an existing day.
AcceptsDay(r, operation, s) ==
    /\ Accepts(r, operation)
    /\ submissions[s] # None
    /\ Room

EndDrive(r, u, s) ==
    LET row == submissions[s] IN
    /\ AcceptsDay(r, "end_drive", s)
    /\ IF row.owner # u \/ row.status # "IN_PROGRESS"
       THEN Rollback(r, "rejected")
       ELSE LoadDay(r, "end_drive", s,
                    Bumped([row EXCEPT !.status = "CHECKED_OUT"]), "flush")

\* Both PATCH handlers: a stale version is refused, an edit that changes
\* nothing commits nothing.
EditDay(r, operation, s, version, date, grids) ==
    LET row == submissions[s]
        edited == [row EXCEPT !.date = date, !.grids = grids]
    IN  IF row.version # version THEN Rollback(r, "rejected")
        ELSE IF edited = row THEN Rollback(r, "ok")
        ELSE LoadDay(r, operation, s, Bumped(edited), "flush")

UpdateSubmission(r, u, s, version, date, grids) ==
    LET row == submissions[s] IN
    /\ AcceptsDay(r, "update_submission", s)
    /\ IF row.owner # u \/ row.status = "COMPLETED"
       THEN Rollback(r, "rejected")
       ELSE EditDay(r, "update_submission", s, version, date, grids)

UpdateAdminSubmission(r, u, s, version, date, grids) ==
    /\ AcceptsDay(r, "update_admin_submission", s)
    /\ IF u \notin Admins
       THEN Rollback(r, "rejected")
       ELSE EditDay(r, "update_admin_submission", s, version, date, grids)

CompleteSubmission(r, u, s) ==
    LET row == submissions[s] IN
    /\ AcceptsDay(r, "complete_submission", s)
    /\ IF row.owner # u \/ row.status # "CHECKED_OUT"
       THEN Rollback(r, "rejected")
       ELSE LoadDay(r, "complete_submission", s,
                    Bumped([row EXCEPT !.status = "COMPLETED"]), "count")

ReopenSubmission(r, u, s) ==
    LET row == submissions[s] IN
    /\ AcceptsDay(r, "reopen_submission", s)
    /\ IF u \notin Admins \/ row.status # "COMPLETED"
       THEN Rollback(r, "rejected")
       ELSE LoadDay(r, "reopen_submission", s,
                    Bumped([row EXCEPT !.status = "CHECKED_OUT"]), "flush")

-----------------------------------------------------------------------------
Edits == {"update_submission", "update_admin_submission"}

AfterFlush(t) ==
    CASE t.op \in Edits \cup {"reopen_submission"} -> "parent"
      [] t.op = "complete_submission" /\ t.wedit # t.wo -> "flush_parent"
      [] OTHER -> "commit"

\* Mutant: a completion locks the parent it closes before the day.
FlushDayAfterParent(r) ==
    LET t == tx[r] IN
    /\ pc[r] = "flush"
    /\ IF t.op = "complete_submission" /\ t.wedit # t.wo /\ t.w \notin locks[r]
       THEN HoldersOf(t.w, r) = {} /\ Write(r, t.w, "flush", t)
       ELSE /\ HoldersOf(t.s, r) = {}
            /\ Write(r, t.s, IF t.edit.date # t.day.date THEN "reindex" ELSE AfterFlush(t), t)

\* The UPDATE takes the row lock.  An edit is flushed by the duplicate query
\* that follows it, and a new work_date then has to enter the unique index.
FlushDay(r) ==
    LET t == tx[r] IN
    /\ pc[r] = "flush"
    /\ HoldersOf(t.s, r) = {}
    /\ Write(r, t.s, IF t.edit.date # t.day.date THEN "reindex" ELSE AfterFlush(t), t)

\* Nothing in the service handles the IntegrityError of a day already taken.
ReindexDay(r) ==
    LET t == tx[r] IN
    /\ pc[r] = "reindex"
    /\ HoldersOfDay(DayKey(t.edit), r) = {}
    /\ IF DayTaken(DayKey(t.edit), t.s)
       THEN Rollback(r, "error")
       ELSE Proceed(r, AfterFlush(t), t)

\* Mutant: a day completes without its file.
CountNoFiles(r) ==
    /\ pc[r] = "count" /\ tx[r].op = "complete_submission"
    /\ Proceed(r, "parent", tx[r])

\* complete_submission counts the active attachments of the day.
CountFiles(r) ==
    /\ pc[r] = "count" /\ tx[r].op = "complete_submission"
    /\ IF ActiveFiles(tx[r].s, attachments) = {}
       THEN Rollback(r, "rejected")
       ELSE Proceed(r, "parent", tx[r])

LoadParent(r) ==
    LET t == tx[r]
        w == t.day.workorder
    IN  /\ pc[r] = "parent" /\ t.op \in Edits \cup {"complete_submission"}
        /\ Proceed(r, "aggregate", [t EXCEPT !.w = w, !.wo = workorders[w],
                                             !.wedit = workorders[w]])

Closed(row) == [row EXCEPT !.status = "COMPLETED", !.completed_at = "now"]

\* Mutant: the timestamp survives the reopening.
ReopenedInStatus(row) == [row EXCEPT !.status = "ACTIVE"]

Reopened(row) == [row EXCEPT !.status = "ACTIVE", !.completed_at = "null"]

\* Mutant: an edit is not held against the total.
CapNothing(r) ==
    /\ pc[r] = "aggregate" /\ tx[r].op = "update_submission"
    /\ Proceed(r, "commit", tx[r])

\* The aggregate is read after the edit was flushed, and takes it in.
CapUpdate(r) ==
    LET t == tx[r] IN
    /\ pc[r] = "aggregate" /\ t.op = "update_submission"
    /\ IF Progress(t.w, DaysSeenBy(r)) - t.day.grids + t.edit.grids > t.wo.total
       THEN Rollback(r, "rejected")
       ELSE Proceed(r, "commit", t)

\* Mutant: the parent closes one grid too late.
CapCompletionLate(r) ==
    LET t == tx[r]
        total == Progress(t.w, DaysSeenBy(r))
    IN  /\ pc[r] = "aggregate" /\ t.op = "complete_submission"
        /\ IF total > t.wo.total
           THEN Rollback(r, "rejected")
           ELSE Proceed(r, "flush", IF total > t.wo.total
                                    THEN [t EXCEPT !.wedit = Closed(@)] ELSE t)

CapCompletion(r) ==
    LET t == tx[r]
        total == Progress(t.w, DaysSeenBy(r))
    IN  /\ pc[r] = "aggregate" /\ t.op = "complete_submission"
        /\ IF total > t.wo.total
           THEN Rollback(r, "rejected")
           ELSE Proceed(r, "flush", IF total >= t.wo.total
                                    THEN [t EXCEPT !.wedit = Closed(@)] ELSE t)

CloseParentAfterAdminEdit(r) ==
    LET t == tx[r] IN
    /\ pc[r] = "aggregate" /\ t.op = "update_admin_submission"
    /\ IF t.wo.status # "COMPLETED" /\ Progress(t.w, DaysSeenBy(r)) >= t.wo.total
       THEN Proceed(r, "flush_parent", [t EXCEPT !.wedit = Closed(@)])
       ELSE Proceed(r, "commit", t)

\* reopen_submission, and delete_attachment when it took a completed day's
\* last file, move a COMPLETED workorder back to ACTIVE.
ReopenParent(r) ==
    LET t == tx[r]
        w == t.day.workorder
    IN  /\ pc[r] = "parent" /\ t.op \in {"reopen_submission", "delete_attachment"}
        /\ IF workorders[w].status = "COMPLETED"
           THEN Proceed(r, "flush_parent", [t EXCEPT !.w = w, !.wo = workorders[w],
                                                     !.wedit = Reopened(workorders[w])])
           ELSE Proceed(r, "commit", t)

DayStep(r) == \/ FlushDay(r) \/ ReindexDay(r) \/ CountFiles(r) \/ LoadParent(r)
              \/ CapUpdate(r) \/ CapCompletion(r) \/ CloseParentAfterAdminEdit(r)
              \/ ReopenParent(r)
=============================================================================

------------------------------ MODULE StartDrive ------------------------------
(***************************************************************************)
(* POST /submissions: WorkorderService.start_drive finds or creates the    *)
(* workorder a code names and opens the day's submission under it, in one  *)
(* transaction that it tries twice.                                        *)
(***************************************************************************)
EXTENDS Store

\* A UUID for the new day that no row and no other request uses.
FreshDay(s) == submissions[s] = None /\ \A q \in Slots : tx[q].s # s

FreshWorkorder(w) == workorders[w] = None /\ \A q \in Slots : w \notin locks[q]

StartDrive(r, u, s, client, code, region, total, date) ==
    /\ Accepts(r, "start_drive") /\ Room
    /\ FreshDay(s)
    /\ Proceed(r, "find",
               [Blank EXCEPT !.op = "start_drive", !.s = s,
                             !.req = [code |-> code, region |-> region, total |-> total,
                                      client |-> client, date |-> date, owner |-> u]])

\* The parent fields of the request agree with the workorder found.
Matches(req, row) == /\ req.region \in {None, row.region}
                     /\ req.total \in {None, row.total}

\* Mutant: a COMPLETED workorder is attached to like any other.
FindAnyWorkorder(r) ==
    LET t == tx[r] IN
    /\ pc[r] = "find"
    /\ \/ /\ ~CodeTaken(t.req.code, None)
          /\ IF None \in {t.req.region, t.req.total}
             THEN Rollback(r, "rejected")
             ELSE Proceed(r, "create", t)
       \/ \E w \in Workorders :
          /\ workorders[w] # None /\ workorders[w].code = t.req.code
          /\ Proceed(r, "duplicate", [t EXCEPT !.w = w, !.wo = workorders[w],
                                            !.wedit = workorders[w]])

FindWorkorder(r) ==
    LET t == tx[r] IN
    /\ pc[r] = "find"
    /\ \/ /\ ~CodeTaken(t.req.code, None)
          /\ IF None \in {t.req.region, t.req.total}
             THEN Rollback(r, "rejected")
             ELSE Proceed(r, "create", t)
       \/ \E w \in Workorders :
          /\ workorders[w] # None /\ workorders[w].code = t.req.code
          /\ IF \/ workorders[w].status = "COMPLETED"
                \/ ~Matches(t.req, workorders[w])
                \/ t.req.date \in Future
             THEN Rollback(r, "rejected")
             ELSE Proceed(r, "duplicate", [t EXCEPT !.w = w, !.wo = workorders[w],
                                                 !.wedit = workorders[w]])

\* The row of a new workorder.
NewWorkorder(req) == [code |-> req.code, region |-> req.region, total |-> req.total,
                      status |-> "ACTIVE", completed_at |-> "null"]

\* Mutant: the workorder is committed ahead of its first day.
CreateWorkorderAlone(r) ==
    LET t == tx[r] IN
    /\ pc[r] = "create"
    /\ ~CodeTaken(t.req.code, None)
    /\ \E w \in Workorders :
          /\ FreshWorkorder(w)
          /\ workorders' = [workorders EXCEPT ![w] = NewWorkorder(t.req)]
          /\ pc' = [pc EXCEPT ![r] = "duplicate"]
          /\ tx' = [tx EXCEPT ![r].w = w, ![r].wo = NewWorkorder(t.req),
                              ![r].wedit = NewWorkorder(t.req)]
          /\ UNCHANGED <<submissions, attachments, audit, objects, locks>>

\* Mutant: the first IntegrityError is the last.
CreateWorkorderOnce(r) ==
    LET t == tx[r] IN
    /\ pc[r] = "create"
    /\ HoldersOfCode(t.req.code, r) = {}
    /\ IF CodeTaken(t.req.code, None)
       THEN Rollback(r, "error")
       ELSE \E w \in Workorders :
            /\ FreshWorkorder(w)
            /\ Write(r, w, "duplicate", [t EXCEPT !.w = w, !.wedit = NewWorkorder(t.req)])

\* uq_workorders_code_normalized fails the INSERT when the code was created
\* since it was looked up; the first attempt rolls back and starts over.
CreateWorkorder(r) ==
    LET t == tx[r] IN
    /\ pc[r] = "create"
    /\ HoldersOfCode(t.req.code, r) = {}
    /\ IF CodeTaken(t.req.code, None)
       THEN IF t.again THEN Rollback(r, "error")
                       ELSE Proceed(r, "find", [t EXCEPT !.again = TRUE])
       ELSE IF t.req.date \in Future THEN Rollback(r, "rejected")
       ELSE \E w \in Workorders :
            /\ FreshWorkorder(w)
            /\ Write(r, w, "duplicate", [t EXCEPT !.w = w, !.wedit = NewWorkorder(t.req)])

\* Mutant: the counts of a new day are left out.
NewDayWithoutCounts(w, req) ==
    [workorder |-> w, client |-> req.client, owner |-> req.owner, date |-> req.date,
     grids |-> None, status |-> "IN_PROGRESS", version |-> 1]

\* The row of a new day.
NewDay(w, req) == [workorder |-> w, client |-> req.client, owner |-> req.owner,
                   date |-> req.date, grids |-> 0, status |-> "IN_PROGRESS", version |-> 1]

\* The SELECT for a submission of the workorder on the date.
CheckDuplicate(r) ==
    LET t == tx[r] IN
    /\ pc[r] = "duplicate"
    /\ IF DayTaken(<<t.w, t.req.date>>, None)
       THEN Rollback(r, "rejected")
       ELSE Proceed(r, "insert", t)

\* Mutant: only the SELECT looks for a duplicate, no constraint stands behind it.
InsertDayUnconstrained(r) ==
    LET t == tx[r] IN
    /\ pc[r] = "insert"
    /\ Write(r, t.s, "commit", [t EXCEPT !.edit = NewDay(t.w, t.req)])

\* The INSERT enters client_generated_id first, whose violation is raised
\* again, then uq_submissions_workorder_date, whose violation is a conflict.
InsertDay(r) ==
    LET t == tx[r]
        key == <<t.w, t.req.date>>
    IN  /\ pc[r] = "insert"
        /\ HoldersOfClient(t.req.client, r) = {}
        /\ IF ClientTaken(t.req.client)
           THEN Rollback(r, "error")
           ELSE /\ HoldersOfDay(key, r) = {}
                /\ IF DayTaken(key, None)
                   THEN Rollback(r, "rejected")
                   ELSE Write(r, t.s, "commit", [t EXCEPT !.edit = NewDay(t.w, t.req)])

StartDriveStep(r) ==
    FindWorkorder(r) \/ CreateWorkorder(r) \/ CheckDuplicate(r) \/ InsertDay(r)
=============================================================================

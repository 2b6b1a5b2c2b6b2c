---------------------------- MODULE FieldOpsProofs ----------------------------
(***************************************************************************)
(* The safety properties of FieldOps for any slots, rows, users and inputs: *)
(* Inductive holds initially and is kept by every step.                    *)
(***************************************************************************)
EXTENDS FieldInvariant, TLAPS

Rows == Submissions \cup Workorders \cup Attachments

\* The entries of a request's own session that others may not share.
SameRows(old, new) == new.op = old.op /\ new.s = old.s /\ new.a = old.a

\* Session t with workorder w, as loaded and as edited.
WithParent(t, w, loaded, edited) == [t EXCEPT !.w = w, !.wo = loaded, !.wedit = edited]

\* Session t with its workorder edited.
WithEdit(t, edited) == [t EXCEPT !.wedit = edited]

-----------------------------------------------------------------------------
(* Lemmas about the operators. *)

\* The session of a request that is answered is type-correct.
LEMMA BlankIsSession == Blank \in Session
BY DEF Blank, Session

\* An UPDATE of a submission keeps its workorder and makes a submission.
LEMMA FlushedDayIsDay ==
    ASSUME NEW stored \in Submission, NEW loaded \in Submission, NEW edited \in Submission
    PROVE  /\ FlushedDay(stored, loaded, edited) \in Submission
           /\ FlushedDay(stored, loaded, edited).workorder = stored.workorder
           /\ FlushedDay(stored, loaded, edited).status
                 = IF edited.status = loaded.status THEN stored.status ELSE edited.status
<1>1. loaded # None
  BY StoreAssumption
<1>2. QED
  BY <1>1 DEF FlushedDay, Column, Submission

\* The row a start_drive inserts is a submission.
LEMMA FlushedNewDay ==
    ASSUME NEW stored, NEW edited
    PROVE  FlushedDay(stored, None, edited) = edited
BY DEF FlushedDay

\* An UPDATE or an INSERT of a workorder makes a workorder.
LEMMA FlushedParentIsParent ==
    /\ \A stored, edited : FlushedParent(stored, None, edited) = edited
    /\ \A stored, loaded, edited \in Workorder :
          FlushedParent(stored, loaded, edited) \in Workorder
<1>1. \A stored, edited : FlushedParent(stored, None, edited) = edited
  BY DEF FlushedParent
<1>2. ASSUME NEW stored \in Workorder, NEW loaded \in Workorder, NEW edited \in Workorder
      PROVE  FlushedParent(stored, loaded, edited) \in Workorder
  <2>1. loaded # None
    BY StoreAssumption
  <2>2. Stamp(Column(stored.completed_at, loaded.completed_at, edited.completed_at))
           \in {"null", "set", "now"}
    BY DEF Stamp, Column, Workorder
  <2>3. QED
    BY <2>1, <2>2 DEF FlushedParent, Column, Workorder
<1>3. QED
  BY <1>1, <1>2

\* The audit entries of the operations, and the statuses they tell.
LEMMA Entries ==
    /\ \A op \in DOMAIN AuditEntry : AuditEntry[op] \in AuditAction
    /\ \A op \in Changes \cup {"start_drive"} :
          op \in DOMAIN AuditEntry /\ AuditEntry[op] \in DOMAIN StatusAfter
    /\ StatusAfter[AuditEntry["start_drive"]] = "IN_PROGRESS"
    /\ \A op \in Edits \cup {"upload_attachment", "delete_attachment"} :
          op \in DOMAIN AuditEntry /\ AuditEntry[op] \notin DOMAIN StatusAfter
    /\ "update_workorder" \notin DOMAIN AuditEntry
BY DEF AuditEntry, AuditAction, StatusAfter, Changes, Edits

-----------------------------------------------------------------------------
(* What a session knows. *)

\* A request in flight works on rows, and has written no others.
LEMMA SessionRows ==
    ASSUME Inductive, NEW r \in Slots
    PROVE  /\ locks[r] \subseteq {tx[r].s, tx[r].w, tx[r].a} \ {None}
           /\ tx[r].s \in Submissions \cup {None}
           /\ tx[r].w \in Workorders \cup {None}
           /\ tx[r].a \in Attachments \cup {None}
<1>1. SessionOK(r) /\ tx[r] \in Session
  BY DEF Inductive, Sessions, TypeOK
<1>2. /\ tx[r].s \in Submissions \cup {None}
      /\ tx[r].w \in Workorders \cup {None}
      /\ tx[r].a \in Attachments \cup {None}
  BY <1>1 DEF Session
<1>. SUFFICES locks[r] \subseteq {tx[r].s, tx[r].w, tx[r].a} \ {None}
  BY <1>2
<1>3. None \notin locks[r]
  BY StoreAssumption DEF Inductive, TypeOK
<1>4. CASE pc[r] \in Free
  BY <1>1, <1>4 DEF SessionOK, NoSession
<1>5. CASE pc[r] \notin Free /\ StartSession(r)
  BY <1>3, <1>5 DEF StartSession
<1>6. CASE pc[r] \notin Free /\ DaySession(r)
  BY <1>3, <1>6 DEF DaySession, Locked
<1>7. CASE pc[r] \notin Free /\ UploadSession(r)
  BY <1>3, <1>7 DEF UploadSession
<1>8. CASE pc[r] \notin Free /\ DeleteSession(r)
  BY <1>3, <1>8 DEF DeleteSession, Locked
<1>9. CASE pc[r] \notin Free /\ WorkorderSession(r)
  BY <1>3, <1>9 DEF WorkorderSession
<1>10. QED
  BY <1>1, <1>4, <1>5, <1>6, <1>7, <1>8, <1>9 DEF SessionOK

\* Nobody's rows but a start_drive's or an upload's are to be inserted.
LEMMA NewRows ==
    ASSUME Inductive, NEW r \in Slots
    PROVE  /\ tx[r].op = "start_drive" => tx[r].s \in Submissions /\ submissions[tx[r].s] = None
           /\ tx[r].op = "upload_attachment" =>
                 tx[r].a \in Attachments /\ attachments[tx[r].a] = None
<1>1. SessionOK(r)
  BY DEF Inductive, Sessions
<1>2. pc[r] \in Free => tx[r].op = "none"
  BY <1>1 DEF SessionOK, NoSession, Blank
<1>3. ASSUME tx[r].op = "start_drive" PROVE StartSession(r)
  BY <1>1, <1>2, <1>3 DEF SessionOK, DayOps, Edits, Changes
<1>4. ASSUME tx[r].op = "upload_attachment" PROVE UploadSession(r)
  BY <1>1, <1>2, <1>4 DEF SessionOK, DayOps, Edits, Changes
<1>5. QED
  BY <1>3, <1>4 DEF StartSession, UploadSession

-----------------------------------------------------------------------------
(* The steps that leave the tables alone. *)

\* The others still know what they knew when r's step commits nothing.
LEMMA OthersKnow ==
    ASSUME UNCHANGED tables, objects \subseteq objects',
           NEW q \in Slots, pc'[q] = pc[q], tx'[q] = tx[q], locks'[q] = locks[q],
           SessionOK(q)
    PROVE  SessionOK(q)'
<1> USE DEF tables
<1>1. NoSession(q) => NoSession(q)'
  BY DEF NoSession
<1>2. StartSession(q) => StartSession(q)'
  BY DEF StartSession
<1>3. DaySession(q) => DaySession(q)'
  BY DEF DaySession, DayLoaded, ParentOf, ParentLoaded, Locked, Unlocked
<1>4. UploadSession(q) => UploadSession(q)'
  BY DEF UploadSession, DayLoaded
<1>5. DeleteSession(q) => DeleteSession(q)'
  BY DEF DeleteSession, DayLoaded, ParentOf, ParentLoaded, Locked
<1>6. WorkorderSession(q) => WorkorderSession(q)'
  BY DEF WorkorderSession, ParentLoaded
<1>7. QED
  BY <1>1, <1>2, <1>3, <1>4, <1>5, <1>6 DEF SessionOK

\* A step of r that commits nothing keeps the invariant if it keeps what r
\* knows and keeps r apart from the others.
LEMMA SessionStep ==
    ASSUME Inductive, TypeOK', UNCHANGED tables, objects \subseteq objects',
           NEW r \in Slots,
           \A q \in Slots \ {r} : pc'[q] = pc[q] /\ tx'[q] = tx[q] /\ locks'[q] = locks[q],
           SessionOK(r)',
           \A q \in Slots \ {r} : Apart(q, r)' /\ Apart(r, q)'
    PROVE  Inductive'
<1>1. /\ DaysHaveWorkorders' /\ FilesHaveDays' /\ NoEmptyWorkorder'
      /\ FilesAreStored' /\ TrailTellsStatus'
  BY DEF Inductive, DaysHaveWorkorders, FilesHaveDays, NoEmptyWorkorder, FilesAreStored,
         TrailTellsStatus, tables
<1>2. \A q \in Slots \ {r} : SessionOK(q)'
  BY OthersKnow DEF Inductive, Sessions
<1>3. \A p, q \in Slots \ {r} : p # q => Apart(p, q)'
  BY DEF Inductive, Sessions, Apart
<1>4. Sessions'
  BY <1>2, <1>3 DEF Sessions
<1>5. QED
  BY <1>1, <1>4 DEF Inductive

\* A rejected, failed or aborted request.
LEMMA RollbackKeeps ==
    ASSUME Inductive, NEW r \in Slots, NEW outcome \in Free,
           Answer(r, outcome), UNCHANGED tables, objects \subseteq objects',
           objects' \subseteq Attachments
    PROVE  Inductive'
<1>1. TypeOK'
  BY BlankIsSession DEF Inductive, TypeOK, Answer, tables
<1>2. /\ pc'[r] = outcome /\ tx'[r] = Blank /\ locks'[r] = {}
      /\ \A q \in Slots \ {r} : pc'[q] = pc[q] /\ tx'[q] = tx[q] /\ locks'[q] = locks[q]
  BY DEF Answer, Inductive, TypeOK
<1>3. SessionOK(r)'
  BY <1>2 DEF SessionOK, NoSession
<1>4. ASSUME NEW q \in Slots \ {r} PROVE Apart(q, r)' /\ Apart(r, q)'
  BY <1>2, NewRows, StoreAssumption DEF Apart, Blank
<1>5. QED
  BY <1>1, <1>2, <1>3, <1>4, SessionStep

\* A statement that only reads, when what it leaves in the session is right.
LEMMA ProceedKeeps ==
    ASSUME Inductive, NEW r \in Slots, NEW label \in Waiting, NEW session \in Session,
           Proceed(r, label, session), SameRows(tx[r], session), SessionOK(r)'
    PROVE  Inductive'
<1>1. TypeOK'
  BY DEF Inductive, TypeOK, Proceed, tables
<1>2. /\ tx'[r] = session /\ locks' = locks
      /\ \A q \in Slots \ {r} : pc'[q] = pc[q] /\ tx'[q] = tx[q] /\ locks'[q] = locks[q]
      /\ UNCHANGED <<tables, objects>>
  BY DEF Proceed, Inductive, TypeOK
<1>3. ASSUME NEW q \in Slots \ {r} PROVE Apart(q, r)' /\ Apart(r, q)'
  BY <1>2 DEF Inductive, Sessions, Apart, SameRows
<1>4. QED
  BY <1>1, <1>2, <1>3, SessionStep

\* A flush of a row that no other transaction has written.
LEMMA WriteKeeps ==
    ASSUME Inductive, NEW r \in Slots, NEW row \in Rows, NEW label \in Waiting,
           NEW session \in Session, Write(r, row, label, session),
           \A q \in Slots \ {r} : row \notin locks[q],
           SameRows(tx[r], session), SessionOK(r)'
    PROVE  Inductive'
<1>1. TypeOK'
  BY DEF Inductive, TypeOK, Write, tables, Rows
<1>2. /\ tx'[r] = session /\ locks'[r] = locks[r] \cup {row}
      /\ \A q \in Slots \ {r} : pc'[q] = pc[q] /\ tx'[q] = tx[q] /\ locks'[q] = locks[q]
      /\ UNCHANGED <<tables, objects>>
  BY DEF Write, Inductive, TypeOK
<1>3. ASSUME NEW q \in Slots \ {r} PROVE Apart(q, r)' /\ Apart(r, q)'
  <2>1. Apart(q, r) /\ Apart(r, q)
    BY DEF Inductive, Sessions
  <2>2. QED
    BY <1>2, <2>1 DEF Apart, SameRows
<1>4. QED
  BY <1>1, <1>2, <1>3, SessionStep

\* A request that arrives, with the UUID of its new row unknown to the others.
LEMMA ArriveKeeps ==
    ASSUME Inductive, NEW r \in Slots, pc[r] \in Free,
           NEW label \in Waiting, NEW session \in Session,
           Proceed(r, label, session), SessionOK(r)',
           session.op = "start_drive" => \A q \in Slots \ {r} : tx[q].s # session.s,
           session.op = "upload_attachment" => \A q \in Slots \ {r} : tx[q].a # session.a,
           session.op # "start_drive" /\ session.s # None => submissions[session.s] # None,
           session.op # "upload_attachment" /\ session.a # None
              => attachments[session.a] # None
    PROVE  Inductive'
<1>1. TypeOK'
  BY DEF Inductive, TypeOK, Proceed, tables
<1>2. /\ tx'[r] = session /\ locks' = locks
      /\ \A q \in Slots \ {r} : pc'[q] = pc[q] /\ tx'[q] = tx[q] /\ locks'[q] = locks[q]
      /\ UNCHANGED <<tables, objects>>
  BY DEF Proceed, Inductive, TypeOK
<1>3. locks[r] = {}
  BY DEF Inductive, Sessions, SessionOK, NoSession
<1>4. ASSUME NEW q \in Slots \ {r} PROVE Apart(q, r)' /\ Apart(r, q)'
  <2>1. locks'[q] \cap locks'[r] = {}
    BY <1>2, <1>3
  <2>2. tx'[q].op = "start_drive" => tx'[q].s # tx'[r].s
    BY <1>2, NewRows, StoreAssumption
  <2>3. tx'[q].op = "upload_attachment" => tx'[q].a # tx'[r].a
    BY <1>2, NewRows, StoreAssumption
  <2>4. QED
    BY <1>2, <2>1, <2>2, <2>3 DEF Apart
<1>5. QED
  BY <1>1, <1>2, <1>4, SessionStep

\* What r's slot holds after a step that only reads.
LEMMA ProceedFacts ==
    ASSUME Inductive, NEW r \in Slots, NEW label, NEW session, Proceed(r, label, session)
    PROVE  /\ pc'[r] = label /\ tx'[r] = session /\ locks'[r] = locks[r]
           /\ workorders' = workorders /\ submissions' = submissions
           /\ attachments' = attachments /\ audit' = audit /\ objects' = objects
BY DEF Inductive, TypeOK, Proceed, tables

\* What r's slot holds after a flush.
LEMMA WriteFacts ==
    ASSUME Inductive, NEW r \in Slots, NEW row, NEW label, NEW session,
           Write(r, row, label, session)
    PROVE  /\ pc'[r] = label /\ tx'[r] = session /\ locks'[r] = locks[r] \cup {row}
           /\ workorders' = workorders /\ submissions' = submissions
           /\ attachments' = attachments /\ audit' = audit /\ objects' = objects
BY DEF Inductive, TypeOK, Write, tables

\* A refusal, an unhandled exception, a deadlock victim's or a lost request's end.
LEMMA RejectKeeps ==
    ASSUME Inductive, NEW r \in Slots, NEW outcome \in Free, Rollback(r, outcome)
    PROVE  Inductive'
BY RollbackKeeps DEF Rollback, Inductive, TypeOK

-----------------------------------------------------------------------------
(* The sessions and the statements they are at. *)

\* The session of a request in flight is the one of its operation.
LEMMA SessionOf ==
    ASSUME Inductive, NEW r \in Slots, pc[r] \notin Free
    PROVE  /\ tx[r].op = "start_drive" => StartSession(r)
           /\ tx[r].op \in DayOps => DaySession(r)
           /\ tx[r].op = "upload_attachment" => UploadSession(r)
           /\ tx[r].op = "delete_attachment" => DeleteSession(r)
           /\ tx[r].op = "update_workorder" => WorkorderSession(r)
           /\ tx[r].op \in {"start_drive", "upload_attachment", "delete_attachment",
                            "update_workorder"} \cup DayOps
<1>1. SessionOK(r)
  BY DEF Inductive, Sessions
<1>2. QED
  BY <1>1 DEF SessionOK, DayOps, Edits, Changes

\* A session of a day's operation is at one of the statements of the operation.
LEMMA DayLabels ==
    ASSUME NEW r, tx[r].op \in DayOps, pc[r] \in DayPath[tx[r].op]
    PROVE  /\ pc[r] \in {"flush", "reindex", "count", "parent", "aggregate", "flush_parent",
                         "commit"}
           /\ pc[r] = "count" => tx[r].op = "complete_submission"
           /\ pc[r] = "reindex" => tx[r].op \in Edits
           /\ pc[r] = "parent" => tx[r].op # "end_drive"
           /\ pc[r] = "aggregate" => tx[r].op \in Edits \cup {"complete_submission"}
           /\ pc[r] = "flush_parent" => tx[r].op \notin {"end_drive", "update_submission"}
BY DEF DayOps, Edits, Changes, DayPath

\* The operations that can be at a statement.
LEMMA Labels ==
    ASSUME Inductive, NEW r \in Slots
    PROVE  /\ pc[r] \in {"find", "create", "duplicate", "insert"} => tx[r].op = "start_drive"
           /\ pc[r] \in {"flush", "reindex"} => tx[r].op \in DayOps
           /\ pc[r] \in {"store", "attach"} => tx[r].op = "upload_attachment"
           /\ pc[r] \in {"detach", "recount"} => tx[r].op = "delete_attachment"
           /\ pc[r] = "recode" => tx[r].op = "update_workorder"
           /\ pc[r] = "flush_parent"
                 => tx[r].op \in {"delete_attachment", "update_workorder"} \cup DayOps
<1>. SUFFICES ASSUME pc[r] \notin Free
              PROVE  /\ pc[r] \in {"find", "create", "duplicate", "insert"} => tx[r].op = "start_drive"
                     /\ pc[r] \in {"flush", "reindex"} => tx[r].op \in DayOps
                     /\ pc[r] \in {"store", "attach"} => tx[r].op = "upload_attachment"
                     /\ pc[r] \in {"detach", "recount"} => tx[r].op = "delete_attachment"
                     /\ pc[r] = "recode" => tx[r].op = "update_workorder"
                     /\ pc[r] = "flush_parent"
                           => tx[r].op \in {"delete_attachment", "update_workorder"} \cup DayOps
  BY DEF Free
<1>1. CASE tx[r].op = "start_drive"
  BY <1>1, SessionOf DEF StartSession
<1>2. CASE tx[r].op \in DayOps
  BY <1>2, SessionOf, DayLabels DEF DaySession
<1>3. CASE tx[r].op = "upload_attachment"
  BY <1>3, SessionOf DEF UploadSession
<1>4. CASE tx[r].op = "delete_attachment"
  BY <1>4, SessionOf DEF DeleteSession
<1>5. CASE tx[r].op = "update_workorder"
  BY <1>5, SessionOf DEF WorkorderSession
<1>6. QED
  BY <1>1, <1>2, <1>3, <1>4, <1>5, SessionOf

-----------------------------------------------------------------------------
(* start_drive. *)

\* The day's UUID is new.
LEMMA StartDriveKeeps ==
    ASSUME Inductive, NEW r \in Slots, NEW u \in Users, NEW s \in Submissions,
           NEW client \in ClientIds \cup {None}, NEW code \in Codes,
           NEW region \in Regions \cup {None}, NEW total \in Totals \cup {None},
           NEW date \in Dates, StartDrive(r, u, s, client, code, region, total, date)
    PROVE  Inductive'
<1> DEFINE req == [code |-> code, region |-> region, total |-> total,
                   client |-> client, date |-> date, owner |-> u]
           session == [Blank EXCEPT !.op = "start_drive", !.s = s, !.req = req]
<1>1. req \in Request /\ req.code \in Codes
  BY StoreAssumption DEF Request
<1>. HIDE DEF req
<1>2. /\ session \in Session
      /\ session.op = "start_drive" /\ session.s = s /\ session.req = req
      /\ session.day = None /\ session.a = None
      /\ session.w = None /\ session.wo = None /\ session.wedit = None
  BY <1>1 DEF Session, Blank, Operation, AuditEntry
<1>3. Proceed(r, "find", session) /\ pc[r] \in Free /\ FreshDay(s)
  BY DEF StartDrive, Accepts, req
<1>. HIDE DEF session
<1>4. /\ pc'[r] = "find" /\ tx'[r] = session /\ locks'[r] = locks[r]
      /\ submissions' = submissions /\ workorders' = workorders
  BY <1>3, ProceedFacts
<1>5. locks[r] = {}
  BY <1>3 DEF Inductive, Sessions, SessionOK, NoSession
<1>6. StartSession(r)'
  BY <1>1, <1>2, <1>3, <1>4, <1>5 DEF StartSession, FreshDay
<1>7. SessionOK(r)'
  BY <1>2, <1>4, <1>6 DEF SessionOK, Free
<1>8. \A q \in Slots \ {r} : tx[q].s # session.s
  BY <1>2, <1>3 DEF FreshDay
<1>9. QED
  BY <1>2, <1>3, <1>7, <1>8, ArriveKeeps DEF Waiting

\* The session creates its workorder only when the request names all of it.
LEMMA FindWorkorderKeeps ==
    ASSUME Inductive, NEW r \in Slots, FindWorkorder(r)
    PROVE  Inductive'
<1>1. /\ pc[r] = "find" /\ pc[r] \notin Free /\ tx[r].op = "start_drive"
      /\ StartSession(r) /\ tx[r] \in Session
  BY Labels, SessionOf DEF FindWorkorder, Inductive, TypeOK, Free
<1>2. CASE \E outcome \in Free : Rollback(r, outcome)
  BY <1>2, RejectKeeps
<1>3. CASE Proceed(r, "create", tx[r]) /\ None \notin {tx[r].req.region, tx[r].req.total}
  <2>1. /\ pc'[r] = "create" /\ tx'[r] = tx[r] /\ locks'[r] = locks[r]
        /\ submissions' = submissions /\ workorders' = workorders
    BY <1>3, ProceedFacts
  <2>2. tx[r].req.region \in Regions /\ tx[r].req.total \in Nat
    BY <1>1, <1>3 DEF StartSession, Request
  <2>3. StartSession(r)'
    BY <1>1, <2>1, <2>2 DEF StartSession
  <2>4. SessionOK(r)'
    BY <1>1, <2>1, <2>3 DEF SessionOK, Free
  <2>5. QED
    BY <1>1, <1>3, <2>4, ProceedKeeps DEF SameRows, Waiting
<1>4. ASSUME NEW w \in Workorders, workorders[w] # None,
             Proceed(r, "duplicate", [tx[r] EXCEPT !.w = w, !.wo = workorders[w],
                                                !.wedit = workorders[w]])
      PROVE  Inductive'
  <2> DEFINE session == [tx[r] EXCEPT !.w = w, !.wo = workorders[w], !.wedit = workorders[w]]
  <2>1. workorders[w] \in Workorder
    BY <1>4 DEF Inductive, TypeOK
  <2>2. /\ session \in Session
        /\ session.op = tx[r].op /\ session.s = tx[r].s /\ session.a = tx[r].a
        /\ session.day = tx[r].day /\ session.req = tx[r].req
        /\ session.w = w /\ session.wo = workorders[w] /\ session.wedit = workorders[w]
    BY <1>1, <2>1 DEF Session
  <2>3. Proceed(r, "duplicate", session)
    BY <1>4
  <2>. HIDE DEF session
  <2>4. /\ pc'[r] = "duplicate" /\ tx'[r] = session /\ locks'[r] = locks[r]
        /\ submissions' = submissions /\ workorders' = workorders
    BY <2>3, ProceedFacts
  <2>5. StartSession(r)'
    BY <1>1, <2>1, <2>2, <2>4 DEF StartSession
  <2>6. SessionOK(r)'
    BY <1>1, <2>2, <2>4, <2>5 DEF SessionOK, Free
  <2>7. QED
    BY <2>2, <2>3, <2>6, ProceedKeeps DEF SameRows, Waiting
<1>5. QED
  BY <1>2, <1>3, <1>4 DEF FindWorkorder, Free

\* The new workorder is locked before anybody can find it.
LEMMA CreateWorkorderKeeps ==
    ASSUME Inductive, NEW r \in Slots, CreateWorkorder(r)
    PROVE  Inductive'
<1>1. /\ pc[r] = "create" /\ pc[r] \notin Free /\ tx[r].op = "start_drive"
      /\ StartSession(r) /\ tx[r] \in Session
  BY Labels, SessionOf DEF CreateWorkorder, Inductive, TypeOK, Free
<1>2. CASE \E outcome \in Free : Rollback(r, outcome)
  BY <1>2, RejectKeeps
<1>3. CASE Proceed(r, "find", [tx[r] EXCEPT !.again = TRUE])
  <2> DEFINE session == [tx[r] EXCEPT !.again = TRUE]
  <2>1. /\ session \in Session
        /\ session.op = tx[r].op /\ session.s = tx[r].s /\ session.a = tx[r].a
        /\ session.day = tx[r].day /\ session.req = tx[r].req
        /\ session.w = tx[r].w /\ session.wo = tx[r].wo /\ session.wedit = tx[r].wedit
    BY <1>1 DEF Session
  <2>2. Proceed(r, "find", session)
    BY <1>3
  <2>. HIDE DEF session
  <2>3. /\ pc'[r] = "find" /\ tx'[r] = session /\ locks'[r] = locks[r]
        /\ submissions' = submissions /\ workorders' = workorders
    BY <2>2, ProceedFacts
  <2>4. StartSession(r)'
    BY <1>1, <2>1, <2>3 DEF StartSession
  <2>5. SessionOK(r)'
    BY <1>1, <2>1, <2>3, <2>4 DEF SessionOK, Free
  <2>6. QED
    BY <2>1, <2>2, <2>5, ProceedKeeps DEF SameRows, Waiting
<1>4. ASSUME NEW w \in Workorders, FreshWorkorder(w),
             Write(r, w, "duplicate", [tx[r] EXCEPT !.w = w, !.wedit = NewWorkorder(tx[r].req)])
      PROVE  Inductive'
  <2> DEFINE session == [tx[r] EXCEPT !.w = w, !.wedit = NewWorkorder(tx[r].req)]
  <2>1. NewWorkorder(tx[r].req) \in Workorder
    BY <1>1 DEF NewWorkorder, StartSession, Workorder
  <2>2. /\ session \in Session
        /\ session.op = tx[r].op /\ session.s = tx[r].s /\ session.a = tx[r].a
        /\ session.day = tx[r].day /\ session.req = tx[r].req
        /\ session.w = w /\ session.wo = tx[r].wo
        /\ session.wedit = NewWorkorder(tx[r].req)
    BY <1>1, <2>1 DEF Session
  <2>3. Write(r, w, "duplicate", session)
    BY <1>4
  <2>. HIDE DEF session
  <2>4. /\ pc'[r] = "duplicate" /\ tx'[r] = session /\ locks'[r] = locks[r] \cup {w}
        /\ submissions' = submissions /\ workorders' = workorders
    BY <2>3, WriteFacts
  <2>5. StartSession(r)'
    BY <1>1, <1>4, <2>1, <2>2, <2>4 DEF StartSession, FreshWorkorder
  <2>6. SessionOK(r)'
    BY <1>1, <2>2, <2>4, <2>5 DEF SessionOK, Free
  <2>7. \A q \in Slots \ {r} : w \notin locks[q]
    BY <1>4 DEF FreshWorkorder
  <2>8. QED
    BY <2>2, <2>3, <2>6, <2>7, WriteKeeps DEF SameRows, Waiting, Rows
<1>5. QED
  BY <1>2, <1>3, <1>4 DEF CreateWorkorder, Free

\* Nothing but the statement changes when no day is found.
LEMMA CheckDuplicateKeeps ==
    ASSUME Inductive, NEW r \in Slots, CheckDuplicate(r)
    PROVE  Inductive'
<1>1. /\ pc[r] = "duplicate" /\ pc[r] \notin Free /\ tx[r].op = "start_drive"
      /\ StartSession(r) /\ tx[r] \in Session
  BY Labels, SessionOf DEF CheckDuplicate, Inductive, TypeOK, Free
<1>2. CASE Rollback(r, "rejected")
  BY <1>2, RejectKeeps DEF Free
<1>3. CASE Proceed(r, "insert", tx[r])
  <2>1. /\ pc'[r] = "insert" /\ tx'[r] = tx[r] /\ locks'[r] = locks[r]
        /\ submissions' = submissions /\ workorders' = workorders
    BY <1>3, ProceedFacts
  <2>2. StartSession(r)'
    BY <1>1, <2>1 DEF StartSession
  <2>3. SessionOK(r)'
    BY <1>1, <2>1, <2>2 DEF SessionOK, Free
  <2>4. QED
    BY <1>1, <1>3, <2>3, ProceedKeeps DEF SameRows, Waiting
<1>4. QED
  BY <1>1, <1>2, <1>3 DEF CheckDuplicate

\* The row of the new day is nobody else's.
LEMMA InsertDayKeeps ==
    ASSUME Inductive, NEW r \in Slots, InsertDay(r)
    PROVE  Inductive'
<1>1. /\ pc[r] = "insert" /\ pc[r] \notin Free /\ tx[r].op = "start_drive"
      /\ StartSession(r) /\ tx[r] \in Session
  BY Labels, SessionOf DEF InsertDay, Inductive, TypeOK, Free
<1>2. CASE \E outcome \in Free : Rollback(r, outcome)
  BY <1>2, RejectKeeps
<1>3. CASE Write(r, tx[r].s, "commit", [tx[r] EXCEPT !.edit = NewDay(tx[r].w, tx[r].req)])
  <2> DEFINE session == [tx[r] EXCEPT !.edit = NewDay(tx[r].w, tx[r].req)]
  <2>1. NewDay(tx[r].w, tx[r].req) \in Submission
    BY <1>1 DEF NewDay, StartSession, Submission, Request, DayStatus
  <2>2. /\ session \in Session
        /\ session.op = tx[r].op /\ session.s = tx[r].s /\ session.a = tx[r].a
        /\ session.day = tx[r].day /\ session.req = tx[r].req
        /\ session.w = tx[r].w /\ session.wo = tx[r].wo /\ session.wedit = tx[r].wedit
        /\ session.edit = NewDay(session.w, session.req)
    BY <1>1, <2>1 DEF Session
  <2>3. Write(r, tx[r].s, "commit", session)
    BY <1>3
  <2>. HIDE DEF session
  <2>4. /\ pc'[r] = "commit" /\ tx'[r] = session /\ locks'[r] = locks[r] \cup {tx[r].s}
        /\ submissions' = submissions /\ workorders' = workorders
    BY <2>3, WriteFacts
  <2>5. StartSession(r)'
    BY <1>1, <2>2, <2>4 DEF StartSession
  <2>6. SessionOK(r)'
    BY <1>1, <2>2, <2>4, <2>5 DEF SessionOK, Free
  <2>7. tx[r].s \in Submissions
    BY <1>1 DEF StartSession
  <2>8. \A q \in Slots \ {r} : tx[r].s \notin locks[q]
    BY <1>1, <2>7, SessionRows, StoreAssumption DEF Inductive, Sessions, Apart
  <2>9. QED
    BY <2>2, <2>3, <2>6, <2>7, <2>8, WriteKeeps DEF SameRows, Waiting, Rows
<1>4. QED
  BY <1>1, <1>2, <1>3 DEF InsertDay, Free

-----------------------------------------------------------------------------
(* The operations on a day. *)

\* The path of each operation, and where it takes the lock of its submission.
LEMMA Paths ==
    /\ \A op \in DayOps : {"commit", "flush"} \subseteq DayPath[op]
    /\ \A op \in DayOps : Unlocked(op) =
          IF op = "complete_submission" THEN {"count", "parent", "aggregate", "flush"}
                                        ELSE {"flush"}
    /\ "reindex" \in DayPath["update_submission"] \cap DayPath["update_admin_submission"]
    /\ \A op \in DayOps \ {"end_drive"} : "parent" \in DayPath[op]
    /\ \A op \in Edits \cup {"complete_submission"} : "aggregate" \in DayPath[op]
    /\ \A op \in DayOps \ {"end_drive", "update_submission"} : "flush_parent" \in DayPath[op]
    /\ "count" \in DayPath["complete_submission"]
    /\ DayOps \subseteq Operation /\ DayOps \cap Free = {}
BY DEF DayOps, Edits, Changes, DayPath, Unlocked, Operation, AuditEntry, Free

\* The day is loaded with its edit, before anything is written.
LEMMA LoadDayKeeps ==
    ASSUME Inductive, NEW r \in Slots, pc[r] \in Free,
           NEW operation \in DayOps, NEW s \in Submissions, submissions[s] # None,
           NEW edited \in Submission, edited.workorder = submissions[s].workorder,
           operation \in Changes => /\ edited.date = submissions[s].date
                                    /\ edited.status # submissions[s].status
                                    /\ edited.status = StatusAfter[AuditEntry[operation]],
           operation \in Edits => edited.status = submissions[s].status,
           NEW label, label = IF operation = "complete_submission" THEN "count" ELSE "flush",
           LoadDay(r, operation, s, edited, label)
    PROVE  Inductive'
<1> DEFINE session == [Blank EXCEPT !.op = operation, !.s = s, !.day = submissions[s],
                                    !.edit = edited]
<1>1. submissions[s] \in Submission
  BY DEF Inductive, TypeOK
<1>2. /\ session \in Session
      /\ session.op = operation /\ session.s = s /\ session.a = None
      /\ session.day = submissions[s] /\ session.edit = edited
      /\ session.w = None /\ session.wo = None /\ session.wedit = None
  BY <1>1, Paths DEF Session, Blank
<1>3. Proceed(r, label, session)
  BY DEF LoadDay
<1>. HIDE DEF session
<1>4. /\ pc'[r] = label /\ tx'[r] = session /\ locks'[r] = locks[r]
      /\ submissions' = submissions /\ workorders' = workorders
  BY <1>3, ProceedFacts
<1>5. locks[r] = {}
  BY DEF Inductive, Sessions, SessionOK, NoSession
<1>6. label \in DayPath[operation] /\ label \in Unlocked(operation)
  BY Paths
<1>7. DayLoaded(tx[r])' /\ ParentOf(tx[r])'
  BY <1>1, <1>2, <1>4 DEF DayLoaded, ParentOf
<1>8. Locked(r, IF pc[r] \in Unlocked(tx[r].op) THEN {} ELSE {tx[r].s})'
  BY <1>2, <1>4, <1>5, <1>6 DEF Locked, Unlocked
<1>9. DaySession(r)'
  BY <1>1, <1>2, <1>4, <1>6, <1>7, <1>8 DEF DaySession
<1>10. SessionOK(r)'
  BY <1>2, <1>4, <1>9 DEF SessionOK, Free
<1>11. operation \notin {"start_drive", "upload_attachment"}
  BY DEF DayOps, Edits, Changes
<1>12. QED
  BY <1>2, <1>3, <1>10, <1>11, ArriveKeeps DEF Waiting

\* A bumped row is a row of the table, and differs in its version alone.
LEMMA BumpedDay ==
    ASSUME NEW row \in Submission
    PROVE  /\ Bumped(row) \in Submission
           /\ Bumped(row).workorder = row.workorder /\ Bumped(row).date = row.date
           /\ Bumped(row).status = row.status
BY DEF Bumped, Submission

\* A change of status, as a row.
LEMMA StatusChange ==
    ASSUME NEW row \in Submission, NEW status \in DayStatus
    PROVE  /\ Bumped([row EXCEPT !.status = status]) \in Submission
           /\ Bumped([row EXCEPT !.status = status]).workorder = row.workorder
           /\ Bumped([row EXCEPT !.status = status]).date = row.date
           /\ Bumped([row EXCEPT !.status = status]).status = status
<1> DEFINE changed == [row EXCEPT !.status = status]
<1>1. /\ changed \in Submission /\ changed.workorder = row.workorder
      /\ changed.date = row.date /\ changed.status = status
  BY DEF Submission
<1>. HIDE DEF changed
<1>2. /\ Bumped(changed) \in Submission
      /\ Bumped(changed).workorder = row.workorder /\ Bumped(changed).date = row.date
      /\ Bumped(changed).status = status
  BY <1>1, BumpedDay
<1>3. QED
  BY <1>2 DEF changed

\* An end_drive loads an IN_PROGRESS day and edits it to CHECKED_OUT.
LEMMA EndDriveKeeps ==
    ASSUME Inductive, NEW r \in Slots, NEW u \in Users, NEW s \in Submissions,
           EndDrive(r, u, s)
    PROVE  Inductive'
<1> DEFINE edited == Bumped([submissions[s] EXCEPT !.status = "CHECKED_OUT"])
<1>1. CASE Rollback(r, "rejected")
  BY <1>1, RejectKeeps DEF Free
<1>2. CASE LoadDay(r, "end_drive", s, edited, "flush")
           /\ submissions[s].status = "IN_PROGRESS"
  <2>1. pc[r] \in Free /\ submissions[s] # None /\ submissions[s] \in Submission
    BY DEF EndDrive, AcceptsDay, Accepts, Inductive, TypeOK
  <2>2. /\ edited \in Submission /\ edited.workorder = submissions[s].workorder
        /\ edited.date = submissions[s].date /\ edited.status = "CHECKED_OUT"
    BY <2>1, StatusChange DEF DayStatus
  <2>. HIDE DEF edited
  <2>3. /\ "end_drive" \in DayOps \ Edits
        /\ StatusAfter[AuditEntry["end_drive"]] = "CHECKED_OUT"
    BY DEF DayOps, Edits, Changes, AuditEntry, StatusAfter
  <2>4. QED
    BY <1>2, <2>1, <2>2, <2>3, LoadDayKeeps
<1>3. QED
  BY <1>1, <1>2 DEF EndDrive

\* A completion loads a CHECKED_OUT day and edits it to COMPLETED.
LEMMA CompleteSubmissionKeeps ==
    ASSUME Inductive, NEW r \in Slots, NEW u \in Users, NEW s \in Submissions,
           CompleteSubmission(r, u, s)
    PROVE  Inductive'
<1> DEFINE edited == Bumped([submissions[s] EXCEPT !.status = "COMPLETED"])
<1>1. CASE Rollback(r, "rejected")
  BY <1>1, RejectKeeps DEF Free
<1>2. CASE LoadDay(r, "complete_submission", s, edited, "count")
           /\ submissions[s].status = "CHECKED_OUT"
  <2>1. pc[r] \in Free /\ submissions[s] # None /\ submissions[s] \in Submission
    BY DEF CompleteSubmission, AcceptsDay, Accepts, Inductive, TypeOK
  <2>2. /\ edited \in Submission /\ edited.workorder = submissions[s].workorder
        /\ edited.date = submissions[s].date /\ edited.status = "COMPLETED"
    BY <2>1, StatusChange DEF DayStatus
  <2>. HIDE DEF edited
  <2>3. /\ "complete_submission" \in DayOps \ Edits
        /\ StatusAfter[AuditEntry["complete_submission"]] = "COMPLETED"
    BY DEF DayOps, Edits, Changes, AuditEntry, StatusAfter
  <2>4. QED
    BY <1>2, <2>1, <2>2, <2>3, LoadDayKeeps
<1>3. QED
  BY <1>1, <1>2 DEF CompleteSubmission

\* A reopening loads a COMPLETED day and edits it to CHECKED_OUT.
LEMMA ReopenSubmissionKeeps ==
    ASSUME Inductive, NEW r \in Slots, NEW u \in Users, NEW s \in Submissions,
           ReopenSubmission(r, u, s)
    PROVE  Inductive'
<1> DEFINE edited == Bumped([submissions[s] EXCEPT !.status = "CHECKED_OUT"])
<1>1. CASE Rollback(r, "rejected")
  BY <1>1, RejectKeeps DEF Free
<1>2. CASE LoadDay(r, "reopen_submission", s, edited, "flush")
           /\ submissions[s].status = "COMPLETED"
  <2>1. pc[r] \in Free /\ submissions[s] # None /\ submissions[s] \in Submission
    BY DEF ReopenSubmission, AcceptsDay, Accepts, Inductive, TypeOK
  <2>2. /\ edited \in Submission /\ edited.workorder = submissions[s].workorder
        /\ edited.date = submissions[s].date /\ edited.status = "CHECKED_OUT"
    BY <2>1, StatusChange DEF DayStatus
  <2>. HIDE DEF edited
  <2>3. /\ "reopen_submission" \in DayOps \ Edits
        /\ StatusAfter[AuditEntry["reopen_submission"]] = "CHECKED_OUT"
    BY DEF DayOps, Edits, Changes, AuditEntry, StatusAfter
  <2>4. QED
    BY <1>2, <2>1, <2>2, <2>3, LoadDayKeeps
<1>3. QED
  BY <1>1, <1>2 DEF ReopenSubmission

\* Both PATCH handlers leave the status alone.
LEMMA EditDayKeeps ==
    ASSUME Inductive, NEW r \in Slots, pc[r] \in Free, NEW operation \in Edits,
           NEW s \in Submissions, submissions[s] # None, NEW version,
           NEW date \in Dates, NEW grids \in Grids,
           EditDay(r, operation, s, version, date, grids)
    PROVE  Inductive'
<1> DEFINE row == [submissions[s] EXCEPT !.date = date, !.grids = grids]
           edited == Bumped(row)
<1>1. CASE \E outcome \in Free : Rollback(r, outcome)
  BY <1>1, RejectKeeps
<1>2. CASE LoadDay(r, operation, s, edited, "flush")
  <2>1. submissions[s] \in Submission
    BY DEF Inductive, TypeOK
  <2>2. /\ row \in Submission /\ row.workorder = submissions[s].workorder
        /\ row.status = submissions[s].status
    BY <2>1, StoreAssumption DEF Submission
  <2>. HIDE DEF row
  <2>3. /\ edited \in Submission /\ edited.workorder = submissions[s].workorder
        /\ edited.status = submissions[s].status
    BY <2>2, BumpedDay
  <2>. HIDE DEF edited
  <2>4. operation \in DayOps \ Changes /\ operation # "complete_submission"
    BY DEF DayOps, Edits, Changes
  <2>5. QED
    BY <1>2, <2>3, <2>4, LoadDayKeeps
<1>3. QED
  BY <1>1, <1>2 DEF EditDay, Free

\* The driver's PATCH.
LEMMA UpdateSubmissionKeeps ==
    ASSUME Inductive, NEW r \in Slots, NEW u \in Users, NEW s \in Submissions, NEW version,
           NEW date \in Dates, NEW grids \in Grids,
           UpdateSubmission(r, u, s, version, date, grids)
    PROVE  Inductive'
<1>1. CASE Rollback(r, "rejected")
  BY <1>1, RejectKeeps DEF Free
<1>2. CASE EditDay(r, "update_submission", s, version, date, grids)
  BY <1>2, EditDayKeeps DEF UpdateSubmission, AcceptsDay, Accepts, Edits
<1>3. QED
  BY <1>1, <1>2 DEF UpdateSubmission

\* The admin's PATCH.
LEMMA UpdateAdminSubmissionKeeps ==
    ASSUME Inductive, NEW r \in Slots, NEW u \in Users, NEW s \in Submissions, NEW version,
           NEW date \in Dates, NEW grids \in Grids,
           UpdateAdminSubmission(r, u, s, version, date, grids)
    PROVE  Inductive'
<1>1. CASE Rollback(r, "rejected")
  BY <1>1, RejectKeeps DEF Free
<1>2. CASE EditDay(r, "update_admin_submission", s, version, date, grids)
  BY <1>2, EditDayKeeps DEF UpdateAdminSubmission, AcceptsDay, Accepts, Edits
<1>3. QED
  BY <1>1, <1>2 DEF UpdateAdminSubmission

-----------------------------------------------------------------------------
(* The statements of the operations on a day. *)

\* What a session of a day's operation knows before its commit.
LEMMA DaySessionFacts ==
    ASSUME Inductive, NEW r \in Slots, tx[r].op \in DayOps, pc[r] \notin Free \cup {"commit"}
    PROVE  /\ DaySession(r) /\ tx[r] \in Session
           /\ tx[r].s \in Submissions /\ tx[r].day \in Submission /\ tx[r].edit \in Submission
           /\ submissions[tx[r].s] \in Submission
           /\ tx[r].day.workorder = submissions[tx[r].s].workorder
           /\ locks[r] = IF pc[r] \in Unlocked(tx[r].op) THEN {} ELSE {tx[r].s}
<1>1. DaySession(r) /\ tx[r] \in Session
  BY SessionOf DEF Inductive, TypeOK
<1>2. QED
  BY <1>1 DEF DaySession, DayLoaded, Locked

\* A statement that only reads, in a session that keeps its day.
LEMMA DayProceeds ==
    ASSUME Inductive, NEW r \in Slots, tx[r].op \in DayOps, pc[r] \notin Free \cup {"commit"},
           NEW label \in Waiting, label \in DayPath[tx[r].op],
           label \in Unlocked(tx[r].op) <=> pc[r] \in Unlocked(tx[r].op),
           NEW session \in Session, SameRows(tx[r], session),
           session.day = tx[r].day, session.edit = tx[r].edit,
           ParentOf(session), label \in {"aggregate", "flush_parent"} => session.w # None,
           Proceed(r, label, session)
    PROVE  Inductive'
<1>1. /\ pc'[r] = label /\ tx'[r] = session /\ locks'[r] = locks[r]
      /\ submissions' = submissions /\ workorders' = workorders
  BY ProceedFacts
<1>2. session.op = tx[r].op /\ session.s = tx[r].s /\ session.a = tx[r].a
  BY DEF SameRows
<1>3. DayLoaded(tx[r])' /\ ParentOf(tx[r])'
  BY <1>1, <1>2, DaySessionFacts DEF DaySession, DayLoaded, ParentOf, ParentLoaded
<1>4. Locked(r, IF pc[r] \in Unlocked(tx[r].op) THEN {} ELSE {tx[r].s})'
  BY <1>1, <1>2, DaySessionFacts DEF Locked, Unlocked
<1>5. DaySession(r)'
  BY <1>1, <1>2, <1>3, <1>4, DaySessionFacts DEF DaySession
<1>6. SessionOK(r)'
  BY <1>1, <1>2, <1>5 DEF SessionOK, Free, Waiting
<1>7. QED
  BY <1>6, ProceedKeeps

\* The statement after the UPDATE is on the operation's path.
LEMMA AfterFlushIsOnPath ==
    ASSUME NEW t, t.op \in DayOps
    PROVE  /\ AfterFlush(t) \in DayPath[t.op] \cap Waiting
           /\ AfterFlush(t) \notin Unlocked(t.op) \cup {"aggregate"}
           /\ AfterFlush(t) = "flush_parent" => t.wedit # t.wo
<1>1. CASE t.op \in Edits \cup {"reopen_submission"}
  BY <1>1 DEF AfterFlush, Edits, DayPath, Unlocked, Waiting
<1>2. CASE t.op = "complete_submission"
  BY <1>2 DEF AfterFlush, Edits, DayPath, Unlocked, Waiting
<1>3. CASE t.op = "end_drive"
  BY <1>3 DEF AfterFlush, Edits, DayPath, Unlocked, Waiting
<1>4. QED
  BY <1>1, <1>2, <1>3 DEF DayOps, Changes

\* The UPDATE locks the row no other transaction has written.
LEMMA FlushDayKeeps ==
    ASSUME Inductive, NEW r \in Slots, FlushDay(r)
    PROVE  Inductive'
<1> DEFINE t == tx[r]
           label == IF t.edit.date # t.day.date THEN "reindex" ELSE AfterFlush(t)
<1>1. pc[r] = "flush" /\ pc[r] \notin Free \cup {"commit"} /\ t.op \in DayOps
  BY Labels DEF FlushDay, Free
<1>2. /\ DaySession(r) /\ t \in Session /\ t.s \in Submissions /\ locks[r] = {}
      /\ t.day \in Submission /\ t.edit \in Submission
  BY <1>1, DaySessionFacts, Paths
<1>3. Write(r, t.s, label, t) /\ HoldersOf(t.s, r) = {}
  BY DEF FlushDay
<1>4. t.edit.date # t.day.date => t.op \in Edits
  BY <1>1, <1>2 DEF DaySession, DayOps
<1>5. /\ label \in DayPath[t.op] \cap Waiting
      /\ label \notin Unlocked(t.op) \cup {"aggregate"}
      /\ label = "flush_parent" => t.wedit # t.wo
  <2>1. CASE t.edit.date # t.day.date
    BY <1>1, <1>4, <2>1, Paths DEF Edits, Waiting
  <2>2. CASE t.edit.date = t.day.date
    BY <1>1, <2>2, AfterFlushIsOnPath
  <2>3. QED
    BY <2>1, <2>2
<1>. HIDE DEF label
<1>6. /\ pc'[r] = label /\ tx'[r] = t /\ locks'[r] = {t.s}
      /\ submissions' = submissions /\ workorders' = workorders
  BY <1>2, <1>3, WriteFacts
<1>7. DayLoaded(tx[r])' /\ ParentOf(tx[r])'
  BY <1>2, <1>6 DEF DaySession, DayLoaded, ParentOf, ParentLoaded
<1>8. label = "flush_parent" => t.w # None
  BY <1>2, <1>5, StoreAssumption DEF DaySession, ParentOf, ParentLoaded
<1>9. Locked(r, IF pc[r] \in Unlocked(tx[r].op) THEN {} ELSE {tx[r].s})'
  BY <1>5, <1>6 DEF Locked, Unlocked
<1>10. DaySession(r)'
  BY <1>2, <1>5, <1>6, <1>7, <1>8, <1>9 DEF DaySession
<1>11. SessionOK(r)'
  BY <1>1, <1>5, <1>6, <1>10 DEF SessionOK, Free, Waiting
<1>12. QED
  BY <1>2, <1>3, <1>5, <1>11, WriteKeeps DEF HoldersOf, Rows, SameRows

\* The new date enters the index, or the request fails.
LEMMA ReindexDayKeeps ==
    ASSUME Inductive, NEW r \in Slots, ReindexDay(r)
    PROVE  Inductive'
<1>1. CASE Rollback(r, "error")
  BY <1>1, RejectKeeps DEF Free
<1>2. CASE Proceed(r, AfterFlush(tx[r]), tx[r])
  <2>1. pc[r] = "reindex" /\ pc[r] \notin Free \cup {"commit"} /\ tx[r].op \in DayOps
    BY Labels DEF ReindexDay, Free
  <2>2. DaySession(r) /\ tx[r] \in Session
    BY <2>1, DaySessionFacts
  <2>3. /\ AfterFlush(tx[r]) \in DayPath[tx[r].op] \cap Waiting
        /\ AfterFlush(tx[r]) \notin Unlocked(tx[r].op) \cup {"aggregate"}
        /\ AfterFlush(tx[r]) = "flush_parent" => tx[r].w # None
    BY <2>1, <2>2, AfterFlushIsOnPath, StoreAssumption DEF DaySession, ParentOf, ParentLoaded
  <2>4. pc[r] \notin Unlocked(tx[r].op) /\ ParentOf(tx[r])
    BY <2>1, <2>2, Paths DEF DaySession
  <2>5. QED
    BY <1>2, <2>1, <2>2, <2>3, <2>4, DayProceeds DEF SameRows
<1>3. QED
  BY <1>1, <1>2 DEF ReindexDay

\* A completion counts the files before it writes anything.
LEMMA CountFilesKeeps ==
    ASSUME Inductive, NEW r \in Slots, CountFiles(r)
    PROVE  Inductive'
<1>1. CASE Rollback(r, "rejected")
  BY <1>1, RejectKeeps DEF Free
<1>2. CASE Proceed(r, "parent", tx[r])
  <2>1. /\ pc[r] = "count" /\ pc[r] \notin Free \cup {"commit"}
        /\ tx[r].op = "complete_submission" /\ tx[r].op \in DayOps
    BY DEF CountFiles, Free, DayOps, Changes
  <2>2. DaySession(r) /\ tx[r] \in Session
    BY <2>1, DaySessionFacts
  <2>3. /\ "parent" \in DayPath[tx[r].op] \cap Waiting
        /\ "parent" \in Unlocked(tx[r].op) /\ pc[r] \in Unlocked(tx[r].op)
    BY <2>1 DEF DayPath, Waiting, Unlocked
  <2>4. QED
    BY <1>2, <2>1, <2>2, <2>3, DayProceeds DEF SameRows, DaySession
<1>3. QED
  BY <1>1, <1>2 DEF CountFiles

\* The workorder of a day has its row.
LEMMA WorkorderOfDay ==
    ASSUME Inductive, NEW s \in Submissions, submissions[s] \in Submission
    PROVE  /\ submissions[s].workorder \in Workorders
           /\ workorders[submissions[s].workorder] \in Workorder
<1>1. submissions[s] # None /\ submissions[s].workorder \in Workorders
  BY StoreAssumption DEF Submission
<1>2. workorders[submissions[s].workorder] # None
  BY <1>1 DEF Inductive, DaysHaveWorkorders
<1>3. QED
  BY <1>1, <1>2 DEF Inductive, TypeOK

\* A session that has loaded the workorder of its day, and edited it or not.
LEMMA ParentSession ==
    ASSUME Inductive, NEW t \in Session, NEW w \in Workorders, workorders[w] \in Workorder,
           NEW loaded \in Workorder, NEW edited \in Workorder
    PROVE  LET session == WithParent(t, w, loaded, edited)
           IN  /\ session \in Session /\ SameRows(t, session)
               /\ session.day = t.day /\ session.edit = t.edit /\ session.req = t.req
               /\ ParentLoaded(session) /\ session.w = w
               /\ edited.code = loaded.code => ParentOf(session)
<1> DEFINE session == WithParent(t, w, loaded, edited)
<1>1. /\ session \in Session
      /\ session.op = t.op /\ session.s = t.s /\ session.a = t.a
      /\ session.day = t.day /\ session.edit = t.edit /\ session.req = t.req
      /\ session.w = w /\ session.wo = loaded /\ session.wedit = edited
  BY DEF Session, WithParent
<1>. HIDE DEF session
<1>2. SameRows(t, session) /\ ParentLoaded(session)
  BY <1>1 DEF SameRows, ParentLoaded
<1>3. edited.code = loaded.code => ParentOf(session)
  BY <1>1, <1>2 DEF ParentOf
<1>4. QED
  BY <1>1, <1>2, <1>3 DEF session

\* The parent is loaded as it is committed.
LEMMA LoadParentKeeps ==
    ASSUME Inductive, NEW r \in Slots, LoadParent(r)
    PROVE  Inductive'
<1> DEFINE w == tx[r].day.workorder
           session == WithParent(tx[r], w, workorders[w], workorders[w])
<1>1. /\ pc[r] = "parent" /\ pc[r] \notin Free \cup {"commit"}
      /\ tx[r].op \in Edits \cup {"complete_submission"} /\ tx[r].op \in DayOps
      /\ Proceed(r, "aggregate", session)
  BY DEF LoadParent, Free, DayOps, Changes, WithParent
<1>2. DaySession(r) /\ tx[r] \in Session
  BY <1>1, DaySessionFacts
<1>3. w \in Workorders /\ workorders[w] \in Workorder
  BY <1>1, DaySessionFacts, WorkorderOfDay
<1>. HIDE DEF w
<1>4. /\ session \in Session /\ SameRows(tx[r], session)
      /\ session.day = tx[r].day /\ session.edit = tx[r].edit
      /\ ParentOf(session) /\ session.w = w
  BY <1>2, <1>3, ParentSession
<1>. HIDE DEF session
<1>5. "aggregate" \in DayPath[tx[r].op] \cap Waiting
  BY <1>1, Paths DEF Waiting
<1>6. "aggregate" \in Unlocked(tx[r].op) <=> pc[r] \in Unlocked(tx[r].op)
  BY <1>1, Paths
<1>7. w # None
  BY <1>3, StoreAssumption
<1>8. QED
  BY <1>1, <1>4, <1>5, <1>6, <1>7, DayProceeds

\* A session that edits the workorder it has loaded.
LEMMA EditSession ==
    ASSUME NEW t \in Session, ParentLoaded(t), NEW edited \in Workorder
    PROVE  LET session == WithEdit(t, edited)
           IN  /\ session \in Session /\ SameRows(t, session)
               /\ session.day = t.day /\ session.edit = t.edit /\ session.req = t.req
               /\ ParentLoaded(session) /\ session.w = t.w /\ session.wedit = edited
               /\ edited.code = t.wo.code => ParentOf(session)
<1> DEFINE session == WithEdit(t, edited)
<1>1. /\ session \in Session
      /\ session.op = t.op /\ session.s = t.s /\ session.a = t.a
      /\ session.day = t.day /\ session.edit = t.edit /\ session.req = t.req
      /\ session.w = t.w /\ session.wo = t.wo /\ session.wedit = edited
  BY DEF Session, WithEdit
<1>. HIDE DEF session
<1>2. SameRows(t, session) /\ ParentLoaded(session)
  BY <1>1 DEF SameRows, ParentLoaded
<1>3. edited.code = t.wo.code => ParentOf(session)
  BY <1>1, <1>2 DEF ParentOf
<1>4. QED
  BY <1>1, <1>2, <1>3 DEF session

\* Closing and reopening a workorder keep its code.
LEMMA ClosedIsWorkorder ==
    ASSUME NEW row \in Workorder
    PROVE  /\ Closed(row) \in Workorder /\ Closed(row).code = row.code
           /\ Reopened(row) \in Workorder /\ Reopened(row).code = row.code
BY DEF Closed, Reopened, Workorder

\* A driver's edit is committed or refused.
LEMMA CapUpdateKeeps ==
    ASSUME Inductive, NEW r \in Slots, CapUpdate(r)
    PROVE  Inductive'
<1>1. CASE Rollback(r, "rejected")
  BY <1>1, RejectKeeps DEF Free
<1>2. CASE Proceed(r, "commit", tx[r])
  <2>1. /\ pc[r] = "aggregate" /\ pc[r] \notin Free \cup {"commit"}
        /\ tx[r].op = "update_submission" /\ tx[r].op \in DayOps
    BY DEF CapUpdate, Free, DayOps, Edits
  <2>2. DaySession(r) /\ tx[r] \in Session
    BY <2>1, DaySessionFacts
  <2>3. /\ "commit" \in DayPath[tx[r].op] \cap Waiting
        /\ "commit" \notin Unlocked(tx[r].op) /\ pc[r] \notin Unlocked(tx[r].op)
    BY <2>1, Paths DEF Waiting
  <2>4. QED
    BY <1>2, <2>1, <2>2, <2>3, DayProceeds DEF SameRows, DaySession
<1>3. QED
  BY <1>1, <1>2 DEF CapUpdate

\* A completion goes on to its UPDATE, with its workorder closed or not.
LEMMA CapCompletionKeeps ==
    ASSUME Inductive, NEW r \in Slots, CapCompletion(r)
    PROVE  Inductive'
<1> DEFINE closing == WithEdit(tx[r], Closed(tx[r].wedit))
<1>1. CASE Rollback(r, "rejected")
  BY <1>1, RejectKeeps DEF Free
<1>2. CASE pc[r] = "aggregate" /\ tx[r].op = "complete_submission"
           /\ (Proceed(r, "flush", tx[r]) \/ Proceed(r, "flush", closing))
  <2>1. /\ pc[r] = "aggregate" /\ pc[r] \notin Free \cup {"commit"} /\ tx[r].op \in DayOps
    BY <1>2 DEF Free, DayOps, Changes
  <2>2. DaySession(r) /\ tx[r] \in Session
    BY <2>1, DaySessionFacts
  <2>3. ParentLoaded(tx[r]) /\ ParentOf(tx[r]) /\ tx[r].wedit.code = tx[r].wo.code
    BY <2>1, <2>2 DEF DaySession, ParentOf
  <2>4. /\ closing \in Session /\ SameRows(tx[r], closing)
        /\ closing.day = tx[r].day /\ closing.edit = tx[r].edit /\ ParentOf(closing)
    BY <2>2, <2>3, ClosedIsWorkorder, EditSession DEF ParentLoaded
  <2>. HIDE DEF closing
  <2>5. /\ "flush" \in DayPath[tx[r].op] \cap Waiting
        /\ "flush" \in Unlocked(tx[r].op) /\ pc[r] \in Unlocked(tx[r].op)
    BY <1>2, <2>1, Paths DEF Waiting
  <2>6. CASE Proceed(r, "flush", tx[r])
    BY <2>1, <2>2, <2>3, <2>5, <2>6, DayProceeds DEF SameRows
  <2>7. CASE Proceed(r, "flush", closing)
    BY <2>1, <2>4, <2>5, <2>7, DayProceeds
  <2>8. QED
    BY <1>2, <2>6, <2>7
<1>3. QED
  BY <1>1, <1>2 DEF CapCompletion, WithEdit

\* An admin's edit goes on to its commit, or closes its workorder first.
LEMMA CloseParentAfterAdminEditKeeps ==
    ASSUME Inductive, NEW r \in Slots, CloseParentAfterAdminEdit(r)
    PROVE  Inductive'
<1> DEFINE closing == WithEdit(tx[r], Closed(tx[r].wedit))
<1>1. /\ pc[r] = "aggregate" /\ pc[r] \notin Free \cup {"commit"}
      /\ tx[r].op = "update_admin_submission" /\ tx[r].op \in DayOps
  BY DEF CloseParentAfterAdminEdit, Free, DayOps, Edits
<1>2. DaySession(r) /\ tx[r] \in Session
  BY <1>1, DaySessionFacts
<1>3. ParentLoaded(tx[r]) /\ ParentOf(tx[r]) /\ tx[r].wedit.code = tx[r].wo.code
      /\ tx[r].w # None
  BY <1>1, <1>2 DEF DaySession, ParentOf
<1>4. /\ closing \in Session /\ SameRows(tx[r], closing)
      /\ closing.day = tx[r].day /\ closing.edit = tx[r].edit
      /\ ParentOf(closing) /\ closing.w # None
  BY <1>2, <1>3, ClosedIsWorkorder, EditSession DEF ParentLoaded
<1>5. Proceed(r, "commit", tx[r]) \/ Proceed(r, "flush_parent", closing)
  BY DEF CloseParentAfterAdminEdit, WithEdit
<1>. HIDE DEF closing
<1>6. /\ {"commit", "flush_parent"} \subseteq DayPath[tx[r].op] \cap Waiting
      /\ {"commit", "flush_parent", pc[r]} \cap Unlocked(tx[r].op) = {}
  BY <1>1, Paths DEF Waiting, DayOps, Edits
<1>7. CASE Proceed(r, "commit", tx[r])
  BY <1>1, <1>2, <1>3, <1>6, <1>7, DayProceeds DEF SameRows
<1>8. CASE Proceed(r, "flush_parent", closing)
  BY <1>1, <1>4, <1>6, <1>8, DayProceeds
<1>9. QED
  BY <1>5, <1>7, <1>8

-----------------------------------------------------------------------------
(* The operations on files. *)

\* What a session that removes a file knows before its commit.
LEMMA DeleteSessionFacts ==
    ASSUME Inductive, NEW r \in Slots, tx[r].op = "delete_attachment",
           pc[r] \notin Free \cup {"commit"}
    PROVE  /\ DeleteSession(r) /\ tx[r] \in Session
           /\ tx[r].s \in Submissions /\ tx[r].a \in Attachments
           /\ submissions[tx[r].s] \in Submission
           /\ tx[r].day.workorder = submissions[tx[r].s].workorder
           /\ locks[r] = IF pc[r] = "detach" THEN {} ELSE {tx[r].a}
<1>1. DeleteSession(r) /\ tx[r] \in Session
  BY SessionOf DEF Inductive, TypeOK
<1>2. QED
  BY <1>1 DEF DeleteSession, DayLoaded, Locked

\* A statement that only reads, after the file was detached.
LEMMA DeleteProceeds ==
    ASSUME Inductive, NEW r \in Slots, tx[r].op = "delete_attachment",
           pc[r] \in {"recount", "parent"},
           NEW label \in {"parent", "flush_parent", "commit"},
           NEW session \in Session, SameRows(tx[r], session), session.day = tx[r].day,
           ParentOf(session), label = "flush_parent" => session.w # None,
           Proceed(r, label, session)
    PROVE  Inductive'
<1>1. /\ pc'[r] = label /\ tx'[r] = session /\ locks'[r] = locks[r]
      /\ submissions' = submissions /\ workorders' = workorders /\ attachments' = attachments
  BY ProceedFacts
<1>2. session.op = tx[r].op /\ session.s = tx[r].s /\ session.a = tx[r].a
  BY DEF SameRows
<1>3. DeleteSession(r) /\ locks[r] = {tx[r].a}
  BY DeleteSessionFacts DEF Free
<1>4. DayLoaded(tx[r])' /\ ParentOf(tx[r])'
  BY <1>1, <1>2, <1>3 DEF DeleteSession, DayLoaded, ParentOf, ParentLoaded
<1>5. Locked(r, IF pc[r] = "detach" THEN {} ELSE {tx[r].a})'
  BY <1>1, <1>2, <1>3 DEF Locked
<1>6. DeleteSession(r)'
  BY <1>1, <1>2, <1>3, <1>4, <1>5 DEF DeleteSession
<1>7. SessionOK(r)'
  BY <1>1, <1>2, <1>6 DEF SessionOK, Free
<1>8. QED
  BY <1>7, ProceedKeeps DEF Waiting

\* A reopened or emptied day reopens its workorder.
LEMMA ReopenParentKeeps ==
    ASSUME Inductive, NEW r \in Slots, ReopenParent(r)
    PROVE  Inductive'
<1> DEFINE w == tx[r].day.workorder
           reopening == WithParent(tx[r], w, workorders[w], Reopened(workorders[w]))
<1>1. /\ pc[r] = "parent" /\ pc[r] \notin Free \cup {"commit"}
      /\ tx[r].op \in {"reopen_submission", "delete_attachment"}
      /\ tx[r].op = "reopen_submission" => tx[r].op \in DayOps
      /\ Proceed(r, "commit", tx[r]) \/ Proceed(r, "flush_parent", reopening)
  BY DEF ReopenParent, Free, DayOps, Changes, WithParent
<1>2. /\ tx[r].s \in Submissions /\ submissions[tx[r].s] \in Submission
      /\ tx[r].day.workorder = submissions[tx[r].s].workorder
      /\ ParentOf(tx[r]) /\ tx[r] \in Session
  BY <1>1, DaySessionFacts, DeleteSessionFacts DEF DaySession, DeleteSession
<1>3. w \in Workorders /\ workorders[w] \in Workorder
  BY <1>2, WorkorderOfDay
<1>. HIDE DEF w
<1>4. /\ reopening \in Session /\ SameRows(tx[r], reopening)
      /\ reopening.day = tx[r].day /\ reopening.edit = tx[r].edit
      /\ ParentOf(reopening) /\ reopening.w # None
  <2>1. /\ Reopened(workorders[w]) \in Workorder
        /\ Reopened(workorders[w]).code = workorders[w].code
    BY <1>3, ClosedIsWorkorder
  <2>2. w # None
    BY <1>3, StoreAssumption
  <2>3. QED
    BY <1>2, <1>3, <2>1, <2>2, ParentSession
<1>. HIDE DEF reopening
<1>5. CASE tx[r].op = "reopen_submission"
  <2>1. /\ {"commit", "flush_parent"} \subseteq DayPath[tx[r].op] \cap Waiting
        /\ {"commit", "flush_parent", pc[r]} \cap Unlocked(tx[r].op) = {}
    BY <1>1, <1>5, Paths DEF Waiting, DayOps, Changes
  <2>2. CASE Proceed(r, "commit", tx[r])
    BY <1>1, <1>2, <1>5, <2>1, <2>2, DayProceeds DEF SameRows
  <2>3. CASE Proceed(r, "flush_parent", reopening)
    BY <1>1, <1>4, <1>5, <2>1, <2>3, DayProceeds
  <2>4. QED
    BY <1>1, <2>2, <2>3
<1>6. CASE tx[r].op = "delete_attachment"
  <2>1. CASE Proceed(r, "commit", tx[r])
    BY <1>1, <1>2, <1>6, <2>1, DeleteProceeds DEF SameRows
  <2>2. CASE Proceed(r, "flush_parent", reopening)
    BY <1>1, <1>4, <1>6, <2>2, DeleteProceeds
  <2>3. QED
    BY <1>1, <2>1, <2>2
<1>7. QED
  BY <1>1, <1>5, <1>6

\* The attachment's UUID is new.
LEMMA UploadAttachmentKeeps ==
    ASSUME Inductive, NEW r \in Slots, NEW u \in Users, NEW s \in Submissions,
           NEW a \in Attachments, UploadAttachment(r, u, s, a)
    PROVE  Inductive'
<1> DEFINE session == [Blank EXCEPT !.op = "upload_attachment", !.s = s, !.a = a,
                                    !.day = submissions[s]]
<1>1. CASE Rollback(r, "rejected")
  BY <1>1, RejectKeeps DEF Free
<1>2. CASE Proceed(r, "count", session)
  <2>1. pc[r] \in Free /\ submissions[s] \in Submission /\ submissions[s] # None /\ FreshFile(a)
    BY DEF UploadAttachment, Accepts, Inductive, TypeOK
  <2>2. /\ session \in Session
        /\ session.op = "upload_attachment" /\ session.s = s /\ session.a = a
        /\ session.day = submissions[s] /\ session.w = None
    BY <2>1 DEF Session, Blank, Operation, AuditEntry
  <2>. HIDE DEF session
  <2>3. /\ pc'[r] = "count" /\ tx'[r] = session /\ locks'[r] = locks[r]
        /\ submissions' = submissions /\ attachments' = attachments
    BY <1>2, ProceedFacts
  <2>4. locks[r] = {}
    BY <2>1 DEF Inductive, Sessions, SessionOK, NoSession
  <2>5. UploadSession(r)'
    BY <2>1, <2>2, <2>3, <2>4 DEF UploadSession, DayLoaded, FreshFile
  <2>6. SessionOK(r)'
    BY <2>2, <2>3, <2>5 DEF SessionOK, Free
  <2>7. QED
    BY <1>2, <2>1, <2>2, <2>6, ArriveKeeps DEF Waiting, FreshFile
<1>3. QED
  BY <1>1, <1>2 DEF UploadAttachment

\* What a session that uploads a file knows.
LEMMA UploadSessionFacts ==
    ASSUME Inductive, NEW r \in Slots, tx[r].op = "upload_attachment", pc[r] \notin Free
    PROVE  /\ UploadSession(r) /\ tx[r] \in Session /\ tx[r].a \in Attachments
           /\ attachments[tx[r].a] = None
<1>1. UploadSession(r) /\ tx[r] \in Session
  BY SessionOf DEF Inductive, TypeOK
<1>2. QED
  BY <1>1 DEF UploadSession

\* Nothing is stored yet.
LEMMA CheckNoFileKeeps ==
    ASSUME Inductive, NEW r \in Slots, CheckNoFile(r)
    PROVE  Inductive'
<1>1. CASE Rollback(r, "rejected")
  BY <1>1, RejectKeeps DEF Free
<1>2. CASE Proceed(r, "store", tx[r])
  <2>1. pc[r] = "count" /\ tx[r].op = "upload_attachment" /\ pc[r] \notin Free
    BY DEF CheckNoFile, Free
  <2>2. UploadSession(r) /\ tx[r] \in Session
    BY <2>1, UploadSessionFacts
  <2>3. /\ pc'[r] = "store" /\ tx'[r] = tx[r] /\ locks'[r] = locks[r]
        /\ submissions' = submissions /\ attachments' = attachments
    BY <1>2, ProceedFacts
  <2>4. UploadSession(r)'
    BY <2>1, <2>2, <2>3 DEF UploadSession, DayLoaded
  <2>5. SessionOK(r)'
    BY <2>1, <2>3, <2>4 DEF SessionOK, Free
  <2>6. QED
    BY <1>2, <2>2, <2>5, ProceedKeeps DEF SameRows, Waiting
<1>3. QED
  BY <1>1, <1>2 DEF CheckNoFile

\* The object is there before its row.
LEMMA StoreObjectKeeps ==
    ASSUME Inductive, NEW r \in Slots, StoreObject(r)
    PROVE  Inductive'
<1>1. pc[r] = "store" /\ tx[r].op = "upload_attachment" /\ pc[r] \notin Free
  BY Labels DEF StoreObject, Free
<1>2. UploadSession(r) /\ tx[r] \in Session /\ tx[r].a \in Attachments
  BY <1>1, UploadSessionFacts
<1>3. objects \subseteq objects' /\ objects' \subseteq Attachments /\ UNCHANGED tables
  BY <1>2 DEF StoreObject, Inductive, TypeOK
<1>4. CASE Answer(r, "rejected")
  BY <1>3, <1>4, RollbackKeeps DEF Free
<1>5. CASE objects' = objects \cup {tx[r].a} /\ pc' = [pc EXCEPT ![r] = "attach"]
           /\ UNCHANGED <<tx, locks>>
  <2>1. TypeOK'
    BY <1>3, <1>5 DEF Inductive, TypeOK, tables, Waiting
  <2>2. /\ pc'[r] = "attach" /\ tx'[r] = tx[r] /\ locks'[r] = locks[r]
        /\ \A q \in Slots \ {r} : pc'[q] = pc[q] /\ tx'[q] = tx[q] /\ locks'[q] = locks[q]
    BY <1>5 DEF Inductive, TypeOK
  <2>3. UploadSession(r)'
    BY <1>1, <1>2, <1>3, <1>5, <2>2 DEF UploadSession, DayLoaded, tables
  <2>4. SessionOK(r)'
    BY <1>1, <2>2, <2>3 DEF SessionOK, Free
  <2>5. \A q \in Slots \ {r} : Apart(q, r)' /\ Apart(r, q)'
    BY <2>2 DEF Inductive, Sessions, Apart
  <2>6. QED
    BY <1>3, <2>1, <2>2, <2>4, <2>5, SessionStep
<1>6. QED
  BY <1>4, <1>5 DEF StoreObject

\* The row of the new attachment is nobody else's.
LEMMA AttachFileKeeps ==
    ASSUME Inductive, NEW r \in Slots, AttachFile(r)
    PROVE  Inductive'
<1>1. CASE Rollback(r, "error")
  BY <1>1, RejectKeeps DEF Free
<1>2. CASE Write(r, tx[r].a, "commit", tx[r])
  <2>1. pc[r] = "attach" /\ tx[r].op = "upload_attachment" /\ pc[r] \notin Free
    BY Labels DEF AttachFile, Free
  <2>2. UploadSession(r) /\ tx[r] \in Session /\ tx[r].a \in Attachments
    BY <2>1, UploadSessionFacts
  <2>3. /\ pc'[r] = "commit" /\ tx'[r] = tx[r] /\ locks'[r] = locks[r] \cup {tx[r].a}
        /\ submissions' = submissions /\ attachments' = attachments /\ objects' = objects
    BY <1>2, WriteFacts
  <2>4. UploadSession(r)'
    BY <2>1, <2>2, <2>3 DEF UploadSession, DayLoaded
  <2>5. SessionOK(r)'
    BY <2>1, <2>3, <2>4 DEF SessionOK, Free
  <2>6. \A q \in Slots \ {r} : tx[r].a \notin locks[q]
    BY <2>1, <2>2, SessionRows, StoreAssumption DEF Inductive, Sessions, Apart
  <2>7. QED
    BY <1>2, <2>2, <2>5, <2>6, WriteKeeps DEF SameRows, Waiting, Rows
<1>3. QED
  BY <1>1, <1>2 DEF AttachFile

\* An attachment's submission has its row.
LEMMA DeleteAttachmentKeeps ==
    ASSUME Inductive, NEW r \in Slots, NEW u \in Users, NEW a \in Attachments,
           DeleteAttachment(r, u, a)
    PROVE  Inductive'
<1> DEFINE s == attachments[a].submission
           session == [Blank EXCEPT !.op = "delete_attachment", !.s = s, !.a = a,
                                    !.day = submissions[s]]
<1>1. CASE \E outcome \in Free : Rollback(r, outcome)
  BY <1>1, RejectKeeps
<1>2. CASE Proceed(r, "detach", session)
  <2>1. /\ pc[r] \in Free /\ attachments[a] \in Attachment /\ attachments[a] # None
        /\ s \in Submissions
    BY DEF DeleteAttachment, Accepts, Inductive, TypeOK, Attachment
  <2>2. submissions[s] \in Submission /\ submissions[s] # None
    BY <2>1 DEF Inductive, TypeOK, FilesHaveDays
  <2>3. /\ session \in Session
        /\ session.op = "delete_attachment" /\ session.s = s /\ session.a = a
        /\ session.day = submissions[s]
        /\ session.w = None /\ session.wo = None /\ session.wedit = None
    BY <2>1, <2>2 DEF Session, Blank, Operation, AuditEntry
  <2>. HIDE DEF session
  <2>4. /\ pc'[r] = "detach" /\ tx'[r] = session /\ locks'[r] = locks[r]
        /\ submissions' = submissions /\ attachments' = attachments
    BY <1>2, ProceedFacts
  <2>5. locks[r] = {}
    BY <2>1 DEF Inductive, Sessions, SessionOK, NoSession
  <2>6. DayLoaded(tx[r])' /\ ParentOf(tx[r])'
    BY <2>1, <2>2, <2>3, <2>4 DEF DayLoaded, ParentOf
  <2>7. DeleteSession(r)'
    BY <2>1, <2>3, <2>4, <2>5, <2>6 DEF DeleteSession, Locked
  <2>8. SessionOK(r)'
    BY <2>3, <2>4, <2>7 DEF SessionOK, Free
  <2>9. QED
    BY <1>2, <2>1, <2>2, <2>3, <2>8, ArriveKeeps DEF Waiting
<1>3. QED
  BY <1>1, <1>2 DEF DeleteAttachment, Free

\* The UPDATE locks the attachment no other transaction has written.
LEMMA DetachFileKeeps ==
    ASSUME Inductive, NEW r \in Slots, DetachFile(r)
    PROVE  Inductive'
<1> DEFINE label == IF tx[r].day.status = "COMPLETED" THEN "recount" ELSE "commit"
<1>1. /\ pc[r] = "detach" /\ pc[r] \notin Free \cup {"commit"}
      /\ tx[r].op = "delete_attachment"
  BY Labels DEF DetachFile, Free
<1>2. /\ DeleteSession(r) /\ tx[r] \in Session /\ tx[r].a \in Attachments
      /\ locks[r] = {}
  BY <1>1, DeleteSessionFacts
<1>3. Write(r, tx[r].a, label, tx[r]) /\ HoldersOf(tx[r].a, r) = {}
  BY DEF DetachFile
<1>4. label \in {"recount", "commit"}
  OBVIOUS
<1>. HIDE DEF label
<1>5. /\ pc'[r] = label /\ tx'[r] = tx[r] /\ locks'[r] = {tx[r].a}
      /\ submissions' = submissions /\ workorders' = workorders /\ attachments' = attachments
  BY <1>2, <1>3, WriteFacts
<1>6. DayLoaded(tx[r])' /\ ParentOf(tx[r])'
  BY <1>2, <1>5 DEF DeleteSession, DayLoaded, ParentOf, ParentLoaded
<1>7. DeleteSession(r)'
  BY <1>2, <1>4, <1>5, <1>6 DEF DeleteSession, Locked
<1>8. SessionOK(r)'
  BY <1>1, <1>4, <1>5, <1>7 DEF SessionOK, Free
<1>9. QED
  BY <1>2, <1>3, <1>4, <1>8, WriteKeeps DEF HoldersOf, Rows, SameRows, Waiting

\* The count only reads.
LEMMA RecountFilesKeeps ==
    ASSUME Inductive, NEW r \in Slots, RecountFiles(r)
    PROVE  Inductive'
<1>1. /\ pc[r] = "recount" /\ pc[r] \notin Free \cup {"commit"}
      /\ tx[r].op = "delete_attachment"
  BY Labels DEF RecountFiles, Free
<1>2. DeleteSession(r) /\ tx[r] \in Session
  BY <1>1, DeleteSessionFacts
<1>3. \E label \in {"parent", "commit"} : Proceed(r, label, tx[r])
  BY DEF RecountFiles
<1>4. QED
  BY <1>1, <1>2, <1>3, DeleteProceeds DEF DeleteSession, SameRows

-----------------------------------------------------------------------------
(* The operations on a workorder. *)

\* There is a date: a workorder has a day.
LEMMA SomeDate ==
    ASSUME Inductive, NEW w \in Workorders, workorders[w] # None
    PROVE  (CHOOSE d \in Dates : TRUE) \in Dates
<1>1. PICK s \in Submissions : submissions[s] # None
  BY DEF Inductive, NoEmptyWorkorder
<1>2. submissions[s].date \in Dates
  BY <1>1 DEF Inductive, TypeOK, Submission
<1>3. QED
  BY <1>2

\* update_workorder loads a workorder that has its row.
LEMMA UpdateWorkorderKeeps ==
    ASSUME Inductive, NEW r \in Slots, NEW u \in Users, NEW w \in Workorders,
           NEW code \in Codes \cup {None}, NEW region \in Regions \cup {None},
           NEW total \in Totals \cup {None}, UpdateWorkorder(r, u, w, code, region, total)
    PROVE  Inductive'
<1> DEFINE req == [code |-> code, region |-> region, total |-> total, client |-> None,
                   date |-> CHOOSE d \in Dates : TRUE, owner |-> u]
           session == [Blank EXCEPT !.op = "update_workorder", !.w = w, !.wo = workorders[w],
                                    !.wedit = workorders[w], !.req = req]
<1>1. CASE Rollback(r, "rejected")
  BY <1>1, RejectKeeps DEF Free
<1>2. CASE Proceed(r, "aggregate", session)
  <2>1. pc[r] \in Free /\ workorders[w] # None /\ workorders[w] \in Workorder
    BY DEF UpdateWorkorder, Accepts, Inductive, TypeOK
  <2>2. (CHOOSE d \in Dates : TRUE) \in Dates
    BY <2>1, SomeDate
  <2>3. req \in Request
    BY <2>2, StoreAssumption DEF Request
  <2>. HIDE DEF req
  <2>4. /\ session \in Session
        /\ session.op = "update_workorder" /\ session.s = None /\ session.a = None
        /\ session.w = w /\ session.wo = workorders[w] /\ session.wedit = workorders[w]
        /\ session.req = req
    BY <2>1, <2>3 DEF Session, Blank, Operation
  <2>. HIDE DEF session
  <2>5. /\ pc'[r] = "aggregate" /\ tx'[r] = session /\ locks'[r] = locks[r]
        /\ workorders' = workorders
    BY <1>2, ProceedFacts
  <2>6. locks[r] = {}
    BY <2>1 DEF Inductive, Sessions, SessionOK, NoSession
  <2>7. WorkorderSession(r)'
    BY <2>1, <2>3, <2>4, <2>5, <2>6 DEF WorkorderSession, ParentLoaded
  <2>8. SessionOK(r)'
    BY <2>4, <2>5, <2>7 DEF SessionOK, Free
  <2>9. QED
    BY <1>2, <2>1, <2>4, <2>8, ArriveKeeps DEF Waiting
<1>3. QED
  BY <1>1, <1>2 DEF UpdateWorkorder

\* What a session that edits a workorder knows.
LEMMA WorkorderSessionFacts ==
    ASSUME Inductive, NEW r \in Slots, tx[r].op = "update_workorder", pc[r] \notin Free
    PROVE  /\ WorkorderSession(r) /\ tx[r] \in Session /\ ParentLoaded(tx[r])
           /\ tx[r].req \in Request
<1>1. WorkorderSession(r) /\ tx[r] \in Session
  BY SessionOf DEF Inductive, TypeOK
<1>2. QED
  BY <1>1 DEF WorkorderSession

\* The reconciled row is a row of the table.
LEMMA ReconciledIsWorkorder ==
    ASSUME NEW row \in Workorder, NEW req \in Request, NEW aggregate
    PROVE  Reconciled([row EXCEPT !.code = Given(req.code, @), !.region = Given(req.region, @),
                                  !.total = Given(req.total, @)], aggregate) \in Workorder
<1> DEFINE edited == [row EXCEPT !.code = Given(req.code, @), !.region = Given(req.region, @),
                                 !.total = Given(req.total, @)]
<1>1. /\ Given(req.code, row.code) \in Codes /\ Given(req.region, row.region) \in Regions
      /\ Given(req.total, row.total) \in Nat
  BY DEF Given, Request, Workorder
<1>2. edited \in Workorder
  BY <1>1 DEF Workorder
<1>. HIDE DEF edited
<1>3. Reconciled(edited, aggregate) \in Workorder
  BY <1>2 DEF Reconciled, Workorder
<1>4. QED
  BY <1>3 DEF edited

\* The reconciled workorder is still the session's own, and unlocked.
LEMMA ReconcileWorkorderKeeps ==
    ASSUME Inductive, NEW r \in Slots, ReconcileWorkorder(r)
    PROVE  Inductive'
<1> DEFINE aggregate == Progress(tx[r].w, submissions)
           edited == Reconciled([tx[r].wo EXCEPT !.code = Given(tx[r].req.code, @),
                                                 !.region = Given(tx[r].req.region, @),
                                                 !.total = Given(tx[r].req.total, @)], aggregate)
           session == WithEdit(tx[r], edited)
<1>1. CASE Rollback(r, "rejected")
  BY <1>1, RejectKeeps DEF Free
<1>2. CASE Proceed(r, "flush_parent", session)
  <2>1. pc[r] = "aggregate" /\ tx[r].op = "update_workorder" /\ pc[r] \notin Free
    BY DEF ReconcileWorkorder, Free
  <2>2. /\ WorkorderSession(r) /\ tx[r] \in Session /\ ParentLoaded(tx[r])
        /\ tx[r].req \in Request /\ tx[r].wo \in Workorder
    BY <2>1, WorkorderSessionFacts DEF ParentLoaded
  <2>3. edited \in Workorder
    BY <2>2, ReconciledIsWorkorder
  <2>. HIDE DEF edited
  <2>4. /\ session \in Session /\ SameRows(tx[r], session)
        /\ session.req = tx[r].req /\ ParentLoaded(session) /\ session.w = tx[r].w
    BY <2>2, <2>3, EditSession
  <2>. HIDE DEF session
  <2>5. /\ pc'[r] = "flush_parent" /\ tx'[r] = session /\ locks'[r] = locks[r]
        /\ workorders' = workorders
    BY <1>2, ProceedFacts
  <2>6. WorkorderSession(r)'
    BY <2>1, <2>2, <2>4, <2>5 DEF WorkorderSession, ParentLoaded, SameRows
  <2>7. SessionOK(r)'
    BY <2>1, <2>4, <2>5, <2>6 DEF SessionOK, Free, SameRows
  <2>8. QED
    BY <1>2, <2>4, <2>7, ProceedKeeps DEF Waiting
<1>3. QED
  BY <1>1, <1>2 DEF ReconcileWorkorder, WithEdit

\* The UPDATE locks the workorder no other transaction has written; only
\* update_workorder can have renamed it.
LEMMA FlushParentKeeps ==
    ASSUME Inductive, NEW r \in Slots, FlushParent(r)
    PROVE  Inductive'
<1> DEFINE t == tx[r]
           label == IF t.wedit.code # t.wo.code THEN "recode" ELSE "commit"
<1>1. /\ pc[r] = "flush_parent" /\ pc[r] \notin Free \cup {"commit"} /\ t \in Session
      /\ t.op \in {"delete_attachment", "update_workorder"} \cup DayOps
  BY Labels DEF FlushParent, Free, Inductive, TypeOK
<1>2. Write(r, t.w, label, t) /\ HoldersOf(t.w, r) = {}
  BY DEF FlushParent
<1>3. label \in {"recode", "commit"}
  OBVIOUS
<1>4. CASE t.op \in DayOps
  <2>1. /\ DaySession(r) /\ ParentOf(t) /\ t.w # None /\ locks[r] = {t.s}
    BY <1>1, <1>4, DaySessionFacts, Paths DEF DaySession
  <2>2. t.w \in Workorders /\ label = "commit"
    BY <2>1 DEF ParentOf, ParentLoaded
  <2>. HIDE DEF label
  <2>3. /\ pc'[r] = "commit" /\ tx'[r] = t /\ locks'[r] = {t.s} \cup {t.w}
        /\ submissions' = submissions /\ workorders' = workorders
    BY <1>2, <2>1, <2>2, WriteFacts
  <2>4. DayLoaded(tx[r])' /\ ParentOf(tx[r])'
    BY <2>1, <2>3 DEF DaySession, DayLoaded, ParentOf, ParentLoaded
  <2>5. "commit" \in DayPath[t.op] /\ "commit" \notin Unlocked(t.op)
    BY <1>4, Paths
  <2>6. Locked(r, IF pc[r] \in Unlocked(tx[r].op) THEN {} ELSE {tx[r].s})'
    BY <2>1, <2>3, <2>5 DEF Locked, Unlocked
  <2>7. DaySession(r)'
    BY <2>1, <2>3, <2>4, <2>5, <2>6 DEF DaySession
  <2>8. SessionOK(r)'
    BY <1>4, <2>3, <2>7 DEF SessionOK, Free
  <2>9. QED
    BY <1>1, <1>2, <2>2, <2>8, WriteKeeps DEF HoldersOf, Rows, SameRows, Waiting
<1>5. CASE t.op = "delete_attachment"
  <2>1. /\ DeleteSession(r) /\ ParentOf(t) /\ t.w # None /\ locks[r] = {t.a}
    BY <1>1, <1>5, DeleteSessionFacts DEF DeleteSession
  <2>2. t.w \in Workorders /\ label = "commit"
    BY <2>1 DEF ParentOf, ParentLoaded
  <2>. HIDE DEF label
  <2>3. /\ pc'[r] = "commit" /\ tx'[r] = t /\ locks'[r] = {t.a} \cup {t.w}
        /\ submissions' = submissions /\ workorders' = workorders
        /\ attachments' = attachments
    BY <1>2, <2>1, <2>2, WriteFacts
  <2>4. DayLoaded(tx[r])' /\ ParentOf(tx[r])'
    BY <2>1, <2>3 DEF DeleteSession, DayLoaded, ParentOf, ParentLoaded
  <2>5. DeleteSession(r)'
    BY <2>1, <2>3, <2>4 DEF DeleteSession, Locked
  <2>6. SessionOK(r)'
    BY <1>5, <2>3, <2>5 DEF SessionOK, Free
  <2>7. QED
    BY <1>1, <1>2, <2>2, <2>6, WriteKeeps DEF HoldersOf, Rows, SameRows, Waiting
<1>6. CASE t.op = "update_workorder"
  <2>1. WorkorderSession(r) /\ t.w \in Workorders /\ locks[r] = {}
    BY <1>1, <1>6, WorkorderSessionFacts DEF WorkorderSession, ParentLoaded
  <2>. HIDE DEF label
  <2>2. /\ pc'[r] = label /\ tx'[r] = t /\ locks'[r] = {t.w}
        /\ workorders' = workorders
    BY <1>2, <2>1, WriteFacts
  <2>3. WorkorderSession(r)'
    BY <1>3, <2>1, <2>2 DEF WorkorderSession, ParentLoaded
  <2>4. SessionOK(r)'
    BY <1>3, <1>6, <2>2, <2>3 DEF SessionOK, Free
  <2>5. QED
    BY <1>1, <1>2, <1>3, <2>1, <2>4, WriteKeeps DEF HoldersOf, Rows, SameRows, Waiting
<1>7. QED
  BY <1>1, <1>4, <1>5, <1>6

\* The new code enters the index, or the request is refused.
LEMMA RecodeWorkorderKeeps ==
    ASSUME Inductive, NEW r \in Slots, RecodeWorkorder(r)
    PROVE  Inductive'
<1>1. CASE Rollback(r, "rejected")
  BY <1>1, RejectKeeps DEF Free
<1>2. CASE Proceed(r, "commit", tx[r])
  <2>1. pc[r] = "recode" /\ tx[r].op = "update_workorder" /\ pc[r] \notin Free
    BY Labels DEF RecodeWorkorder, Free
  <2>2. WorkorderSession(r) /\ tx[r] \in Session
    BY <2>1, WorkorderSessionFacts
  <2>3. /\ pc'[r] = "commit" /\ tx'[r] = tx[r] /\ locks'[r] = locks[r]
        /\ workorders' = workorders
    BY <1>2, ProceedFacts
  <2>4. WorkorderSession(r)'
    BY <2>1, <2>2, <2>3 DEF WorkorderSession, ParentLoaded
  <2>5. SessionOK(r)'
    BY <2>1, <2>3, <2>4 DEF SessionOK, Free
  <2>6. QED
    BY <1>2, <2>2, <2>5, ProceedKeeps DEF SameRows, Waiting
<1>3. QED
  BY <1>1, <1>2 DEF RecodeWorkorder

-----------------------------------------------------------------------------
(* The commit. *)

\* The submission a transaction has written is the session's, new or loaded.
LEMMA WrittenDay ==
    ASSUME Inductive, NEW r \in Slots, pc[r] = "commit", NEW s \in Submissions, s \in locks[r]
    PROVE  /\ s = tx[r].s
           /\ \/ tx[r].op = "start_drive" /\ StartSession(r)
              \/ tx[r].op \in DayOps /\ DaySession(r)
<1>1. s = tx[r].s
  BY SessionRows, StoreAssumption
<1>. s \notin Workorders /\ s \notin Attachments
  BY StoreAssumption
<1>2. ASSUME tx[r].op = "upload_attachment" PROVE FALSE
  BY <1>2, SessionOf DEF Free, UploadSession
<1>3. ASSUME tx[r].op = "delete_attachment" PROVE FALSE
  BY <1>3, SessionOf DEF Free, DeleteSession, Locked, ParentOf, ParentLoaded
<1>4. ASSUME tx[r].op = "update_workorder" PROVE FALSE
  BY <1>4, SessionOf DEF Free, WorkorderSession, ParentLoaded
<1>5. QED
  BY <1>1, <1>2, <1>3, <1>4, SessionOf DEF Free

\* The workorder a transaction has written is the session's, new or loaded.
LEMMA WrittenParent ==
    ASSUME Inductive, NEW r \in Slots, pc[r] = "commit", NEW w \in Workorders, w \in locks[r]
    PROVE  /\ w = tx[r].w /\ tx[r].wedit \in Workorder
           /\ \/ tx[r].op = "start_drive" /\ tx[r].wo = None /\ workorders[w] = None
              \/ tx[r].wo \in Workorder /\ workorders[w] \in Workorder
<1>1. w = tx[r].w
  BY SessionRows, StoreAssumption
<1>2. CASE tx[r].op = "start_drive"
  BY <1>1, <1>2, SessionOf, StoreAssumption DEF Free, StartSession
<1>3. CASE tx[r].op \in DayOps
  BY <1>1, <1>3, SessionOf, StoreAssumption DEF Free, DaySession, ParentOf, ParentLoaded
<1>4. tx[r].op = "upload_attachment" => FALSE
  BY <1>1, SessionOf, StoreAssumption DEF Free, UploadSession
<1>5. CASE tx[r].op = "delete_attachment"
  BY <1>1, <1>5, SessionOf, StoreAssumption DEF Free, DeleteSession, ParentOf, ParentLoaded
<1>6. CASE tx[r].op = "update_workorder"
  BY <1>1, <1>6, SessionOf DEF Free, WorkorderSession, ParentLoaded
<1>7. QED
  BY <1>2, <1>3, <1>4, <1>5, <1>6, SessionOf DEF Free

\* The attachment a transaction has written is the session's, new or loaded.
LEMMA WrittenFile ==
    ASSUME Inductive, NEW r \in Slots, pc[r] = "commit", NEW a \in Attachments, a \in locks[r]
    PROVE  /\ a = tx[r].a
           /\ tx[r].s \in Submissions /\ submissions[tx[r].s] \in Submission
           /\ \/ tx[r].op = "upload_attachment" /\ attachments[a] = None /\ a \in objects
              \/ tx[r].op = "delete_attachment" /\ attachments[a] \in Attachment
                 /\ attachments[a].submission = tx[r].s
<1>1. a = tx[r].a
  BY SessionRows, StoreAssumption
<1>2. tx[r].op \notin {"start_drive", "update_workorder"} \cup DayOps
  BY <1>1, SessionOf, StoreAssumption DEF Free, StartSession, WorkorderSession, DaySession
<1>3. CASE tx[r].op = "upload_attachment"
  BY <1>1, <1>3, SessionOf DEF Free, UploadSession, DayLoaded
<1>4. CASE tx[r].op = "delete_attachment"
  BY <1>1, <1>4, SessionOf DEF Free, DeleteSession, DayLoaded
<1>5. QED
  BY <1>2, <1>3, <1>4, SessionOf DEF Free

\* What the commit makes of each submission.
LEMMA CommittedDays ==
    ASSUME Inductive, NEW r \in Slots, Commit(r), NEW s \in Submissions
    PROVE  /\ submissions'[s] \in Submission \cup {None}
           /\ s \notin locks[r] => submissions'[s] = submissions[s]
           /\ submissions[s] # None =>
                 /\ submissions'[s] # None
                 /\ submissions'[s].workorder = submissions[s].workorder
           /\ s \in locks[r] /\ submissions[s] = None =>
                 /\ s = tx[r].s /\ tx[r].op = "start_drive" /\ StartSession(r)
                 /\ submissions'[s] \in Submission
                 /\ submissions'[s].workorder = tx[r].w
                 /\ submissions'[s].status = "IN_PROGRESS"
           /\ s \in locks[r] /\ submissions[s] # None =>
                 /\ s = tx[r].s /\ tx[r].op \in DayOps
                 /\ submissions'[s].status =
                       IF tx[r].op \in Edits THEN submissions[s].status
                                             ELSE StatusAfter[AuditEntry[tx[r].op]]
<1>1. /\ submissions'[s] = IF s \in locks[r] THEN FlushedDay(submissions[s], tx[r].day, tx[r].edit)
                                             ELSE submissions[s]
      /\ submissions[s] \in Submission \cup {None} /\ pc[r] = "commit" /\ tx[r] \in Session
  BY DEF Commit, DaysSeenBy, Inductive, TypeOK
<1>2. CASE s \notin locks[r]
  BY <1>1, <1>2
<1>3. CASE s \in locks[r] /\ tx[r].op = "start_drive" /\ StartSession(r)
  <2>1. /\ s = tx[r].s /\ submissions[s] = None /\ tx[r].day = None
        /\ tx[r].edit = NewDay(tx[r].w, tx[r].req)
        /\ tx[r].w \in Workorders /\ tx[r].req \in Request
    BY <1>1, <1>3, WrittenDay DEF StartSession
  <2>2. submissions'[s] = NewDay(tx[r].w, tx[r].req)
    BY <1>1, <1>3, <2>1, FlushedNewDay
  <2>3. submissions'[s] \in Submission
    BY <2>1, <2>2 DEF NewDay, Submission, Request, DayStatus
  <2>4. submissions'[s].workorder = tx[r].w /\ submissions'[s].status = "IN_PROGRESS"
    BY <2>2 DEF NewDay
  <2>5. QED
    BY <1>3, <2>1, <2>3, <2>4
<1>4. CASE s \in locks[r] /\ tx[r].op \in DayOps /\ DaySession(r)
  <2>1. /\ s = tx[r].s /\ submissions[s] \in Submission /\ submissions[s] # None
        /\ tx[r].day \in Submission /\ tx[r].edit \in Submission
    <3>1. DayLoaded(tx[r]) /\ tx[r].edit \in Submission
      BY <1>4 DEF DaySession
    <3>2. s = tx[r].s
      BY <1>1, <1>4, WrittenDay
    <3>3. QED
      BY <3>1, <3>2, StoreAssumption DEF DayLoaded
  <2>2. /\ submissions'[s] \in Submission
        /\ submissions'[s].workorder = submissions[s].workorder
        /\ submissions'[s].status = IF tx[r].edit.status = tx[r].day.status
                                    THEN submissions[s].status ELSE tx[r].edit.status
    BY <1>1, <1>4, <2>1, FlushedDayIsDay
  <2>3. IF tx[r].op \in Edits THEN tx[r].edit.status = tx[r].day.status
        ELSE /\ tx[r].edit.status # tx[r].day.status
             /\ tx[r].edit.status = StatusAfter[AuditEntry[tx[r].op]]
    BY <1>4 DEF DaySession, DayOps
  <2>4. submissions'[s] # None
    BY <2>2, StoreAssumption
  <2>5. QED
    BY <1>4, <2>1, <2>2, <2>3, <2>4
<1>5. QED
  BY <1>1, <1>2, <1>3, <1>4, WrittenDay

\* What the commit makes of each workorder.
LEMMA CommittedParents ==
    ASSUME Inductive, NEW r \in Slots, Commit(r), NEW w \in Workorders
    PROVE  /\ workorders'[w] \in Workorder \cup {None}
           /\ w \notin locks[r] => workorders'[w] = workorders[w]
           /\ w \in locks[r] => workorders'[w] \in Workorder /\ w = tx[r].w
           /\ workorders[w] # None => workorders'[w] \in Workorder
           /\ w \in locks[r] /\ workorders[w] = None => tx[r].op = "start_drive"
<1>1. /\ workorders'[w] = IF w \in locks[r]
                          THEN FlushedParent(workorders[w], tx[r].wo, tx[r].wedit)
                          ELSE workorders[w]
      /\ workorders[w] \in Workorder \cup {None} /\ pc[r] = "commit"
  BY DEF Commit, ParentsSeenBy, Inductive, TypeOK
<1>2. CASE w \notin locks[r]
  BY <1>1, <1>2
<1>3. CASE w \in locks[r]
  <2>1. /\ w = tx[r].w /\ tx[r].wedit \in Workorder
        /\ \/ tx[r].op = "start_drive" /\ tx[r].wo = None /\ workorders[w] = None
           \/ tx[r].wo \in Workorder /\ workorders[w] \in Workorder
    BY <1>1, <1>3, WrittenParent
  <2>2. workorders'[w] \in Workorder
    BY <1>1, <1>3, <2>1, FlushedParentIsParent
  <2>3. QED
    BY <1>3, <2>1, <2>2, StoreAssumption
<1>4. QED
  BY <1>2, <1>3

\* What the commit makes of each attachment.
LEMMA CommittedFiles ==
    ASSUME Inductive, NEW r \in Slots, Commit(r), NEW a \in Attachments
    PROVE  /\ attachments'[a] \in Attachment \cup {None}
           /\ a \notin locks[r] => attachments'[a] = attachments[a]
           /\ attachments[a] # None =>
                 /\ attachments'[a] \in Attachment
                 /\ attachments'[a].submission = attachments[a].submission
           /\ a \in locks[r] =>
                 /\ a = tx[r].a
                 /\ attachments'[a].submission = tx[r].s /\ submissions[tx[r].s] # None
                 /\ attachments[a] = None => tx[r].op = "upload_attachment" /\ a \in objects
<1>1. /\ attachments'[a] = IF a \in locks[r]
                           THEN [submission |-> tx[r].s, active |-> attachments[a] = None]
                           ELSE attachments[a]
      /\ attachments[a] \in Attachment \cup {None} /\ pc[r] = "commit"
  BY DEF Commit, FilesSeenBy, Inductive, TypeOK
<1>2. CASE a \notin locks[r]
  BY <1>1, <1>2
<1>3. CASE a \in locks[r]
  <2>1. /\ a = tx[r].a
        /\ tx[r].s \in Submissions /\ submissions[tx[r].s] \in Submission
        /\ \/ tx[r].op = "upload_attachment" /\ attachments[a] = None /\ a \in objects
           \/ tx[r].op = "delete_attachment" /\ attachments[a] \in Attachment
              /\ attachments[a].submission = tx[r].s
    BY <1>1, <1>3, WrittenFile
  <2>2. attachments'[a] \in Attachment /\ attachments'[a].submission = tx[r].s
    BY <1>1, <1>3, <2>1 DEF Attachment
  <2>3. attachments'[a] # None /\ submissions[tx[r].s] # None
    BY <2>1, <2>2, StoreAssumption
  <2>4. QED
    BY <1>3, <2>1, <2>2, <2>3, StoreAssumption
<1>4. QED
  BY <1>2, <1>3

\* The audit trail of each submission after the commit.
LEMMA CommittedTrails ==
    ASSUME Inductive, NEW r \in Slots, Commit(r), NEW s \in Submissions
    PROVE  /\ audit[s] \in Seq(AuditAction) /\ audit'[s] \in Seq(AuditAction)
           /\ audit'[s] = IF tx[r].op \in DOMAIN AuditEntry /\ s = tx[r].s
                          THEN Append(audit[s], AuditEntry[tx[r].op]) ELSE audit[s]
<1>1. /\ audit[s] \in Seq(AuditAction)
      /\ audit'[s] = IF tx[r].op \in DOMAIN AuditEntry /\ s = tx[r].s
                     THEN Append(audit[s], AuditEntry[tx[r].op]) ELSE audit[s]
  BY DEF Commit, AuditSeenBy, Inductive, TypeOK
<1>2. QED
  BY <1>1, Entries

\* The committed tables keep their types.
LEMMA CommitKeepsTypes ==
    ASSUME Inductive, NEW r \in Slots, Commit(r)
    PROVE  TypeOK'
<1>1. /\ submissions' \in [Submissions -> Submission \cup {None}]
  BY CommittedDays DEF Commit, DaysSeenBy
<1>2. workorders' \in [Workorders -> Workorder \cup {None}]
  BY CommittedParents DEF Commit, ParentsSeenBy
<1>3. attachments' \in [Attachments -> Attachment \cup {None}]
  BY CommittedFiles DEF Commit, FilesSeenBy
<1>4. audit' \in [Submissions -> Seq(AuditAction)]
  BY CommittedTrails DEF Commit, AuditSeenBy
<1>5. /\ objects' \subseteq Attachments /\ pc' \in [Slots -> Free \cup Waiting]
      /\ tx' \in [Slots -> Session]
      /\ locks' \in [Slots -> SUBSET (Submissions \cup Workorders \cup Attachments)]
  BY BlankIsSession DEF Commit, Answer, Inductive, TypeOK, Free
<1>6. QED
  BY <1>1, <1>2, <1>3, <1>4, <1>5 DEF TypeOK

\* A workorder is committed with its first day, and a day under its workorder.
LEMMA CommitKeepsWorkorders ==
    ASSUME Inductive, NEW r \in Slots, Commit(r)
    PROVE  DaysHaveWorkorders' /\ NoEmptyWorkorder'
<1>1. pc[r] = "commit" /\ pc[r] \notin Free
  BY DEF Commit, Free
<1>2. ASSUME NEW s \in Submissions, submissions'[s] # None
      PROVE  /\ submissions'[s].workorder \in Workorders
             /\ workorders'[submissions'[s].workorder] # None
  <2>1. CASE submissions[s] # None
    <3>1. submissions[s].workorder \in Workorders
          /\ workorders[submissions[s].workorder] # None
      BY <2>1 DEF Inductive, TypeOK, DaysHaveWorkorders, Submission
    <3>2. submissions'[s].workorder = submissions[s].workorder
      BY <2>1, CommittedDays
    <3>3. QED
      BY <3>1, <3>2, CommittedParents, StoreAssumption
  <2>2. CASE submissions[s] = None
    <3>1. StartSession(r) /\ submissions'[s].workorder = tx[r].w
      BY <1>2, <2>2, CommittedDays
    <3>2. tx[r].w \in Workorders
          /\ (tx[r].w \in locks[r] \/ workorders[tx[r].w] \in Workorder)
      BY <1>1, <3>1 DEF StartSession
    <3>3. workorders'[tx[r].w] \in Workorder
      BY <3>2, CommittedParents, StoreAssumption
    <3>4. QED
      BY <3>1, <3>2, <3>3, StoreAssumption
  <2>3. QED
    BY <2>1, <2>2
<1>3. ASSUME NEW w \in Workorders, workorders'[w] # None
      PROVE  \E s \in Submissions : submissions'[s] # None /\ submissions'[s].workorder = w
  <2>1. CASE workorders[w] # None
    <3>1. PICK s \in Submissions : submissions[s] # None /\ submissions[s].workorder = w
      BY <2>1 DEF Inductive, NoEmptyWorkorder
    <3>2. QED
      BY <3>1, CommittedDays
  <2>2. CASE workorders[w] = None
    <3>1. w \in locks[r] /\ tx[r].op = "start_drive" /\ w = tx[r].w
      BY <1>3, <2>2, CommittedParents
    <3>2. StartSession(r) /\ tx[r].s \in Submissions /\ tx[r].s \in locks[r]
          /\ submissions[tx[r].s] = None
      BY <1>1, <3>1, SessionOf DEF StartSession
    <3>3. submissions'[tx[r].s] \in Submission /\ submissions'[tx[r].s].workorder = w
      BY <3>1, <3>2, CommittedDays
    <3>4. QED
      BY <3>2, <3>3, StoreAssumption
  <2>3. QED
    BY <2>1, <2>2
<1>4. QED
  BY <1>2, <1>3 DEF DaysHaveWorkorders, NoEmptyWorkorder

\* A file is committed under its day, after its object was stored.
LEMMA CommitKeepsFiles ==
    ASSUME Inductive, NEW r \in Slots, Commit(r)
    PROVE  FilesHaveDays' /\ FilesAreStored'
<1>1. objects' = objects
  BY DEF Commit
<1>2. ASSUME NEW a \in Attachments, attachments'[a] # None
      PROVE  a \in objects' /\ submissions'[attachments'[a].submission] # None
  <2>1. CASE attachments[a] # None
    <3>1. /\ a \in objects /\ attachments[a].submission \in Submissions
          /\ submissions[attachments[a].submission] # None
      BY <2>1 DEF Inductive, TypeOK, FilesAreStored, FilesHaveDays, Attachment
    <3>2. attachments'[a].submission = attachments[a].submission
      BY <2>1, CommittedFiles
    <3>3. QED
      BY <1>1, <3>1, <3>2, CommittedDays
  <2>2. CASE attachments[a] = None
    <3>1. /\ a \in objects /\ attachments'[a].submission = tx[r].s
          /\ submissions[tx[r].s] # None
      BY <1>2, <2>2, CommittedFiles
    <3>2. tx[r].s \in Submissions
      BY <1>2, <2>2, CommittedFiles, WrittenFile DEF Commit
    <3>3. QED
      BY <1>1, <3>1, <3>2, CommittedDays
  <2>3. QED
    BY <2>1, <2>2
<1>3. QED
  BY <1>2 DEF FilesHaveDays, FilesAreStored

\* The status column and its entry are committed together.
LEMMA CommitKeepsTrails ==
    ASSUME Inductive, NEW r \in Slots, Commit(r)
    PROVE  TrailTellsStatus'
<1> DEFINE op == tx[r].op
           Tells(trail, status) ==
              \E i \in DOMAIN trail :
                 /\ trail[i] \in DOMAIN StatusAfter /\ StatusAfter[trail[i]] = status
                 /\ \A j \in DOMAIN trail : j > i => trail[j] \notin DOMAIN StatusAfter
<1>1. pc[r] = "commit" /\ pc[r] \notin Free
  BY DEF Commit, Free
<1>2. ASSUME NEW trail \in Seq(AuditAction), NEW entry \in DOMAIN StatusAfter
      PROVE  Tells(Append(trail, entry), StatusAfter[entry])
  <2> DEFINE i == Len(trail) + 1
  <2>1. i \in DOMAIN Append(trail, entry) /\ Append(trail, entry)[i] = entry
    OBVIOUS
  <2>2. \A j \in DOMAIN Append(trail, entry) : ~(j > i)
    OBVIOUS
  <2>3. QED
    BY <2>1, <2>2
<1>3. ASSUME NEW trail \in Seq(AuditAction), NEW entry, entry \notin DOMAIN StatusAfter,
             NEW status, Tells(trail, status)
      PROVE  Tells(Append(trail, entry), status)
  <2>1. PICK i \in DOMAIN trail :
           /\ trail[i] \in DOMAIN StatusAfter /\ StatusAfter[trail[i]] = status
           /\ \A j \in DOMAIN trail : j > i => trail[j] \notin DOMAIN StatusAfter
    BY <1>3
  <2>2. /\ i \in DOMAIN Append(trail, entry) /\ Append(trail, entry)[i] = trail[i]
        /\ \A j \in DOMAIN Append(trail, entry) :
              \/ j \in DOMAIN trail /\ Append(trail, entry)[j] = trail[j]
              \/ Append(trail, entry)[j] = entry
    OBVIOUS
  <2>3. QED
    BY <1>3, <2>1, <2>2
<1>. HIDE DEF Tells
<1>4. ASSUME NEW s \in Submissions, submissions'[s] # None
      PROVE  Tells(audit'[s], submissions'[s].status)
  <2>1. submissions[s] # None => Tells(audit[s], submissions[s].status)
    BY DEF Inductive, TrailTellsStatus, Tells
  <2>2. CASE s \notin locks[r]
    <3>1. submissions'[s] = submissions[s] /\ Tells(audit[s], submissions[s].status)
      BY <1>4, <2>1, <2>2, CommittedDays
    <3>2. s = tx[r].s /\ op \in DOMAIN AuditEntry
             => op \in {"upload_attachment", "delete_attachment"}
      <4>1. op = "start_drive" /\ s = tx[r].s => FALSE
        BY <1>1, <2>2, SessionOf DEF StartSession
      <4>2. op \in DayOps /\ s = tx[r].s => FALSE
        BY <1>1, <2>2, SessionOf, Paths DEF DaySession, Locked
      <4>3. QED
        BY <1>1, <4>1, <4>2, SessionOf, Entries
    <3>3. CASE s = tx[r].s /\ op \in DOMAIN AuditEntry
      BY <3>1, <3>2, <3>3, <1>3, Entries, CommittedTrails
    <3>4. CASE ~(s = tx[r].s /\ op \in DOMAIN AuditEntry)
      BY <3>1, <3>4, CommittedTrails
    <3>5. QED
      BY <3>3, <3>4
  <2>3. CASE s \in locks[r] /\ submissions[s] = None
    <3>1. s = tx[r].s /\ op = "start_drive" /\ submissions'[s].status = "IN_PROGRESS"
      BY <2>3, CommittedDays
    <3>2. QED
      BY <1>2, <3>1, Entries, CommittedTrails
  <2>4. CASE s \in locks[r] /\ submissions[s] # None
    <3>1. /\ s = tx[r].s /\ op \in DayOps
          /\ submissions'[s].status = IF op \in Edits THEN submissions[s].status
                                      ELSE StatusAfter[AuditEntry[op]]
      BY <2>4, CommittedDays
    <3>2. CASE op \in Edits
      BY <1>3, <2>1, <2>4, <3>1, <3>2, Entries, CommittedTrails
    <3>3. CASE op \notin Edits
      BY <1>2, <3>1, <3>3, Entries, CommittedTrails DEF DayOps
    <3>4. QED
      BY <3>2, <3>3
  <2>5. QED
    BY <2>2, <2>3, <2>4
<1>5. QED
  BY <1>4 DEF TrailTellsStatus, Tells

\* Another session's workorder and submission keep their rows.
LEMMA CommitKeepsLoaded ==
    ASSUME Inductive, NEW r \in Slots, Commit(r), NEW q \in Slots, q # r
    PROVE  /\ ParentLoaded(tx[q]) => ParentLoaded(tx[q])'
           /\ ParentOf(tx[q]) => ParentOf(tx[q])'
           /\ DayLoaded(tx[q]) => DayLoaded(tx[q])'
<1>1. tx'[q] = tx[q]
  BY DEF Commit, Answer, Inductive, TypeOK
<1>2. ParentLoaded(tx[q]) => ParentLoaded(tx[q])'
  BY <1>1, CommittedParents, StoreAssumption DEF ParentLoaded
<1>3. ParentOf(tx[q]) => ParentOf(tx[q])'
  BY <1>1, <1>2 DEF ParentOf
<1>4. ASSUME DayLoaded(tx[q]) PROVE DayLoaded(tx[q])'
  <2>1. tx[q].s \in Submissions /\ submissions[tx[q].s] \in Submission
        /\ submissions[tx[q].s] # None
    BY <1>4, StoreAssumption DEF DayLoaded
  <2>2. submissions'[tx[q].s] \in Submission
        /\ submissions'[tx[q].s].workorder = submissions[tx[q].s].workorder
    BY <2>1, CommittedDays
  <2>3. QED
    BY <1>1, <1>4, <2>2 DEF DayLoaded
<1>5. QED
  BY <1>2, <1>3, <1>4

\* The others still know what they knew when r's transaction commits.
LEMMA CommitKeepsOthers ==
    ASSUME Inductive, NEW r \in Slots, Commit(r), NEW q \in Slots, q # r
    PROVE  SessionOK(q)'
<1>1. /\ pc'[q] = pc[q] /\ tx'[q] = tx[q] /\ locks'[q] = locks[q] /\ objects' = objects
  BY DEF Commit, Answer, Inductive, TypeOK
<1>2. SessionOK(q) /\ Apart(q, r)
  BY DEF Inductive, Sessions
<1>3. NoSession(q) => NoSession(q)'
  BY <1>1 DEF NoSession
<1>4. ASSUME tx[q].op = "start_drive", StartSession(q) PROVE StartSession(q)'
  <2>1. tx[q].s \in Submissions /\ submissions'[tx[q].s] = None
    <3>1. tx[q].s \in Submissions /\ submissions[tx[q].s] = None /\ tx[q].s # tx[r].s
      BY <1>2, <1>4 DEF StartSession, Apart
    <3>2. QED
      BY <3>1, CommittedDays
  <2>2. tx[q].w \in Workorders /\ workorders[tx[q].w] = None /\ tx[q].w \in locks[q]
           => workorders'[tx[q].w] = None
    BY <1>2, CommittedParents DEF Apart
  <2>3. tx[q].w \in Workorders /\ workorders[tx[q].w] \in Workorder
           => workorders'[tx[q].w] \in Workorder
    BY CommittedParents, StoreAssumption
  <2>4. QED
    BY <1>1, <1>4, <2>1, <2>2, <2>3 DEF StartSession
<1>5. ASSUME DaySession(q) PROVE DaySession(q)'
  BY <1>1, <1>5, CommitKeepsLoaded DEF DaySession, Locked, Unlocked
<1>6. ASSUME tx[q].op = "upload_attachment", UploadSession(q) PROVE UploadSession(q)'
  <2>1. tx[q].a \in Attachments /\ attachments'[tx[q].a] = None
    <3>1. tx[q].a \in Attachments /\ attachments[tx[q].a] = None /\ tx[q].a # tx[r].a
      BY <1>2, <1>6 DEF UploadSession, Apart
    <3>2. QED
      BY <3>1, CommittedFiles
  <2>2. QED
    BY <1>1, <1>6, <2>1, CommitKeepsLoaded DEF UploadSession
<1>7. ASSUME DeleteSession(q) PROVE DeleteSession(q)'
  <2>1. /\ tx[q].a \in Attachments /\ attachments'[tx[q].a] \in Attachment
        /\ attachments'[tx[q].a].submission = tx[q].s
    BY <1>7, CommittedFiles, StoreAssumption DEF DeleteSession
  <2>2. QED
    BY <1>1, <1>7, <2>1, CommitKeepsLoaded DEF DeleteSession, Locked
<1>8. ASSUME WorkorderSession(q) PROVE WorkorderSession(q)'
  BY <1>1, <1>8, CommitKeepsLoaded DEF WorkorderSession
<1>9. QED
  BY <1>1, <1>2, <1>3, <1>4, <1>5, <1>6, <1>7, <1>8 DEF SessionOK

\* A commit keeps every conjunct of the invariant.
LEMMA CommitKeeps ==
    ASSUME Inductive, NEW r \in Slots, Commit(r)
    PROVE  Inductive'
<1>1. /\ pc'[r] = "ok" /\ tx'[r] = Blank /\ locks'[r] = {}
      /\ \A q \in Slots \ {r} : tx'[q] = tx[q] /\ locks'[q] = locks[q]
  BY DEF Commit, Answer, Inductive, TypeOK
<1>2. SessionOK(r)'
  BY <1>1 DEF SessionOK, NoSession, Free
<1>3. ASSUME NEW q \in Slots \ {r} PROVE Apart(q, r)' /\ Apart(r, q)'
  BY <1>1, NewRows, StoreAssumption DEF Apart, Blank
<1>4. \A p, q \in Slots \ {r} : p # q => Apart(p, q)'
  BY <1>1 DEF Inductive, Sessions, Apart
<1>5. Sessions'
  BY <1>2, <1>3, <1>4, CommitKeepsOthers DEF Sessions
<1>6. QED
  BY <1>5, CommitKeepsTypes, CommitKeepsWorkorders, CommitKeepsFiles, CommitKeepsTrails
  DEF Inductive

-----------------------------------------------------------------------------
(* The theorems. *)

\* The empty store satisfies the invariant.
LEMMA InitIsInductive == Init => Inductive
<1> SUFFICES ASSUME Init PROVE Inductive
  OBVIOUS
<1>1. TypeOK
  BY BlankIsSession DEF Init, TypeOK, Free
<1>2. DaysHaveWorkorders /\ FilesHaveDays /\ NoEmptyWorkorder /\ FilesAreStored /\ TrailTellsStatus
  BY DEF Init, DaysHaveWorkorders, FilesHaveDays, NoEmptyWorkorder, FilesAreStored,
         TrailTellsStatus
<1>3. Sessions
  BY DEF Init, Sessions, SessionOK, NoSession, Free, Apart, Blank
<1>4. QED
  BY <1>1, <1>2, <1>3 DEF Inductive

\* Every request that arrives keeps the invariant.
LEMMA ArriveKeepsInductive ==
    ASSUME Inductive, NEW r \in Slots, Arrive(r)
    PROVE  Inductive'
<1>1. PICK u \in Users :
        \/ \E s \in Submissions, client \in ClientIds \cup {None}, code \in Codes,
              region \in Regions \cup {None}, total \in Totals \cup {None}, date \in Dates :
                 StartDrive(r, u, s, client, code, region, total, date)
        \/ \E s \in Submissions :
              \/ EndDrive(r, u, s)
              \/ \E version \in 1..MaxTrail, date \in Dates, grids \in Grids :
                    \/ UpdateSubmission(r, u, s, version, date, grids)
                    \/ UpdateAdminSubmission(r, u, s, version, date, grids)
              \/ CompleteSubmission(r, u, s)
              \/ ReopenSubmission(r, u, s)
              \/ \E a \in Attachments : UploadAttachment(r, u, s, a)
        \/ \E w \in Workorders, code \in Codes \cup {None}, region \in Regions \cup {None},
              total \in Totals \cup {None} : UpdateWorkorder(r, u, w, code, region, total)
        \/ \E a \in Attachments : DeleteAttachment(r, u, a)
  BY DEF Arrive
<1>2. QED
  BY <1>1, StartDriveKeeps, EndDriveKeeps, UpdateSubmissionKeeps, UpdateAdminSubmissionKeeps,
     CompleteSubmissionKeeps, ReopenSubmissionKeeps, UploadAttachmentKeeps,
     UpdateWorkorderKeeps, DeleteAttachmentKeeps

\* Every statement of a request in flight keeps the invariant.
LEMMA StepKeepsInductive ==
    ASSUME Inductive, NEW r \in Slots, Step(r)
    PROVE  Inductive'
<1>1. CASE StartDriveStep(r)
  BY <1>1, FindWorkorderKeeps, CreateWorkorderKeeps, CheckDuplicateKeeps,
     InsertDayKeeps DEF StartDriveStep
<1>2. CASE DayStep(r)
  BY <1>2, FlushDayKeeps, ReindexDayKeeps, CountFilesKeeps, LoadParentKeeps, CapUpdateKeeps,
     CapCompletionKeeps, CloseParentAfterAdminEditKeeps, ReopenParentKeeps DEF DayStep
<1>3. CASE ParentStep(r)
  BY <1>3, ReconcileWorkorderKeeps, FlushParentKeeps, RecodeWorkorderKeeps DEF ParentStep
<1>4. CASE FileStep(r)
  BY <1>4, CheckNoFileKeeps, StoreObjectKeeps, AttachFileKeeps, DetachFileKeeps,
     RecountFilesKeeps DEF FileStep
<1>5. CASE DeadlockVictim(r)
  BY <1>5, RejectKeeps DEF DeadlockVictim, Free
<1>6. QED
  BY <1>1, <1>2, <1>3, <1>4, <1>5, CommitKeeps DEF Step

\* Inductive is inductive.
LEMMA NextKeepsInductive == Inductive /\ [Next]_vars => Inductive'
<1> SUFFICES ASSUME Inductive, [Next]_vars PROVE Inductive'
  OBVIOUS
<1>1. CASE UNCHANGED vars
  <2>1. TypeOK' /\ Sessions'
    <3>1. \A q \in Slots : SessionOK(q)'
      BY <1>1, OthersKnow DEF Inductive, Sessions, vars, tables
    <3>2. TypeOK' /\ \A p, q \in Slots : p # q => Apart(p, q)'
      BY <1>1 DEF Inductive, Sessions, Apart, TypeOK, vars
    <3>3. QED
      BY <3>1, <3>2 DEF Sessions
  <2>2. /\ DaysHaveWorkorders' /\ FilesHaveDays' /\ NoEmptyWorkorder'
        /\ FilesAreStored' /\ TrailTellsStatus'
    BY <1>1 DEF Inductive, DaysHaveWorkorders, FilesHaveDays, NoEmptyWorkorder,
                FilesAreStored, TrailTellsStatus, vars
  <2>3. QED
    BY <2>1, <2>2 DEF Inductive
<1>2. ASSUME NEW r \in Slots, Crash(r) PROVE Inductive'
  BY <1>2, RejectKeeps DEF Crash, Free
<1>3. QED
  BY <1>1, <1>2, ArriveKeepsInductive, StepKeepsInductive DEF Next, Idle

\* Inductive is an invariant of every interleaving of the field-work API.
THEOREM InductiveHolds == Spec => []Inductive
BY InitIsInductive, NextKeepsInductive, PTL DEF Spec

\* The tables, the audit trails and the sessions keep their types.
THEOREM TypeOKHolds == Spec => []TypeOK
<1>1. Inductive => TypeOK
  BY DEF Inductive
<1>2. QED
  BY <1>1, InductiveHolds, PTL

\* A submission's row always has the status the last status entry of its audit
\* trail tells, however the requests that change it interleave, fail or crash.
THEOREM TrailTellsStatusHolds == Spec => []TrailTellsStatus
<1>1. Inductive => TrailTellsStatus
  BY DEF Inductive
<1>2. QED
  BY <1>1, InductiveHolds, PTL

\* start_drive never leaves a workorder without a day or a day without its
\* workorder, whatever retries, races and crashes it meets.
THEOREM NoEmptyWorkorderHolds == Spec => []NoEmptyWorkorder
<1>1. Inductive => NoEmptyWorkorder
  BY DEF Inductive
<1>2. QED
  BY <1>1, InductiveHolds, PTL

\* An attachment is never recorded before its object is in the bucket.
THEOREM FilesAreStoredHolds == Spec => []FilesAreStored
<1>1. Inductive => FilesAreStored
  BY DEF Inductive
<1>2. QED
  BY <1>1, InductiveHolds, PTL
=============================================================================

--------------------------- MODULE FieldRulesProofs ---------------------------
(***************************************************************************)
(* What FieldOps promises of its keys, versions, deadlocks and errors for  *)
(* any slots, rows, users and inputs: Keyed and the other invariants of    *)
(* FieldInvariant, each inductive beside Inductive.  Then the documented   *)
(* rules of FieldRules, as long as one request is served at a time: what a *)
(* session has loaded is then what is stored when it commits.  The         *)
(* aggregate of a workorder is a sum over any finite set of days: a        *)
(* natural number that moves by as much as the one day that changes.       *)
(***************************************************************************)
EXTENDS FieldRules, FieldOpsProofs, FiniteSetTheorems

-----------------------------------------------------------------------------
(* What a step does to the sessions. *)

\* The others stand where they stood.
OthersStand(r) ==
    \A q \in Slots \ {r} : pc'[q] = pc[q] /\ tx'[q] = tx[q] /\ locks'[q] = locks[q]

\* r is answered, and no row has changed.
Ends(r) == \E outcome \in Free : Answer(r, outcome) /\ UNCHANGED tables

\* r is on its way: its session keeps its operation, its rows and the submission
\* as loaded.
Works(r) ==
    /\ UNCHANGED tables /\ OthersStand(r)
    /\ pc[r] \notin Free /\ pc'[r] \notin Free
    /\ SameRows(tx[r], tx'[r])
    /\ tx'[r].day = tx[r].day /\ tx'[r].req = tx[r].req

\* A statement that only reads.
Reads(r) == Works(r) /\ locks'[r] = locks[r] /\ tx'[r].edit = tx[r].edit

\* A statement that writes row.
Writes(r, row) == Works(r) /\ locks'[r] = locks[r] \cup {row}

\* What the next statement finds in the session after one that only reads.
LEMMA ReadFacts ==
    ASSUME Inductive, NEW r \in Slots, pc[r] \notin Free, NEW label, label \notin Free,
           NEW session, SameRows(tx[r], session), session.day = tx[r].day,
           session.edit = tx[r].edit, session.req = tx[r].req, Proceed(r, label, session)
    PROVE  Reads(r) /\ pc'[r] = label /\ tx'[r] = session
BY DEF Inductive, TypeOK, Proceed, Reads, Works, OthersStand

\* The same after a read that leaves the session as it is.
LEMMA PassFacts ==
    ASSUME Inductive, NEW r \in Slots, pc[r] \notin Free, NEW label, label \notin Free,
           Proceed(r, label, tx[r])
    PROVE  Reads(r) /\ pc'[r] = label /\ tx'[r] = tx[r]
BY ReadFacts DEF SameRows

\* What the next statement finds in the session after a flush.
LEMMA FlushFacts ==
    ASSUME Inductive, NEW r \in Slots, pc[r] \notin Free, NEW label, label \notin Free,
           NEW session, SameRows(tx[r], session), session.day = tx[r].day,
           session.req = tx[r].req, NEW row, Write(r, row, label, session)
    PROVE  Writes(r, row) /\ pc'[r] = label /\ tx'[r] = session
BY DEF Inductive, TypeOK, Write, Writes, Works, OthersStand

\* The same after a flush that leaves the session as it is.
LEMMA FlushedFacts ==
    ASSUME Inductive, NEW r \in Slots, pc[r] \notin Free, NEW label, label \notin Free,
           NEW row, Write(r, row, label, tx[r])
    PROVE  Writes(r, row) /\ pc'[r] = label /\ tx'[r] = tx[r]
BY FlushFacts DEF SameRows

\* A rolled back request is answered.
LEMMA RollbackFacts ==
    ASSUME NEW r \in Slots, NEW outcome \in Free, Rollback(r, outcome)
    PROVE  Ends(r)
BY DEF Rollback, Ends

\* Loading or editing the workorder leaves the rest of the session alone.
LEMMA ParentFields ==
    ASSUME NEW t \in Session, NEW w, NEW loaded, NEW edited
    PROVE  /\ SameRows(t, WithParent(t, w, loaded, edited))
           /\ WithParent(t, w, loaded, edited).day = t.day
           /\ WithParent(t, w, loaded, edited).edit = t.edit
           /\ WithParent(t, w, loaded, edited).req = t.req
           /\ SameRows(t, WithEdit(t, edited))
           /\ WithEdit(t, edited).day = t.day /\ WithEdit(t, edited).edit = t.edit
           /\ WithEdit(t, edited).req = t.req
BY DEF Session, SameRows, WithParent, WithEdit

-----------------------------------------------------------------------------
(* The statements of the services. *)

\* find_workorder reads: the code is free and complete, or a row has it.
LEMMA FindMoves ==
    ASSUME Inductive, NEW r \in Slots, FindWorkorder(r)
    PROVE  \/ Ends(r)
           \/ /\ pc[r] = "find" /\ Reads(r)
              /\ \/ pc'[r] = "create" /\ ~CodeTaken(tx[r].req.code, None) /\ tx'[r] = tx[r]
                 \/ pc'[r] = "duplicate"
<1>1. pc[r] = "find" /\ pc[r] \notin Free /\ tx[r] \in Session
  BY DEF FindWorkorder, Free, Inductive, TypeOK
<1>2. CASE \E outcome \in Free : Rollback(r, outcome)
  BY <1>2, RollbackFacts
<1>3. CASE Proceed(r, "create", tx[r]) /\ ~CodeTaken(tx[r].req.code, None)
  BY <1>1, <1>3, PassFacts DEF Free
<1>4. ASSUME NEW w \in Workorders,
             Proceed(r, "duplicate", WithParent(tx[r], w, workorders[w], workorders[w]))
      PROVE  Reads(r) /\ pc'[r] = "duplicate"
  BY <1>1, <1>4, ParentFields, ReadFacts DEF Free
<1>5. QED
  BY <1>1, <1>2, <1>3, <1>4 DEF FindWorkorder, Free, WithParent

\* The INSERT of a workorder passes the unique index, or starts the second attempt.
LEMMA CreateMoves ==
    ASSUME Inductive, NEW r \in Slots, CreateWorkorder(r)
    PROVE  \/ Ends(r)
           \/ /\ pc[r] = "create" /\ pc'[r] = "find" /\ Reads(r) /\ tx'[r].w = tx[r].w
              /\ CodeTaken(tx[r].req.code, None)
           \/ /\ pc[r] = "create" /\ pc'[r] = "duplicate"
              /\ ~CodeTaken(tx[r].req.code, None) /\ HoldersOfCode(tx[r].req.code, r) = {}
              /\ \E w \in Workorders : Writes(r, w) /\ tx'[r].w = w
              /\ tx'[r].wedit.code = tx[r].req.code
<1>1. pc[r] = "create" /\ pc[r] \notin Free /\ tx[r] \in Session
  BY DEF CreateWorkorder, Free, Inductive, TypeOK
<1>2. CASE \E outcome \in Free : Rollback(r, outcome)
  BY <1>2, RollbackFacts
<1>3. CASE Proceed(r, "find", [tx[r] EXCEPT !.again = TRUE]) /\ CodeTaken(tx[r].req.code, None)
  <2> DEFINE session == [tx[r] EXCEPT !.again = TRUE]
  <2>1. /\ SameRows(tx[r], session) /\ session.day = tx[r].day /\ session.edit = tx[r].edit
        /\ session.req = tx[r].req /\ session.w = tx[r].w
    BY <1>1 DEF Session, SameRows
  <2>2. Proceed(r, "find", session)
    BY <1>3
  <2>. HIDE DEF session
  <2>3. Reads(r) /\ pc'[r] = "find" /\ tx'[r] = session
    BY <1>1, <2>1, <2>2, ReadFacts DEF Free
  <2>4. QED
    BY <1>1, <1>3, <2>1, <2>3
<1>4. ASSUME NEW w \in Workorders,
             Write(r, w, "duplicate", [tx[r] EXCEPT !.w = w, !.wedit = NewWorkorder(tx[r].req)])
      PROVE  /\ Writes(r, w) /\ pc'[r] = "duplicate" /\ tx'[r].w = w
             /\ tx'[r].wedit.code = tx[r].req.code
  <2> DEFINE session == [tx[r] EXCEPT !.w = w, !.wedit = NewWorkorder(tx[r].req)]
  <2>1. /\ SameRows(tx[r], session) /\ session.day = tx[r].day
        /\ session.req = tx[r].req /\ session.w = w
        /\ session.wedit = NewWorkorder(tx[r].req)
    BY <1>1 DEF Session, SameRows
  <2>2. Write(r, w, "duplicate", session)
    BY <1>4
  <2>. HIDE DEF session
  <2>3. Writes(r, w) /\ pc'[r] = "duplicate" /\ tx'[r] = session
    BY <1>1, <2>1, <2>2, FlushFacts DEF Free
  <2>4. QED
    BY <2>1, <2>3 DEF NewWorkorder
<1>5. QED
  BY <1>1, <1>2, <1>3, <1>4 DEF CreateWorkorder, Free

\* The SELECT before the INSERT of a day.
LEMMA DuplicateMoves ==
    ASSUME Inductive, NEW r \in Slots, CheckDuplicate(r)
    PROVE  \/ Ends(r)
           \/ pc[r] = "duplicate" /\ pc'[r] = "insert" /\ Reads(r) /\ tx'[r] = tx[r]
BY RollbackFacts, PassFacts DEF CheckDuplicate, Free

\* The INSERT of a day passes the unique indexes.
LEMMA InsertMoves ==
    ASSUME Inductive, NEW r \in Slots, InsertDay(r)
    PROVE  \/ Ends(r)
           \/ /\ pc[r] = "insert" /\ pc'[r] = "commit" /\ Writes(r, tx[r].s)
              /\ tx'[r].w = tx[r].w /\ tx'[r].wo = tx[r].wo /\ tx'[r].wedit = tx[r].wedit
              /\ ~DayTaken(DayKey(tx'[r].edit), None) /\ HoldersOfDay(DayKey(tx'[r].edit), r) = {}
              /\ ~ClientTaken(tx[r].req.client) /\ HoldersOfClient(tx[r].req.client, r) = {}
<1>1. pc[r] = "insert" /\ pc[r] \notin Free /\ tx[r] \in Session
  BY DEF InsertDay, Free, Inductive, TypeOK
<1>2. CASE \E outcome \in Free : Rollback(r, outcome)
  BY <1>2, RollbackFacts
<1>3. CASE /\ ~ClientTaken(tx[r].req.client) /\ HoldersOfClient(tx[r].req.client, r) = {}
           /\ ~DayTaken(<<tx[r].w, tx[r].req.date>>, None)
           /\ HoldersOfDay(<<tx[r].w, tx[r].req.date>>, r) = {}
           /\ Write(r, tx[r].s, "commit", [tx[r] EXCEPT !.edit = NewDay(tx[r].w, tx[r].req)])
  <2> DEFINE session == [tx[r] EXCEPT !.edit = NewDay(tx[r].w, tx[r].req)]
  <2>1. /\ SameRows(tx[r], session) /\ session.day = tx[r].day
        /\ session.req = tx[r].req /\ session.w = tx[r].w /\ session.wo = tx[r].wo
        /\ session.wedit = tx[r].wedit /\ session.edit = NewDay(tx[r].w, tx[r].req)
    BY <1>1 DEF Session, SameRows
  <2>2. Write(r, tx[r].s, "commit", session)
    BY <1>3
  <2>. HIDE DEF session
  <2>3. Writes(r, tx[r].s) /\ pc'[r] = "commit" /\ tx'[r] = session
    BY <1>1, <2>1, <2>2, FlushFacts DEF Free
  <2>4. DayKey(tx'[r].edit) = <<tx[r].w, tx[r].req.date>>
    BY <2>1, <2>3 DEF NewDay, DayKey
  <2>5. QED
    BY <1>1, <1>3, <2>1, <2>3, <2>4
<1>4. QED
  BY <1>1, <1>2, <1>3 DEF InsertDay, Free

\* The statements of the operations on a day.
LEMMA DayMoves ==
    ASSUME Inductive, NEW r \in Slots, DayStep(r)
    PROVE  /\ tx[r].op \in DayOps \cup {"delete_attachment"}
           /\ \/ Ends(r)
              \/ /\ pc[r] = "flush" /\ Writes(r, tx[r].s) /\ tx'[r] = tx[r]
                 /\ pc'[r] = IF tx[r].edit.date # tx[r].day.date THEN "reindex"
                                                                 ELSE AfterFlush(tx[r])
              \/ /\ pc[r] = "reindex" /\ Reads(r) /\ tx'[r] = tx[r]
                 /\ ~DayTaken(DayKey(tx[r].edit), tx[r].s)
                 /\ HoldersOfDay(DayKey(tx[r].edit), r) = {}
              \/ pc[r] \in {"count", "parent", "aggregate"} /\ Reads(r)
<1>1. tx[r].op \in DayOps \cup {"delete_attachment"}
  <2>1. pc[r] \in {"flush", "reindex"} => tx[r].op \in DayOps
    BY Labels
  <2>2. QED
    BY <2>1 DEF DayStep, FlushDay, ReindexDay, CountFiles, LoadParent, CapUpdate, CapCompletion,
               CloseParentAfterAdminEdit, ReopenParent, DayOps, Edits, Changes
<1>. SUFFICES \/ Ends(r)
              \/ /\ pc[r] = "flush" /\ Writes(r, tx[r].s) /\ tx'[r] = tx[r]
                 /\ pc'[r] = IF tx[r].edit.date # tx[r].day.date THEN "reindex"
                                                                 ELSE AfterFlush(tx[r])
              \/ /\ pc[r] = "reindex" /\ Reads(r) /\ tx'[r] = tx[r]
                 /\ ~DayTaken(DayKey(tx[r].edit), tx[r].s)
                 /\ HoldersOfDay(DayKey(tx[r].edit), r) = {}
              \/ pc[r] \in {"count", "parent", "aggregate"} /\ Reads(r)
  BY <1>1
<1>2. tx[r] \in Session /\ pc[r] \in Free \cup Waiting
  BY DEF Inductive, TypeOK
<1>3. \A outcome \in Free : Rollback(r, outcome) => Ends(r)
  BY RollbackFacts
<1>4. AfterFlush(tx[r]) \notin Free
  BY DEF AfterFlush, Free
<1>5. CASE FlushDay(r)
  BY <1>4, <1>5, FlushedFacts DEF FlushDay, Free
<1>6. CASE ReindexDay(r)
  BY <1>3, <1>4, <1>6, PassFacts DEF ReindexDay, Free
<1>7. CASE CountFiles(r)
  BY <1>3, <1>7, PassFacts DEF CountFiles, Free
<1>8. ASSUME NEW label, label \notin Free, NEW w, NEW loaded, NEW edited, pc[r] \notin Free,
             Proceed(r, label, WithParent(tx[r], w, loaded, edited))
      PROVE  Reads(r)
  BY <1>2, <1>8, ParentFields, ReadFacts
<1>9. ASSUME NEW label, label \notin Free, NEW edited, pc[r] \notin Free,
             Proceed(r, label, WithEdit(tx[r], edited))
      PROVE  Reads(r)
  BY <1>2, <1>9, ParentFields, ReadFacts
<1>10. CASE LoadParent(r)
  BY <1>8, <1>10 DEF LoadParent, WithParent, Free
<1>11. CASE CapUpdate(r)
  BY <1>3, <1>11, PassFacts DEF CapUpdate, Free
<1>12. CASE CapCompletion(r)
  BY <1>3, <1>9, <1>12, PassFacts DEF CapCompletion, WithEdit, Free
<1>13. CASE CloseParentAfterAdminEdit(r)
  BY <1>9, <1>13, PassFacts DEF CloseParentAfterAdminEdit, WithEdit, Free
<1>14. CASE ReopenParent(r)
  BY <1>8, <1>14, PassFacts DEF ReopenParent, WithParent, Free
<1>15. QED
  BY <1>5, <1>6, <1>7, <1>10, <1>11, <1>12, <1>13, <1>14 DEF DayStep

\* The statements that write a workorder's row.
LEMMA ParentMoves ==
    ASSUME Inductive, NEW r \in Slots, ParentStep(r)
    PROVE  \/ Ends(r)
           \/ pc[r] = "aggregate" /\ pc'[r] = "flush_parent" /\ Reads(r)
           \/ /\ pc[r] = "flush_parent" /\ Writes(r, tx[r].w) /\ tx'[r] = tx[r]
              /\ pc'[r] = IF tx[r].wedit.code # tx[r].wo.code THEN "recode" ELSE "commit"
           \/ /\ pc[r] = "recode" /\ pc'[r] = "commit" /\ Reads(r) /\ tx'[r] = tx[r]
              /\ ~CodeTaken(tx[r].wedit.code, tx[r].w)
              /\ HoldersOfCode(tx[r].wedit.code, r) = {}
<1>1. tx[r] \in Session
  BY DEF Inductive, TypeOK
<1>2. \A outcome \in Free : Rollback(r, outcome) => Ends(r)
  BY RollbackFacts
<1>3. ASSUME NEW edited, pc[r] = "aggregate",
             Proceed(r, "flush_parent", WithEdit(tx[r], edited))
      PROVE  Reads(r) /\ pc'[r] = "flush_parent"
  BY <1>1, <1>3, ParentFields, ReadFacts DEF Free
<1>4. CASE ReconcileWorkorder(r)
  BY <1>2, <1>3, <1>4 DEF ReconcileWorkorder, WithEdit, Free
<1>5. CASE FlushParent(r)
  BY <1>5, FlushedFacts DEF FlushParent, Free
<1>6. CASE RecodeWorkorder(r)
  BY <1>2, <1>6, PassFacts DEF RecodeWorkorder, Free
<1>7. QED
  BY <1>4, <1>5, <1>6 DEF ParentStep

\* The statements on a file.
LEMMA FileMoves ==
    ASSUME Inductive, NEW r \in Slots, FileStep(r)
    PROVE  /\ tx[r].op \in {"upload_attachment", "delete_attachment"}
           /\ \/ Ends(r)
              \/ /\ pc[r] \in {"count", "store", "recount"} /\ Reads(r) /\ tx'[r] = tx[r]
                 /\ tx[r].op = "upload_attachment" => pc'[r] \in {"store", "attach"}
              \/ /\ pc[r] = "attach" /\ pc'[r] = "commit" /\ Writes(r, tx[r].a) /\ tx'[r] = tx[r]
                 /\ ActiveFiles(tx[r].s, attachments) = {} /\ HoldersOfFile(tx[r].s, r) = {}
              \/ pc[r] = "detach" /\ Writes(r, tx[r].a) /\ tx'[r] = tx[r]
<1>1. tx[r].op \in {"upload_attachment", "delete_attachment"}
  BY Labels DEF FileStep, CheckNoFile, StoreObject, AttachFile, DetachFile, RecountFiles
<1>. SUFFICES \/ Ends(r)
              \/ /\ pc[r] \in {"count", "store", "recount"} /\ Reads(r) /\ tx'[r] = tx[r]
                 /\ tx[r].op = "upload_attachment" => pc'[r] \in {"store", "attach"}
              \/ /\ pc[r] = "attach" /\ pc'[r] = "commit" /\ Writes(r, tx[r].a) /\ tx'[r] = tx[r]
                 /\ ActiveFiles(tx[r].s, attachments) = {} /\ HoldersOfFile(tx[r].s, r) = {}
              \/ pc[r] = "detach" /\ Writes(r, tx[r].a) /\ tx'[r] = tx[r]
  BY <1>1
<1>2. \A outcome \in Free : Rollback(r, outcome) => Ends(r)
  BY RollbackFacts
<1>3. CASE CheckNoFile(r)
  BY <1>2, <1>3, PassFacts DEF CheckNoFile, Free
<1>4. CASE StoreObject(r)
  <2>1. CASE \E outcome \in Free : Answer(r, outcome) /\ UNCHANGED tables
    BY <2>1 DEF Ends
  <2>2. CASE pc' = [pc EXCEPT ![r] = "attach"] /\ UNCHANGED <<tables, tx, locks>>
    BY <1>4, <2>2 DEF StoreObject, Reads, Works, OthersStand, SameRows, Free, Inductive, TypeOK
  <2>3. QED
    BY <1>4, <2>1, <2>2 DEF StoreObject, Free
<1>5. CASE AttachFile(r)
  BY <1>2, <1>5, FlushedFacts DEF AttachFile, Free
<1>6. CASE DetachFile(r)
  BY <1>6, FlushedFacts DEF DetachFile, Free
<1>7. CASE RecountFiles(r)
  <2>1. pc[r] = "recount" /\ tx[r].op = "delete_attachment"
    BY <1>7, Labels DEF RecountFiles
  <2>2. QED
    BY <1>7, <2>1, PassFacts DEF RecountFiles, Free
<1>8. QED
  BY <1>3, <1>4, <1>5, <1>6, <1>7 DEF FileStep

-----------------------------------------------------------------------------
(* The unique keys. *)

\* Only a start_drive and an edit that moves a day claim a day, only a start_drive
\* and a PATCH that renames a workorder claim a code.
ClaimsAre ==
    \A r \in Slots :
        /\ ClaimsDay(r) =>
              \/ tx[r].op = "start_drive" /\ pc[r] = "commit"
              \/ tx[r].op \in Edits /\ pc[r] \in {"parent", "aggregate", "flush_parent", "commit"}
                 /\ tx[r].day # None
        /\ ClaimsCode(r) =>
              \/ tx[r].op = "start_drive" /\ pc[r] \in {"duplicate", "insert", "commit"} /\ tx[r].wo = None
              \/ tx[r].op = "update_workorder" /\ pc[r] = "commit" /\ tx[r].wo # None
        /\ ClaimsFile(r) =>
              /\ tx[r].a \in locks[r] \cap Attachments
              /\ tx[r].s \in Submissions /\ tx[r].s \notin locks[r]

\* The sessions of the invariant claim no more than ClaimsAre says.
LEMMA InductiveClaims == Inductive => ClaimsAre
<1> SUFFICES ASSUME Inductive, NEW r \in Slots
             PROVE  /\ ClaimsDay(r) =>
                          \/ tx[r].op = "start_drive" /\ pc[r] = "commit"
                          \/ /\ tx[r].op \in Edits /\ tx[r].day # None
                             /\ pc[r] \in {"parent", "aggregate", "flush_parent", "commit"}
                    /\ ClaimsCode(r) =>
                          \/ /\ tx[r].op = "start_drive" /\ pc[r] \in {"duplicate", "insert", "commit"}
                             /\ tx[r].wo = None
                          \/ tx[r].op = "update_workorder" /\ pc[r] = "commit" /\ tx[r].wo # None
                    /\ ClaimsFile(r) =>
                          /\ tx[r].a \in locks[r] \cap Attachments
                          /\ tx[r].s \in Submissions /\ tx[r].s \notin locks[r]
  BY DEF ClaimsAre
<1> USE StoreAssumption
<1>1. CASE pc[r] \in Free
  BY <1>1 DEF Inductive, Sessions, SessionOK, NoSession, ClaimsDay, ClaimsCode, ClaimsFile, Blank
<1>2. CASE pc[r] \notin Free /\ tx[r].op = "start_drive"
  <2>1. StartSession(r) /\ ~ClaimsFile(r)
    BY <1>2, SessionOf DEF ClaimsFile
  <2>2. ClaimsDay(r) => pc[r] = "commit"
    BY <2>1 DEF StartSession, ClaimsDay
  <2>3. ClaimsCode(r) => pc[r] \in {"duplicate", "insert", "commit"}
    BY <2>1 DEF StartSession, ClaimsCode
  <2>4. ClaimsCode(r) => tx[r].wo = None
    BY <2>1, <2>3 DEF StartSession, ClaimsCode
  <2>5. QED
    BY <1>2, <2>1, <2>2, <2>3, <2>4
<1>3. CASE pc[r] \notin Free /\ tx[r].op \in DayOps
  <2>1. DaySession(r)
    BY <1>3, SessionOf
  <2>2. ~ClaimsCode(r)
    BY <2>1 DEF DaySession, ParentOf, ParentLoaded, ClaimsCode
  <2>3. ~ClaimsFile(r)
    BY <1>3 DEF ClaimsFile, DayOps, Edits, Changes
  <2>4. ASSUME ClaimsDay(r)
        PROVE  /\ tx[r].op \in Edits /\ tx[r].day # None
               /\ pc[r] \in {"parent", "aggregate", "flush_parent", "commit"}
    <3>1. tx[r].day # None /\ tx[r].op \in Edits
      BY <1>3, <2>1, <2>4 DEF DaySession, DayLoaded, ClaimsDay, DayOps
    <3>2. pc[r] \notin {"flush", "reindex"}
      BY <1>3, <2>1, <2>4, <3>1 DEF DaySession, DayLoaded, Locked, Unlocked, ClaimsDay, Edits
    <3>3. pc[r] \in DayPath[tx[r].op]
      BY <2>1 DEF DaySession
    <3>4. QED
      BY <3>1, <3>2, <3>3 DEF DayPath, Edits
  <2>5. QED
    BY <2>2, <2>3, <2>4
<1>4. CASE pc[r] \notin Free /\ tx[r].op = "upload_attachment"
  <2>1. UploadSession(r)
    BY <1>4, SessionOf
  <2>2. ~ClaimsDay(r)
    BY <2>1 DEF UploadSession, ClaimsDay
  <2>3. ~ClaimsCode(r)
    BY <2>1 DEF UploadSession, ClaimsCode
  <2>4. ClaimsFile(r) => locks[r] = {tx[r].a} /\ tx[r].a \in Attachments /\ tx[r].s \in Submissions
    BY <2>1 DEF UploadSession, DayLoaded, ClaimsFile
  <2>5. QED
    BY <2>2, <2>3, <2>4
<1>5. CASE pc[r] \notin Free /\ tx[r].op = "delete_attachment"
  <2>1. DeleteSession(r) /\ ~ClaimsFile(r)
    BY <1>5, SessionOf DEF ClaimsFile
  <2>2. ~ClaimsDay(r)
    BY <2>1 DEF DeleteSession, ParentOf, ParentLoaded, Locked, ClaimsDay
  <2>3. ~ClaimsCode(r)
    BY <2>1 DEF DeleteSession, ParentOf, ParentLoaded, ClaimsCode
  <2>4. QED
    BY <2>1, <2>2, <2>3
<1>6. CASE pc[r] \notin Free /\ tx[r].op = "update_workorder"
  BY <1>6, SessionOf DEF WorkorderSession, ParentLoaded, ClaimsDay, ClaimsCode, ClaimsFile
<1>7. QED
  BY <1>1, <1>2, <1>3, <1>4, <1>5, <1>6, SessionOf

\* The same of the state a step leads to.
LEMMA ClaimsNext == Inductive' => ClaimsAre'
BY InductiveClaims, PTL

\* A step that commits nothing keeps the keys apart, when what it claims is what
\* it had claimed or is free.
LEMMA ClaimsKeepKeyed ==
    ASSUME Inductive, Keyed, UNCHANGED tables, NEW r \in Slots, OthersStand(r),
           ClaimsDay(r)' =>
              \/ /\ ClaimsDay(r) /\ tx'[r].s = tx[r].s
                 /\ DayKey(tx'[r].edit) = DayKey(tx[r].edit)
              \/ /\ ~DayTaken(DayKey(tx'[r].edit), tx'[r].s)
                 /\ HoldersOfDay(DayKey(tx'[r].edit), r) = {},
           ClaimsCode(r)' =>
              \/ /\ ClaimsCode(r) /\ tx'[r].w = tx[r].w
                 /\ tx'[r].wedit.code = tx[r].wedit.code
              \/ /\ ~CodeTaken(tx'[r].wedit.code, tx'[r].w)
                 /\ HoldersOfCode(tx'[r].wedit.code, r) = {},
           ClaimsFile(r)' =>
              \/ ClaimsFile(r) /\ tx'[r].s = tx[r].s
              \/ ActiveFiles(tx'[r].s, attachments) = {} /\ HoldersOfFile(tx'[r].s, r) = {}
    PROVE  Keyed'
<1>1. UniqueDays' /\ UniqueCodes' /\ UniqueFiles'
  BY DEF tables, Keyed, UniqueDays, UniqueCodes, UniqueFiles, DayKey, ActiveFiles
<1>2. \A q \in Slots \ {r} : /\ ClaimsDay(q)' <=> ClaimsDay(q)
                             /\ ClaimsCode(q)' <=> ClaimsCode(q)
                             /\ ClaimsFile(q)' <=> ClaimsFile(q)
                             /\ tx'[q] = tx[q]
  BY DEF OthersStand, ClaimsDay, ClaimsCode, ClaimsFile
<1>5. \A s : ActiveFiles(s, attachments)' = ActiveFiles(s, attachments)
  BY DEF tables, ActiveFiles
<1>6. ASSUME ClaimsDay(r)'
      PROVE  /\ ~DayTaken(DayKey(tx'[r].edit), tx'[r].s)
             /\ \A q \in Slots \ {r} : ClaimsDay(q) => DayKey(tx[q].edit) # DayKey(tx'[r].edit)
  <2>1. CASE /\ ClaimsDay(r) /\ tx'[r].s = tx[r].s
             /\ DayKey(tx'[r].edit) = DayKey(tx[r].edit)
    BY <2>1 DEF Keyed, DaysClaimed
  <2>2. CASE /\ ~DayTaken(DayKey(tx'[r].edit), tx'[r].s)
             /\ HoldersOfDay(DayKey(tx'[r].edit), r) = {}
    BY <2>2 DEF HoldersOfDay, ClaimsDay
  <2>3. QED
    BY <1>6, <2>1, <2>2
<1>7. DaysClaimed'
  <2> SUFFICES ASSUME NEW p \in Slots, ClaimsDay(p)'
               PROVE  /\ ~DayTaken(DayKey(tx'[p].edit), tx'[p].s)
                      /\ \A q \in Slots \ {p} : ClaimsDay(q)' =>
                            DayKey(tx'[q].edit) # DayKey(tx'[p].edit)
    BY DEF DaysClaimed, DayTaken, DayKey, tables
  <2>1. CASE p = r
    BY <1>2, <1>6, <2>1
  <2>2. CASE p # r
    <3>1. ClaimsDay(p) /\ tx'[p] = tx[p]
      BY <1>2, <2>2
    <3>2. /\ ~DayTaken(DayKey(tx[p].edit), tx[p].s)
          /\ \A q \in Slots \ {p} : ClaimsDay(q) => DayKey(tx[q].edit) # DayKey(tx[p].edit)
      BY <3>1 DEF Keyed, DaysClaimed
    <3>3. \A q \in Slots \ {p} : ClaimsDay(q)' => DayKey(tx'[q].edit) # DayKey(tx'[p].edit)
      BY <1>2, <1>6, <2>2, <3>1, <3>2
    <3>4. QED
      BY <3>1, <3>2, <3>3
  <2>3. QED
    BY <2>1, <2>2
<1>8. ASSUME ClaimsCode(r)'
      PROVE  /\ ~CodeTaken(tx'[r].wedit.code, tx'[r].w)
             /\ \A q \in Slots \ {r} : ClaimsCode(q) => tx[q].wedit.code # tx'[r].wedit.code
  <2>1. CASE /\ ClaimsCode(r) /\ tx'[r].w = tx[r].w
             /\ tx'[r].wedit.code = tx[r].wedit.code
    BY <2>1 DEF Keyed, CodesClaimed
  <2>2. CASE /\ ~CodeTaken(tx'[r].wedit.code, tx'[r].w)
             /\ HoldersOfCode(tx'[r].wedit.code, r) = {}
    BY <2>2 DEF HoldersOfCode, ClaimsCode
  <2>3. QED
    BY <1>8, <2>1, <2>2
<1>9. CodesClaimed'
  <2> SUFFICES ASSUME NEW p \in Slots, ClaimsCode(p)'
               PROVE  /\ ~CodeTaken(tx'[p].wedit.code, tx'[p].w)
                      /\ \A q \in Slots \ {p} : ClaimsCode(q)' =>
                            tx'[q].wedit.code # tx'[p].wedit.code
    BY DEF CodesClaimed, CodeTaken, tables
  <2>1. CASE p = r
    BY <1>2, <1>8, <2>1
  <2>2. CASE p # r
    <3>1. ClaimsCode(p) /\ tx'[p] = tx[p]
      BY <1>2, <2>2
    <3>2. /\ ~CodeTaken(tx[p].wedit.code, tx[p].w)
          /\ \A q \in Slots \ {p} : ClaimsCode(q) => tx[q].wedit.code # tx[p].wedit.code
      BY <3>1 DEF Keyed, CodesClaimed
    <3>3. \A q \in Slots \ {p} : ClaimsCode(q)' => tx'[q].wedit.code # tx'[p].wedit.code
      BY <1>2, <1>8, <2>2, <3>1, <3>2
    <3>4. QED
      BY <3>1, <3>2, <3>3
  <2>3. QED
    BY <2>1, <2>2
<1>10. \A q \in Slots \ {r} : ClaimsFile(q) => Attachments \cap locks[q] # {}
  BY InductiveClaims DEF ClaimsAre
<1>11. ASSUME ClaimsFile(r)'
       PROVE  /\ ActiveFiles(tx'[r].s, attachments) = {}
              /\ \A q \in Slots \ {r} : ClaimsFile(q) => tx[q].s # tx'[r].s
  <2>1. CASE ClaimsFile(r) /\ tx'[r].s = tx[r].s
    BY <2>1 DEF Keyed, FilesClaimed
  <2>2. CASE ActiveFiles(tx'[r].s, attachments) = {} /\ HoldersOfFile(tx'[r].s, r) = {}
    BY <1>10, <2>2 DEF HoldersOfFile
  <2>3. QED
    BY <1>11, <2>1, <2>2
<1>12. FilesClaimed'
  BY <1>2, <1>5, <1>11 DEF FilesClaimed, Keyed
<1>13. QED
  BY <1>1, <1>7, <1>9, <1>12 DEF Keyed

\* A request that is answered claims nothing any more.
LEMMA EndsKeepKeyed ==
    ASSUME Inductive, Keyed, NEW r \in Slots, Ends(r)
    PROVE  Keyed'
<1>1. /\ UNCHANGED tables /\ OthersStand(r)
      /\ pc'[r] \in Free /\ tx'[r] = Blank /\ locks'[r] = {}
  BY DEF Ends, Answer, OthersStand, Inductive, TypeOK
<1>2. ~ClaimsDay(r)' /\ ~ClaimsCode(r)' /\ ~ClaimsFile(r)'
  BY <1>1 DEF ClaimsDay, ClaimsCode, ClaimsFile, Blank
<1>3. QED
  BY <1>1, <1>2, ClaimsKeepKeyed

\* start_drive claims a code and a day that the indexes let in.
LEMMA StartDriveKeepsKeyed ==
    ASSUME Inductive, Inductive', Keyed, NEW r \in Slots, StartDriveStep(r)
    PROVE  Keyed'
<1> USE StoreAssumption
<1>1. /\ tx[r].op = "start_drive" /\ StartSession(r)
      /\ tx[r].s \in Submissions
  BY Labels, SessionOf DEF StartDriveStep, FindWorkorder, CreateWorkorder, CheckDuplicate,
                           InsertDay, Free, StartSession
<1>2. ClaimsAre'
  BY ClaimsNext
<1>3. CASE Ends(r)
  BY <1>3, EndsKeepKeyed
<1>4. CASE pc[r] \in {"find", "create"} /\ Reads(r) /\ pc'[r] # "commit"
  <2>1. UNCHANGED tables /\ OthersStand(r) /\ locks'[r] = {} /\ tx'[r].op = "start_drive"
    BY <1>1, <1>4 DEF Reads, Works, SameRows, StartSession
  <2>2. ~ClaimsDay(r)' /\ ~ClaimsCode(r)' /\ ~ClaimsFile(r)'
    BY <2>1 DEF ClaimsDay, ClaimsCode, ClaimsFile
  <2>3. QED
    BY <2>1, <2>2, ClaimsKeepKeyed
<1>5. ASSUME NEW w \in Workorders, Writes(r, w), tx'[r].w = w, pc'[r] = "duplicate",
             tx'[r].wedit.code = tx[r].req.code,
             ~CodeTaken(tx[r].req.code, None), HoldersOfCode(tx[r].req.code, r) = {}
      PROVE  Keyed'
  <2>1. UNCHANGED tables /\ OthersStand(r) /\ tx'[r].op = "start_drive"
    BY <1>1, <1>5 DEF Writes, Works, SameRows
  <2>2. ~ClaimsDay(r)' /\ ~ClaimsFile(r)'
    BY <1>2, <1>5, <2>1 DEF ClaimsAre, ClaimsFile
  <2>3. ~CodeTaken(tx'[r].wedit.code, tx'[r].w) /\ HoldersOfCode(tx'[r].wedit.code, r) = {}
    BY <1>5 DEF CodeTaken
  <2>4. QED
    BY <2>1, <2>2, <2>3, ClaimsKeepKeyed
<1>a. CASE pc[r] = "duplicate" /\ pc'[r] = "insert" /\ Reads(r) /\ tx'[r] = tx[r]
  <2>1. UNCHANGED tables /\ OthersStand(r) /\ locks'[r] = locks[r]
    BY <1>a DEF Reads, Works
  <2>2. ~ClaimsFile(r)'
    BY <1>1, <1>a DEF ClaimsFile
  <2>3. (ClaimsDay(r)' => ClaimsDay(r)) /\ (ClaimsCode(r)' => ClaimsCode(r))
    BY <1>a, <2>1 DEF ClaimsDay, ClaimsCode
  <2>4. QED
    BY <1>a, <2>1, <2>2, <2>3, ClaimsKeepKeyed
<1>6. CASE /\ pc[r] = "insert" /\ pc'[r] = "commit" /\ Writes(r, tx[r].s)
           /\ tx'[r].w = tx[r].w /\ tx'[r].wo = tx[r].wo /\ tx'[r].wedit = tx[r].wedit
           /\ ~DayTaken(DayKey(tx'[r].edit), None) /\ HoldersOfDay(DayKey(tx'[r].edit), r) = {}
  <2>1. UNCHANGED tables /\ OthersStand(r) /\ tx'[r].op = "start_drive" /\ tx'[r].s = tx[r].s
        /\ locks'[r] = locks[r] \cup {tx[r].s}
    BY <1>1, <1>6 DEF Writes, Works, SameRows
  <2>2. ~ClaimsFile(r)'
    BY <2>1 DEF ClaimsFile
  <2>3. ClaimsCode(r)' => ClaimsCode(r)
    BY <1>1, <1>6, <2>1 DEF ClaimsCode
  <2>4. ~DayTaken(DayKey(tx'[r].edit), tx'[r].s)
    BY <1>1, <1>6 DEF DayTaken
  <2>5. QED
    BY <1>6, <2>1, <2>2, <2>3, <2>4, ClaimsKeepKeyed
<1>7. QED
  BY <1>3, <1>4, <1>5, <1>a, <1>6, FindMoves, CreateMoves, DuplicateMoves, InsertMoves
  DEF StartDriveStep

\* An edit claims the date it moves its day to once the index let it in.
LEMMA DayKeepsKeyed ==
    ASSUME Inductive, Inductive', Keyed, NEW r \in Slots, DayStep(r)
    PROVE  Keyed'
<1>1. CASE Ends(r)
  BY <1>1, EndsKeepKeyed
<1>2. CASE Works(r)
  <2>1. UNCHANGED tables /\ OthersStand(r) /\ tx'[r].op = tx[r].op /\ tx'[r].s = tx[r].s
        /\ tx'[r].day = tx[r].day
    BY <1>2 DEF Works, SameRows
  <2>2. tx'[r].op \in DayOps \cup {"delete_attachment"}
    BY <2>1, DayMoves
  <2>3. ~ClaimsCode(r)' /\ ~ClaimsFile(r)'
    BY <2>2, ClaimsNext DEF ClaimsAre, ClaimsFile, DayOps, Edits, Changes
  <2>4. CASE pc[r] = "flush" /\ tx'[r] = tx[r]
             /\ (tx[r].edit.date # tx[r].day.date => pc'[r] = "reindex")
    <3>1. ~ClaimsDay(r)'
      BY <2>2, <2>4, ClaimsNext DEF ClaimsAre, ClaimsDay, DayOps, Edits, Changes
    <3>2. QED
      BY <2>1, <2>3, <3>1, ClaimsKeepKeyed
  <2>5. CASE /\ tx'[r] = tx[r]
             /\ ~DayTaken(DayKey(tx[r].edit), tx[r].s)
             /\ HoldersOfDay(DayKey(tx[r].edit), r) = {}
    BY <2>1, <2>3, <2>5, ClaimsKeepKeyed
  <2>6. CASE pc[r] \in {"count", "parent", "aggregate"} /\ Reads(r)
    <3>1. locks'[r] = locks[r] /\ tx'[r].edit = tx[r].edit
      BY <2>6 DEF Reads
    <3>2. ClaimsDay(r)' => ClaimsDay(r)
      BY <2>1, <2>6, <3>1 DEF ClaimsDay
    <3>3. QED
      BY <2>1, <2>3, <3>1, <3>2, ClaimsKeepKeyed
  <2>7. QED
    BY <1>2, <2>4, <2>5, <2>6, DayMoves, EndsKeepKeyed
<1>3. QED
  BY <1>1, <1>2, DayMoves DEF Reads, Writes

\* A PATCH that renames a workorder claims its code once the index let it in.
LEMMA ParentKeepsKeyed ==
    ASSUME Inductive, Inductive', Keyed, NEW r \in Slots, ParentStep(r)
    PROVE  Keyed'
<1>1. CASE Ends(r)
  BY <1>1, EndsKeepKeyed
<1>2. CASE Works(r) /\ ~Ends(r)
  <2>1. UNCHANGED tables /\ OthersStand(r) /\ tx'[r].op = tx[r].op /\ tx'[r].s = tx[r].s
        /\ tx'[r].day = tx[r].day
    BY <1>2 DEF Works, SameRows
  <2>2. /\ pc[r] = "flush_parent" => tx[r].op \notin {"start_drive", "upload_attachment"}
        /\ pc[r] = "recode" => tx[r].op # "upload_attachment"
    BY Labels DEF DayOps, Edits, Changes
  <2>3. ~ClaimsFile(r)'
    BY <1>2, <2>1, <2>2, ParentMoves DEF ClaimsFile
  <2>4. tx'[r].edit = tx[r].edit /\ (tx[r].s \in Submissions \cap locks'[r] => tx[r].s \in locks[r])
    BY <1>2, ParentMoves, SessionRows, StoreAssumption DEF Reads, Writes
  <2>5. ClaimsDay(r)' => ClaimsDay(r)
    BY <1>2, <2>1, <2>4, ParentMoves DEF ClaimsDay
  <2>6. CASE pc'[r] = "flush_parent"
    BY <2>1, <2>3, <2>4, <2>5, <2>6, ClaimsNext, ClaimsKeepKeyed DEF ClaimsAre
  <2>7. CASE /\ pc[r] = "flush_parent" /\ tx'[r] = tx[r]
             /\ pc'[r] = IF tx[r].wedit.code # tx[r].wo.code THEN "recode" ELSE "commit"
    <3>1. ~ClaimsCode(r)'
      BY <2>2, <2>7, ClaimsNext DEF ClaimsAre, ClaimsCode
    <3>2. QED
      BY <2>1, <2>3, <2>4, <2>5, <3>1, ClaimsKeepKeyed
  <2>8. CASE /\ tx'[r] = tx[r]
             /\ ~CodeTaken(tx[r].wedit.code, tx[r].w)
             /\ HoldersOfCode(tx[r].wedit.code, r) = {}
    BY <2>1, <2>3, <2>5, <2>8, ClaimsKeepKeyed
  <2>9. QED
    BY <1>2, <2>6, <2>7, <2>8, ParentMoves
<1>3. QED
  BY <1>1, <1>2, ParentMoves DEF Reads, Writes

\* An upload claims its day's file once the index let it in.
LEMMA FileKeepsKeyed ==
    ASSUME Inductive, Inductive', Keyed, NEW r \in Slots, FileStep(r)
    PROVE  Keyed'
<1>1. CASE Ends(r)
  BY <1>1, EndsKeepKeyed
<1>2. CASE Works(r) /\ ~Ends(r)
  <2>1. UNCHANGED tables /\ OthersStand(r) /\ tx'[r].op = tx[r].op
    BY <1>2 DEF Works, SameRows
  <2>2. ~ClaimsDay(r)' /\ ~ClaimsCode(r)'
    BY <2>1, FileMoves, ClaimsNext DEF ClaimsAre, Edits
  <2>3. ClaimsFile(r)' => /\ ActiveFiles(tx'[r].s, attachments) = {}
                          /\ HoldersOfFile(tx'[r].s, r) = {}
    BY <1>2, <2>1, FileMoves, Labels DEF ClaimsFile
  <2>4. QED
    BY <2>1, <2>2, <2>3, ClaimsKeepKeyed
<1>3. QED
  BY <1>1, <1>2, FileMoves DEF Reads, Writes

\* A request that arrives claims nothing.
LEMMA ArriveMoves ==
    ASSUME Inductive, NEW r \in Slots, Arrive(r)
    PROVE  /\ pc[r] \in Free /\ UNCHANGED tables /\ OthersStand(r) /\ locks'[r] = {}
           /\ pc'[r] # "commit"
<1>1. locks[r] = {} \/ pc[r] \notin Free
  BY DEF Inductive, Sessions, SessionOK, NoSession
<1>2. ASSUME NEW label, NEW session, Proceed(r, label, session), label # "commit", pc[r] \in Free
      PROVE  UNCHANGED tables /\ OthersStand(r) /\ locks'[r] = {} /\ pc'[r] # "commit"
  BY <1>1, <1>2 DEF Proceed, OthersStand, Inductive, TypeOK
<1>3. ASSUME NEW outcome \in Free, Rollback(r, outcome)
      PROVE  UNCHANGED tables /\ OthersStand(r) /\ locks'[r] = {} /\ pc'[r] # "commit"
  BY <1>3 DEF Rollback, Answer, OthersStand, Inductive, TypeOK, Free
<1>4. ASSUME NEW u \in Users, NEW s \in Submissions,
             NEW client \in ClientIds \cup {None}, NEW code \in Codes,
             NEW region \in Regions \cup {None}, NEW total \in Totals \cup {None},
             NEW date \in Dates, StartDrive(r, u, s, client, code, region, total, date)
      PROVE  /\ pc[r] \in Free
             /\ UNCHANGED tables /\ OthersStand(r) /\ locks'[r] = {} /\ pc'[r] # "commit"
  BY <1>2, <1>4 DEF StartDrive, Accepts
<1>5. ASSUME NEW u, NEW s, EndDrive(r, u, s) \/ CompleteSubmission(r, u, s) \/ ReopenSubmission(r, u, s)
      PROVE  /\ pc[r] \in Free
             /\ UNCHANGED tables /\ OthersStand(r) /\ locks'[r] = {} /\ pc'[r] # "commit"
  BY <1>2, <1>3, <1>5
  DEF EndDrive, CompleteSubmission, ReopenSubmission, AcceptsDay, Accepts, LoadDay, Free
<1>6. ASSUME NEW u, NEW s, NEW version, NEW date, NEW grids,
             \/ UpdateSubmission(r, u, s, version, date, grids)
             \/ UpdateAdminSubmission(r, u, s, version, date, grids)
      PROVE  /\ pc[r] \in Free
             /\ UNCHANGED tables /\ OthersStand(r) /\ locks'[r] = {} /\ pc'[r] # "commit"
  BY <1>2, <1>3, <1>6
  DEF UpdateSubmission, UpdateAdminSubmission, EditDay, AcceptsDay, Accepts, LoadDay, Free
<1>7. ASSUME NEW u, NEW s, NEW a, UploadAttachment(r, u, s, a)
      PROVE  /\ pc[r] \in Free
             /\ UNCHANGED tables /\ OthersStand(r) /\ locks'[r] = {} /\ pc'[r] # "commit"
  BY <1>2, <1>3, <1>7 DEF UploadAttachment, Accepts, Free
<1>8. ASSUME NEW u, NEW w, NEW code, NEW region, NEW total,
             UpdateWorkorder(r, u, w, code, region, total)
      PROVE  /\ pc[r] \in Free
             /\ UNCHANGED tables /\ OthersStand(r) /\ locks'[r] = {} /\ pc'[r] # "commit"
  BY <1>2, <1>3, <1>8 DEF UpdateWorkorder, Accepts, Free
<1>9. ASSUME NEW u, NEW a, DeleteAttachment(r, u, a)
      PROVE  /\ pc[r] \in Free
             /\ UNCHANGED tables /\ OthersStand(r) /\ locks'[r] = {} /\ pc'[r] # "commit"
  BY <1>2, <1>3, <1>9 DEF DeleteAttachment, Accepts, Free
<1>10. QED
  BY <1>4, <1>5, <1>6, <1>7, <1>8, <1>9 DEF Arrive

\* The request holds no row yet, so no key.
LEMMA ArriveKeepsKeyed ==
    ASSUME Inductive, Keyed, NEW r \in Slots, Arrive(r)
    PROVE  Keyed'
<1>1. UNCHANGED tables /\ OthersStand(r) /\ locks'[r] = {} /\ pc'[r] # "commit"
  BY ArriveMoves
<1>2. ~ClaimsDay(r)' /\ ~ClaimsCode(r)' /\ ~ClaimsFile(r)'
  BY <1>1 DEF ClaimsDay, ClaimsCode, ClaimsFile
<1>3. QED
  BY <1>1, <1>2, ClaimsKeepKeyed

\* A commit gives a day the key it had, or the one its transaction claimed.
LEMMA CommittedDayKey ==
    ASSUME Inductive, NEW r \in Slots, Commit(r), NEW s \in Submissions, submissions'[s] # None
    PROVE  \/ submissions[s] # None /\ DayKey(submissions'[s]) = DayKey(submissions[s])
           \/ /\ ClaimsDay(r) /\ s = tx[r].s
              /\ DayKey(submissions'[s]) = DayKey(tx[r].edit)
<1>1. /\ submissions'[s] = IF s \in locks[r] THEN FlushedDay(submissions[s], tx[r].day, tx[r].edit)
                                             ELSE submissions[s]
      /\ pc[r] = "commit"
  BY DEF Commit, DaysSeenBy
<1>2. CASE s \notin locks[r]
  BY <1>1, <1>2
<1>3. CASE s \in locks[r] /\ tx[r].op = "start_drive" /\ StartSession(r)
  <2>1. s = tx[r].s /\ tx[r].day = None
    BY <1>1, <1>3, WrittenDay DEF StartSession
  <2>2. ClaimsDay(r)
    BY <1>1, <1>3, <2>1 DEF ClaimsDay
  <2>3. QED
    BY <1>1, <1>3, <2>1, <2>2, FlushedNewDay
<1>4. CASE s \in locks[r] /\ tx[r].op \in DayOps /\ DaySession(r)
  <2>a. s = tx[r].s /\ DayLoaded(tx[r]) /\ tx[r].edit \in Submission
        /\ tx[r].edit.workorder = tx[r].day.workorder
    BY <1>1, <1>4, WrittenDay DEF DaySession
  <2>1. /\ s = tx[r].s /\ submissions[s] \in Submission /\ submissions[s] # None
        /\ tx[r].day \in Submission /\ tx[r].edit \in Submission /\ tx[r].day # None
        /\ tx[r].edit.workorder = submissions[s].workorder
    BY <2>a, StoreAssumption DEF DayLoaded
  <2>2. /\ submissions'[s].workorder = submissions[s].workorder
        /\ submissions'[s].date = IF tx[r].edit.date = tx[r].day.date THEN submissions[s].date
                                                                      ELSE tx[r].edit.date
    BY <1>1, <1>4, <2>1 DEF FlushedDay, Column, Submission
  <2>3. CASE tx[r].edit.date = tx[r].day.date
    BY <2>1, <2>2, <2>3 DEF DayKey
  <2>4. CASE tx[r].edit.date # tx[r].day.date
    BY <1>1, <1>4, <2>1, <2>2, <2>4 DEF DayKey, ClaimsDay
  <2>5. QED
    BY <2>3, <2>4
<1>5. QED
  BY <1>1, <1>2, <1>3, <1>4, WrittenDay

\* A commit gives a workorder the code it had, or the one its transaction claimed.
LEMMA CommittedCode ==
    ASSUME Inductive, NEW r \in Slots, Commit(r), NEW w \in Workorders, workorders'[w] # None
    PROVE  \/ workorders[w] # None /\ workorders'[w].code = workorders[w].code
           \/ ClaimsCode(r) /\ w = tx[r].w /\ workorders'[w].code = tx[r].wedit.code
<1>1. /\ workorders'[w] = IF w \in locks[r]
                          THEN FlushedParent(workorders[w], tx[r].wo, tx[r].wedit)
                          ELSE workorders[w]
      /\ pc[r] = "commit"
  BY DEF Commit, ParentsSeenBy
<1>2. CASE w \notin locks[r]
  BY <1>1, <1>2
<1>3. CASE w \in locks[r] /\ tx[r].wo = None
  <2>1. w = tx[r].w /\ ClaimsCode(r)
    BY <1>1, <1>3, WrittenParent DEF ClaimsCode
  <2>2. QED
    BY <1>1, <1>3, <2>1, FlushedParentIsParent
<1>4. CASE w \in locks[r] /\ tx[r].wo # None
  <2>1. /\ w = tx[r].w /\ tx[r].wedit \in Workorder /\ tx[r].wo \in Workorder
        /\ workorders[w] \in Workorder /\ workorders[w] # None
    BY <1>1, <1>4, WrittenParent, StoreAssumption
  <2>2. workorders'[w].code = IF tx[r].wedit.code = tx[r].wo.code THEN workorders[w].code
                                                                  ELSE tx[r].wedit.code
    BY <1>1, <1>4, <2>1 DEF FlushedParent, Column, Workorder
  <2>3. tx[r].wedit.code # tx[r].wo.code => ClaimsCode(r)
    BY <1>1, <1>4, <2>1 DEF ClaimsCode
  <2>4. QED
    BY <2>1, <2>2, <2>3
<1>5. QED
  BY <1>2, <1>3, <1>4

\* A commit makes no file active but the one its transaction claimed.
LEMMA CommittedActive ==
    ASSUME Inductive, NEW r \in Slots, Commit(r), NEW s, NEW a \in ActiveFiles(s, attachments')
    PROVE  \/ a \in ActiveFiles(s, attachments)
           \/ ClaimsFile(r) /\ s = tx[r].s /\ a = tx[r].a
<1>1. /\ a \in Attachments /\ attachments'[a] = [submission |-> s, active |-> TRUE]
      /\ attachments'[a] = IF a \in locks[r]
                           THEN [submission |-> tx[r].s, active |-> attachments[a] = None]
                           ELSE attachments[a]
      /\ pc[r] = "commit"
  BY DEF Commit, FilesSeenBy, ActiveFiles
<1>2. CASE a \notin locks[r]
  <2>1. attachments[a] = [submission |-> s, active |-> TRUE]
    BY <1>1, <1>2
  <2>2. QED
    BY <1>1, <2>1 DEF ActiveFiles
<1>3. CASE a \in locks[r]
  <2> DEFINE written == [submission |-> tx[r].s, active |-> attachments[a] = None]
             active == [submission |-> s, active |-> TRUE]
  <2>a. written = active
    BY <1>1, <1>3
  <2>b. /\ written.submission = tx[r].s /\ active.submission = s
        /\ written.active = (attachments[a] = None) /\ active.active = TRUE
    OBVIOUS
  <2>c. tx[r].s = s /\ (attachments[a] = None) = TRUE
    <3>. HIDE DEF written, active
    <3>. QED
      BY <2>a, <2>b
  <2>1. attachments[a] = None /\ s = tx[r].s
    BY <2>c
  <2>2. tx[r].op = "upload_attachment" /\ a = tx[r].a
    BY <1>1, <1>3, <2>1, WrittenFile, StoreAssumption
  <2>3. QED
    BY <1>1, <2>1, <2>2 DEF ClaimsFile
<1>4. QED
  BY <1>2, <1>3

\* A commit makes no row with the key of another row, or a claimed one.
LEMMA CommitKeepsKeyed ==
    ASSUME Inductive, Keyed, NEW r \in Slots, Commit(r)
    PROVE  Keyed'
<1>1. pc'[r] = "ok" /\ tx'[r] = Blank /\ locks'[r] = {} /\ OthersStand(r)
  BY DEF Commit, Answer, OthersStand, Inductive, TypeOK
<1>2. ~ClaimsDay(r)' /\ ~ClaimsCode(r)' /\ ~ClaimsFile(r)'
  BY <1>1 DEF ClaimsDay, ClaimsCode, ClaimsFile
<1>3. \A q \in Slots \ {r} : /\ ClaimsDay(q)' <=> ClaimsDay(q)
                             /\ ClaimsCode(q)' <=> ClaimsCode(q)
                             /\ ClaimsFile(q)' <=> ClaimsFile(q)
                             /\ tx'[q] = tx[q]
  BY <1>1 DEF OthersStand, ClaimsDay, ClaimsCode, ClaimsFile
<1>4. \A s, x \in Submissions :
         submissions'[s] # None /\ submissions'[x] # None /\ s # x
            => DayKey(submissions'[s]) # DayKey(submissions'[x])
  <2> SUFFICES ASSUME NEW s \in Submissions, NEW x \in Submissions, s # x,
                      submissions'[s] # None, submissions'[x] # None,
                      DayKey(submissions'[s]) = DayKey(submissions'[x])
               PROVE  FALSE
    OBVIOUS
  <2>1. ClaimsDay(r) => ~DayTaken(DayKey(tx[r].edit), tx[r].s)
    BY DEF Keyed, DaysClaimed
  <2>2. QED
    BY <2>1, CommittedDayKey DEF Keyed, UniqueDays, DayTaken
<1>5. DaysClaimed'
  <2> SUFFICES ASSUME NEW p \in Slots, ClaimsDay(p)'
               PROVE  /\ \A x \in Submissions \ {tx'[p].s} :
                            submissions'[x] # None => DayKey(submissions'[x]) # DayKey(tx'[p].edit)
                      /\ \A q \in Slots \ {p} : ClaimsDay(q)' =>
                            DayKey(tx'[q].edit) # DayKey(tx'[p].edit)
    BY DEF DaysClaimed, DayTaken, DayKey
  <2>1. p \in Slots \ {r} /\ ClaimsDay(p) /\ tx'[p] = tx[p]
    BY <1>2, <1>3
  <2>2. /\ ~DayTaken(DayKey(tx[p].edit), tx[p].s)
        /\ \A q \in Slots \ {p} : ClaimsDay(q) => DayKey(tx[q].edit) # DayKey(tx[p].edit)
    BY <2>1 DEF Keyed, DaysClaimed
  <2>3. ASSUME NEW x \in Submissions \ {tx[p].s}, submissions'[x] # None
        PROVE  DayKey(submissions'[x]) # DayKey(tx[p].edit)
    BY <2>1, <2>2, <2>3, CommittedDayKey DEF DayTaken
  <2>4. QED
    BY <1>2, <1>3, <2>1, <2>2, <2>3
<1>6. \A w, x \in Workorders :
         workorders'[w] # None /\ workorders'[x] # None /\ w # x
            => workorders'[w].code # workorders'[x].code
  <2> SUFFICES ASSUME NEW w \in Workorders, NEW x \in Workorders, w # x,
                      workorders'[w] # None, workorders'[x] # None,
                      workorders'[w].code = workorders'[x].code
               PROVE  FALSE
    OBVIOUS
  <2>1. ClaimsCode(r) => ~CodeTaken(tx[r].wedit.code, tx[r].w)
    BY DEF Keyed, CodesClaimed
  <2>2. QED
    BY <2>1, CommittedCode DEF Keyed, UniqueCodes, CodeTaken
<1>7. CodesClaimed'
  <2> SUFFICES ASSUME NEW p \in Slots, ClaimsCode(p)'
               PROVE  /\ \A x \in Workorders \ {tx'[p].w} :
                            workorders'[x] # None => workorders'[x].code # tx'[p].wedit.code
                      /\ \A q \in Slots \ {p} : ClaimsCode(q)' =>
                            tx'[q].wedit.code # tx'[p].wedit.code
    BY DEF CodesClaimed, CodeTaken
  <2>1. p \in Slots \ {r} /\ ClaimsCode(p) /\ tx'[p] = tx[p]
    BY <1>2, <1>3
  <2>2. /\ ~CodeTaken(tx[p].wedit.code, tx[p].w)
        /\ \A q \in Slots \ {p} : ClaimsCode(q) => tx[q].wedit.code # tx[p].wedit.code
    BY <2>1 DEF Keyed, CodesClaimed
  <2>3. ASSUME NEW x \in Workorders \ {tx[p].w}, workorders'[x] # None
        PROVE  workorders'[x].code # tx[p].wedit.code
    BY <2>1, <2>2, <2>3, CommittedCode DEF CodeTaken
  <2>4. QED
    BY <1>2, <1>3, <2>1, <2>2, <2>3
<1>8. ClaimsFile(r) => ActiveFiles(tx[r].s, attachments) = {}
  BY DEF Keyed, FilesClaimed
<1>9. \A s \in Submissions : \A a, b \in ActiveFiles(s, attachments') : a = b
  BY <1>8, CommittedActive DEF Keyed, UniqueFiles
<1>10. FilesClaimed'
  <2> SUFFICES ASSUME NEW p \in Slots, ClaimsFile(p)'
               PROVE  /\ ActiveFiles(tx'[p].s, attachments') = {}
                      /\ \A q \in Slots \ {p} : ClaimsFile(q)' => tx'[q].s # tx'[p].s
    BY DEF FilesClaimed, ActiveFiles
  <2>1. p \in Slots \ {r} /\ ClaimsFile(p) /\ tx'[p] = tx[p]
    BY <1>2, <1>3
  <2>2. /\ ActiveFiles(tx[p].s, attachments) = {}
        /\ \A q \in Slots \ {p} : ClaimsFile(q) => tx[q].s # tx[p].s
    BY <2>1 DEF Keyed, FilesClaimed
  <2>3. ActiveFiles(tx[p].s, attachments') = {}
    BY <2>1, <2>2, CommittedActive
  <2>4. QED
    BY <1>2, <1>3, <2>1, <2>2, <2>3
<1>11. UniqueDays' /\ UniqueCodes' /\ UniqueFiles'
  BY <1>4, <1>6, <1>9 DEF UniqueDays, UniqueCodes, UniqueFiles, DayKey, ActiveFiles
<1>12. QED
  BY <1>5, <1>7, <1>10, <1>11 DEF Keyed

-----------------------------------------------------------------------------
(* The theorems about keys. *)

\* No row has a key yet.
LEMMA InitIsKeyed == Init => Keyed
<1> SUFFICES ASSUME Init PROVE Keyed
  OBVIOUS
<1>1. UniqueDays /\ UniqueCodes
  BY DEF Init, UniqueDays, UniqueCodes
<1>2. ASSUME NEW s \in Submissions PROVE None # [submission |-> s, active |-> TRUE]
  <2>1. [submission |-> s, active |-> TRUE] \in Attachment
    BY DEF Attachment
  <2>2. QED
    BY <2>1, StoreAssumption
<1>3. UniqueFiles
  BY <1>2 DEF Init, UniqueFiles, ActiveFiles
<1>4. DaysClaimed /\ CodesClaimed /\ FilesClaimed
  BY DEF Init, DaysClaimed, CodesClaimed, FilesClaimed, ClaimsDay, ClaimsCode, ClaimsFile
<1>5. QED
  BY <1>1, <1>3, <1>4 DEF Keyed

\* Every step of every request keeps the keys apart.
LEMMA NextKeepsKeyed == Inductive /\ Inductive' /\ Keyed /\ [Next]_vars => Keyed'
<1> SUFFICES ASSUME Inductive, Inductive', Keyed, [Next]_vars PROVE Keyed'
  OBVIOUS
<1>1. CASE UNCHANGED vars
  BY <1>1 DEF vars, Keyed, UniqueDays, DaysClaimed, UniqueCodes, CodesClaimed, UniqueFiles,
              FilesClaimed, ClaimsDay, ClaimsCode, ClaimsFile, ActiveFiles, DayKey, DayTaken,
              CodeTaken
<1>2. ASSUME NEW r \in Slots, Crash(r) \/ DeadlockVictim(r) PROVE Keyed'
  BY <1>2, RollbackFacts, EndsKeepKeyed DEF Crash, DeadlockVictim, Free
<1>3. ASSUME NEW r \in Slots, Step(r) PROVE Keyed'
  BY <1>2, <1>3, StartDriveKeepsKeyed, DayKeepsKeyed, ParentKeepsKeyed, FileKeepsKeyed,
     CommitKeepsKeyed DEF Step
<1>4. QED
  BY <1>1, <1>2, <1>3, ArriveKeepsKeyed DEF Next, Idle

\* What a transaction has claimed stays its own until it ends.
THEOREM KeyedHolds == Spec => []Keyed
BY InitIsKeyed, NextKeepsKeyed, InductiveHolds, PTL DEF Spec

\* A start_drive that is to commit has its day in the index, with the client's
\* identifier.
LEMMA ClaimedClient ==
    ASSUME Inductive, NEW r \in Slots, ClaimsClient(r)
    PROVE  /\ tx[r].s \in Submissions \cap locks[r] /\ submissions[tx[r].s] = None
           /\ tx[r].day = None
           /\ tx[r].edit = NewDay(tx[r].w, tx[r].req) /\ tx[r].edit.client = tx[r].req.client
<1>1. StartSession(r) /\ pc[r] = "commit"
  BY SessionOf DEF ClaimsClient, Free
<1>2. QED
  BY <1>1 DEF StartSession, NewDay

\* A step that commits nothing keeps the identifiers apart, when the one it claims
\* is free.
LEMMA QuietKeepsClients ==
    ASSUME Inductive, ClientsApart, UNCHANGED tables, NEW r \in Slots, OthersStand(r),
           ClaimsClient(r)' => /\ ~ClientTaken(tx'[r].req.client)
                               /\ HoldersOfClient(tx'[r].req.client, r) = {}
    PROVE  ClientsApart'
<1>1. UniqueClients'
  BY DEF ClientsApart, UniqueClients, tables
<1>2. \A q \in Slots \ {r} : (ClaimsClient(q)' <=> ClaimsClient(q)) /\ tx'[q] = tx[q]
  BY DEF OthersStand, ClaimsClient
<1>3. \A id : ClientTaken(id)' <=> ClientTaken(id)
  BY DEF ClientTaken, tables
<1>4. ASSUME ClaimsClient(r)', NEW q \in Slots \ {r}, ClaimsClient(q)
      PROVE  tx[q].req.client # tx'[r].req.client
  BY <1>4, ClaimedClient DEF HoldersOfClient, ClaimsClient
<1>5. ClientsClaimed'
  BY <1>2, <1>3, <1>4 DEF ClientsApart, ClientsClaimed, ClientTaken, tables
<1>6. QED
  BY <1>1, <1>5 DEF ClientsApart

\* A commit gives no day another identifier, and a new day the one it claimed.
LEMMA CommittedClient ==
    ASSUME Inductive, NEW r \in Slots, Commit(r), NEW s \in Submissions, submissions'[s] # None
    PROVE  \/ submissions[s] # None /\ submissions'[s].client = submissions[s].client
           \/ submissions'[s].client = None
           \/ /\ ClaimsClient(r) /\ s = tx[r].s
              /\ submissions'[s].client = tx[r].req.client
<1>1. /\ submissions'[s] = IF s \in locks[r] THEN FlushedDay(submissions[s], tx[r].day, tx[r].edit)
                                             ELSE submissions[s]
      /\ pc[r] = "commit"
  BY DEF Commit, DaysSeenBy
<1>2. CASE s \notin locks[r]
  BY <1>1, <1>2
<1>3. CASE s \in locks[r] /\ tx[r].op = "start_drive" /\ StartSession(r)
  <2>1. s = tx[r].s /\ tx[r].day = None /\ tx[r].edit = NewDay(tx[r].w, tx[r].req)
    BY <1>1, <1>3, WrittenDay DEF StartSession
  <2>1a. submissions'[s] = NewDay(tx[r].w, tx[r].req)
    BY <1>1, <1>3, <2>1, FlushedNewDay
  <2>2. submissions'[s].client = tx[r].req.client
    BY <2>1a DEF NewDay
  <2>3. QED
    BY <1>1, <1>3, <2>1, <2>2 DEF ClaimsClient
<1>4. CASE s \in locks[r] /\ tx[r].op \in DayOps /\ DaySession(r)
  <2>1. s = tx[r].s /\ DayLoaded(tx[r])
    BY <1>1, <1>4, WrittenDay DEF DaySession
  <2>2. submissions[s] \in Submission /\ submissions[s] # None /\ tx[r].day # None
    BY <2>1, StoreAssumption DEF DayLoaded
  <2>3. submissions'[s].client = submissions[s].client
    BY <1>1, <1>4, <2>2 DEF FlushedDay, Submission
  <2>4. QED
    BY <2>2, <2>3
<1>5. QED
  BY <1>1, <1>2, <1>3, <1>4, WrittenDay

\* A commit makes no day with the identifier of another day, or a claimed one.
LEMMA CommitKeepsClients ==
    ASSUME Inductive, ClientsApart, NEW r \in Slots, Commit(r)
    PROVE  ClientsApart'
<1>1. pc'[r] = "ok" /\ OthersStand(r) /\ pc[r] = "commit"
  BY DEF Commit, Answer, OthersStand, Inductive, TypeOK
<1>2. /\ ~ClaimsClient(r)'
      /\ \A q \in Slots \ {r} : (ClaimsClient(q)' <=> ClaimsClient(q)) /\ tx'[q] = tx[q]
  BY <1>1 DEF OthersStand, ClaimsClient
<1>3. ClaimsClient(r) => ~ClientTaken(tx[r].req.client)
  BY DEF ClientsApart, ClientsClaimed
<1>4. \A s, x \in Submissions : submissions'[s] # None /\ submissions'[x] # None /\ s # x
         => submissions'[s].client = None \/ submissions'[s].client # submissions'[x].client
  BY <1>3, CommittedClient DEF ClientsApart, UniqueClients, ClientTaken
<1>5. ASSUME NEW q \in Slots \ {r}, ClaimsClient(q), NEW s \in Submissions,
             submissions'[s] # None
      PROVE  submissions'[s].client # tx[q].req.client
  <2>1. ~ClientTaken(tx[q].req.client) /\ tx[q].req.client # None
    BY <1>5 DEF ClientsApart, ClientsClaimed, ClaimsClient
  <2>2. ClaimsClient(r) => tx[r].req.client # tx[q].req.client
    BY <1>5 DEF ClientsApart, ClientsClaimed
  <2>3. QED
    BY <1>5, <2>1, <2>2, CommittedClient DEF ClientTaken
<1>6. ClientsClaimed'
  BY <1>2, <1>5 DEF ClientsApart, ClientsClaimed, ClientTaken
<1>7. QED
  BY <1>4, <1>6 DEF ClientsApart, UniqueClients

\* Every step of every request keeps the identifiers apart.
LEMMA NextKeepsClients == Inductive /\ Inductive' /\ ClientsApart /\ [Next]_vars => ClientsApart'
<1> SUFFICES ASSUME Inductive, Inductive', ClientsApart, [Next]_vars PROVE ClientsApart'
  OBVIOUS
<1>1. CASE UNCHANGED vars
  BY <1>1 DEF vars, ClientsApart, UniqueClients, ClientsClaimed, ClaimsClient, ClientTaken
<1>2. ASSUME NEW r \in Slots, Ends(r) PROVE ClientsApart'
  <2>1. UNCHANGED tables /\ OthersStand(r) /\ pc'[r] \in Free
    BY <1>2 DEF Ends, Answer, OthersStand, Inductive, TypeOK
  <2>2. ~ClaimsClient(r)'
    BY <2>1 DEF ClaimsClient, Free
  <2>3. QED
    BY <2>1, <2>2, QuietKeepsClients
<1>3. ASSUME NEW r \in Slots, Works(r), tx[r].op # "start_drive" \/ pc'[r] # "commit"
      PROVE  ClientsApart'
  <2>1. UNCHANGED tables /\ OthersStand(r) /\ ~ClaimsClient(r)'
    BY <1>3 DEF Works, SameRows, ClaimsClient
  <2>2. QED
    BY <2>1, QuietKeepsClients
<1>4. ASSUME NEW r \in Slots, StartDriveStep(r) PROVE ClientsApart'
  <2>1. CASE /\ pc'[r] = "commit" /\ Writes(r, tx[r].s) /\ ~ClientTaken(tx[r].req.client)
             /\ HoldersOfClient(tx[r].req.client, r) = {}
    <3>1. UNCHANGED tables /\ OthersStand(r) /\ tx'[r].req = tx[r].req
      BY <2>1 DEF Writes, Works
    <3>2. QED
      BY <2>1, <3>1, QuietKeepsClients
  <2>2. QED
    BY <1>2, <1>3, <1>4, <2>1, FindMoves, CreateMoves, DuplicateMoves, InsertMoves
    DEF StartDriveStep, Reads, Writes
<1>5. ASSUME NEW r \in Slots, DayStep(r) \/ FileStep(r) PROVE ClientsApart'
  <2>1. tx[r].op # "start_drive"
    BY <1>5, DayMoves, FileMoves DEF DayOps, Edits, Changes
  <2>2. QED
    BY <1>2, <1>3, <1>5, <2>1, DayMoves, FileMoves DEF Reads, Writes
<1>6. ASSUME NEW r \in Slots, ParentStep(r) PROVE ClientsApart'
  <2>1. pc[r] \in {"flush_parent", "recode"} => tx[r].op # "start_drive"
    BY Labels DEF DayOps, Edits, Changes
  <2>2. QED
    BY <1>2, <1>3, <1>6, <2>1, ParentMoves DEF Reads, Writes
<1>7. ASSUME NEW r \in Slots, Crash(r) \/ DeadlockVictim(r) PROVE ClientsApart'
  BY <1>2, <1>7, RollbackFacts DEF Crash, DeadlockVictim, Free
<1>8. ASSUME NEW r \in Slots, Arrive(r) PROVE ClientsApart'
  <2>1. UNCHANGED tables /\ OthersStand(r) /\ ~ClaimsClient(r)'
    BY <1>8, ArriveMoves DEF ClaimsClient
  <2>2. QED
    BY <2>1, QuietKeepsClients
<1>9. QED
  BY <1>1, <1>4, <1>5, <1>6, <1>7, <1>8, CommitKeepsClients DEF Next, Step, Idle

\* One day per workorder and date and per client_generated_id, one workorder per
\* code and one active file per day, for any number of requests that look first and insert later.
THEOREM UniqueKeysHolds == Spec => []UniqueKeys
<1>1. ASSUME Keyed, NEW s \in Submissions
      PROVE  Cardinality(ActiveFiles(s, attachments)) <= 1
  <2>1. \A a, b \in ActiveFiles(s, attachments) : a = b
    BY <1>1 DEF Keyed, UniqueFiles
  <2>2. CASE ActiveFiles(s, attachments) = {}
    BY <2>2, FS_EmptySet
  <2>3. ASSUME NEW a \in ActiveFiles(s, attachments)
        PROVE  Cardinality(ActiveFiles(s, attachments)) = 1
    <3>1. ActiveFiles(s, attachments) = {a}
      BY <2>1
    <3>2. QED
      BY <3>1, FS_Singleton
  <2>4. QED
    BY <2>2, <2>3
<1>2. Keyed /\ ClientsApart => UniqueKeys
  BY <1>1 DEF Keyed, UniqueDays, UniqueCodes, ClientsApart, UniqueClients, UniqueKeys
<1>3. Init => ClientsApart
  BY DEF Init, ClientsApart, UniqueClients, ClientsClaimed, ClaimsClient, Blank
<1>4. QED
  BY <1>2, <1>3, KeyedHolds, NextKeepsClients, InductiveHolds, PTL DEF Spec

-----------------------------------------------------------------------------
(* The versions. *)

\* The entries of a trail that go with a write of the row.
RowEntryCount(trail) == Cardinality({i \in DOMAIN trail : trail[i] \in RowEntries})

\* An entry counts once, when it goes with a write of the row.
LEMMA AppendedEntry ==
    ASSUME NEW trail \in Seq(AuditAction), NEW entry
    PROVE  /\ RowEntryCount(trail) \in Nat
           /\ RowEntryCount(Append(trail, entry)) =
                 IF entry \in RowEntries THEN RowEntryCount(trail) + 1 ELSE RowEntryCount(trail)
<1> DEFINE Of(t) == {i \in DOMAIN t : t[i] \in RowEntries}
           longer == Append(trail, entry)
<1>1. Len(trail) \in Nat /\ DOMAIN trail = 1..Len(trail)
  OBVIOUS
<1>2. IsFiniteSet(Of(trail))
  <2>1. IsFiniteSet(1..Len(trail))
    BY <1>1, FS_Interval
  <2>2. Of(trail) \in SUBSET (1..Len(trail))
    BY <1>1
  <2>. HIDE DEF Of
  <2>3. QED
    BY <2>1, <2>2, FS_Subset
<1>3. /\ DOMAIN longer = (1..Len(trail)) \cup {Len(trail) + 1}
      /\ \A i \in 1..Len(trail) : longer[i] = trail[i]
      /\ longer[Len(trail) + 1] = entry
  OBVIOUS
<1>. HIDE DEF longer
<1>4. CASE entry \in RowEntries
  <2>1. Of(longer) = Of(trail) \cup {Len(trail) + 1} /\ Len(trail) + 1 \notin Of(trail)
    BY <1>1, <1>3, <1>4
  <2>2. QED
    BY <1>2, <1>4, <2>1, FS_AddElement, FS_CardinalityType DEF RowEntryCount, longer
<1>5. CASE entry \notin RowEntries
  <2>1. Of(longer) = Of(trail)
    BY <1>1, <1>3, <1>5
  <2>2. QED
    BY <1>2, <1>5, <2>1, FS_CardinalityType DEF RowEntryCount, longer
<1>6. QED
  BY <1>4, <1>5

\* The trail of a day grows with every commit that writes its row.
LEMMA CommittedEntries ==
    ASSUME Inductive, NEW r \in Slots, Commit(r), NEW s \in Submissions
    PROVE  /\ RowEntriesOf(s) \in Nat /\ RowEntriesOf(s)' \in Nat
           /\ RowEntriesOf(s) <= RowEntriesOf(s)'
           /\ s = tx[r].s /\ tx[r].op \in DayOps \cup {"start_drive"}
                 => RowEntriesOf(s)' = RowEntriesOf(s) + 1
<1>1. /\ RowEntriesOf(s) = RowEntryCount(audit[s])
      /\ RowEntriesOf(s)' = RowEntryCount(audit'[s])
  BY DEF RowEntriesOf, RowEntryCount
<1>2. audit[s] \in Seq(AuditAction)
  BY CommittedTrails
<1>3. CASE tx[r].op \in DOMAIN AuditEntry /\ s = tx[r].s
  <2>1. audit'[s] = Append(audit[s], AuditEntry[tx[r].op])
    BY <1>3, CommittedTrails
  <2>2. tx[r].op \in DayOps \cup {"start_drive"} => AuditEntry[tx[r].op] \in RowEntries
    BY DEF DayOps, Edits, Changes, AuditEntry, RowEntries, AuditAction
  <2>3. QED
    BY <1>1, <1>2, <2>1, <2>2, AppendedEntry
<1>4. CASE ~(tx[r].op \in DOMAIN AuditEntry /\ s = tx[r].s)
  <2>1. audit'[s] = audit[s]
    BY <1>4, CommittedTrails
  <2>2. DayOps \cup {"start_drive"} \subseteq DOMAIN AuditEntry
    BY DEF DayOps, Edits, Changes, AuditEntry
  <2>3. QED
    BY <1>1, <1>2, <1>4, <2>1, <2>2, AppendedEntry
<1>5. QED
  BY <1>3, <1>4

\* An accepted change of a day has the version after the row's.
LEMMA ArriveVersion ==
    ASSUME Inductive, NEW r \in Slots, Arrive(r), tx'[r].op \in DayOps
    PROVE  \E s \in Submissions : /\ tx'[r].s = s /\ submissions[s] \in Submission
                                  /\ tx'[r].edit.version = submissions[s].version + 1
<1> DEFINE Changed == \E s \in Submissions : /\ tx'[r].s = s /\ submissions[s] \in Submission
                                             /\ tx'[r].edit.version = submissions[s].version + 1
<1>1. ASSUME NEW operation, NEW s \in Submissions, submissions[s] # None, NEW edited, NEW label,
             edited = Bumped(submissions[s]) \/ \E e : edited = Bumped(e) /\ e \in Submission
                                                      /\ e.version = submissions[s].version,
             LoadDay(r, operation, s, edited, label)
      PROVE  Changed
  <2> DEFINE session == [Blank EXCEPT !.op = operation, !.s = s, !.day = submissions[s],
                                      !.edit = edited]
  <2>1. session.s = s /\ session.edit = edited
    BY DEF Blank
  <2>2. tx'[r] = session
    BY <1>1 DEF LoadDay, Proceed, Inductive, TypeOK
  <2>. HIDE DEF session
  <2>3. submissions[s] \in Submission
    BY <1>1 DEF Inductive, TypeOK
  <2>4. edited.version = submissions[s].version + 1
    BY <1>1, <2>3 DEF Bumped, Submission
  <2>5. QED
    BY <2>1, <2>2, <2>3, <2>4
<1>. HIDE DEF Changed
<1>2. ASSUME NEW outcome, Rollback(r, outcome) PROVE FALSE
  BY <1>2 DEF Rollback, Answer, Inductive, TypeOK, Blank, DayOps, Edits, Changes
<1>3. ASSUME NEW label, NEW session, session.op \notin DayOps, Proceed(r, label, session) PROVE FALSE
  BY <1>3 DEF Proceed, Inductive, TypeOK
<1>4. ASSUME NEW s \in Submissions, NEW status, submissions[s] # None, status \in DayStatus
      PROVE  LET e == [submissions[s] EXCEPT !.status = status]
             IN  e \in Submission /\ e.version = submissions[s].version
  BY <1>4 DEF Inductive, TypeOK, Submission
<1>5. ASSUME NEW u \in Users, NEW s \in Submissions,
             EndDrive(r, u, s) \/ CompleteSubmission(r, u, s) \/ ReopenSubmission(r, u, s)
      PROVE  Changed
  BY <1>1, <1>2, <1>4, <1>5
  DEF EndDrive, CompleteSubmission, ReopenSubmission, AcceptsDay, DayStatus
<1>6. ASSUME NEW s \in Submissions, NEW operation, NEW version, NEW date \in Dates,
             NEW grids \in Grids, submissions[s] # None,
             EditDay(r, operation, s, version, date, grids)
      PROVE  Changed
  <2> DEFINE e == [submissions[s] EXCEPT !.date = date, !.grids = grids]
  <2>a. submissions[s] \in Submission /\ grids \in Nat
    BY <1>6, StoreAssumption DEF Inductive, TypeOK
  <2>1. e \in Submission /\ e.version = submissions[s].version
    BY <2>a DEF Submission
  <2>. HIDE DEF e
  <2>2. LoadDay(r, operation, s, Bumped(e), "flush")
    BY <1>2, <1>6 DEF EditDay, e
  <2>3. QED
    BY <1>1, <1>6, <2>1, <2>2
<1>7. ASSUME NEW u \in Users, NEW s \in Submissions, NEW version, NEW date \in Dates,
             NEW grids \in Grids,
             \/ UpdateSubmission(r, u, s, version, date, grids)
             \/ UpdateAdminSubmission(r, u, s, version, date, grids)
      PROVE  Changed
  BY <1>2, <1>6, <1>7 DEF UpdateSubmission, UpdateAdminSubmission, AcceptsDay
<1>8. ASSUME NEW u, NEW s, NEW client, NEW code, NEW region, NEW total, NEW date,
             StartDrive(r, u, s, client, code, region, total, date)
      PROVE  FALSE
  BY <1>3, <1>8 DEF StartDrive, Blank, DayOps, Edits, Changes
<1>9. ASSUME NEW u, NEW s, NEW a, UploadAttachment(r, u, s, a) PROVE FALSE
  BY <1>2, <1>3, <1>9 DEF UploadAttachment, Blank, DayOps, Edits, Changes
<1>10. ASSUME NEW u, NEW w, NEW code, NEW region, NEW total,
              UpdateWorkorder(r, u, w, code, region, total)
       PROVE  FALSE
  BY <1>2, <1>3, <1>10 DEF UpdateWorkorder, Blank, DayOps, Edits, Changes
<1>11. ASSUME NEW u, NEW a, DeleteAttachment(r, u, a) PROVE FALSE
  BY <1>2, <1>3, <1>11 DEF DeleteAttachment, Blank, DayOps, Edits, Changes
<1>12. QED
  BY <1>5, <1>7, <1>8, <1>9, <1>10, <1>11 DEF Arrive, Changed

\* The versions of the rows and of the sessions follow the trails.
Versioned == VersionsFollow /\ VersionWithinTrail

\* A step that commits nothing keeps the versions, when an edit it brings comes
\* right after the row's version.
LEMMA QuietKeepsVersioned ==
    ASSUME Inductive, Versioned, UNCHANGED tables, NEW r \in Slots, OthersStand(r),
           tx'[r].op \in DayOps =>
              \/ tx[r].op \in DayOps /\ tx'[r].s = tx[r].s /\ tx'[r].edit = tx[r].edit
              \/ \E s \in Submissions : /\ tx'[r].s = s /\ submissions[s] \in Submission
                                        /\ tx'[r].edit.version = submissions[s].version + 1
    PROVE  Versioned'
<1>1. \A s : RowEntriesOf(s)' = RowEntriesOf(s)
  BY DEF RowEntriesOf, tables
<1>2. VersionWithinTrail'
  BY DEF tables, Versioned, VersionWithinTrail
<1>3. ASSUME NEW s \in Submissions
      PROVE  /\ RowEntriesOf(s) \in Nat
             /\ submissions[s] # None => submissions[s].version <= RowEntriesOf(s)
  <2>1. audit[s] \in Seq(AuditAction) /\ RowEntriesOf(s) = RowEntryCount(audit[s])
    BY DEF Inductive, TypeOK, RowEntriesOf, RowEntryCount
  <2>2. QED
    BY <2>1, AppendedEntry DEF Versioned, VersionWithinTrail, RowEntriesOf
<1>4. tx'[r].op \in DayOps => tx'[r].edit.version <= RowEntriesOf(tx'[r].s) + 1
  <2>1. ASSUME tx[r].op \in DayOps
        PROVE  tx[r].edit.version <= RowEntriesOf(tx[r].s) + 1
    BY <2>1 DEF Versioned, VersionsFollow
  <2>2. ASSUME NEW s \in Submissions, tx'[r].s = s, submissions[s] \in Submission,
               tx'[r].edit.version = submissions[s].version + 1
        PROVE  tx'[r].edit.version <= RowEntriesOf(tx'[r].s) + 1
    <3>1. submissions[s].version \in Nat /\ submissions[s] # None
      BY <2>2, StoreAssumption DEF Submission
    <3>2. QED
      BY <1>3, <2>2, <3>1
  <2>3. QED
    BY <2>1, <2>2
<1>5. ASSUME NEW q \in Slots, tx'[q].op \in DayOps
      PROVE  tx'[q].edit.version <= RowEntriesOf(tx'[q].s) + 1
  BY <1>4, <1>5 DEF OthersStand, Versioned, VersionsFollow
<1>6. VersionsFollow'
  BY <1>5, <1>1 DEF VersionsFollow, RowEntriesOf, tables
<1>7. QED
  BY <1>2, <1>6 DEF Versioned

\* A statement on the way keeps the edit it carries.
LEMMA StatementKeepsVersioned ==
    ASSUME Inductive, Versioned, NEW r \in Slots,
           StartDriveStep(r) \/ DayStep(r) \/ ParentStep(r) \/ FileStep(r) \/ Ends(r)
    PROVE  Versioned'
<1>1. CASE Ends(r)
  <2>1. UNCHANGED tables /\ OthersStand(r) /\ tx'[r].op = "none"
    BY <1>1 DEF Ends, Answer, OthersStand, Inductive, TypeOK, Blank
  <2>2. QED
    BY <2>1, QuietKeepsVersioned DEF DayOps, Edits, Changes
<1>2. CASE Works(r) /\ (tx[r].op \in DayOps => tx'[r].edit = tx[r].edit)
  BY <1>2, QuietKeepsVersioned DEF Works, SameRows
<1>3. StartDriveStep(r) => tx[r].op \notin DayOps
  BY Labels DEF StartDriveStep, FindWorkorder, CreateWorkorder, CheckDuplicate, InsertDay, DayOps, Edits, Changes
<1>4. CASE StartDriveStep(r)
  BY <1>1, <1>2, <1>3, <1>4, FindMoves, CreateMoves, DuplicateMoves, InsertMoves DEF StartDriveStep, Reads, Writes
<1>5. CASE DayStep(r)
  BY <1>1, <1>2, <1>5, DayMoves DEF Reads, Writes
<1>6. CASE ParentStep(r)
  BY <1>1, <1>2, <1>6, ParentMoves DEF Reads, Writes
<1>7. CASE FileStep(r)
  BY <1>1, <1>2, <1>7, FileMoves DEF Reads, Writes
<1>8. QED
  BY <1>1, <1>4, <1>5, <1>6, <1>7

\* The version of a committed row has the audit entry of its commit.
LEMMA CommitKeepsVersioned ==
    ASSUME Inductive, Versioned, NEW r \in Slots, Commit(r)
    PROVE  Versioned'
<1>1. /\ OthersStand(r) /\ tx'[r].op = "none"
      /\ \A s \in Submissions : submissions'[s] = IF s \in locks[r]
                                THEN FlushedDay(submissions[s], tx[r].day, tx[r].edit)
                                ELSE submissions[s]
      /\ pc[r] = "commit"
  BY DEF Commit, Answer, DaysSeenBy, OthersStand, Inductive, TypeOK, Blank
<1>2. ASSUME NEW q \in Slots, tx'[q].op \in DayOps
      PROVE  tx'[q].edit.version <= RowEntryCount(audit'[tx'[q].s]) + 1
  <2>1. q # r /\ tx'[q] = tx[q]
    BY <1>1, <1>2 DEF OthersStand, DayOps, Edits, Changes
  <2>2. tx[q].edit.version <= RowEntriesOf(tx[q].s) + 1
    BY <1>2, <2>1 DEF Versioned, VersionsFollow
  <2>3. pc[q] \notin Free
    BY <1>2, <2>1 DEF Inductive, Sessions, SessionOK, NoSession, Blank, DayOps, Edits, Changes
  <2>4. tx[q].s \in Submissions /\ tx[q].edit.version \in Nat
    BY <1>2, <2>1, <2>3, SessionOf DEF DaySession, DayLoaded, Submission
  <2>5. ASSUME NEW s \in Submissions
        PROVE  /\ RowEntriesOf(s) \in Nat /\ RowEntryCount(audit'[s]) \in Nat
               /\ RowEntriesOf(s) <= RowEntryCount(audit'[s])
    <3>1. RowEntriesOf(s)' = RowEntryCount(audit'[s])
      BY DEF RowEntriesOf, RowEntryCount
    <3>2. QED
      BY <3>1, CommittedEntries
  <2>6. QED
    BY <2>1, <2>2, <2>4, <2>5
<1>3. ASSUME NEW s \in Submissions, submissions'[s] # None
      PROVE  submissions'[s].version <= RowEntriesOf(s)'
  <2>1. /\ RowEntriesOf(s) \in Nat /\ RowEntriesOf(s)' \in Nat
        /\ RowEntriesOf(s) <= RowEntriesOf(s)'
        /\ s = tx[r].s /\ tx[r].op \in DayOps \cup {"start_drive"}
              => RowEntriesOf(s)' = RowEntriesOf(s) + 1
    BY CommittedEntries
  <2>2. ASSUME submissions[s] # None
        PROVE  submissions[s].version \in Nat /\ submissions[s].version <= RowEntriesOf(s)
    BY <2>2 DEF Versioned, VersionWithinTrail, RowEntriesOf, Inductive, TypeOK, Submission
  <2>3. CASE s \notin locks[r]
    BY <1>1, <1>3, <2>1, <2>2, <2>3
  <2>4. CASE s \in locks[r] /\ tx[r].op = "start_drive" /\ StartSession(r)
    <3>1. s = tx[r].s /\ tx[r].day = None /\ tx[r].edit = NewDay(tx[r].w, tx[r].req)
      BY <1>1, <2>4, WrittenDay DEF StartSession
    <3>2. submissions'[s].version = 1
      BY <1>1, <2>4, <3>1, FlushedNewDay DEF NewDay
    <3>3. QED
      BY <2>1, <2>4, <3>1, <3>2
  <2>5. CASE s \in locks[r] /\ tx[r].op \in DayOps /\ DaySession(r)
    <3>1. s = tx[r].s /\ DayLoaded(tx[r]) /\ tx[r].edit \in Submission
      BY <1>1, <2>5, WrittenDay DEF DaySession
    <3>2. /\ submissions[s] \in Submission /\ submissions[s] # None
          /\ tx[r].day \in Submission /\ tx[r].day # None
      BY <3>1, StoreAssumption DEF DayLoaded
    <3>3. submissions'[s].version = IF tx[r].edit.version = tx[r].day.version
                                    THEN submissions[s].version ELSE tx[r].edit.version
      BY <1>1, <2>5, <3>1, <3>2 DEF FlushedDay, Column, Submission
    <3>4. tx[r].edit.version <= RowEntriesOf(s) + 1 /\ tx[r].edit.version \in Nat
      BY <2>5, <3>1 DEF Versioned, VersionsFollow, Submission
    <3>5. QED
      BY <2>1, <2>2, <2>5, <3>1, <3>2, <3>3, <3>4
  <2>6. QED
    BY <1>1, <2>3, <2>4, <2>5, WrittenDay
<1>4. VersionsFollow'
  BY <1>2 DEF VersionsFollow, RowEntriesOf, RowEntryCount
<1>5. VersionWithinTrail'
  BY <1>3 DEF VersionWithinTrail, RowEntriesOf
<1>6. QED
  BY <1>4, <1>5 DEF Versioned

\* Every step of every request keeps the versions within the trails.
LEMMA NextKeepsVersioned == Inductive /\ Versioned /\ [Next]_vars => Versioned'
<1> SUFFICES ASSUME Inductive, Versioned, [Next]_vars PROVE Versioned'
  OBVIOUS
<1>1. CASE UNCHANGED vars
  BY <1>1 DEF vars, Versioned, VersionsFollow, VersionWithinTrail, RowEntriesOf
<1>2. ASSUME NEW r \in Slots, Crash(r) \/ DeadlockVictim(r) PROVE Versioned'
  BY <1>2, RollbackFacts, StatementKeepsVersioned DEF Crash, DeadlockVictim, Free
<1>3. ASSUME NEW r \in Slots, Step(r) PROVE Versioned'
  BY <1>2, <1>3, StatementKeepsVersioned, CommitKeepsVersioned DEF Step
<1>4. ASSUME NEW r \in Slots, Arrive(r) PROVE Versioned'
  BY <1>4, ArriveMoves, ArriveVersion, QuietKeepsVersioned
<1>5. QED
  BY <1>1, <1>2, <1>3, <1>4 DEF Next, Idle

\* A day's version never runs ahead of its audit trail: concurrent edits may lose
\* an update, but no version is without the entry of the edit that gave it.
THEOREM VersionWithinTrailHolds == Spec => []VersionWithinTrail
<1>1. Init => Versioned
  BY DEF Init, Versioned, VersionsFollow, VersionWithinTrail, Blank, DayOps, Edits, Changes
<1>2. Versioned => VersionWithinTrail
  BY DEF Versioned
<1>3. QED
  BY <1>1, <1>2, NextKeepsVersioned, InductiveHolds, PTL DEF Spec

-----------------------------------------------------------------------------
(* The deadlocks. *)

\* Where a transaction stands that has written a row of each table.
LEMMA HoldersStand ==
    ASSUME Inductive, NEW q \in Slots
    PROVE  /\ Submissions \cap locks[q] # {} =>
                 pc[q] \in {"reindex", "parent", "aggregate", "flush_parent", "commit"}
           /\ Attachments \cap locks[q] # {} =>
                 pc[q] \in {"recount", "parent", "flush_parent", "commit"}
           /\ \A w \in Workorders \cap locks[q] :
                 \/ pc[q] \in {"recode", "commit"}
                 \/ pc[q] \in {"duplicate", "insert"} /\ workorders[w] = None
<1> USE StoreAssumption
<1>1. CASE pc[q] \in Free
  BY <1>1 DEF Inductive, Sessions, SessionOK, NoSession
<1>2. CASE pc[q] \notin Free /\ tx[q].op = "start_drive"
  <2>1. StartSession(q)
    BY <1>2, SessionOf
  <2>2. CASE pc[q] \in {"find", "create"}
    BY <2>1, <2>2 DEF StartSession
  <2>3. CASE pc[q] \in {"duplicate", "insert"}
    BY <2>1, <2>3 DEF StartSession
  <2>4. CASE pc[q] = "commit"
    BY <2>1, <2>4 DEF StartSession
  <2>5. QED
    BY <2>1, <2>2, <2>3, <2>4 DEF StartSession
<1>3. CASE pc[q] \notin Free /\ tx[q].op \in DayOps /\ pc[q] # "commit"
  <2>1. /\ tx[q].s \in Submissions /\ pc[q] \in DayPath[tx[q].op]
        /\ locks[q] = IF pc[q] \in Unlocked(tx[q].op) THEN {} ELSE {tx[q].s}
    BY <1>3, DaySessionFacts DEF DaySession
  <2>2. pc[q] \notin Unlocked(tx[q].op)
           => pc[q] \in {"reindex", "parent", "aggregate", "flush_parent", "commit"}
    BY <1>3, <2>1, DayLabels, Paths
  <2>3. QED
    BY <2>1, <2>2
<1>4. CASE pc[q] = "commit"
  BY <1>4
<1>5. CASE pc[q] \notin Free \cup {"commit"} /\ tx[q].op = "upload_attachment"
  BY <1>5, SessionOf DEF UploadSession
<1>6. CASE pc[q] \notin Free \cup {"commit"} /\ tx[q].op = "delete_attachment"
  <2>1. DeleteSession(q) /\ tx[q].a \in Attachments
        /\ locks[q] = IF pc[q] = "detach" THEN {} ELSE {tx[q].a}
    BY <1>6, DeleteSessionFacts
  <2>2. pc[q] \in {"detach", "recount", "parent", "flush_parent"}
    BY <1>6, <2>1 DEF DeleteSession
  <2>3. tx[q].a \notin Submissions /\ tx[q].a \notin Workorders
    BY <2>1
  <2>4. QED
    BY <2>1, <2>2, <2>3
<1>7. CASE pc[q] \notin Free /\ tx[q].op = "update_workorder"
  BY <1>7, SessionOf DEF WorkorderSession, ParentLoaded
<1>8. QED
  BY <1>1, <1>2, <1>3, <1>4, <1>5, <1>6, <1>7, SessionOf

\* A request waits for other requests, at one of eight statements.
LEMMA WaitsFor ==
    ASSUME NEW r \in Slots, NEW q \in Waits(r)
    PROVE  /\ q \in Slots \ {r}
           /\ pc[r] \in {"create", "insert", "flush", "reindex", "flush_parent", "recode",
                         "attach", "detach"}
           /\ pc[r] = "create" => \E w \in Workorders \cap locks[q] :
                 \/ workorders[w] # None /\ workorders[w].code = tx[r].req.code
                 \/ tx[q].wedit.code = tx[r].req.code
           /\ pc[r] \in {"insert", "reindex"} => Submissions \cap locks[q] # {}
           /\ pc[r] = "flush" => tx[r].s \in locks[q]
           /\ pc[r] = "flush_parent" => tx[r].w \in locks[q]
           /\ pc[r] = "recode" => Workorders \cap locks[q] # {}
           /\ pc[r] = "attach" => Attachments \cap locks[q] # {}
           /\ pc[r] = "detach" => tx[r].a \in locks[q]
<1>1. CASE pc[r] = "create"
  BY <1>1 DEF Waits, HoldersOfCode
<1>2. CASE pc[r] = "insert"
  BY <1>2 DEF Waits, InsertWaits, HoldersOfClient, HoldersOfDay
<1>3. CASE pc[r] = "flush"
  BY <1>3 DEF Waits, HoldersOf
<1>4. CASE pc[r] = "reindex"
  BY <1>4 DEF Waits, HoldersOfDay
<1>5. CASE pc[r] = "flush_parent"
  BY <1>5 DEF Waits, HoldersOf
<1>6. CASE pc[r] = "recode"
  BY <1>6 DEF Waits, HoldersOfCode
<1>7. CASE pc[r] = "attach"
  BY <1>7 DEF Waits, HoldersOfFile
<1>8. CASE pc[r] = "detach"
  BY <1>8 DEF Waits, HoldersOf
<1>9. CASE pc[r] \notin {"create", "insert", "flush", "reindex", "flush_parent", "recode",
                         "attach", "detach"}
  BY <1>9 DEF Waits
<1>10. QED
  BY <1>1, <1>2, <1>3, <1>4, <1>5, <1>6, <1>7, <1>8, <1>9

\* The rows a request waits for are there.
LEMMA AwaitedRows ==
    ASSUME Inductive, NEW r \in Slots
    PROVE  /\ pc[r] = "flush" => tx[r].s \in Submissions
           /\ pc[r] = "flush_parent" => tx[r].w \in Workorders /\ workorders[tx[r].w] # None
           /\ pc[r] = "detach" => tx[r].a \in Attachments
<1>1. pc[r] = "flush" => tx[r].s \in Submissions
  BY Labels, SessionOf DEF DaySession, DayLoaded, Free
<1>2. pc[r] = "detach" => tx[r].a \in Attachments
  BY Labels, SessionOf DEF DeleteSession, Free
<1>3. ASSUME pc[r] = "flush_parent"
      PROVE  tx[r].w \in Workorders /\ workorders[tx[r].w] # None
  <2>1. ParentLoaded(tx[r])
    BY <1>3, Labels, SessionOf DEF DaySession, DeleteSession, WorkorderSession, ParentOf, Free
  <2>2. QED
    BY <2>1, StoreAssumption DEF ParentLoaded
<1>4. QED
  BY <1>1, <1>2, <1>3

\* A circle of requests needs one that moves a key: the row locks are taken in the
\* order attachment, submission, workorder, and each request takes one of a table.
LEMMA CirclesSwapKeys ==
    ASSUME Inductive, NEW D \in SUBSET Slots, Deadlocked(D)
    PROVE  \E q \in D : pc[q] \in {"reindex", "recode"}
<1> SUFFICES ASSUME \A q \in D : pc[q] \notin {"reindex", "recode"} PROVE FALSE
  OBVIOUS
<1>1. \A r \in D : \E q \in D : q \in Waits(r)
  BY DEF Deadlocked
<1>2. \A r \in D : pc[r] \in {"create", "insert", "flush", "flush_parent", "attach", "detach"}
  BY <1>1, WaitsFor
<1>3. \A r \in D : pc[r] # "flush_parent"
  <2> SUFFICES ASSUME NEW r \in D, pc[r] = "flush_parent" PROVE FALSE
    OBVIOUS
  <2>1. PICK q \in D : q \in Waits(r)
    BY <1>1
  <2>2. tx[r].w \in Workorders \cap locks[q] /\ workorders[tx[r].w] # None
    BY <2>1, WaitsFor, AwaitedRows
  <2>3. pc[q] \in {"recode", "commit"}
    BY <2>2, HoldersStand
  <2>4. QED
    BY <1>2, <2>3
<1>4. \A r \in D : Submissions \cap locks[r] = {} /\ Attachments \cap locks[r] = {}
  BY <1>2, <1>3, HoldersStand
<1>5. \A r \in D : pc[r] = "create"
  BY <1>1, <1>2, <1>3, <1>4, WaitsFor, AwaitedRows
<1>6. \A r \in D : Workorders \cap locks[r] = {}
  BY <1>5, HoldersStand
<1>7. QED
  BY <1>1, <1>5, <1>6, WaitsFor DEF Deadlocked

\* Requests wait for each other in a circle only where one of them moves a day to
\* another's date or a workorder to another's code.
THEOREM OnlyKeySwapsDeadlockHolds == Spec => []OnlyKeySwapsDeadlock
<1>1. Inductive => OnlyKeySwapsDeadlock
  BY CirclesSwapKeys DEF OnlyKeySwapsDeadlock
<1>2. QED
  BY <1>1, InductiveHolds, PTL

-----------------------------------------------------------------------------
(* The errors. *)

\* Where clients do not call update_workorder, a second attempt finds its code.
Retried == NobodyRenames /\ SecondAttemptFinds

\* Every member of a circle is waited for by another.
LEMMA AwaitedInCircle ==
    ASSUME NEW D \in SUBSET Slots, Deadlocked(D), NEW r \in D
    PROVE  \E q \in D : r \in Waits(q)
<1> DEFINE E == D \ {r}
<1>1. CASE E = {}
  BY <1>1, WaitsFor DEF Deadlocked
<1>2. CASE E # {}
  <2>1. E \in (SUBSET D) \ {{}, D}
    BY <1>2
  <2>2. PICK q \in E : Waits(q) \cap (D \ E) # {}
    BY <2>1 DEF Deadlocked
  <2>3. QED
    BY <2>2
<1>3. QED
  BY <1>1, <1>2

\* A start_drive is in no circle, unless a workorder is renamed: whoever waits for
\* its workorder is another start_drive, which nobody waits for.
LEMMA StartDriveIsNoVictim ==
    ASSUME Inductive, NobodyRenames, NEW D \in SUBSET Slots, Deadlocked(D), NEW r \in D
    PROVE  tx[r].op # "start_drive"
<1> SUFFICES ASSUME tx[r].op = "start_drive" PROVE FALSE
  OBVIOUS
<1>1. \A q \in D : pc[q] \in {"create", "insert", "flush", "reindex", "flush_parent", "recode",
                               "attach", "detach"}
  BY WaitsFor DEF Deadlocked
<1>2. \A q \in D : pc[q] # "recode"
  BY Labels DEF NobodyRenames
<1>3. pc[r] \notin Free /\ StartSession(r)
  BY <1>1, SessionOf DEF Free
<1>4. pc[r] \in {"create", "insert"}
  BY <1>1, <1>3 DEF StartSession
<1>5. Submissions \cap locks[r] = {} /\ Attachments \cap locks[r] = {}
  BY <1>4, HoldersStand
<1>6. PICK q \in D : r \in Waits(q)
  BY AwaitedInCircle
<1>7. pc[q] # "flush_parent"
  <2> SUFFICES ASSUME pc[q] = "flush_parent" PROVE FALSE
    OBVIOUS
  <2>1. tx[q].w \in Workorders \cap locks[r] /\ workorders[tx[q].w] # None
    BY <1>6, WaitsFor, AwaitedRows
  <2>2. QED
    BY <1>4, <2>1, HoldersStand
<1>8. pc[q] = "create"
  BY <1>1, <1>2, <1>5, <1>6, <1>7, WaitsFor, AwaitedRows
<1>9. locks[q] = {}
  BY <1>8, Labels, SessionOf DEF StartSession, Free
<1>10. PICK p \in D : q \in Waits(p)
  BY AwaitedInCircle
<1>11. QED
  BY <1>1, <1>2, <1>9, <1>10, WaitsFor

\* The statements that end in an exception nothing handles.
LEMMA Escapes ==
    ASSUME Inductive, NEW r \in Slots, pc'[r] = "error",
           StartDriveStep(r) \/ DayStep(r) \/ ParentStep(r) \/ FileStep(r) \/ Commit(r)
    PROVE  \/ pc[r] = "create" /\ tx[r].again
           \/ tx[r].op \in Edits \cup {"upload_attachment"}
           \/ tx[r].op = "start_drive" /\ ClientTaken(tx[r].req.client)
<1>1. ASSUME NEW label, NEW session, NEW row, label # "error",
             Proceed(r, label, session) \/ Write(r, row, label, session)
      PROVE  FALSE
  BY <1>1 DEF Proceed, Write, Inductive, TypeOK
<1>2. ASSUME NEW outcome, outcome # "error", Rollback(r, outcome) PROVE FALSE
  BY <1>2 DEF Rollback, Answer, Inductive, TypeOK
<1>3. CASE FindWorkorder(r)
  BY <1>1, <1>2, <1>3 DEF FindWorkorder
<1>4. CASE CreateWorkorder(r)
  BY <1>1, <1>2, <1>4 DEF CreateWorkorder
<1>a. CASE CheckDuplicate(r)
  BY <1>1, <1>2, <1>a DEF CheckDuplicate
<1>5. CASE InsertDay(r)
  BY <1>1, <1>2, <1>5, Labels DEF InsertDay
<1>6. AfterFlush(tx[r]) # "error"
  BY DEF AfterFlush
<1>7. CASE FlushDay(r)
  BY <1>1, <1>6, <1>7 DEF FlushDay
<1>8. CASE ReindexDay(r)
  BY <1>8, Labels, SessionOf, DayLabels DEF ReindexDay, DaySession, Free
<1>9. CASE CountFiles(r) \/ LoadParent(r) \/ CapUpdate(r) \/ CapCompletion(r)
           \/ CloseParentAfterAdminEdit(r) \/ ReopenParent(r)
  BY <1>1, <1>2, <1>9 DEF CountFiles, LoadParent, CapUpdate, CapCompletion,
                          CloseParentAfterAdminEdit, ReopenParent
<1>10. CASE ParentStep(r)
  BY <1>1, <1>2, <1>10 DEF ParentStep, ReconcileWorkorder, FlushParent, RecodeWorkorder
<1>11. CASE CheckNoFile(r) \/ AttachFile(r)
  BY <1>11, Labels DEF CheckNoFile, AttachFile
<1>12. CASE StoreObject(r)
  BY <1>12, Labels DEF StoreObject
<1>13. CASE DetachFile(r) \/ RecountFiles(r)
  BY <1>1, <1>13 DEF DetachFile, RecountFiles
<1>14. CASE Commit(r)
  BY <1>14 DEF Commit, Answer, Inductive, TypeOK
<1>15. QED
  BY <1>3, <1>4, <1>a, <1>5, <1>7, <1>8, <1>9, <1>10, <1>11, <1>12, <1>13, <1>14
  DEF StartDriveStep, DayStep, FileStep

\* Only start_drive tries again.
LEMMA AgainMoves ==
    ASSUME Inductive, NEW r \in Slots,
           StartDriveStep(r) \/ DayStep(r) \/ ParentStep(r) \/ FileStep(r), ~Ends(r)
    PROVE  pc'[r] \in {"find", "create"} =>
              \/ /\ pc[r] = "find" /\ pc'[r] = "create" /\ tx'[r] = tx[r]
                 /\ ~CodeTaken(tx[r].req.code, None)
              \/ /\ pc[r] = "create" /\ pc'[r] = "find" /\ tx'[r].req = tx[r].req
                 /\ CodeTaken(tx[r].req.code, None)
<1>1. ASSUME NEW label, NEW session, NEW row, label \notin {"find", "create"},
             Proceed(r, label, session) \/ Write(r, row, label, session)
      PROVE  pc'[r] \notin {"find", "create"}
  BY <1>1 DEF Proceed, Write, Inductive, TypeOK
<1>2. CASE StartDriveStep(r)
  BY <1>2, FindMoves, CreateMoves, DuplicateMoves, InsertMoves DEF StartDriveStep, Reads, Works
<1>3. ASSUME NEW outcome \in Free, Rollback(r, outcome) PROVE FALSE
  BY <1>3, RollbackFacts
<1>4. AfterFlush(tx[r]) \notin {"find", "create"}
  BY DEF AfterFlush
<1>5. CASE FlushDay(r) \/ ReindexDay(r) \/ CountFiles(r) \/ LoadParent(r)
  BY <1>1, <1>3, <1>4, <1>5 DEF FlushDay, ReindexDay, CountFiles, LoadParent, Free
<1>6. CASE CapUpdate(r) \/ CapCompletion(r) \/ CloseParentAfterAdminEdit(r) \/ ReopenParent(r)
  <2>1. CASE CapUpdate(r)
    BY <1>1, <1>3, <2>1 DEF CapUpdate, Free
  <2>2. CASE CapCompletion(r)
    BY <1>1, <1>3, <2>2 DEF CapCompletion, Free
  <2>3. CASE CloseParentAfterAdminEdit(r)
    BY <1>1, <1>3, <2>3 DEF CloseParentAfterAdminEdit
  <2>4. CASE ReopenParent(r)
    <3>1. \E label \in {"flush_parent", "commit"} : \E session : Proceed(r, label, session)
      BY <2>4 DEF ReopenParent
    <3>2. QED
      BY <1>1, <3>1
  <2>5. QED
    BY <1>6, <2>1, <2>2, <2>3, <2>4
<1>7. CASE ParentStep(r)
  BY <1>7, ParentMoves
<1>8. CASE CheckNoFile(r) \/ AttachFile(r) \/ DetachFile(r) \/ RecountFiles(r)
  <2>1. CASE CheckNoFile(r)
    BY <1>1, <1>3, <2>1 DEF CheckNoFile, Free
  <2>2. CASE AttachFile(r)
    BY <1>1, <1>3, <2>2 DEF AttachFile, Free
  <2>3. CASE DetachFile(r)
    BY <1>1, <2>3 DEF DetachFile
  <2>4. CASE RecountFiles(r)
    BY <1>1, <2>4 DEF RecountFiles
  <2>5. QED
    BY <1>8, <2>1, <2>2, <2>3, <2>4
<1>9. CASE StoreObject(r)
  <2>1. ~(Answer(r, "rejected") /\ UNCHANGED tables)
    BY DEF Ends, Free
  <2>2. pc' = [pc EXCEPT ![r] = "attach"]
    BY <1>9, <2>1 DEF StoreObject
  <2>3. QED
    BY <2>2 DEF Inductive, TypeOK
<1>10. QED
  BY <1>2, <1>5, <1>6, <1>7, <1>8, <1>9 DEF DayStep, FileStep

\* A request that arrives is at its first attempt, at an operation clients call.
LEMMA ArriveFresh ==
    ASSUME Inductive, NEW r \in Slots, Arrive(r)
    PROVE  tx'[r].again = FALSE /\ tx'[r].op \in Ops \cup {"none"}
<1> DEFINE Fresh == tx'[r].again = FALSE /\ tx'[r].op \in Ops \cup {"none"}
<1>1. ASSUME NEW outcome, Rollback(r, outcome) PROVE Fresh
  BY <1>1 DEF Rollback, Answer, Inductive, TypeOK, Blank
<1>2. ASSUME NEW label, NEW session, session.again = FALSE, session.op \in Ops,
             Proceed(r, label, session)
      PROVE  Fresh
  BY <1>2 DEF Proceed, Inductive, TypeOK
<1>. HIDE DEF Fresh
<1>3. ASSUME NEW operation \in Ops, NEW s, NEW edited, NEW label,
             LoadDay(r, operation, s, edited, label)
      PROVE  Fresh
  <2> DEFINE session == [Blank EXCEPT !.op = operation, !.s = s, !.day = submissions[s],
                                      !.edit = edited]
  <2>1. session.again = FALSE /\ session.op = operation
    BY DEF Blank
  <2>2. Proceed(r, label, session)
    BY <1>3 DEF LoadDay
  <2>. HIDE DEF session
  <2>3. QED
    BY <1>2, <2>1, <2>2
<1>4. ASSUME NEW u, NEW s, NEW client, NEW code, NEW region, NEW total, NEW date,
             StartDrive(r, u, s, client, code, region, total, date)
      PROVE  Fresh
  <2> DEFINE session == [Blank EXCEPT !.op = "start_drive", !.s = s,
                             !.req = [code |-> code, region |-> region, total |-> total,
                                      client |-> client, date |-> date, owner |-> u]]
  <2>1. session.again = FALSE /\ session.op = "start_drive"
    BY DEF Blank
  <2>2. Proceed(r, "find", session) /\ "start_drive" \in Ops
    BY <1>4 DEF StartDrive, Accepts
  <2>. HIDE DEF session
  <2>3. QED
    BY <1>2, <2>1, <2>2
<1>5. ASSUME NEW u, NEW s, EndDrive(r, u, s) \/ CompleteSubmission(r, u, s) \/ ReopenSubmission(r, u, s)
      PROVE  Fresh
  BY <1>1, <1>3, <1>5 DEF EndDrive, CompleteSubmission, ReopenSubmission, AcceptsDay, Accepts
<1>6. ASSUME NEW u, NEW s, NEW version, NEW date, NEW grids,
             \/ UpdateSubmission(r, u, s, version, date, grids)
             \/ UpdateAdminSubmission(r, u, s, version, date, grids)
      PROVE  Fresh
  BY <1>1, <1>3, <1>6 DEF UpdateSubmission, UpdateAdminSubmission, EditDay, AcceptsDay, Accepts
<1>7. ASSUME NEW u, NEW s, NEW a, UploadAttachment(r, u, s, a) PROVE Fresh
  <2> DEFINE session == [Blank EXCEPT !.op = "upload_attachment", !.s = s, !.a = a,
                                      !.day = submissions[s]]
  <2>1. session.again = FALSE /\ session.op = "upload_attachment"
    BY DEF Blank
  <2>2. "upload_attachment" \in Ops /\ (Rollback(r, "rejected") \/ Proceed(r, "count", session))
    BY <1>7 DEF UploadAttachment, Accepts
  <2>. HIDE DEF session
  <2>3. QED
    BY <1>1, <1>2, <2>1, <2>2
<1>8. ASSUME NEW u, NEW w, NEW code, NEW region, NEW total,
             UpdateWorkorder(r, u, w, code, region, total)
      PROVE  Fresh
  <2> DEFINE session == [Blank EXCEPT !.op = "update_workorder", !.w = w,
                    !.wo = workorders[w], !.wedit = workorders[w],
                    !.req = [code |-> code, region |-> region, total |-> total, client |-> None,
                             date |-> CHOOSE d \in Dates : TRUE, owner |-> u]]
  <2>1. session.again = FALSE /\ session.op = "update_workorder"
    BY DEF Blank
  <2>2. /\ "update_workorder" \in Ops
        /\ Rollback(r, "rejected") \/ Proceed(r, "aggregate", session)
    BY <1>8 DEF UpdateWorkorder, Accepts
  <2>. HIDE DEF session
  <2>3. QED
    BY <1>1, <1>2, <2>1, <2>2
<1>9. ASSUME NEW u, NEW a, DeleteAttachment(r, u, a) PROVE Fresh
  <2> DEFINE s == attachments[a].submission
             session == [Blank EXCEPT !.op = "delete_attachment", !.s = s, !.a = a,
                                      !.day = submissions[s]]
  <2>1. session.again = FALSE /\ session.op = "delete_attachment"
    BY DEF Blank
  <2>2. /\ "delete_attachment" \in Ops
        /\ \/ Rollback(r, "rejected") \/ Rollback(r, "ok")
           \/ Proceed(r, "detach", session)
    BY <1>9 DEF DeleteAttachment, Accepts
  <2>. HIDE DEF session
  <2>3. QED
    BY <1>1, <1>2, <2>1, <2>2
<1>10. QED
  BY <1>4, <1>5, <1>6, <1>7, <1>8, <1>9 DEF Arrive, Fresh

\* Where no workorder is renamed, a taken code stays taken.
LEMMA CommitKeepsCodes ==
    ASSUME Inductive, NobodyRenames, NEW r \in Slots, Commit(r), NEW code,
           CodeTaken(code, None)
    PROVE  CodeTaken(code, None)'
<1>1. PICK x \in Workorders : workorders[x] # None /\ workorders[x].code = code
  BY DEF CodeTaken
<1>2. workorders'[x] # None
  BY <1>1, CommittedParents, StoreAssumption
<1>3. ~(ClaimsCode(r) /\ x = tx[r].w)
  <2> SUFFICES ASSUME ClaimsCode(r), x = tx[r].w PROVE FALSE
    OBVIOUS
  <2>1. tx[r].wo = None /\ x \in locks[r] /\ pc[r] = "commit"
    BY InductiveClaims DEF ClaimsAre, NobodyRenames, ClaimsCode, Commit
  <2>2. QED
    BY <1>1, <2>1, WrittenParent, StoreAssumption
<1>4. workorders'[x].code = code
  BY <1>1, <1>2, <1>3, CommittedCode
<1>5. QED
  BY <1>2, <1>4, StoreAssumption DEF CodeTaken

\* A second attempt goes on to find the code, whatever the others do meanwhile.
LEMMA NextKeepsRetried ==
    ASSUME "update_workorder" \notin Ops
    PROVE  Inductive /\ Retried /\ [Next]_vars => Retried'
<1> SUFFICES ASSUME Inductive, Retried, [Next]_vars PROVE Retried'
  OBVIOUS
<1>1. CASE UNCHANGED vars
  BY <1>1 DEF vars, Retried, NobodyRenames, SecondAttemptFinds, CodeTaken
<1>2. ASSUME NEW r \in Slots, OthersStand(r),
             \A code : CodeTaken(code, None) => CodeTaken(code, None)',
             tx'[r].op # "update_workorder",
             tx'[r].again /\ pc'[r] \in {"find", "create"}
                => pc'[r] = "find" /\ CodeTaken(tx'[r].req.code, None)
      PROVE  Retried'
  <2>1. NobodyRenames'
    BY <1>2 DEF OthersStand, Retried, NobodyRenames
  <2>2. ASSUME NEW q \in Slots, tx'[q].again, pc'[q] \in {"find", "create"}
        PROVE  pc'[q] = "find" /\ \E x \in Workorders : /\ workorders'[x] # None
                                                        /\ workorders'[x].code = tx'[q].req.code
    <3>1. pc'[q] = "find" /\ CodeTaken(tx'[q].req.code, None)
      BY <1>2, <2>2 DEF OthersStand, Retried, SecondAttemptFinds
    <3>2. ASSUME NEW code, code = tx'[q].req.code PROVE CodeTaken(code, None)'
      BY <1>2, <3>1, <3>2
    <3>3. QED
      BY <3>1, <3>2 DEF CodeTaken
  <2>3. SecondAttemptFinds'
    BY <2>2, StoreAssumption DEF SecondAttemptFinds, CodeTaken
  <2>4. QED
    BY <2>1, <2>3 DEF Retried
<1>3. UNCHANGED tables => \A code : CodeTaken(code, None) => CodeTaken(code, None)'
  BY DEF CodeTaken, tables
<1>4. ASSUME NEW r \in Slots, Ends(r) PROVE Retried'
  <2>1. UNCHANGED tables /\ OthersStand(r) /\ tx'[r].op = "none" /\ ~tx'[r].again
    BY <1>4 DEF Ends, Answer, OthersStand, Inductive, TypeOK, Blank
  <2>2. QED
    BY <1>2, <1>3, <2>1
<1>5. ASSUME NEW r \in Slots, Arrive(r) PROVE Retried'
  BY <1>2, <1>3, <1>5, ArriveMoves, ArriveFresh
<1>6. ASSUME NEW r \in Slots, Commit(r) PROVE Retried'
  <2>1. OthersStand(r) /\ tx'[r].op = "none" /\ ~tx'[r].again
    BY <1>6 DEF Commit, Answer, OthersStand, Inductive, TypeOK, Blank
  <2>2. \A code : CodeTaken(code, None) => CodeTaken(code, None)'
    BY <1>6, CommitKeepsCodes DEF Retried
  <2>3. QED
    BY <1>2, <2>1, <2>2
<1>7. ASSUME NEW r \in Slots, ~Ends(r),
             StartDriveStep(r) \/ DayStep(r) \/ ParentStep(r) \/ FileStep(r)
      PROVE  Retried'
  <2>1. Works(r)
    BY <1>7, FindMoves, CreateMoves, DuplicateMoves, InsertMoves, DayMoves, ParentMoves, FileMoves
    DEF StartDriveStep, Reads, Writes
  <2>2. UNCHANGED tables /\ OthersStand(r) /\ tx'[r].op # "update_workorder"
    BY <2>1 DEF Works, SameRows, Retried, NobodyRenames
  <2>3. tx'[r].again /\ pc'[r] \in {"find", "create"}
           => pc'[r] = "find" /\ CodeTaken(tx'[r].req.code, None)
    BY <1>7, AgainMoves DEF Retried, SecondAttemptFinds
  <2>4. QED
    BY <1>2, <1>3, <2>2, <2>3
<1>8. ASSUME NEW r \in Slots, Crash(r) \/ DeadlockVictim(r) PROVE Retried'
  BY <1>4, <1>8, RollbackFacts DEF Crash, DeadlockVictim, Free
<1>9. QED
  BY <1>1, <1>4, <1>5, <1>6, <1>7, <1>8 DEF Next, Step, Idle

\* Where no workorder is renamed, a 500 is the answer to a PATCH that moves a day
\* to a date taken meanwhile, to the upload of a second active file, to a
\* client_generated_id that a day already has or to a deadlock's victim;
\* start_drive, for all its races, answers no other.
THEOREM OnlyUniqueViolationsEscapeHolds ==
    ASSUME "update_workorder" \notin Ops
    PROVE  Spec => OnlyUniqueViolationsEscape
<1>1. Init => Retried
  BY DEF Init, Retried, NobodyRenames, SecondAttemptFinds, Blank
<1>2. ASSUME Inductive, Retried, [Next]_vars, NEW r \in Slots, pc[r] \notin Free,
             pc'[r] = "error"
      PROVE  \/ tx[r].op \in Edits \cup {"upload_attachment"}
             \/ tx[r].op = "start_drive" /\ ClientTaken(tx[r].req.client)
             \/ tx[r].op # "start_drive" /\ \E D \in SUBSET Slots : r \in D /\ Deadlocked(D)
  <2>1. \A q \in Slots \ {r} : ~OthersStand(q)
    BY <1>2 DEF OthersStand, Free
  <2>2. PICK q \in Slots : Arrive(q) \/ Step(q) \/ Crash(q)
    BY <1>2 DEF Next, Idle, vars, Free
  <2>3. OthersStand(q)
    BY <1>2, <2>2, ArriveMoves, FindMoves, CreateMoves, DuplicateMoves, InsertMoves, DayMoves, ParentMoves,
       FileMoves
    DEF Step, StartDriveStep, Crash, DeadlockVictim, Commit, Rollback, Answer, Ends, Reads,
        Writes, Works, OthersStand, Inductive, TypeOK
  <2>4. q = r /\ ~Arrive(r) /\ ~Crash(r)
    BY <1>2, <2>1, <2>3, ArriveMoves DEF Crash, Rollback, Answer, Inductive, TypeOK
  <2>5. CASE DeadlockVictim(r)
    BY <1>2, <2>5, StartDriveIsNoVictim DEF DeadlockVictim, Retried
  <2>6. CASE ~DeadlockVictim(r)
    BY <1>2, <2>2, <2>4, <2>6, Escapes DEF Step, Retried, SecondAttemptFinds
  <2>7. QED
    BY <2>5, <2>6
<1>3. Inductive /\ Retried /\ [Next]_vars =>
        [\A r \in Slots : pc[r] \notin Free /\ pc'[r] = "error" =>
          \/ tx[r].op \in Edits \cup {"upload_attachment"}
          \/ tx[r].op = "start_drive" /\ ClientTaken(tx[r].req.client)
          \/ tx[r].op # "start_drive" /\ \E D \in SUBSET Slots : r \in D /\ Deadlocked(D)]_vars
  BY <1>2
<1>4. QED
  BY <1>1, <1>3, NextKeepsRetried, InductiveHolds, PTL DEF Spec, OnlyUniqueViolationsEscape

-----------------------------------------------------------------------------
(* The aggregate of Store.  The sum is a recursive function on sets; the   *)
(* inductions go by a least counterexample.                                *)

\* The element the fold takes first.
First(S) == CHOOSE x \in S : TRUE

\* g is the fold that adds up v over the subsets of D.
Adds(g, v, D) ==
    g = [S \in SUBSET D |-> IF S = {} THEN 0 ELSE v[First(S)] + g[S \ {First(S)}]]

\* v gives every element of D a natural number.
Counts(v, D) == \A x \in D : v[x] \in Nat

-----------------------------------------------------------------------------
(* Induction. *)

\* A set of numbers has a least one.
LEMMA LeastNumber ==
    ASSUME NEW N, N \subseteq Nat, N # {}
    PROVE  \E n \in N : \A m \in N : n <= m
<1>1. IsWellFoundedOn(OpToRel(<, Nat), Nat)
  BY NatLessThanWellFounded
<1>2. PICK n \in N : \A m \in N : <<m, n>> \notin OpToRel(<, Nat)
  BY <1>1, WFMin
<1>3. \A m \in N : ~(m < n)
  BY <1>2 DEF OpToRel
<1>4. QED
  BY <1>3

\* Among subsets of a finite set one is minimal.
LEMMA MinimalSet ==
    ASSUME NEW D, IsFiniteSet(D), NEW B, B \subseteq SUBSET D, B # {}
    PROVE  \E S \in B : \A T \in B : T \subseteq S => T = S
<1> DEFINE N == {Cardinality(S) : S \in B}
<1>1. \A S \in B : IsFiniteSet(S) /\ Cardinality(S) \in Nat
  BY FS_Subset, FS_CardinalityType
<1>2. N \subseteq Nat /\ N # {}
  BY <1>1
<1>3. PICK n \in N : \A m \in N : n <= m
  BY <1>2, LeastNumber
<1>4. PICK S \in B : Cardinality(S) = n
  BY <1>3
<1>5. ASSUME NEW T \in B, T \subseteq S PROVE T = S
  <2>1. Cardinality(T) <= Cardinality(S) /\ (Cardinality(T) = Cardinality(S) => T = S)
    BY <1>1, <1>5, FS_Subset
  <2>2. Cardinality(S) <= Cardinality(T)
    BY <1>3, <1>4
  <2>3. QED
    BY <1>1, <2>1, <2>2
<1>6. QED
  BY <1>4, <1>5

-----------------------------------------------------------------------------
(* The fold. *)

\* The first element of a set that has any is in it.
LEMMA FirstIsIn == \A S : S # {} => First(S) \in S
BY DEF First

\* The fold exists over a finite set: there is a function that adds up the sets
\* of at most n elements, for every n.
LEMMA AddsExists ==
    ASSUME NEW D, IsFiniteSet(D), NEW v
    PROVE  \E g : Adds(g, v, D)
<1> DEFINE Upto(g, n) == \A S \in SUBSET D : Cardinality(S) <= n =>
                            g[S] = IF S = {} THEN 0 ELSE v[First(S)] + g[S \ {First(S)}]
           Extend(g) == [S \in SUBSET D |-> IF S = {} THEN 0 ELSE v[First(S)] + g[S \ {First(S)}]]
           Bad == {n \in Nat : ~\E g : Upto(g, n)}
<1>1. \A S \in SUBSET D : IsFiniteSet(S) /\ Cardinality(S) \in Nat
  BY FS_Subset, FS_CardinalityType
<1>2. \E g : Upto(g, 0)
  <2>1. \A S \in SUBSET D : Cardinality(S) <= 0 => S = {}
    BY <1>1, FS_EmptySet
  <2>2. Upto([S \in SUBSET D |-> 0], 0)
    BY <2>1
  <2>3. QED
    BY <2>2
<1>3. ASSUME NEW n \in Nat, NEW g, Upto(g, n) PROVE Upto(Extend(g), n + 1)
  <2> SUFFICES ASSUME NEW S \in SUBSET D, Cardinality(S) <= n + 1, S # {}
               PROVE  Extend(g)[S \ {First(S)}] = g[S \ {First(S)}]
    OBVIOUS
  <2> DEFINE T == S \ {First(S)}
  <2>1. T \in SUBSET D /\ Cardinality(T) = Cardinality(S) - 1
    BY <1>1, FirstIsIn, FS_RemoveElement
  <2>2. Cardinality(T) <= n /\ T \in SUBSET D
    BY <1>1, <2>1
  <2> HIDE DEF T
  <2>3. g[T] = IF T = {} THEN 0 ELSE v[First(T)] + g[T \ {First(T)}]
    BY <1>3, <2>2
  <2>4. Extend(g)[T] = IF T = {} THEN 0 ELSE v[First(T)] + g[T \ {First(T)}]
    BY <2>2
  <2>5. QED
    BY <2>3, <2>4 DEF T
<1>. HIDE DEF Upto, Extend
<1>4. Bad = {}
  <2> SUFFICES ASSUME Bad # {} PROVE FALSE
    OBVIOUS
  <2>1. PICK n \in Bad : \A m \in Bad : n <= m
    <3>1. Bad \subseteq Nat
      OBVIOUS
    <3>. HIDE DEF Bad
    <3>2. QED
      BY <3>1, LeastNumber
  <2>2. n # 0 /\ n \in Nat
    BY <1>2, <2>1
  <2>3. n - 1 \in Nat /\ n - 1 \notin Bad
    BY <2>1, <2>2
  <2>4. PICK g : Upto(g, n - 1)
    BY <2>3
  <2>5. Upto(Extend(g), n - 1 + 1)
    BY <1>3, <2>3, <2>4
  <2>6. n - 1 + 1 = n
    BY <2>2
  <2>7. QED
    BY <2>1, <2>5, <2>6
<1>5. PICK g : Upto(g, Cardinality(D))
  BY <1>1, <1>4
<1>6. \A S \in SUBSET D : Cardinality(S) <= Cardinality(D)
  BY FS_Subset
<1>7. \A S \in SUBSET D : g[S] = IF S = {} THEN 0 ELSE v[First(S)] + g[S \ {First(S)}]
  BY <1>5, <1>6 DEF Upto
<1>8. Adds([S \in SUBSET D |-> g[S]], v, D)
  BY <1>7, FirstIsIn DEF Adds
<1>9. QED
  BY <1>8

\* What the fold takes from a set, element by element.
LEMMA AddsTakesFirst ==
    ASSUME NEW D, NEW v, NEW g, Adds(g, v, D)
    PROVE  /\ g[{}] = 0
           /\ \A S \in SUBSET D : S # {} =>
                 First(S) \in S /\ g[S] = v[First(S)] + g[S \ {First(S)}]
<1>1. \A S \in SUBSET D : g[S] = IF S = {} THEN 0 ELSE v[First(S)] + g[S \ {First(S)}]
  BY DEF Adds
<1>2. {} \in SUBSET D
  OBVIOUS
<1>3. QED
  BY <1>1, <1>2, FirstIsIn

\* It adds up to a natural number.
LEMMA AddsType ==
    ASSUME NEW D, IsFiniteSet(D), NEW v, Counts(v, D),
           NEW g, Adds(g, v, D), NEW S \in SUBSET D
    PROVE  g[S] \in Nat
<1> DEFINE B == {T \in SUBSET D : g[T] \notin Nat}
<1> SUFFICES B = {}
  OBVIOUS
<1> SUFFICES ASSUME B # {} PROVE FALSE
  OBVIOUS
<1>1. PICK T \in B : \A U \in B : U \subseteq T => U = T
  <2>1. B \subseteq SUBSET D
    OBVIOUS
  <2>. HIDE DEF B
  <2>2. QED
    BY <2>1, MinimalSet
<1>2. T \in SUBSET D /\ g[T] \notin Nat
  BY <1>1
<1>. HIDE DEF B
<1>3. T # {}
  <2>1. g[{}] = 0
    BY AddsTakesFirst
  <2>2. QED
    BY <1>2, <2>1
<1>4. First(T) \in T /\ g[T] = v[First(T)] + g[T \ {First(T)}]
  BY <1>2, <1>3, AddsTakesFirst
<1>5. g[T \ {First(T)}] \in Nat /\ v[First(T)] \in Nat
  BY <1>1, <1>2, <1>4 DEF B, Counts
<1>6. QED
  BY <1>2, <1>4, <1>5

\* Two folds agree on a set when what they add up agrees on it.
LEMMA AddsAgree ==
    ASSUME NEW D, NEW v, NEW g, Adds(g, v, D), NEW E, NEW u, NEW h, Adds(h, u, E),
           NEW S, IsFiniteSet(S), S \in SUBSET D, S \in SUBSET E, \A x \in S : v[x] = u[x]
    PROVE  g[S] = h[S]
<1> DEFINE B == {T \in SUBSET S : g[T] # h[T]}
<1> SUFFICES B = {}
  OBVIOUS
<1> SUFFICES ASSUME B # {} PROVE FALSE
  OBVIOUS
<1>1. PICK T \in B : \A U \in B : U \subseteq T => U = T
  <2>1. B \subseteq SUBSET S
    OBVIOUS
  <2>. HIDE DEF B
  <2>2. QED
    BY <2>1, MinimalSet
<1>2. T \in SUBSET D /\ T \in SUBSET E
  BY <1>1
<1>3. T # {}
  BY <1>1, <1>2, AddsTakesFirst
<1>4. First(T) \in T
  BY <1>3, FirstIsIn
<1>5. g[T \ {First(T)}] = h[T \ {First(T)}] /\ v[First(T)] = u[First(T)]
  BY <1>1, <1>4
<1>6. /\ g[T] = v[First(T)] + g[T \ {First(T)}]
      /\ h[T] = u[First(T)] + h[T \ {First(T)}]
  BY <1>2, <1>3, AddsTakesFirst
<1>7. QED
  BY <1>1, <1>5, <1>6

\* The order in which the elements are taken does not matter.
LEMMA AddsTakesAny ==
    ASSUME NEW D, IsFiniteSet(D), NEW v, Counts(v, D),
           NEW g, Adds(g, v, D), NEW S \in SUBSET D, NEW x \in S
    PROVE  g[S] = v[x] + g[S \ {x}]
<1> DEFINE B == {T \in SUBSET D : \E y \in T : g[T] # v[y] + g[T \ {y}]}
<1> SUFFICES B = {}
  OBVIOUS
<1> SUFFICES ASSUME B # {} PROVE FALSE
  OBVIOUS
<1>1. PICK T \in B : \A U \in B : U \subseteq T => U = T
  <2>1. B \subseteq SUBSET D
    OBVIOUS
  <2>. HIDE DEF B
  <2>2. QED
    BY <2>1, MinimalSet
<1>2. PICK y \in T : g[T] # v[y] + g[T \ {y}]
  BY <1>1
<1> DEFINE c == First(T)
<1>3. c \in T /\ T \in SUBSET D /\ T # {}
  BY <1>1, <1>2, FirstIsIn
<1>4. g[T] = v[c] + g[T \ {c}]
  BY <1>3, AddsTakesFirst
<1>5. c # y
  BY <1>2, <1>4
<1>6. g[T \ {c}] = v[y] + g[(T \ {c}) \ {y}]
  <2>1. T \ {c} \notin B
    BY <1>1, <1>3
  <2>2. QED
    BY <1>3, <1>5, <2>1
<1>7. g[T \ {y}] = v[c] + g[(T \ {y}) \ {c}]
  <2>1. T \ {y} \notin B
    BY <1>1, <1>2
  <2>2. QED
    BY <1>3, <1>5, <2>1
<1>8. (T \ {c}) \ {y} = (T \ {y}) \ {c}
  OBVIOUS
<1>9. v[c] \in Nat /\ v[y] \in Nat /\ g[(T \ {c}) \ {y}] \in Nat
  BY <1>3, AddsType DEF Counts
<1>10. \A a, b, d \in Nat : a + (b + d) = b + (a + d)
  OBVIOUS
<1>11. v[c] + (v[y] + g[(T \ {c}) \ {y}]) = v[y] + (v[c] + g[(T \ {c}) \ {y}])
  BY <1>9, <1>10
<1>12. g[T] = v[c] + (v[y] + g[(T \ {c}) \ {y}])
  BY <1>4, <1>6
<1>13. v[y] + g[T \ {y}] = v[y] + (v[c] + g[(T \ {c}) \ {y}])
  BY <1>7, <1>8
<1>14. QED
  BY <1>2, <1>11, <1>12, <1>13

-----------------------------------------------------------------------------
(* The aggregate. *)

\* The days of workorder w.
DaysOf(w, days) == {s \in Submissions : days[s] # None /\ days[s].workorder = w}

GridsOf(w, days) == [s \in DaysOf(w, days) |-> days[s].grids]

\* What day s adds to the aggregate of workorder w.
Share(w, days, s) == IF s \in DaysOf(w, days) THEN days[s].grids ELSE 0

\* The aggregate is the fold over the days of the workorder.
LEMMA ProgressAdds ==
    ASSUME IsFiniteSet(Submissions), NEW w, NEW days
    PROVE  \E g : Adds(g, GridsOf(w, days), DaysOf(w, days)) /\ Progress(w, days) = g[DaysOf(w, days)]
<1> DEFINE S == DaysOf(w, days)
           G == CHOOSE g : g = [T \in SUBSET S |->
                                  IF T = {} THEN 0
                                  ELSE days[CHOOSE x \in T : TRUE].grids
                                         + g[T \ {CHOOSE x \in T : TRUE}]]
<1>1. Progress(w, days) = G[S]
  BY DEF Progress, MapThenSumSet, MapThenFoldSet, DaysOf
<1>2. IsFiniteSet(S)
  BY FS_Subset DEF DaysOf
<1>3. PICK g : Adds(g, GridsOf(w, days), S)
  BY <1>2, AddsExists
<1>4. ASSUME NEW h
      PROVE  Adds(h, GridsOf(w, days), S) <=>
             h = [T \in SUBSET S |-> IF T = {} THEN 0
                                     ELSE days[CHOOSE x \in T : TRUE].grids
                                            + h[T \ {CHOOSE x \in T : TRUE}]]
  <2>1. \A T \in SUBSET S : T # {} => GridsOf(w, days)[First(T)] = days[First(T)].grids
    BY FirstIsIn DEF GridsOf
  <2>. HIDE DEF S
  <2>2. [T \in SUBSET S |-> IF T = {} THEN 0
                           ELSE GridsOf(w, days)[First(T)] + h[T \ {First(T)}]]
        = [T \in SUBSET S |-> IF T = {} THEN 0
                             ELSE days[First(T)].grids + h[T \ {First(T)}]]
    BY <2>1
  <2>3. QED
    BY <2>2 DEF Adds, First
<1>5. Adds(G, GridsOf(w, days), S)
  <2> DEFINE IsFold(h) == h = [T \in SUBSET S |-> IF T = {} THEN 0
                                  ELSE days[CHOOSE x \in T : TRUE].grids
                                         + h[T \ {CHOOSE x \in T : TRUE}]]
  <2>1. IsFold(g) /\ G = CHOOSE h : IsFold(h)
    BY <1>3, <1>4
  <2>2. IsFold(G) => Adds(G, GridsOf(w, days), S)
    BY <1>4
  <2>. HIDE DEF IsFold, S, G
  <2>3. IsFold(G)
    BY <2>1
  <2>4. QED
    BY <2>2, <2>3
<1>6. QED
  BY <1>1, <1>5

\* The aggregate is a natural number.
LEMMA ProgressType ==
    ASSUME IsFiniteSet(Submissions), NEW w, NEW days,
           \A s \in Submissions : days[s] \in Submission \cup {None}
    PROVE  Progress(w, days) \in Nat
<1>1. IsFiniteSet(DaysOf(w, days))
  BY FS_Subset DEF DaysOf
<1>2. Counts(GridsOf(w, days), DaysOf(w, days))
  BY DEF DaysOf, GridsOf, Submission, Counts
<1>3. QED
  BY <1>1, <1>2, ProgressAdds, AddsType

\* When one day changes, the aggregate of each workorder changes by the change of
\* the day's share.
LEMMA ProgressMoves ==
    ASSUME IsFiniteSet(Submissions), NEW w, NEW days, NEW later, NEW s \in Submissions,
           \A x \in Submissions : days[x] \in Submission \cup {None}
                                  /\ later[x] \in Submission \cup {None},
           \A x \in Submissions \ {s} : later[x] = days[x]
    PROVE  Progress(w, later) = Progress(w, days) - Share(w, days, s) + Share(w, later, s)
<1> DEFINE S == DaysOf(w, days)
           L == DaysOf(w, later)
<1>1. S \ {s} = L \ {s} /\ IsFiniteSet(S) /\ IsFiniteSet(L) /\ IsFiniteSet(S \ {s})
  BY FS_Subset DEF DaysOf
<1>2. Counts(GridsOf(w, days), S) /\ Counts(GridsOf(w, later), L)
  BY DEF DaysOf, GridsOf, Submission, Counts
<1>3. PICK g : Adds(g, GridsOf(w, days), S) /\ Progress(w, days) = g[S]
  BY ProgressAdds
<1>4. PICK h : Adds(h, GridsOf(w, later), L) /\ Progress(w, later) = h[L]
  BY ProgressAdds
<1>5. \A x \in S \ {s} : GridsOf(w, days)[x] = GridsOf(w, later)[x]
  BY <1>1 DEF GridsOf, DaysOf
<1>6. g[S \ {s}] = h[S \ {s}]
  <2>1. S \ {s} \in SUBSET S /\ S \ {s} \in SUBSET L
    BY <1>1
  <2>. HIDE DEF S, L
  <2>2. QED
    BY <1>1, <1>3, <1>4, <1>5, <2>1, AddsAgree
<1>7. g[S] = Share(w, days, s) + g[S \ {s}] /\ g[S \ {s}] \in Nat /\ Share(w, days, s) \in Nat
  <2>1. CASE s \in S
    <3>1. Share(w, days, s) = GridsOf(w, days)[s]
      BY <2>1 DEF Share, GridsOf
    <3>. HIDE DEF S
    <3>2. g[S] = GridsOf(w, days)[s] + g[S \ {s}]
      BY <1>1, <1>2, <1>3, <2>1, AddsTakesAny
    <3>3. g[S \ {s}] \in Nat
      BY <1>1, <1>2, <1>3, AddsType
    <3>4. QED
      BY <1>2, <2>1, <3>1, <3>2, <3>3 DEF Counts
  <2>2. CASE s \notin S
    <3>1. S \ {s} = S /\ Share(w, days, s) = 0
      BY <2>2 DEF Share
    <3>. HIDE DEF S
    <3>2. g[S] \in Nat
      BY <1>1, <1>2, <1>3, AddsType
    <3>3. QED
      BY <3>1, <3>2
  <2>3. QED
    BY <2>1, <2>2
<1>8. h[L] = Share(w, later, s) + h[L \ {s}] /\ h[L \ {s}] \in Nat /\ Share(w, later, s) \in Nat
  <2>1. CASE s \in L
    <3>1. Share(w, later, s) = GridsOf(w, later)[s]
      BY <2>1 DEF Share, GridsOf
    <3>. HIDE DEF L
    <3>2. h[L] = GridsOf(w, later)[s] + h[L \ {s}]
      BY <1>1, <1>2, <1>4, <2>1, AddsTakesAny
    <3>3. h[L \ {s}] \in Nat
      BY <1>1, <1>2, <1>4, AddsType
    <3>4. QED
      BY <1>2, <2>1, <3>1, <3>2, <3>3 DEF Counts
  <2>2. CASE s \notin L
    <3>1. L \ {s} = L /\ Share(w, later, s) = 0
      BY <2>2 DEF Share
    <3>. HIDE DEF L
    <3>2. h[L] \in Nat
      BY <1>1, <1>2, <1>4, AddsType
    <3>3. QED
      BY <3>1, <3>2
  <2>3. QED
    BY <2>1, <2>2
<1>. HIDE DEF S, L
<1>9. PICK rest \in Nat : rest = g[S \ {s}] /\ rest = h[L \ {s}]
  BY <1>1, <1>6, <1>7
<1>10. /\ Progress(w, days) = Share(w, days, s) + rest
       /\ Progress(w, later) = Share(w, later, s) + rest
  BY <1>3, <1>4, <1>7, <1>8, <1>9
<1>11. QED
  BY <1>7, <1>8, <1>9, <1>10

-----------------------------------------------------------------------------
(* What the checks of a service have established by each of its statements. *)
(* The tables are parameters: days, parents and files.                     *)

\* The rows the session has loaded are the stored ones.
Current(t, days, parents) ==
    /\ t.day # None => days[t.s] = t.day
    /\ t.wo # None => parents[t.w] = t.wo

\* A completed workorder has a timestamp, stamped or about to be.
StampTells(row) == row.status = "COMPLETED" <=> Stamp(row.completed_at) = "set"

\* The days as the session sees them once it has written the rows of held.
Seen(t, held, days) ==
    [s \in Submissions |-> IF s \in held THEN FlushedDay(days[s], t.day, t.edit) ELSE days[s]]

\* The session has the workorder of its day.
HasParent(t) == t.wo # None /\ t.w = t.day.workorder

\* A completion goes from CHECKED_OUT, with a file, within the total, and closes
\* the workorder when the total is reached.
Completing(label, t, held, days, files) ==
    /\ t.day.status = "CHECKED_OUT"
    /\ label # "count" => ActiveFiles(t.s, files) # {}
    /\ label \in {"aggregate", "flush", "flush_parent", "commit"} => HasParent(t)
    /\ label = "aggregate" => t.wedit = t.wo
    /\ label \in {"flush", "flush_parent", "commit"} =>
          /\ ~(Progress(t.w, days) > t.wo.total)
          /\ t.wedit.status = IF Progress(t.w, days) >= t.wo.total THEN "COMPLETED"
                                                                  ELSE t.wo.status
    /\ label = "commit" => t.wedit = t.wo \/ t.w \in held

\* The session takes from its workorder what a completed workorder needs.
TakesCompletion(t, files) ==
    \/ t.op = "reopen_submission"
    \/ t.day.status = "COMPLETED" /\ ActiveFiles(t.s, files) \subseteq {t.a}

\* A reopening leaves the workorder ACTIVE, or makes it so.
Reopening(label, t, held, parents, files) ==
    /\ label = "flush_parent" => HasParent(t) /\ t.wedit.status = "ACTIVE"
    /\ label = "commit" /\ TakesCompletion(t, files) =>
          \/ t.day.workorder \notin held /\ parents[t.day.workorder].status # "COMPLETED"
          \/ HasParent(t) /\ t.wedit.status = "ACTIVE" /\ t.w \in held

\* No session lowers a total below the aggregate, or lifts the aggregate above it,
\* but the one of an admin's edit.
Capped(label, t, held, days) ==
    /\ t.op \in Changes => t.edit.grids = t.day.grids
    /\ t.op # "update_workorder" /\ t.wo # None => t.wedit.total = t.wo.total
    /\ t.op = "update_submission" /\ label = "aggregate" => HasParent(t)
    /\ t.op = "update_submission" /\ label = "commit" =>
          /\ HasParent(t)
          /\ ~(Progress(t.w, Seen(t, held, days)) - t.day.grids + t.edit.grids > t.wo.total)
    /\ t.op = "update_workorder" /\ label # "aggregate" =>
          t.wedit.total = t.wo.total \/ ~(t.wedit.total < Progress(t.w, days))

Established(label, t, held, days, parents, files) ==
    /\ Current(t, days, parents)
    /\ t.wedit # None => StampTells(t.wedit)
    /\ t.op = "start_drive" /\ t.wedit # None => t.wedit.status = "ACTIVE"
    /\ Capped(label, t, held, days)
    /\ t.op = "complete_submission" => Completing(label, t, held, days, files)
    /\ t.op \in {"reopen_submission", "delete_attachment"}
          => Reopening(label, t, held, parents, files)

Holds(label, t, held) == Established(label, t, held, submissions, workorders, attachments)

\* The timestamps of the rows are stored.
Stamped == \A w \in Workorders : workorders[w] # None => workorders[w].completed_at # "now"

Served == /\ CompletedAtTellsStatus /\ Stamped
          /\ \A r \in Slots : pc[r] \notin Free =>
                Established(pc[r], tx[r], locks[r], submissions, workorders, attachments)

-----------------------------------------------------------------------------
\* What a session established stands while the tables do.
LEMMA QuietKeepsServed ==
    ASSUME Served, UNCHANGED tables, NEW r \in Slots, OthersStand(r),
           pc'[r] \notin Free => Holds(pc'[r], tx'[r], locks'[r])
    PROVE  Served'
<1>1. CompletedAtTellsStatus' /\ Stamped'
  BY DEF Served, CompletedAtTellsStatus, Stamped, tables
<1>2. ASSUME NEW q \in Slots, pc'[q] \notin Free
      PROVE  Established(pc'[q], tx'[q], locks'[q], submissions', workorders', attachments')
  BY <1>2 DEF Served, Holds, OthersStand, tables
<1>3. QED
  BY <1>1, <1>2 DEF Served

\* A request that ends leaves nothing to establish.
LEMMA EndsKeepServed ==
    ASSUME Inductive, Served, NEW r \in Slots, Ends(r)
    PROVE  Served'
BY QuietKeepsServed DEF Ends, Answer, OthersStand, Inductive, TypeOK

\* A statement that reads, and what it has to establish.
LEMMA ProceedKeepsServed ==
    ASSUME Inductive, Served, NEW r \in Slots, NEW label, NEW session,
           Proceed(r, label, session), Holds(label, session, locks[r])
    PROVE  Served'
BY QuietKeepsServed DEF Proceed, OthersStand, Inductive, TypeOK

\* A flush, and what it has to establish.
LEMMA WriteKeepsServed ==
    ASSUME Inductive, Served, NEW r \in Slots, NEW row, NEW label, NEW session,
           Write(r, row, label, session), Holds(label, session, locks[r] \cup {row})
    PROVE  Served'
BY QuietKeepsServed DEF Write, OthersStand, Inductive, TypeOK

\* What the session of a request in flight has established.
LEMMA ServedSession ==
    ASSUME Inductive, Served, NEW r \in Slots, pc[r] \notin Free
    PROVE  Holds(pc[r], tx[r], locks[r]) /\ tx[r] \in Session
BY DEF Served, Holds, Inductive, TypeOK

-----------------------------------------------------------------------------
(* The requests that arrive. *)

\* A request for a day has loaded it, and no workorder yet.
LEMMA LoadDayServes ==
    ASSUME Inductive, Served, NEW r \in Slots, pc[r] \in Free,
           NEW operation \in DayOps, NEW s \in Submissions, submissions[s] \in Submission,
           NEW edited \in Submission, NEW label \in {"count", "flush"},
           operation \in Changes => edited.grids = submissions[s].grids,
           operation = "complete_submission" =>
              submissions[s].status = "CHECKED_OUT" /\ label = "count",
           LoadDay(r, operation, s, edited, label)
    PROVE  Served'
<1> DEFINE session == [Blank EXCEPT !.op = operation, !.s = s, !.day = submissions[s],
                                    !.edit = edited]
<1>1. /\ session.op = operation /\ session.s = s /\ session.day = submissions[s]
      /\ session.edit = edited /\ session.wo = None /\ session.wedit = None
  BY DEF Blank
<1>2. Proceed(r, label, session)
  BY DEF LoadDay
<1>. HIDE DEF session
<1>3. Capped(label, session, locks[r], submissions)
  BY <1>1 DEF Capped, DayOps, Edits, Changes
<1>4. Holds(label, session, locks[r])
  BY <1>1, <1>3
  DEF Holds, Established, Current, Completing, Reopening, DayOps, Edits, Changes
<1>5. QED
  BY <1>2, <1>4, ProceedKeepsServed

\* A start_drive has loaded nothing yet.
LEMMA StartDriveServes ==
    ASSUME Inductive, Served, NEW r \in Slots, NEW u, NEW s, NEW client, NEW code, NEW region,
           NEW total, NEW date, StartDrive(r, u, s, client, code, region, total, date)
    PROVE  Served'
<1> DEFINE session == [Blank EXCEPT !.op = "start_drive", !.s = s,
                             !.req = [code |-> code, region |-> region, total |-> total,
                                      client |-> client, date |-> date, owner |-> u]]
<1>1. session.op = "start_drive" /\ session.day = None /\ session.wo = None /\ session.wedit = None
  BY DEF Blank
<1>2. Proceed(r, "find", session)
  BY DEF StartDrive
<1>. HIDE DEF session
<1>3. Holds("find", session, locks[r])
  BY <1>1 DEF Holds, Established, Current, Capped, Changes
<1>4. QED
  BY <1>2, <1>3, ProceedKeepsServed

\* The owner and the admin change a day's status from the one they are told to.
LEMMA ChangesServe ==
    ASSUME Inductive, Served, NEW r \in Slots, NEW u, NEW s \in Submissions,
           EndDrive(r, u, s) \/ CompleteSubmission(r, u, s) \/ ReopenSubmission(r, u, s)
    PROVE  Served'
<1> DEFINE row == submissions[s]
<1>1. row \in Submission /\ pc[r] \in Free
  BY DEF EndDrive, CompleteSubmission, ReopenSubmission, AcceptsDay, Accepts, Inductive, TypeOK
<1>2. CASE Rollback(r, "rejected")
  BY <1>2, RollbackFacts, EndsKeepServed DEF Free
<1>. HIDE DEF row
<1>3. ASSUME NEW status \in DayStatus
      PROVE  /\ Bumped([row EXCEPT !.status = status]) \in Submission
             /\ Bumped([row EXCEPT !.status = status]).grids = row.grids
  <2> DEFINE changed == [row EXCEPT !.status = status]
  <2>1. changed \in Submission /\ changed.grids = row.grids
    BY <1>1 DEF Submission
  <2>. HIDE DEF changed
  <2>2. Bumped(changed) \in Submission /\ Bumped(changed).grids = row.grids
    BY <2>1 DEF Bumped, Submission
  <2>3. QED
    BY <2>2 DEF changed
<1>4. CASE LoadDay(r, "end_drive", s, Bumped([row EXCEPT !.status = "CHECKED_OUT"]), "flush")
  BY <1>1, <1>3, <1>4, LoadDayServes DEF row, DayOps, Changes, DayStatus
<1>5. CASE /\ row.status = "CHECKED_OUT"
           /\ LoadDay(r, "complete_submission", s, Bumped([row EXCEPT !.status = "COMPLETED"]),
                      "count")
  BY <1>1, <1>3, <1>5, LoadDayServes DEF row, DayOps, Changes, DayStatus
<1>6. CASE LoadDay(r, "reopen_submission", s, Bumped([row EXCEPT !.status = "CHECKED_OUT"]),
                   "flush")
  BY <1>1, <1>3, <1>6, LoadDayServes DEF row, DayOps, Changes, DayStatus
<1>7. QED
  BY <1>2, <1>4, <1>5, <1>6 DEF EndDrive, CompleteSubmission, ReopenSubmission, row

\* A PATCH edits the day as loaded.
LEMMA EditsServe ==
    ASSUME Inductive, Served, NEW r \in Slots, NEW u, NEW s \in Submissions, NEW version,
           NEW date \in Dates, NEW grids \in Grids,
           \/ UpdateSubmission(r, u, s, version, date, grids)
           \/ UpdateAdminSubmission(r, u, s, version, date, grids)
    PROVE  Served'
<1> DEFINE row == submissions[s]
           edited == [row EXCEPT !.date = date, !.grids = grids]
<1>1. row \in Submission /\ pc[r] \in Free
  BY DEF UpdateSubmission, UpdateAdminSubmission, AcceptsDay, Accepts, Inductive, TypeOK
<1>2. ASSUME NEW outcome \in Free, Rollback(r, outcome) PROVE Served'
  BY <1>2, RollbackFacts, EndsKeepServed
<1>3. Bumped(edited) \in Submission
  <2>1. edited \in Submission
    BY <1>1, StoreAssumption DEF Submission
  <2>. HIDE DEF edited
  <2>2. QED
    BY <2>1, BumpedDay
<1>4. ASSUME NEW operation \in Edits, LoadDay(r, operation, s, Bumped(edited), "flush")
      PROVE  Served'
  BY <1>1, <1>3, <1>4, LoadDayServes DEF DayOps, Changes, Edits
<1>5. QED
  BY <1>2, <1>4 DEF UpdateSubmission, UpdateAdminSubmission, EditDay, Edits, Free

\* A request for a file has loaded the file's day.
LEMMA FilesServe ==
    ASSUME Inductive, Served, NEW r \in Slots, NEW u, NEW a,
           \/ \E s \in Submissions : UploadAttachment(r, u, s, a)
           \/ DeleteAttachment(r, u, a)
    PROVE  Served'
<1>1. ASSUME NEW outcome \in Free, Rollback(r, outcome) PROVE Served'
  BY <1>1, RollbackFacts, EndsKeepServed
<1>2. ASSUME NEW operation \in {"upload_attachment", "delete_attachment"}, NEW s,
             NEW label \in {"count", "detach"},
             Proceed(r, label, [Blank EXCEPT !.op = operation, !.s = s, !.a = a,
                                             !.day = submissions[s]])
      PROVE  Served'
  <2> DEFINE session == [Blank EXCEPT !.op = operation, !.s = s, !.a = a,
                                      !.day = submissions[s]]
  <2>1. /\ session.op = operation /\ session.s = s /\ session.day = submissions[s]
        /\ session.wo = None /\ session.wedit = None
    BY DEF Blank
  <2>2. Proceed(r, label, session)
    BY <1>2
  <2>. HIDE DEF session
  <2>3. Holds(label, session, locks[r])
    BY <2>1 DEF Holds, Established, Current, Capped, Reopening, Changes
  <2>4. QED
    BY <2>2, <2>3, ProceedKeepsServed
<1>3. QED
  BY <1>1, <1>2 DEF UploadAttachment, DeleteAttachment, Free

\* A PATCH of a workorder has loaded it.
LEMMA WorkorderServes ==
    ASSUME Inductive, Served, NEW r \in Slots, NEW u, NEW w \in Workorders, NEW code,
           NEW region, NEW total, UpdateWorkorder(r, u, w, code, region, total)
    PROVE  Served'
<1>1. CASE Rollback(r, "rejected")
  BY <1>1, RollbackFacts, EndsKeepServed DEF Free
<1> DEFINE session == [Blank EXCEPT !.op = "update_workorder", !.w = w,
                    !.wo = workorders[w], !.wedit = workorders[w],
                    !.req = [code |-> code, region |-> region, total |-> total, client |-> None,
                             date |-> CHOOSE d \in Dates : TRUE, owner |-> u]]
<1>2. /\ session.op = "update_workorder" /\ session.day = None /\ session.w = w
      /\ session.wo = workorders[w] /\ session.wedit = workorders[w]
  BY DEF Blank
<1>3. CASE Proceed(r, "aggregate", session)
  <2>. HIDE DEF session
  <2>1. workorders[w] \in Workorder /\ workorders[w] # None
    BY DEF UpdateWorkorder, Inductive, TypeOK
  <2>2. StampTells(workorders[w])
    BY <2>1 DEF Served, CompletedAtTellsStatus, Stamped, StampTells, Stamp, Workorder
  <2>3. Holds("aggregate", session, locks[r])
    BY <1>2, <2>2 DEF Holds, Established, Current, Capped, Changes
  <2>4. QED
    BY <1>3, <2>3, ProceedKeepsServed
<1>4. QED
  BY <1>1, <1>3 DEF UpdateWorkorder

\* No request arrives with more than its session has established.
LEMMA ArriveServes ==
    ASSUME Inductive, Served, NEW r \in Slots, Arrive(r)
    PROVE  Served'
BY StartDriveServes, ChangesServe, EditsServe, FilesServe, WorkorderServes DEF Arrive

-----------------------------------------------------------------------------
(* The statements of start_drive. *)

\* A session with a workorder loaded or edited.
LEMMA ParentSet ==
    ASSUME NEW t \in Session, NEW w, NEW loaded, NEW edited
    PROVE  /\ WithParent(t, w, loaded, edited).w = w
           /\ WithParent(t, w, loaded, edited).wo = loaded
           /\ WithParent(t, w, loaded, edited).wedit = edited
           /\ WithEdit(t, edited).w = t.w /\ WithEdit(t, edited).wo = t.wo
           /\ WithEdit(t, edited).wedit = edited
BY DEF Session, WithParent, WithEdit

\* The timestamps of a stored row and its status agree, as CompletedAtTellsStatus says.
LEMMA StoredTells ==
    ASSUME Inductive, Served, NEW w \in Workorders, workorders[w] # None
    PROVE  workorders[w] \in Workorder /\ StampTells(workorders[w])
BY DEF Served, CompletedAtTellsStatus, Stamped, StampTells, Stamp, Workorder, Inductive, TypeOK

\* start_drive attaches to no COMPLETED workorder, and creates an ACTIVE one.
LEMMA StartDriveStepServes ==
    ASSUME Inductive, Served, NEW r \in Slots, StartDriveStep(r)
    PROVE  Served'
<1>1. /\ pc[r] \notin Free /\ tx[r].op = "start_drive" /\ tx[r] \in Session
      /\ Holds(pc[r], tx[r], locks[r]) /\ tx[r].day = None
  BY Labels, ServedSession, SessionOf
  DEF StartDriveStep, FindWorkorder, CreateWorkorder, CheckDuplicate, InsertDay, Free, StartSession
<1>2. ASSUME NEW outcome \in Free, Rollback(r, outcome) PROVE Served'
  BY <1>2, RollbackFacts, EndsKeepServed
<1>3. ASSUME NEW label, NEW held, NEW session, session.op = "start_drive", session.day = None,
             session.wo # None => workorders[session.w] = session.wo,
             session.wo # None => session.wedit.total = session.wo.total,
             session.wedit # None => StampTells(session.wedit) /\ session.wedit.status = "ACTIVE"
      PROVE  Holds(label, session, held)
  BY <1>3 DEF Holds, Established, Current, Capped, Changes
<1>4. /\ tx[r].wo # None => workorders[tx[r].w] = tx[r].wo
      /\ tx[r].wo # None => tx[r].wedit.total = tx[r].wo.total
      /\ tx[r].wedit # None => StampTells(tx[r].wedit) /\ tx[r].wedit.status = "ACTIVE"
  BY <1>1 DEF Holds, Established, Current, Capped
<1>5. CASE FindWorkorder(r)
  <2>1. CASE Proceed(r, "create", tx[r])
    BY <1>1, <1>3, <1>4, <2>1, ProceedKeepsServed
  <2>2. ASSUME NEW w \in Workorders, workorders[w] # None, workorders[w].status # "COMPLETED",
               Proceed(r, "duplicate", WithParent(tx[r], w, workorders[w], workorders[w]))
        PROVE  Served'
    <3> DEFINE session == WithParent(tx[r], w, workorders[w], workorders[w])
    <3>1. /\ session.op = "start_drive" /\ session.day = None /\ session.w = w
          /\ session.wo = workorders[w] /\ session.wedit = workorders[w]
      BY <1>1, ParentFields, ParentSet DEF SameRows
    <3>2. StampTells(workorders[w]) /\ workorders[w].status = "ACTIVE"
      BY <2>2, StoredTells DEF Workorder
    <3>3. Proceed(r, "duplicate", session)
      BY <2>2
    <3>. HIDE DEF session
    <3>4. QED
      BY <1>3, <3>1, <3>2, <3>3, ProceedKeepsServed
  <2>3. QED
    BY <1>2, <1>5, <2>1, <2>2 DEF FindWorkorder, WithParent, Free
<1>6. CASE CreateWorkorder(r)
  <2>1. tx[r].wo = None
    BY <1>1, <1>6, SessionOf DEF CreateWorkorder, StartSession
  <2>2. CASE Proceed(r, "find", [tx[r] EXCEPT !.again = TRUE])
    <3> DEFINE session == [tx[r] EXCEPT !.again = TRUE]
    <3>1. /\ session.op = "start_drive" /\ session.day = None /\ session.w = tx[r].w
          /\ session.wo = tx[r].wo /\ session.wedit = tx[r].wedit
      BY <1>1 DEF Session
    <3>2. Proceed(r, "find", session)
      BY <2>2
    <3>. HIDE DEF session
    <3>3. QED
      BY <1>3, <1>4, <3>1, <3>2, ProceedKeepsServed
  <2>3. ASSUME NEW w \in Workorders,
               Write(r, w, "duplicate", [tx[r] EXCEPT !.w = w, !.wedit = NewWorkorder(tx[r].req)])
        PROVE  Served'
    <3> DEFINE session == [tx[r] EXCEPT !.w = w, !.wedit = NewWorkorder(tx[r].req)]
    <3>1. /\ session.op = "start_drive" /\ session.day = None /\ session.wo = None
          /\ session.wedit = NewWorkorder(tx[r].req)
      BY <1>1, <2>1 DEF Session
    <3>2. Write(r, w, "duplicate", session)
      BY <2>3
    <3>. HIDE DEF session
    <3>3. /\ StampTells(NewWorkorder(tx[r].req))
          /\ NewWorkorder(tx[r].req).status = "ACTIVE"
      BY DEF NewWorkorder, StampTells, Stamp
    <3>4. QED
      BY <1>3, <3>1, <3>2, <3>3, WriteKeepsServed
  <2>4. QED
    BY <1>2, <1>6, <2>2, <2>3 DEF CreateWorkorder, Free
<1>7. CASE InsertDay(r)
  <2>1. CASE Write(r, tx[r].s, "commit", [tx[r] EXCEPT !.edit = NewDay(tx[r].w, tx[r].req)])
    <3> DEFINE session == [tx[r] EXCEPT !.edit = NewDay(tx[r].w, tx[r].req)]
    <3>1. /\ session.op = "start_drive" /\ session.day = None /\ session.w = tx[r].w
          /\ session.wo = tx[r].wo /\ session.wedit = tx[r].wedit
      BY <1>1 DEF Session
    <3>2. Write(r, tx[r].s, "commit", session)
      BY <2>1
    <3>. HIDE DEF session
    <3>3. QED
      BY <1>3, <1>4, <3>1, <3>2, WriteKeepsServed
  <2>2. QED
    BY <1>2, <1>7, <2>1 DEF InsertDay, Free
<1>8. CASE CheckDuplicate(r)
  <2>1. CASE Proceed(r, "insert", tx[r])
    BY <1>1, <1>3, <1>4, <2>1, ProceedKeepsServed
  <2>2. QED
    BY <1>2, <1>8, <2>1 DEF CheckDuplicate, Free
<1>9. QED
  BY <1>5, <1>6, <1>7, <1>8 DEF StartDriveStep

-----------------------------------------------------------------------------
(* The statements of the operations on a file. *)

\* A file's removal reopens the workorder when it took the completed day's last file.
LEMMA FileStepServes ==
    ASSUME Inductive, Served, NEW r \in Slots, FileStep(r)
    PROVE  Served'
<1>1. /\ pc[r] \notin Free /\ tx[r].op \in {"upload_attachment", "delete_attachment"}
      /\ Holds(pc[r], tx[r], locks[r])
  BY FileMoves, ServedSession
  DEF FileStep, CheckNoFile, StoreObject, AttachFile, DetachFile, RecountFiles, Free
<1>2. ASSUME NEW outcome \in Free, Rollback(r, outcome) PROVE Served'
  BY <1>2, RollbackFacts, EndsKeepServed
<1>3. ASSUME NEW label, NEW held,
             tx[r].op = "delete_attachment"
                => Reopening(label, tx[r], held, workorders, attachments)
      PROVE  Holds(label, tx[r], held)
  <2>1. Capped(label, tx[r], held, submissions)
    BY <1>1 DEF Holds, Established, Capped, Changes
  <2>2. QED
    BY <1>1, <1>3, <2>1 DEF Holds, Established
<1>4. CASE CheckNoFile(r)
  <2>1. Holds("store", tx[r], locks[r])
    BY <1>3 DEF Reopening
  <2>2. QED
    BY <1>2, <1>4, <2>1, ProceedKeepsServed DEF CheckNoFile, Free
<1>5. CASE StoreObject(r)
  <2>1. Holds("attach", tx[r], locks[r])
    BY <1>3 DEF Reopening
  <2>2. CASE pc' = [pc EXCEPT ![r] = "attach"] /\ UNCHANGED <<tables, tx, locks>>
    BY <2>1, <2>2, QuietKeepsServed DEF OthersStand, Inductive, TypeOK
  <2>3. CASE Answer(r, "rejected") /\ UNCHANGED tables
    BY <2>3, EndsKeepServed DEF Ends, Free
  <2>4. QED
    BY <1>5, <2>2, <2>3 DEF StoreObject
<1>6. CASE AttachFile(r)
  <2>1. tx[r].op # "delete_attachment"
    BY <1>6, Labels DEF AttachFile
  <2>2. Holds("commit", tx[r], locks[r] \cup {tx[r].a})
    BY <1>3, <2>1
  <2>3. QED
    BY <1>2, <1>6, <2>2, WriteKeepsServed DEF AttachFile, Free
<1>7. CASE DetachFile(r)
  <2> DEFINE label == IF tx[r].day.status = "COMPLETED" THEN "recount" ELSE "commit"
  <2>1. tx[r].op = "delete_attachment" /\ Write(r, tx[r].a, label, tx[r])
    BY <1>7, Labels DEF DetachFile
  <2>2. Holds(label, tx[r], locks[r] \cup {tx[r].a})
    BY <1>3, <2>1 DEF Reopening, TakesCompletion
  <2>3. QED
    BY <2>1, <2>2, WriteKeepsServed
<1>8. CASE RecountFiles(r)
  <2> DEFINE left == ActiveFiles(tx[r].s, FilesSeenBy(r))
             label == IF left = {} THEN "parent" ELSE "commit"
  <2>1. tx[r].op = "delete_attachment" /\ Proceed(r, label, tx[r]) /\ pc[r] = "recount"
    BY <1>8, Labels DEF RecountFiles
  <2>2. /\ locks[r] = {tx[r].a} /\ tx[r].a \in Attachments
        /\ attachments[tx[r].a] \in Attachment
    BY <1>1, <2>1, SessionOf DEF DeleteSession, Locked
  <2>3. ActiveFiles(tx[r].s, attachments) \subseteq {tx[r].a} => left = {}
    <3> SUFFICES ASSUME NEW a \in left PROVE a \in ActiveFiles(tx[r].s, attachments) /\ a # tx[r].a
      OBVIOUS
    <3>1. attachments[tx[r].a] # None
      BY <2>2, StoreAssumption
    <3>2. FilesSeenBy(r)[tx[r].a] = [submission |-> tx[r].s, active |-> FALSE]
      BY <2>2, <3>1 DEF FilesSeenBy
    <3>3. a \in Attachments /\ FilesSeenBy(r)[a] = [submission |-> tx[r].s, active |-> TRUE]
      BY DEF ActiveFiles
    <3>4. a # tx[r].a
      <4> SUFFICES ASSUME a = tx[r].a PROVE FALSE
        OBVIOUS
      <4>1. [submission |-> tx[r].s, active |-> FALSE].active
               = [submission |-> tx[r].s, active |-> TRUE].active
        BY <3>2, <3>3
      <4>2. QED
        BY <4>1
    <3>5. FilesSeenBy(r)[a] = attachments[a]
      BY <2>2, <3>3, <3>4 DEF FilesSeenBy
    <3>6. QED
      BY <3>3, <3>4, <3>5 DEF ActiveFiles
  <2>. HIDE DEF left
  <2>4. Holds(label, tx[r], locks[r])
    BY <1>3, <2>1, <2>3 DEF Reopening, TakesCompletion
  <2>5. QED
    BY <2>1, <2>4, ProceedKeepsServed
<1>9. QED
  BY <1>4, <1>5, <1>6, <1>7, <1>8 DEF FileStep

-----------------------------------------------------------------------------
(* The statements of the operations on a day. *)

\* What the session of an operation on a day knows at its statements.
LEMMA DayServed ==
    ASSUME Inductive, Served, NEW r \in Slots, DayStep(r)
    PROVE  /\ pc[r] \notin Free /\ tx[r].op \in DayOps \cup {"delete_attachment"}
           /\ tx[r] \in Session /\ Holds(pc[r], tx[r], locks[r])
           /\ tx[r].s \in Submissions /\ tx[r].day \in Submission
           /\ tx[r].day.workorder \in Workorders
           /\ workorders[tx[r].day.workorder] \in Workorder
           /\ workorders[tx[r].day.workorder] # None
<1>1. /\ pc[r] \notin Free /\ tx[r].op \in DayOps \cup {"delete_attachment"}
      /\ tx[r] \in Session /\ Holds(pc[r], tx[r], locks[r])
  BY DayMoves, ServedSession
  DEF DayStep, FlushDay, ReindexDay, CountFiles, LoadParent, CapUpdate, CapCompletion,
      CloseParentAfterAdminEdit, ReopenParent, Free
<1>2. DayLoaded(tx[r])
  BY <1>1, SessionOf DEF DaySession, DeleteSession
<1>3. /\ tx[r].s \in Submissions /\ tx[r].day \in Submission
      /\ submissions[tx[r].s] # None
      /\ tx[r].day.workorder = submissions[tx[r].s].workorder
  BY <1>2, StoreAssumption DEF DayLoaded
<1>4. tx[r].day.workorder \in Workorders /\ workorders[tx[r].day.workorder] # None
  BY <1>3 DEF Inductive, DaysHaveWorkorders, Submission
<1>5. QED
  BY <1>1, <1>3, <1>4 DEF Inductive, TypeOK

\* What an operation that only edits a day has to establish besides.
LEMMA EditEstablishes ==
    ASSUME Inductive, Served, NEW r \in Slots, DayStep(r), tx[r].op \in DayOps,
           NEW label, NEW held, NEW session, session.op = tx[r].op, session.s = tx[r].s,
           session.day = tx[r].day, session.edit = tx[r].edit,
           session.wo # None => workorders[session.w] = session.wo,
           session.wo # None => session.wedit.total = session.wo.total,
           session.wedit # None => StampTells(session.wedit),
           tx[r].op = "update_submission" /\ label = "aggregate" => HasParent(session),
           tx[r].op = "update_submission" /\ label = "commit" =>
              /\ HasParent(session)
              /\ ~(Progress(session.w, Seen(session, held, submissions))
                     - session.day.grids + session.edit.grids > session.wo.total),
           tx[r].op = "complete_submission" =>
              Completing(label, session, held, submissions, attachments),
           tx[r].op = "reopen_submission" =>
              Reopening(label, session, held, workorders, attachments)
    PROVE  Holds(label, session, held)
<1>1. Holds(pc[r], tx[r], locks[r])
  BY DayServed
<1>2. Current(session, submissions, workorders)
  BY <1>1 DEF Holds, Established, Current
<1>3. tx[r].op \notin {"start_drive", "update_workorder", "delete_attachment"}
  BY DEF DayOps, Edits, Changes
<1>4. Capped(label, session, held, submissions)
  BY <1>1, <1>3 DEF Holds, Established, Capped
<1>5. QED
  BY <1>2, <1>3, <1>4 DEF Holds, Established

\* The flush of a day leaves the session as it is.
LEMMA FlushDayServes ==
    ASSUME Inductive, Served, NEW r \in Slots, FlushDay(r) \/ ReindexDay(r) \/ CountFiles(r)
    PROVE  Served'
<1>1. DayStep(r) /\ tx[r].op \in DayOps
  BY Labels DEF DayStep, FlushDay, ReindexDay, CountFiles, DayOps, Changes
<1>2. /\ Holds(pc[r], tx[r], locks[r])
      /\ tx[r].wo # None => workorders[tx[r].w] = tx[r].wo
      /\ tx[r].wo # None => tx[r].wedit.total = tx[r].wo.total
      /\ tx[r].wedit # None => StampTells(tx[r].wedit)
      /\ tx[r].op = "complete_submission" =>
            Completing(pc[r], tx[r], locks[r], submissions, attachments)
  <2>1. Holds(pc[r], tx[r], locks[r]) /\ tx[r].op # "update_workorder"
    BY <1>1, DayServed DEF DayOps, Edits, Changes
  <2>2. QED
    BY <2>1 DEF Holds, Established, Current, Capped
<1>3. ASSUME NEW outcome \in Free, Rollback(r, outcome) PROVE Served'
  BY <1>3, RollbackFacts, EndsKeepServed
<1>4. CASE FlushDay(r)
  <2> DEFINE label == IF tx[r].edit.date # tx[r].day.date THEN "reindex" ELSE AfterFlush(tx[r])
             held == locks[r] \cup {tx[r].s}
  <2>1. Write(r, tx[r].s, label, tx[r]) /\ pc[r] = "flush"
    BY <1>4 DEF FlushDay
  <2>2. /\ tx[r].op \in Edits => label \in {"reindex", "parent"}
        /\ tx[r].op = "reopen_submission" => label \in {"reindex", "parent"}
        /\ tx[r].op = "complete_submission" =>
              \/ label \in {"reindex", "flush_parent"}
              \/ label = "commit" /\ tx[r].wedit = tx[r].wo
    BY DEF AfterFlush, Edits
  <2>. HIDE DEF label, held
  <2>3. Holds(label, tx[r], held)
    <3>1. tx[r].op = "complete_submission" =>
             Completing(label, tx[r], held, submissions, attachments)
      BY <1>2, <2>1, <2>2 DEF Completing
    <3>2. tx[r].op = "reopen_submission" =>
             Reopening(label, tx[r], held, workorders, attachments)
      BY <2>2 DEF Reopening
    <3>3. tx[r].op = "update_submission" => label \notin {"aggregate", "commit"}
      BY <2>2 DEF Edits
    <3>4. QED
      BY <1>1, <1>2, <3>1, <3>2, <3>3, EditEstablishes
  <2>4. QED
    BY <2>1, <2>3, WriteKeepsServed DEF held
<1>5. CASE ReindexDay(r)
  <2>1. tx[r].op \in Edits
    BY <1>1, <1>5, DayLabels, SessionOf DEF ReindexDay, Free, DaySession
  <2>2. AfterFlush(tx[r]) = "parent"
    BY <2>1 DEF AfterFlush, Edits
  <2>3. Holds("parent", tx[r], locks[r])
    BY <1>1, <1>2, <2>1, EditEstablishes DEF Edits
  <2>4. QED
    BY <1>3, <1>5, <2>2, <2>3, ProceedKeepsServed DEF ReindexDay, Free
<1>6. CASE CountFiles(r)
  <2>1. CASE ActiveFiles(tx[r].s, attachments) # {} /\ Proceed(r, "parent", tx[r])
    <3>1. tx[r].op = "complete_submission"
      BY <1>6 DEF CountFiles
    <3>2. Completing("parent", tx[r], locks[r], submissions, attachments)
      BY <1>2, <2>1, <3>1 DEF Completing
    <3>3. Holds("parent", tx[r], locks[r])
      BY <1>1, <1>2, <3>1, <3>2, EditEstablishes
    <3>4. QED
      BY <2>1, <3>3, ProceedKeepsServed
  <2>2. QED
    BY <1>3, <1>6, <2>1 DEF CountFiles, Free
<1>7. QED
  BY <1>4, <1>5, <1>6

\* The parent of a day is loaded as it is stored.
LEMMA LoadParentServes ==
    ASSUME Inductive, Served, NEW r \in Slots, LoadParent(r)
    PROVE  Served'
<1> DEFINE w == tx[r].day.workorder
           session == WithParent(tx[r], w, workorders[w], workorders[w])
<1>1. /\ DayStep(r) /\ tx[r].op \in Edits \cup {"complete_submission"} /\ pc[r] = "parent"
      /\ Proceed(r, "aggregate", session)
  BY DEF DayStep, LoadParent, WithParent
<1>2. /\ Holds(pc[r], tx[r], locks[r]) /\ tx[r] \in Session
      /\ w \in Workorders /\ workorders[w] # None
  BY <1>1, DayServed
<1>3. /\ session.op = tx[r].op /\ session.s = tx[r].s /\ session.day = tx[r].day
      /\ session.edit = tx[r].edit /\ session.w = w
      /\ session.wo = workorders[w] /\ session.wedit = workorders[w]
  BY <1>2, ParentFields, ParentSet DEF SameRows
<1>. HIDE DEF session
<1>4. StampTells(workorders[w]) /\ HasParent(session)
  BY <1>2, <1>3, StoredTells DEF HasParent
<1>5. tx[r].op = "complete_submission" =>
         Completing("aggregate", session, locks[r], submissions, attachments)
  BY <1>1, <1>2, <1>3, <1>4 DEF Holds, Established, Completing
<1>6. tx[r].op \in DayOps /\ tx[r].op # "reopen_submission"
  BY <1>1 DEF DayOps, Edits, Changes
<1>7. Holds("aggregate", session, locks[r])
  <2>. HIDE DEF w
  <2>1. QED
    BY <1>1, <1>3, <1>4, <1>5, <1>6, EditEstablishes
<1>8. QED
  BY <1>1, <1>7, ProceedKeepsServed

\* A closed workorder is stamped, and its total the same.
LEMMA ClosedTells ==
    ASSUME NEW row \in Workorder
    PROVE  /\ StampTells(Closed(row)) /\ Closed(row).status = "COMPLETED"
           /\ Closed(row).total = row.total
           /\ StampTells(Reopened(row)) /\ Reopened(row).status = "ACTIVE"
           /\ Reopened(row).total = row.total
BY DEF Closed, Reopened, StampTells, Stamp, Workorder

\* The caps hold the aggregate within the total, and tell when to close the parent.
LEMMA CapServes ==
    ASSUME Inductive, Served, NEW r \in Slots,
           CapUpdate(r) \/ CapCompletion(r) \/ CloseParentAfterAdminEdit(r)
    PROVE  Served'
<1>1. /\ DayStep(r) /\ pc[r] = "aggregate" /\ tx[r].op \in Edits \cup {"complete_submission"}
      /\ tx[r].op \in DayOps
  BY DEF DayStep, CapUpdate, CapCompletion, CloseParentAfterAdminEdit, DayOps, Edits, Changes
<1>2. /\ Holds(pc[r], tx[r], locks[r]) /\ tx[r] \in Session /\ pc[r] \notin Free
  BY <1>1, DayServed
<1>3. /\ tx[r].w \in Workorders /\ tx[r].wo \in Workorder /\ tx[r].wedit \in Workorder
  BY <1>1, <1>2, SessionOf DEF DaySession, ParentOf, ParentLoaded
<1>4. /\ workorders[tx[r].w] = tx[r].wo /\ tx[r].wedit.total = tx[r].wo.total
      /\ StampTells(tx[r].wedit)
      /\ tx[r].op = "update_submission" => HasParent(tx[r])
      /\ tx[r].op = "complete_submission" =>
            Completing("aggregate", tx[r], locks[r], submissions, attachments)
  <2>1. tx[r].wo # None /\ tx[r].wedit # None /\ tx[r].op # "update_workorder"
    BY <1>1, <1>3, StoreAssumption DEF Edits
  <2>2. QED
    BY <1>1, <1>2, <2>1 DEF Holds, Established, Current, Capped
<1>5. ASSUME NEW outcome \in Free, Rollback(r, outcome) PROVE Served'
  BY <1>5, RollbackFacts, EndsKeepServed
<1> DEFINE closing == WithEdit(tx[r], Closed(tx[r].wedit))
<1>6. /\ closing.op = tx[r].op /\ closing.s = tx[r].s /\ closing.day = tx[r].day
      /\ closing.edit = tx[r].edit /\ closing.w = tx[r].w /\ closing.wo = tx[r].wo
      /\ closing.wedit = Closed(tx[r].wedit)
  BY <1>2, ParentFields, ParentSet DEF SameRows
<1>7. /\ StampTells(Closed(tx[r].wedit)) /\ Closed(tx[r].wedit).status = "COMPLETED"
      /\ Closed(tx[r].wedit).total = tx[r].wedit.total
  BY <1>3, ClosedTells
<1>8. CASE CapUpdate(r)
  <2>1. CASE /\ ~(Progress(tx[r].w, DaysSeenBy(r)) - tx[r].day.grids + tx[r].edit.grids
                    > tx[r].wo.total)
             /\ Proceed(r, "commit", tx[r])
    <3>1. DaysSeenBy(r) = Seen(tx[r], locks[r], submissions)
      BY DEF DaysSeenBy, Seen
    <3>2. tx[r].op = "update_submission"
      BY <1>8 DEF CapUpdate
    <3>3. Holds("commit", tx[r], locks[r])
      BY <1>1, <1>4, <2>1, <3>1, <3>2, EditEstablishes
    <3>4. QED
      BY <2>1, <3>3, ProceedKeepsServed
  <2>2. QED
    BY <1>5, <1>8, <2>1 DEF CapUpdate, Free
<1>9. CASE CapCompletion(r)
  <2>1. tx[r].op = "complete_submission" /\ locks[r] = {}
    BY <1>1, <1>2, <1>9, SessionOf DEF CapCompletion, DaySession, Locked, Unlocked
  <2>2. DaysSeenBy(r) = submissions
    BY <2>1 DEF DaysSeenBy, Inductive, TypeOK
  <2> DEFINE total == Progress(tx[r].w, submissions)
  <2>3. CASE ~(total > tx[r].wo.total) /\ total >= tx[r].wo.total /\ Proceed(r, "flush", closing)
    <3>. HIDE DEF closing
    <3>1. Completing("flush", closing, locks[r], submissions, attachments)
      BY <1>4, <1>6, <1>7, <2>1, <2>3 DEF Completing, HasParent
    <3>2. Holds("flush", closing, locks[r])
      BY <1>1, <1>4, <1>6, <1>7, <2>1, <3>1, EditEstablishes
    <3>3. QED
      BY <2>3, <3>2, ProceedKeepsServed
  <2>4. CASE ~(total > tx[r].wo.total) /\ ~(total >= tx[r].wo.total) /\ Proceed(r, "flush", tx[r])
    <3>1. tx[r].wedit.status = tx[r].wo.status
      BY <1>4, <2>1 DEF Completing
    <3>2. Completing("flush", tx[r], locks[r], submissions, attachments)
      BY <1>4, <2>1, <2>4, <3>1 DEF Completing
    <3>3. Holds("flush", tx[r], locks[r])
      BY <1>1, <1>4, <2>1, <3>2, EditEstablishes
    <3>4. QED
      BY <2>4, <3>3, ProceedKeepsServed
  <2>5. QED
    BY <1>5, <1>9, <2>2, <2>3, <2>4 DEF CapCompletion, WithEdit, Free
<1>10. CASE CloseParentAfterAdminEdit(r)
  <2>1. tx[r].op = "update_admin_submission"
    BY <1>10 DEF CloseParentAfterAdminEdit
  <2>2. Holds("commit", tx[r], locks[r])
    BY <1>1, <1>4, <2>1, EditEstablishes
  <2>3. Holds("flush_parent", closing, locks[r])
    <3>. HIDE DEF closing
    <3>1. QED
      BY <1>1, <1>4, <1>6, <1>7, <2>1, EditEstablishes
  <2>4. QED
    BY <1>10, <2>2, <2>3, ProceedKeepsServed DEF CloseParentAfterAdminEdit, WithEdit
<1>11. QED
  BY <1>8, <1>9, <1>10

\* What takes a completion from its workorder makes it ACTIVE, or finds it so.
LEMMA ReopenParentServes ==
    ASSUME Inductive, Served, NEW r \in Slots, ReopenParent(r)
    PROVE  Served'
<1> DEFINE w == tx[r].day.workorder
           session == WithParent(tx[r], w, workorders[w], Reopened(workorders[w]))
<1>1. /\ DayStep(r) /\ pc[r] = "parent"
      /\ tx[r].op \in {"reopen_submission", "delete_attachment"}
  BY DEF DayStep, ReopenParent
<1>2. /\ Holds(pc[r], tx[r], locks[r]) /\ tx[r] \in Session /\ pc[r] \notin Free
      /\ w \in Workorders /\ workorders[w] # None /\ workorders[w] \in Workorder
  BY <1>1, DayServed
<1>3. ASSUME NEW label, NEW held, NEW next, next.op = tx[r].op, next.s = tx[r].s,
             next.day = tx[r].day, next.edit = tx[r].edit,
             next.wo # None => workorders[next.w] = next.wo,
             next.wo # None => next.wedit.total = next.wo.total,
             next.wedit # None => StampTells(next.wedit),
             Reopening(label, next, held, workorders, attachments)
      PROVE  Holds(label, next, held)
  <2>1. Current(next, submissions, workorders)
    BY <1>2, <1>3 DEF Holds, Established, Current
  <2>2. Capped(label, next, held, submissions)
    BY <1>1, <1>2, <1>3 DEF Holds, Established, Capped
  <2>3. QED
    BY <1>1, <1>3, <2>1, <2>2 DEF Holds, Established
<1>4. CASE Proceed(r, "flush_parent", session)
  <2>1. /\ session.op = tx[r].op /\ session.s = tx[r].s /\ session.day = tx[r].day
        /\ session.edit = tx[r].edit /\ session.w = w
        /\ session.wo = workorders[w] /\ session.wedit = Reopened(workorders[w])
    BY <1>2, ParentFields, ParentSet DEF SameRows
  <2>2. /\ StampTells(Reopened(workorders[w])) /\ Reopened(workorders[w]).status = "ACTIVE"
        /\ Reopened(workorders[w]).total = workorders[w].total
    BY <1>2, ClosedTells
  <2>. HIDE DEF session
  <2>3. Reopening("flush_parent", session, locks[r], workorders, attachments)
    BY <1>2, <2>1, <2>2 DEF Reopening, HasParent
  <2>4. Holds("flush_parent", session, locks[r])
    <3>. HIDE DEF w
    <3>1. QED
      BY <1>3, <2>1, <2>2, <2>3
  <2>5. QED
    BY <1>4, <2>4, ProceedKeepsServed
<1>5. CASE workorders[w].status # "COMPLETED" /\ Proceed(r, "commit", tx[r])
  <2>1. locks[r] \subseteq Submissions \cup Attachments
    <3>1. CASE tx[r].op = "reopen_submission"
      <4>1. tx[r].op \in DayOps
        BY <3>1 DEF DayOps, Changes
      <4>2. DaySession(r) /\ tx[r].s \in Submissions
        BY <1>2, <4>1, SessionOf DEF DaySession, DayLoaded
      <4>3. locks[r] \subseteq {tx[r].s}
        BY <1>1, <4>2 DEF DaySession, Locked
      <4>4. QED
        BY <4>2, <4>3
    <3>2. CASE tx[r].op = "delete_attachment"
      BY <1>1, <1>2, <3>2, SessionOf DEF DeleteSession, Locked
    <3>3. QED
      BY <1>1, <3>1, <3>2
  <2>2. w \notin locks[r]
    BY <1>2, <2>1, StoreAssumption
  <2>3. Reopening("commit", tx[r], locks[r], workorders, attachments)
    BY <1>5, <2>2 DEF Reopening
  <2>4. /\ tx[r].wo # None => workorders[tx[r].w] = tx[r].wo
        /\ tx[r].wo # None => tx[r].wedit.total = tx[r].wo.total
        /\ tx[r].wedit # None => StampTells(tx[r].wedit)
    BY <1>1, <1>2 DEF Holds, Established, Current, Capped
  <2>5. Holds("commit", tx[r], locks[r])
    BY <1>3, <2>3, <2>4
  <2>6. QED
    BY <1>5, <2>5, ProceedKeepsServed
<1>6. QED
  BY <1>4, <1>5 DEF ReopenParent, WithParent

-----------------------------------------------------------------------------
(* The statements that write a workorder. *)

\* The reconciliation stamps a workorder it completes, and keeps the total it is given.
LEMMA ReconciledTells ==
    ASSUME NEW row \in Workorder, NEW aggregate
    PROVE  StampTells(Reconciled(row, aggregate)) /\ Reconciled(row, aggregate).total = row.total
<1>1. CASE aggregate >= row.total
  <2> DEFINE stamp == IF row.completed_at = "null" THEN "now" ELSE row.completed_at
  <2>1. Stamp(stamp) = "set"
    BY DEF Stamp, Workorder
  <2>2. Reconciled(row, aggregate) = [row EXCEPT !.status = "COMPLETED", !.completed_at = stamp]
    BY <1>1 DEF Reconciled
  <2>. HIDE DEF stamp
  <2>3. QED
    BY <2>1, <2>2 DEF StampTells, Workorder
<1>2. CASE ~(aggregate >= row.total)
  BY <1>2 DEF Reconciled, StampTells, Stamp, Workorder
<1>3. QED
  BY <1>1, <1>2

\* update_workorder reconciles the row as it is stored.
LEMMA ReconcileServes ==
    ASSUME IsFiniteSet(Submissions), Inductive, Served, NEW r \in Slots, ReconcileWorkorder(r)
    PROVE  Served'
<1> DEFINE t == tx[r]
           aggregate == Progress(t.w, submissions)
           row == [t.wo EXCEPT !.code = Given(t.req.code, @), !.region = Given(t.req.region, @),
                               !.total = Given(t.req.total, @)]
           session == WithEdit(t, Reconciled(row, aggregate))
<1>1. pc[r] = "aggregate" /\ pc[r] \notin Free /\ t.op = "update_workorder"
  BY DEF ReconcileWorkorder, Free
<1>2. /\ t \in Session /\ t.wo \in Workorder /\ t.wo # None /\ t.req \in Request
      /\ Holds(pc[r], t, locks[r])
  BY <1>1, WorkorderSessionFacts, ServedSession, StoreAssumption DEF ParentLoaded
<1>3. aggregate \in Nat
  BY ProgressType DEF Inductive, TypeOK
<1>4. CASE Rollback(r, "rejected")
  BY <1>4, RollbackFacts, EndsKeepServed DEF Free
<1>5. CASE ~(t.req.total # None /\ t.req.total < aggregate) /\ Proceed(r, "flush_parent", session)
  <2>1. row \in Workorder /\ row.total = Given(t.req.total, t.wo.total)
    <3>1. /\ Given(t.req.code, t.wo.code) \in Codes
          /\ Given(t.req.region, t.wo.region) \in Regions
          /\ Given(t.req.total, t.wo.total) \in Nat
      BY <1>2 DEF Given, Request, Workorder
    <3>. HIDE DEF t
    <3>2. QED
      BY <1>2, <3>1 DEF Workorder
  <2>2. row.total = t.wo.total \/ ~(row.total < aggregate)
    BY <1>5, <2>1 DEF Given
  <2>. HIDE DEF row
  <2>3. /\ StampTells(Reconciled(row, aggregate))
        /\ Reconciled(row, aggregate).total = row.total
    BY <2>1, ReconciledTells
  <2>4. /\ session.op = t.op /\ session.s = t.s /\ session.day = t.day /\ session.w = t.w
        /\ session.wo = t.wo /\ session.wedit = Reconciled(row, aggregate)
    BY <1>2, ParentFields, ParentSet DEF SameRows
  <2>. HIDE DEF session
  <2>5. Current(session, submissions, workorders)
    BY <1>2, <2>4 DEF Holds, Established, Current
  <2>6. Capped("flush_parent", session, locks[r], submissions)
    BY <1>1, <2>2, <2>3, <2>4 DEF Capped, Changes
  <2>7. Holds("flush_parent", session, locks[r])
    BY <1>1, <2>3, <2>4, <2>5, <2>6 DEF Holds, Established
  <2>8. QED
    BY <1>5, <2>7, ProceedKeepsServed
<1>6. QED
  BY <1>4, <1>5 DEF ReconcileWorkorder, WithEdit

\* The UPDATE of the workorder leaves the session as it is.
LEMMA FlushParentServes ==
    ASSUME Inductive, Served, NEW r \in Slots, FlushParent(r) \/ RecodeWorkorder(r)
    PROVE  Served'
<1>1. pc[r] \in {"flush_parent", "recode"} /\ pc[r] \notin Free
  BY DEF FlushParent, RecodeWorkorder, Free
<1>2. Holds(pc[r], tx[r], locks[r])
  BY <1>1, ServedSession
<1>3. tx[r].op \in {"delete_attachment", "update_workorder"} \cup DayOps
  BY <1>1, Labels
<1>4. tx[r].op # "update_submission"
  BY <1>1, SessionOf, DayLabels DEF DaySession, DayOps, Edits
<1>5. tx[r].op # "update_workorder" => pc[r] # "recode" /\ tx[r].wedit.code = tx[r].wo.code
  BY <1>1, <1>3, Labels, SessionOf DEF DaySession, DeleteSession, ParentOf
<1>6. ASSUME NEW label \in {"recode", "commit"}, NEW held, tx[r].w \in held,
             tx[r].op # "update_workorder" => pc[r] = "flush_parent" /\ label = "commit"
      PROVE  Holds(label, tx[r], held)
  <2>1. Capped(label, tx[r], held, submissions)
    BY <1>1, <1>2, <1>4 DEF Holds, Established, Capped
  <2>2. tx[r].op = "complete_submission" =>
           Completing(label, tx[r], held, submissions, attachments)
    BY <1>2, <1>6 DEF Holds, Established, Completing
  <2>3. tx[r].op \in {"reopen_submission", "delete_attachment"} =>
           Reopening(label, tx[r], held, workorders, attachments)
    BY <1>2, <1>6 DEF Holds, Established, Reopening
  <2>4. QED
    BY <1>2, <2>1, <2>2, <2>3 DEF Holds, Established
<1>7. CASE FlushParent(r)
  BY <1>1, <1>5, <1>6, <1>7, WriteKeepsServed DEF FlushParent
<1>8. CASE RecodeWorkorder(r)
  <2>1. tx[r].op = "update_workorder" /\ tx[r].w \in locks[r]
    BY <1>8, Labels, SessionOf DEF RecodeWorkorder, WorkorderSession, Free
  <2>2. Holds("commit", tx[r], locks[r])
    BY <1>6, <2>1
  <2>3. CASE Rollback(r, "rejected")
    BY <2>3, RollbackFacts, EndsKeepServed DEF Free
  <2>4. CASE Proceed(r, "commit", tx[r])
    BY <2>2, <2>4, ProceedKeepsServed
  <2>5. QED
    BY <1>8, <2>3, <2>4 DEF RecodeWorkorder
<1>9. QED
  BY <1>7, <1>8

-----------------------------------------------------------------------------
(* The commit. *)

\* The workorder a commit writes becomes what the session made of it.
LEMMA CommittedRow ==
    ASSUME Inductive, Served, NEW r \in Slots, Commit(r), NEW w \in Workorders, w \in locks[r]
    PROVE  /\ w = tx[r].w /\ tx[r].wedit \in Workorder /\ workorders'[w] \in Workorder
           /\ workorders'[w].status = tx[r].wedit.status
           /\ workorders'[w].completed_at = Stamp(tx[r].wedit.completed_at)
           /\ workorders'[w].total = tx[r].wedit.total
           /\ StampTells(tx[r].wedit)
<1>1. /\ pc[r] = "commit" /\ pc[r] \notin Free
      /\ workorders'[w] = FlushedParent(workorders[w], tx[r].wo, tx[r].wedit)
  BY DEF Commit, ParentsSeenBy, Free
<1>2. /\ w = tx[r].w /\ tx[r].wedit \in Workorder
      /\ \/ tx[r].op = "start_drive" /\ tx[r].wo = None /\ workorders[w] = None
         \/ tx[r].wo \in Workorder /\ workorders[w] \in Workorder
  BY <1>1, WrittenParent
<1>3. Holds("commit", tx[r], locks[r]) /\ tx[r].wedit # None
  BY <1>1, <1>2, ServedSession, StoreAssumption
<1>4. StampTells(tx[r].wedit)
  BY <1>3 DEF Holds, Established
<1>5. CASE tx[r].op = "start_drive" /\ tx[r].wo = None
  <2>1. workorders'[w] = tx[r].wedit
    BY <1>1, <1>5 DEF FlushedParent
  <2>2. tx[r].wedit.status = "ACTIVE"
    BY <1>3, <1>5 DEF Holds, Established
  <2>3. Stamp(tx[r].wedit.completed_at) = tx[r].wedit.completed_at
    BY <1>4, <2>2 DEF StampTells, Stamp
  <2>4. QED
    BY <1>2, <1>4, <2>1, <2>3
<1>6. CASE tx[r].wo \in Workorder /\ workorders[w] \in Workorder
  <2>1. tx[r].wo # None
    BY <1>6, StoreAssumption
  <2>2. workorders[w] = tx[r].wo
    BY <1>2, <1>3, <2>1 DEF Holds, Established, Current
  <2>3. /\ workorders'[w].status = tx[r].wedit.status
        /\ workorders'[w].completed_at = Stamp(tx[r].wedit.completed_at)
        /\ workorders'[w].total = tx[r].wedit.total
    BY <1>1, <1>2, <1>6, <2>1, <2>2 DEF FlushedParent, Column, Workorder
  <2>4. workorders'[w] \in Workorder
    BY CommittedParents
  <2>5. QED
    BY <1>2, <1>4, <2>3, <2>4
<1>7. QED
  BY <1>2, <1>5, <1>6

\* With no other request in flight, nobody's session is overtaken by a commit.
LEMMA CommitServes ==
    ASSUME \A q, r \in Slots : q = r, Inductive, Served, NEW r \in Slots, Commit(r)
    PROVE  Served'
<1>1. \A q \in Slots : pc'[q] \in Free
  BY DEF Commit, Answer, Inductive, TypeOK, Free
<1>2. ASSUME NEW w \in Workorders, workorders'[w] # None
      PROVE  /\ workorders'[w].status = "COMPLETED" <=> workorders'[w].completed_at = "set"
             /\ workorders'[w].completed_at # "now"
  <2>1. CASE w \in locks[r]
    BY <2>1, CommittedRow DEF StampTells, Stamp
  <2>2. CASE w \notin locks[r]
    <3>1. workorders'[w] = workorders[w]
      BY <2>2, CommittedParents
    <3>2. QED
      BY <1>2, <3>1 DEF Served, CompletedAtTellsStatus, Stamped
  <2>3. QED
    BY <2>1, <2>2
<1>3. CompletedAtTellsStatus' /\ Stamped'
  BY <1>2 DEF CompletedAtTellsStatus, Stamped
<1>4. QED
  BY <1>1, <1>3 DEF Served

\* Served is kept by every step of a server that serves one request at a time.
LEMMA NextServes ==
    ASSUME IsFiniteSet(Submissions), \A q, r \in Slots : q = r
    PROVE  Inductive /\ Served /\ [Next]_vars => Served'
<1> SUFFICES ASSUME Inductive, Served, [Next]_vars PROVE Served'
  OBVIOUS
<1>1. CASE UNCHANGED vars
  BY <1>1 DEF vars, Served, CompletedAtTellsStatus, Stamped
<1>2. ASSUME NEW r \in Slots, Arrive(r) PROVE Served'
  BY <1>2, ArriveServes
<1>3. ASSUME NEW r \in Slots, StartDriveStep(r) \/ FileStep(r) \/ Commit(r) PROVE Served'
  BY <1>3, StartDriveStepServes, FileStepServes, CommitServes
<1>4. ASSUME NEW r \in Slots, DayStep(r) PROVE Served'
  BY <1>4, FlushDayServes, LoadParentServes, CapServes, ReopenParentServes DEF DayStep
<1>5. ASSUME NEW r \in Slots, ParentStep(r) PROVE Served'
  BY <1>5, ReconcileServes, FlushParentServes DEF ParentStep
<1>6. ASSUME NEW r \in Slots, Crash(r) \/ DeadlockVictim(r) PROVE Served'
  BY <1>6, RollbackFacts, EndsKeepServed DEF Crash, DeadlockVictim, Free
<1>7. QED
  BY <1>1, <1>2, <1>3, <1>4, <1>5, <1>6 DEF Next, Step, Idle

\* Served is an invariant of a server that serves one request at a time.
THEOREM ServedHolds ==
    ASSUME IsFiniteSet(Submissions), \A q, r \in Slots : q = r
    PROVE  Spec => []Served
<1>1. Init => Served
  BY DEF Init, Served, CompletedAtTellsStatus, Stamped, Free
<1>2. QED
  BY <1>1, NextServes, InductiveHolds, PTL DEF Spec

-----------------------------------------------------------------------------
(* The rules. *)

\* As long as one request is served at a time, a workorder is COMPLETED exactly
\* when it has a completed_at.
THEOREM CompletedAtTellsStatusHolds ==
    ASSUME IsFiniteSet(Submissions), \A q, r \in Slots : q = r
    PROVE  Spec => []CompletedAtTellsStatus
<1>1. Served => CompletedAtTellsStatus
  BY DEF Served
<1>2. QED
  BY <1>1, ServedHolds, PTL

\* Only a commit changes a table.
LEMMA OnlyCommitsWrite ==
    ASSUME Inductive, Next, ~UNCHANGED tables
    PROVE  \E r \in Slots : Commit(r)
<1>1. ASSUME NEW r \in Slots, Arrive(r) PROVE FALSE
  BY <1>1, ArriveMoves
<1>2. ASSUME NEW r \in Slots, StartDriveStep(r) \/ DayStep(r) \/ ParentStep(r) \/ FileStep(r)
      PROVE  FALSE
  BY <1>2, FindMoves, CreateMoves, DuplicateMoves, InsertMoves, DayMoves, ParentMoves, FileMoves
  DEF StartDriveStep, Reads, Writes, Works, Ends
<1>3. ASSUME NEW r \in Slots, Crash(r) \/ DeadlockVictim(r) PROVE FALSE
  BY <1>3 DEF Crash, DeadlockVictim, Rollback
<1>4. QED
  BY <1>1, <1>2, <1>3 DEF Next, Step, Idle, vars, tables

\* What a committing request has established.
LEMMA CommitEstablished ==
    ASSUME Inductive, Served, NEW r \in Slots, Commit(r)
    PROVE  /\ pc[r] = "commit" /\ pc[r] \notin Free /\ pc'[r] = "ok" /\ tx[r] \in Session
           /\ Holds("commit", tx[r], locks[r])
           /\ tx[r].op \in DayOps => DaySession(r) /\ DayLoaded(tx[r])
           /\ tx[r].op = "delete_attachment" => DeleteSession(r) /\ DayLoaded(tx[r])
           /\ tx[r].op = "start_drive" => StartSession(r)
<1>1. pc[r] = "commit" /\ pc[r] \notin Free /\ pc'[r] = "ok"
  BY DEF Commit, Answer, Inductive, TypeOK, Free
<1>2. Holds("commit", tx[r], locks[r]) /\ tx[r] \in Session
  BY <1>1, ServedSession
<1>3. QED
  BY <1>1, <1>2, SessionOf DEF DaySession, DeleteSession

\* The workorder of a day a session has loaded is stored.
LEMMA StoredParent ==
    ASSUME Inductive, Served, NEW r \in Slots, Commit(r), DayLoaded(tx[r])
    PROVE  /\ tx[r].s \in Submissions /\ submissions[tx[r].s] = tx[r].day
           /\ submissions[tx[r].s] # None
           /\ tx[r].day.workorder \in Workorders
           /\ workorders[tx[r].day.workorder] \in Workorder
<1>1. /\ tx[r].s \in Submissions /\ submissions[tx[r].s] \in Submission /\ tx[r].day # None
  BY StoreAssumption DEF DayLoaded
<1>2. submissions[tx[r].s] = tx[r].day
  BY <1>1, CommitEstablished DEF Holds, Established, Current
<1>3. submissions[tx[r].s] # None /\ tx[r].day.workorder \in Workorders
  BY <1>1, <1>2, StoreAssumption DEF Submission
<1>4. workorders[tx[r].day.workorder] # None
  BY <1>1, <1>2, <1>3 DEF Inductive, DaysHaveWorkorders
<1>5. QED
  BY <1>1, <1>2, <1>3, <1>4 DEF Inductive, TypeOK

\* A day has at most one active file.
LEMMA OneFile ==
    ASSUME UniqueFiles, NEW s \in Submissions, ActiveFiles(s, attachments) # {}
    PROVE  Cardinality(ActiveFiles(s, attachments)) = 1
<1>1. PICK a : ActiveFiles(s, attachments) = {a}
  BY DEF UniqueFiles
<1>2. QED
  BY <1>1, FS_Singleton

\* A completion commits only a CHECKED_OUT day with one active file, within its
\* workorder's total.
THEOREM CompletionRuleHolds ==
    ASSUME IsFiniteSet(Submissions), \A q, r \in Slots : q = r
    PROVE  Spec => CompletionRule
<1>1. ASSUME Inductive, Keyed, Served, [Next]_vars, NEW s \in Submissions, Becomes(s, "COMPLETED")
      PROVE  /\ submissions[s].status = "CHECKED_OUT"
             /\ Cardinality(ActiveFiles(s, attachments)) = 1
             /\ Progress(submissions[s].workorder, submissions)
                   <= Total(submissions[s].workorder)
  <2>1. PICK r \in Slots : Commit(r)
    BY <1>1, OnlyCommitsWrite DEF Becomes, vars, tables
  <2>2. s \in locks[r] /\ s = tx[r].s /\ tx[r].op = "complete_submission"
    <3>1. /\ s \in locks[r] /\ s = tx[r].s /\ tx[r].op \in DayOps
          /\ submissions'[s].status = IF tx[r].op \in Edits THEN submissions[s].status
                                      ELSE StatusAfter[AuditEntry[tx[r].op]]
      BY <1>1, <2>1, CommittedDays DEF Becomes
    <3>2. tx[r].op \in Changes /\ StatusAfter[AuditEntry[tx[r].op]] = "COMPLETED"
      BY <1>1, <3>1 DEF Becomes, DayOps
    <3>3. QED
      BY <3>1, <3>2 DEF Changes, StatusAfter, AuditEntry
  <2>3. /\ Holds("commit", tx[r], locks[r]) /\ DayLoaded(tx[r]) /\ DaySession(r)
        /\ submissions[s] = tx[r].day /\ tx[r].day.workorder \in Workorders
        /\ workorders[tx[r].day.workorder] \in Workorder
    <3>1. tx[r].op \in DayOps
      BY <2>2 DEF DayOps, Changes
    <3>2. Holds("commit", tx[r], locks[r]) /\ DayLoaded(tx[r]) /\ DaySession(r)
      BY <1>1, <2>1, <3>1, CommitEstablished
    <3>3. QED
      BY <1>1, <2>1, <2>2, <3>2, StoredParent
  <2>4. Completing("commit", tx[r], locks[r], submissions, attachments)
    BY <2>2, <2>3 DEF Holds, Established
  <2>5. /\ tx[r].w = tx[r].day.workorder /\ workorders[tx[r].w] = tx[r].wo
        /\ ~(Progress(tx[r].w, submissions) > tx[r].wo.total)
    BY <2>3, <2>4 DEF Completing, HasParent, Holds, Established, Current
  <2>6. Progress(tx[r].w, submissions) \in Nat /\ tx[r].wo.total \in Nat
    BY <1>1, <2>3, <2>5, ProgressType DEF Inductive, TypeOK, Workorder
  <2>7. Cardinality(ActiveFiles(s, attachments)) = 1
    BY <1>1, <2>2, <2>4, OneFile DEF Completing, Keyed
  <2>8. submissions[s].status = "CHECKED_OUT"
    BY <2>3, <2>4 DEF Completing
  <2>9. QED
    BY <2>3, <2>5, <2>6, <2>7, <2>8 DEF Total
<1>2. Inductive /\ Keyed /\ Served /\ [Next]_vars =>
        [\A s \in Submissions : Becomes(s, "COMPLETED") =>
          /\ submissions[s].status = "CHECKED_OUT"
          /\ Cardinality(ActiveFiles(s, attachments)) = 1
          /\ Progress(submissions[s].workorder, submissions)
                <= Total(submissions[s].workorder)]_vars
  BY <1>1
<1>3. QED
  BY <1>2, ServedHolds, InductiveHolds, KeyedHolds, PTL DEF Spec, CompletionRule

\* A request that is answered 2xx from its commit has committed.
LEMMA AnsweredCommits ==
    ASSUME \A q, r \in Slots : q = r, [Next]_vars, NEW r \in Slots, pc[r] = "commit",
           pc'[r] = "ok", Inductive
    PROVE  Commit(r)
<1>1. Arrive(r) \/ Step(r) \/ Crash(r)
  BY DEF Next, Idle, vars, Free
<1>2. ~Arrive(r)
  BY ArriveMoves DEF Free
<1>3. ~Crash(r) /\ ~DeadlockVictim(r)
  BY DEF Crash, DeadlockVictim, Rollback, Answer, Inductive, TypeOK
<1>4. ~StartDriveStep(r) /\ ~FileStep(r) /\ ~ParentStep(r)
  BY DEF StartDriveStep, FindWorkorder, CreateWorkorder, CheckDuplicate, InsertDay, FileStep, CheckNoFile,
         StoreObject, AttachFile, DetachFile, RecountFiles, ParentStep, ReconcileWorkorder,
         FlushParent, RecodeWorkorder
<1>5. ~DayStep(r)
  BY DEF DayStep, FlushDay, ReindexDay, CountFiles, LoadParent, CapUpdate, CapCompletion,
         CloseParentAfterAdminEdit, ReopenParent
<1>6. QED
  BY <1>1, <1>2, <1>3, <1>4, <1>5 DEF Step

\* What the commit makes of a workorder that was there.
LEMMA CommittedParent ==
    ASSUME Inductive, Served, NEW r \in Slots, Commit(r), NEW w \in Workorders,
           workorders[w] # None
    PROVE  /\ w \in locks[r] =>
                 /\ w = tx[r].w /\ tx[r].wo # None /\ workorders[w] = tx[r].wo
                 /\ workorders'[w].status = tx[r].wedit.status
                 /\ workorders'[w].total = tx[r].wedit.total
           /\ w \notin locks[r] => workorders'[w] = workorders[w]
<1>1. CASE w \notin locks[r]
  BY <1>1, CommittedParents
<1>2. CASE w \in locks[r]
  <2>1. /\ w = tx[r].w
        /\ workorders'[w].status = tx[r].wedit.status
        /\ workorders'[w].total = tx[r].wedit.total
    BY <1>2, CommittedRow
  <2>2. tx[r].wo # None
    BY <1>2, WrittenParent, StoreAssumption DEF Commit
  <2>3. workorders[w] = tx[r].wo
    BY <2>1, <2>2, CommitEstablished DEF Holds, Established, Current
  <2>4. QED
    BY <1>2, <2>1, <2>2, <2>3
<1>3. QED
  BY <1>1, <1>2

\* A completion closes its workorder exactly when the aggregate has reached the total.
THEOREM CompletionClosesFullParentHolds ==
    ASSUME IsFiniteSet(Submissions), \A q, r \in Slots : q = r
    PROVE  Spec => CompletionClosesFullParent
<1>1. ASSUME Inductive, Served, [Next]_vars, NEW r \in Slots, Commits(r, "complete_submission")
      PROVE  LET w == submissions[tx[r].s].workorder IN
             workorders'[w].status = IF Full(w, submissions) THEN "COMPLETED"
                                     ELSE workorders[w].status
  <2> DEFINE w == tx[r].day.workorder
  <2>1. Commit(r) /\ tx[r].op = "complete_submission"
    BY <1>1, AnsweredCommits DEF Commits
  <2>2. Holds("commit", tx[r], locks[r]) /\ DayLoaded(tx[r])
    BY <1>1, <2>1, CommitEstablished DEF DayOps, Changes
  <2>3. /\ submissions[tx[r].s] = tx[r].day /\ w \in Workorders /\ workorders[w] \in Workorder
        /\ workorders[w] # None
    BY <1>1, <2>1, <2>2, StoredParent, StoreAssumption
  <2>4. Completing("commit", tx[r], locks[r], submissions, attachments)
    BY <2>1, <2>2 DEF Holds, Established
  <2>5. tx[r].w = w /\ tx[r].wo # None
    BY <2>4 DEF Completing, HasParent
  <2>. HIDE DEF w
  <2>6. workorders[w] = tx[r].wo
    BY <2>2, <2>5 DEF Holds, Established, Current
  <2>7. tx[r].wedit.status = IF Progress(w, submissions) >= tx[r].wo.total
                             THEN "COMPLETED" ELSE tx[r].wo.status
    BY <2>4, <2>5 DEF Completing
  <2>8. workorders'[w].status = tx[r].wedit.status
    <3>1. CASE w \in locks[r]
      BY <1>1, <2>1, <2>3, <3>1, CommittedParent
    <3>2. CASE w \notin locks[r]
      <4>1. tx[r].wedit = tx[r].wo
        BY <2>4, <2>5, <3>2 DEF Completing
      <4>2. QED
        BY <1>1, <2>1, <2>3, <2>6, <3>2, <4>1, CommittedParent
    <3>3. QED
      BY <3>1, <3>2
  <2>9. QED
    BY <2>3, <2>6, <2>7, <2>8 DEF Full, Total, w
<1>2. Inductive /\ Served /\ [Next]_vars =>
        [\A r \in Slots : Commits(r, "complete_submission") =>
          LET w == submissions[tx[r].s].workorder IN
          workorders'[w].status = IF Full(w, submissions) THEN "COMPLETED"
                                  ELSE workorders[w].status]_vars
  BY <1>1
<1>3. QED
  BY <1>2, ServedHolds, InductiveHolds, PTL DEF Spec, CompletionClosesFullParent

\* A completed day that is reopened or loses its last file leaves its workorder ACTIVE.
THEOREM LossReopensParentHolds ==
    ASSUME IsFiniteSet(Submissions), \A q, r \in Slots : q = r
    PROVE  Spec => LossReopensParent
<1>1. ASSUME Inductive, Served, [Next]_vars, NEW r \in Slots,
             \/ Commits(r, "reopen_submission")
             \/ /\ Commits(r, "delete_attachment")
                /\ submissions[tx[r].s].status = "COMPLETED"
                /\ ActiveFiles(tx[r].s, attachments') = {}
      PROVE  workorders'[submissions[tx[r].s].workorder].status = "ACTIVE"
  <2> DEFINE w == tx[r].day.workorder
  <2>1. Commit(r) /\ tx[r].op \in {"reopen_submission", "delete_attachment"}
    BY <1>1, AnsweredCommits DEF Commits
  <2>2. /\ Holds("commit", tx[r], locks[r]) /\ DayLoaded(tx[r])
        /\ tx[r].op = "delete_attachment" => DeleteSession(r)
    BY <1>1, <2>1, CommitEstablished DEF DayOps, Changes
  <2>3. /\ submissions[tx[r].s] = tx[r].day /\ w \in Workorders /\ workorders[w] \in Workorder
        /\ workorders[w] # None
    BY <1>1, <2>1, <2>2, StoredParent, StoreAssumption
  <2>4. Reopening("commit", tx[r], locks[r], workorders, attachments)
    BY <2>1, <2>2 DEF Holds, Established
  <2>5. TakesCompletion(tx[r], attachments)
    <3>1. CASE tx[r].op = "reopen_submission"
      BY <3>1 DEF TakesCompletion
    <3>2. CASE tx[r].op = "delete_attachment"
      <4>1. tx[r].day.status = "COMPLETED" /\ ActiveFiles(tx[r].s, attachments') = {}
        BY <1>1, <2>3, <3>2 DEF Commits
      <4>2. ASSUME NEW a \in ActiveFiles(tx[r].s, attachments) PROVE a = tx[r].a
        <5>1. a \in Attachments /\ (a \notin locks[r] => attachments'[a] = attachments[a])
          BY <1>1, <2>1, CommittedFiles DEF ActiveFiles
        <5>2. a \in locks[r]
          BY <4>1, <4>2, <5>1 DEF ActiveFiles
        <5>3. QED
          BY <1>1, <2>1, <5>1, <5>2, WrittenFile DEF Commit
      <4>3. QED
        BY <4>1, <4>2 DEF TakesCompletion
    <3>3. QED
      BY <2>1, <3>1, <3>2
  <2>6. \/ w \notin locks[r] /\ workorders[w].status # "COMPLETED"
        \/ tx[r].w = w /\ tx[r].wedit.status = "ACTIVE" /\ tx[r].w \in locks[r]
    BY <2>4, <2>5 DEF Reopening, HasParent
  <2>. HIDE DEF w
  <2>7. workorders'[w].status = "ACTIVE"
    BY <1>1, <2>1, <2>3, <2>6, CommittedParent DEF Workorder
  <2>8. QED
    BY <2>3, <2>7 DEF w
<1>2. Inductive /\ Served /\ [Next]_vars =>
        [\A r \in Slots :
          \/ Commits(r, "reopen_submission")
          \/ /\ Commits(r, "delete_attachment")
             /\ submissions[tx[r].s].status = "COMPLETED"
             /\ ActiveFiles(tx[r].s, attachments') = {}
          => workorders'[submissions[tx[r].s].workorder].status = "ACTIVE"]_vars
  BY <1>1
<1>3. QED
  BY <1>2, ServedHolds, InductiveHolds, PTL DEF Spec, LossReopensParent

\* A day is created under a workorder that is ACTIVE as it is.
THEOREM NoDayUnderCompletedWorkorderHolds ==
    ASSUME IsFiniteSet(Submissions), \A q, r \in Slots : q = r
    PROVE  Spec => NoDayUnderCompletedWorkorder
<1>1. ASSUME Inductive, Served, [Next]_vars, NEW s \in Submissions, submissions[s] = None,
             submissions'[s] # None
      PROVE  workorders'[submissions'[s].workorder].status = "ACTIVE"
  <2>1. PICK r \in Slots : Commit(r)
    BY <1>1, OnlyCommitsWrite DEF vars, tables
  <2>2. /\ s = tx[r].s /\ tx[r].op = "start_drive" /\ StartSession(r)
        /\ submissions'[s].workorder = tx[r].w
    BY <1>1, <2>1, CommittedDays
  <2>3. Holds("commit", tx[r], locks[r]) /\ pc[r] = "commit"
    BY <1>1, <2>1, CommitEstablished
  <2>4. tx[r].w \in Workorders /\ tx[r].wedit # None
    BY <2>2, <2>3, StoreAssumption DEF StartSession
  <2>5. tx[r].wedit.status = "ACTIVE"
    BY <2>2, <2>3, <2>4 DEF Holds, Established
  <2>6. CASE tx[r].w \in locks[r]
    BY <1>1, <2>1, <2>2, <2>4, <2>5, <2>6, CommittedRow
  <2>7. CASE tx[r].w \notin locks[r]
    <3>1. tx[r].wo = tx[r].wedit
      BY <2>2, <2>3, <2>7 DEF StartSession
    <3>2. workorders[tx[r].w] = tx[r].wedit
      BY <2>3, <2>4, <3>1 DEF Holds, Established, Current
    <3>3. QED
      BY <1>1, <2>1, <2>2, <2>4, <2>5, <2>7, <3>2, CommittedParents
  <2>8. QED
    BY <2>6, <2>7
<1>2. Inductive /\ Served /\ [Next]_vars =>
        [\A s \in Submissions : submissions[s] = None /\ submissions'[s] # None =>
          workorders'[submissions'[s].workorder].status = "ACTIVE"]_vars
  BY <1>1
<1>3. QED
  BY <1>2, ServedHolds, InductiveHolds, PTL DEF Spec, NoDayUnderCompletedWorkorder

\* The share of the day a commit writes, before and after.
LEMMA CommittedShare ==
    ASSUME Inductive, Served, NEW r \in Slots, Commit(r), tx[r].s \in Submissions \cap locks[r],
           NEW w \in Workorders
    PROVE  \/ Share(w, submissions', tx[r].s) = Share(w, submissions, tx[r].s)
           \/ /\ tx[r].op \in Edits /\ w = tx[r].day.workorder
              /\ tx[r].day \in Submission /\ tx[r].edit \in Submission
              /\ Share(w, submissions, tx[r].s) = tx[r].day.grids
              /\ Share(w, submissions', tx[r].s) = tx[r].edit.grids
<1> DEFINE s == tx[r].s
<1>1. /\ pc[r] = "commit" /\ Holds("commit", tx[r], locks[r])
      /\ submissions'[s] = FlushedDay(submissions[s], tx[r].day, tx[r].edit)
  BY CommitEstablished DEF Commit, DaysSeenBy
<1>2. CASE tx[r].op = "start_drive" /\ StartSession(r)
  <2>1. submissions[s] = None /\ submissions'[s] = NewDay(tx[r].w, tx[r].req)
    BY <1>1, <1>2, FlushedNewDay DEF StartSession
  <2>2. Share(w, submissions, s) = 0
    BY <2>1 DEF Share, DaysOf
  <2>3. Share(w, submissions', s) = 0
    BY <2>1 DEF Share, DaysOf, NewDay
  <2>4. QED
    BY <2>2, <2>3
<1>3. CASE tx[r].op \in DayOps /\ DaySession(r)
  <2>1. /\ tx[r].day \in Submission /\ tx[r].edit \in Submission /\ tx[r].day # None
        /\ submissions[s] # None /\ submissions[s] = tx[r].day
    <3>1. tx[r].day \in Submission /\ tx[r].edit \in Submission /\ DayLoaded(tx[r])
      BY <1>3 DEF DaySession, DayLoaded
    <3>2. QED
      BY <3>1, StoredParent, StoreAssumption
  <2>2. /\ submissions'[s] # None /\ submissions'[s].workorder = tx[r].day.workorder
    BY <2>1, CommittedDays
  <2>3. submissions'[s].grids = tx[r].edit.grids
    BY <1>1, <2>1 DEF FlushedDay, Column, Submission
  <2>4. CASE w # tx[r].day.workorder
    <3>1. Share(w, submissions, s) = 0
      BY <2>1, <2>4 DEF Share, DaysOf
    <3>2. Share(w, submissions', s) = 0
      BY <2>2, <2>4 DEF Share, DaysOf
    <3>3. QED
      BY <3>1, <3>2
  <2>5. CASE w = tx[r].day.workorder
    <3>1. Share(w, submissions, s) = tx[r].day.grids
      BY <2>1, <2>5 DEF Share, DaysOf
    <3>2. Share(w, submissions', s) = tx[r].edit.grids
      BY <2>1, <2>2, <2>3, <2>5 DEF Share, DaysOf
    <3>3. tx[r].op \in Changes => tx[r].edit.grids = tx[r].day.grids
      BY <1>1 DEF Holds, Established, Capped
    <3>4. QED
      BY <1>3, <2>1, <2>5, <3>1, <3>2, <3>3 DEF DayOps
  <2>6. QED
    BY <2>4, <2>5
<1>4. QED
  BY <1>1, <1>2, <1>3, WrittenDay

\* Neither a driver's edit nor a new total lets the aggregate exceed the total.
THEOREM OnlyAdminEditsExceedTotalHolds ==
    ASSUME IsFiniteSet(Submissions), \A q, r \in Slots : q = r
    PROVE  Spec => OnlyAdminEditsExceedTotal
<1>1. ASSUME Inductive, Inductive', Served, [Next]_vars, NEW w \in Workorders,
             workorders[w] # None, Progress(w, submissions) <= Total(w),
             Progress(w, submissions') > workorders'[w].total
      PROVE  \E r \in Slots : Commits(r, "update_admin_submission")
  <2> DEFINE before == Progress(w, submissions)
             after == Progress(w, submissions')
  <2>1. before \in Nat /\ after \in Nat /\ Total(w) \in Nat /\ workorders[w] \in Workorder
    BY <1>1, ProgressType DEF Inductive, TypeOK, Total, Workorder
  <2>2. PICK r \in Slots : Commit(r)
    <3>1. ~UNCHANGED tables
      BY <1>1, <2>1 DEF Total, tables
    <3>2. QED
      BY <1>1, <3>1, OnlyCommitsWrite DEF vars, tables
  <2>3. Holds("commit", tx[r], locks[r]) /\ pc[r] = "commit" /\ pc'[r] = "ok"
    BY <1>1, <2>2, CommitEstablished
  <2>4. SUFFICES ASSUME tx[r].op # "update_admin_submission" PROVE FALSE
    BY <2>3 DEF Commits
  <2>5. CASE tx[r].s \notin Submissions \cap locks[r]
    <3>1. \A s \in Submissions : s \notin locks[r]
      BY <1>1, <2>2, <2>3, <2>5, WrittenDay
    <3>2. submissions' = submissions
      BY <1>1, <2>2, <3>1 DEF Commit, DaysSeenBy, Inductive, TypeOK
    <3>3. workorders'[w].total = Total(w) \/ ~(workorders'[w].total < before)
      <4>1. CASE w \notin locks[r]
        BY <1>1, <2>2, <4>1, CommittedParents DEF Total
      <4>2. CASE w \in locks[r]
        <5>1. /\ w = tx[r].w /\ tx[r].wo # None /\ workorders[w] = tx[r].wo
              /\ workorders'[w].total = tx[r].wedit.total
          BY <1>1, <2>2, <4>2, CommittedParent
        <5>2. tx[r].wedit.total = tx[r].wo.total \/ ~(tx[r].wedit.total < before)
          BY <2>3, <5>1 DEF Holds, Established, Capped
        <5>3. QED
          BY <5>1, <5>2 DEF Total
      <4>3. QED
        BY <4>1, <4>2
    <3>4. workorders'[w].total \in Nat
      BY <1>1, <2>1, <2>2, CommittedParents DEF Workorder
    <3>5. QED
      BY <1>1, <2>1, <3>2, <3>3, <3>4
  <2>6. CASE tx[r].s \in Submissions \cap locks[r]
    <3>1. tx[r].op \in DayOps \cup {"start_drive"}
      BY <1>1, <2>3, <2>6, WrittenDay
    <3>2. workorders'[w].total = Total(w)
      <4>1. w \in locks[r] => tx[r].wedit.total = tx[r].wo.total
        <5>1. tx[r].op # "update_workorder"
          BY <3>1 DEF DayOps, Edits, Changes
        <5>2. w \in locks[r] => tx[r].wo # None
          BY <1>1, <2>2, CommittedParent
        <5>3. QED
          BY <2>3, <5>1, <5>2 DEF Holds, Established, Capped
      <4>2. QED
        BY <1>1, <2>2, <4>1, CommittedParent DEF Total
    <3>3. after = before - Share(w, submissions, tx[r].s) + Share(w, submissions', tx[r].s)
      <4>1. \A x \in Submissions \ {tx[r].s} : submissions'[x] = submissions[x]
        BY <1>1, <2>2, <2>3, CommittedDays, WrittenDay
      <4>2. \A x \in Submissions : submissions[x] \in Submission \cup {None}
                                   /\ submissions'[x] \in Submission \cup {None}
        BY <1>1 DEF Inductive, TypeOK
      <4>3. QED
        BY <2>6, <4>1, <4>2, ProgressMoves
    <3>4. Share(w, submissions, tx[r].s) \in Nat
      BY <1>1, <2>6 DEF Share, DaysOf, Inductive, TypeOK, Submission
    <3>5. CASE Share(w, submissions', tx[r].s) = Share(w, submissions, tx[r].s)
      BY <1>1, <2>1, <3>2, <3>3, <3>4, <3>5
    <3>6. CASE /\ tx[r].op \in Edits /\ w = tx[r].day.workorder
               /\ tx[r].day \in Submission /\ tx[r].edit \in Submission
               /\ Share(w, submissions, tx[r].s) = tx[r].day.grids
               /\ Share(w, submissions', tx[r].s) = tx[r].edit.grids
      <4>1. tx[r].op = "update_submission"
        BY <2>4, <3>6 DEF Edits
      <4>2. /\ tx[r].w = w /\ tx[r].wo # None
            /\ ~(Progress(tx[r].w, Seen(tx[r], locks[r], submissions))
                   - tx[r].day.grids + tx[r].edit.grids > tx[r].wo.total)
        BY <2>3, <3>6, <4>1 DEF Holds, Established, Capped, HasParent
      <4>3. Seen(tx[r], locks[r], submissions) = submissions'
        BY <2>2 DEF Seen, Commit, DaysSeenBy
      <4>4. tx[r].wo.total = Total(w)
        BY <2>3, <4>2 DEF Holds, Established, Current, Total
      <4>5. ~(after - tx[r].day.grids + tx[r].edit.grids > Total(w))
        BY <4>2, <4>3, <4>4
      <4>6. tx[r].day.grids \in Nat /\ tx[r].edit.grids \in Nat
        BY <3>6 DEF Submission
      <4>7. after = before - tx[r].day.grids + tx[r].edit.grids
        BY <3>3, <3>6
      <4>. HIDE DEF before, after
      <4>8. after <= Total(w)
        BY <1>1, <2>1, <4>5, <4>6, <4>7 DEF before
      <4>9. QED
        BY <1>1, <2>1, <3>2, <4>8 DEF after
    <3>7. QED
      BY <1>1, <2>2, <2>6, <3>5, <3>6, CommittedShare
  <2>7. QED
    BY <2>5, <2>6
<1>2. Inductive /\ Inductive' /\ Served /\ [Next]_vars =>
        [\A w \in Workorders :
          /\ workorders[w] # None
          /\ Progress(w, submissions) <= Total(w)
          /\ Progress(w, submissions') > workorders'[w].total
          => \E r \in Slots : Commits(r, "update_admin_submission")]_vars
  BY <1>1
<1>3. QED
  BY <1>2, ServedHolds, InductiveHolds, PTL DEF Spec, OnlyAdminEditsExceedTotal

-----------------------------------------------------------------------------
(* The life cycle of a day. *)

\* A step that commits nothing ends one drive's call, lets one in, or does neither.
LEMMA QuietLifecycle ==
    ASSUME Inductive, UNCHANGED tables, NEW r \in Slots, OthersStand(r), tx'[r] \in Session,
           \/ tx'[r].op = "none"
           \/ tx'[r].op = tx[r].op /\ tx'[r].s = tx[r].s
           \/ tx[r].op # "end_drive" /\ tx'[r].op # "end_drive"
           \/ /\ tx[r].op # "end_drive" /\ tx'[r].op = "end_drive"
              /\ tx'[r].s \in Submissions /\ Statuses[tx'[r].s] = "IN_PROGRESS"
    PROVE  Lifecycle!Next \/ UNCHANGED Lifecycle!vars
<1>1. Statuses' = Statuses
  BY DEF Statuses, tables
<1>2. \A q \in Slots \ {r} : Endings'[q] = Endings[q]
  BY DEF Endings, OthersStand
<1>3. Endings' = [Endings EXCEPT ![r] = IF tx'[r].op = "end_drive" THEN tx'[r].s ELSE None]
  BY <1>2 DEF Endings
<1>4. CASE tx'[r].op = "none"
  BY <1>1, <1>3, <1>4 DEF Lifecycle!Next, Lifecycle!Abandon
<1>5. CASE \/ tx'[r].op = tx[r].op /\ tx'[r].s = tx[r].s
           \/ tx[r].op # "end_drive" /\ tx'[r].op # "end_drive"
  <2>1. Endings'[r] = Endings[r]
    BY <1>5 DEF Endings
  <2>2. Endings' = Endings
    BY <1>2, <2>1 DEF Endings
  <2>3. QED
    BY <1>1, <2>2 DEF Lifecycle!vars
<1>6. CASE /\ tx[r].op # "end_drive" /\ tx'[r].op = "end_drive"
           /\ tx'[r].s \in Submissions /\ Statuses[tx'[r].s] = "IN_PROGRESS"
  <2>1. Endings[r] = None
    BY <1>6 DEF Endings
  <2>2. Endings' = [Endings EXCEPT ![r] = tx'[r].s]
    BY <1>3, <1>6
  <2>3. Lifecycle!LetIn(r, tx'[r].s)
    BY <1>1, <1>6, <2>1, <2>2 DEF Lifecycle!LetIn
  <2>4. QED
    BY <1>6, <2>3 DEF Lifecycle!Next
<1>7. QED
  BY <1>4, <1>5, <1>6

\* A request lets in an end_drive for a day IN_PROGRESS, a completion or a
\* reopening for one past it.
LEMMA ArriveStatus ==
    ASSUME Inductive, NEW r \in Slots, Arrive(r)
    PROVE  /\ tx'[r].op = "end_drive" =>
                 tx'[r].s \in Submissions /\ Statuses[tx'[r].s] = "IN_PROGRESS"
           /\ tx'[r].op \in {"complete_submission", "reopen_submission"} =>
                 /\ tx'[r].s \in Submissions
                 /\ submissions[tx'[r].s].status # "IN_PROGRESS"
<1> DEFINE Fits == /\ tx'[r].op = "end_drive" =>
                         tx'[r].s \in Submissions /\ Statuses[tx'[r].s] = "IN_PROGRESS"
                   /\ tx'[r].op \in {"complete_submission", "reopen_submission"} =>
                         /\ tx'[r].s \in Submissions
                         /\ submissions[tx'[r].s].status # "IN_PROGRESS"
<1>1. \A outcome : Rollback(r, outcome) => Fits
  BY DEF Rollback, Answer, Blank, Inductive, TypeOK
<1>2. ASSUME NEW label, NEW session, Proceed(r, label, session)
      PROVE  tx'[r] = session
  BY <1>2 DEF Proceed, Inductive, TypeOK
<1>3. ASSUME NEW operation, NEW s \in Submissions, NEW edited, NEW label,
             LoadDay(r, operation, s, edited, label)
      PROVE  tx'[r].op = operation /\ tx'[r].s = s
  BY <1>2, <1>3 DEF LoadDay, Blank
<1>. HIDE DEF Fits
<1>4. ASSUME NEW u \in Users, NEW s \in Submissions,
             NEW client \in ClientIds \cup {None}, NEW code \in Codes,
             NEW region \in Regions \cup {None}, NEW total \in Totals \cup {None},
             NEW date \in Dates, StartDrive(r, u, s, client, code, region, total, date)
      PROVE  Fits
  <2>1. tx'[r].op = "start_drive"
    BY <1>2, <1>4 DEF StartDrive, Blank
  <2>2. QED
    BY <2>1 DEF Fits
<1>5. ASSUME NEW u, NEW s \in Submissions, EndDrive(r, u, s) PROVE Fits
  <2>1. CASE /\ submissions[s] # None /\ submissions[s].status = "IN_PROGRESS"
             /\ \E edited : LoadDay(r, "end_drive", s, edited, "flush")
    <3>1. tx'[r].op = "end_drive" /\ tx'[r].s = s
      BY <1>3, <2>1
    <3>2. QED
      BY <2>1, <3>1 DEF Fits, Statuses
  <2>2. QED
    BY <1>1, <1>5, <2>1 DEF EndDrive, AcceptsDay
<1>6. ASSUME NEW u, NEW s \in Submissions, CompleteSubmission(r, u, s) PROVE Fits
  <2>1. CASE /\ submissions[s].status = "CHECKED_OUT"
             /\ \E edited : LoadDay(r, "complete_submission", s, edited, "count")
    <3>1. tx'[r].op = "complete_submission" /\ tx'[r].s = s
      BY <1>3, <2>1
    <3>2. QED
      BY <2>1, <3>1 DEF Fits
  <2>2. QED
    BY <1>1, <1>6, <2>1 DEF CompleteSubmission
<1>7. ASSUME NEW u, NEW s \in Submissions, ReopenSubmission(r, u, s) PROVE Fits
  <2>1. CASE /\ submissions[s].status = "COMPLETED"
             /\ \E edited : LoadDay(r, "reopen_submission", s, edited, "flush")
    <3>1. tx'[r].op = "reopen_submission" /\ tx'[r].s = s
      BY <1>3, <2>1
    <3>2. QED
      BY <2>1, <3>1 DEF Fits
  <2>2. QED
    BY <1>1, <1>7, <2>1 DEF ReopenSubmission
<1>8. ASSUME NEW u, NEW s \in Submissions, NEW version, NEW date, NEW grids,
             \/ UpdateSubmission(r, u, s, version, date, grids)
             \/ UpdateAdminSubmission(r, u, s, version, date, grids)
      PROVE  Fits
  <2>1. ASSUME NEW operation \in Edits, EditDay(r, operation, s, version, date, grids) PROVE Fits
    <3>1. CASE \E edited : LoadDay(r, operation, s, edited, "flush")
      <4>1. tx'[r].op = operation
        BY <1>3, <3>1
      <4>2. QED
        BY <4>1 DEF Fits, Edits
    <3>2. QED
      BY <1>1, <2>1, <3>1 DEF EditDay
  <2>2. QED
    BY <1>1, <1>8, <2>1 DEF UpdateSubmission, UpdateAdminSubmission, Edits
<1>9. ASSUME NEW u, NEW s, NEW a, UploadAttachment(r, u, s, a) PROVE Fits
  <2>1. ASSUME NEW label, NEW session, session.op = "upload_attachment",
               Proceed(r, label, session)
        PROVE  Fits
    BY <1>2, <2>1 DEF Fits
  <2>2. QED
    BY <1>1, <1>9, <2>1 DEF UploadAttachment, Blank
<1>10. ASSUME NEW u, NEW w, NEW code, NEW region, NEW total,
              UpdateWorkorder(r, u, w, code, region, total)
       PROVE  Fits
  <2>1. ASSUME NEW label, NEW session, session.op = "update_workorder",
               Proceed(r, label, session)
        PROVE  Fits
    BY <1>2, <2>1 DEF Fits
  <2>2. QED
    BY <1>1, <1>10, <2>1 DEF UpdateWorkorder, Blank
<1>11. ASSUME NEW u, NEW a, DeleteAttachment(r, u, a) PROVE Fits
  <2>1. ASSUME NEW label, NEW session, session.op = "delete_attachment",
               Proceed(r, label, session)
        PROVE  Fits
    BY <1>2, <2>1 DEF Fits
  <2>2. QED
    BY <1>1, <1>11, <2>1 DEF DeleteAttachment, Blank
<1>12. Fits
  BY <1>4, <1>5, <1>6, <1>7, <1>8, <1>9, <1>10, <1>11 DEF Arrive
<1>13. QED
  BY <1>12 DEF Fits

\* Outside commits, a step stays within the life cycle.
LEMMA QuietSteps ==
    ASSUME Inductive, Inductive', PastProgress, NEW r \in Slots,
           \/ Arrive(r) \/ StartDriveStep(r) \/ DayStep(r) \/ ParentStep(r) \/ FileStep(r)
           \/ DeadlockVictim(r) \/ Crash(r)
    PROVE  PastProgress' /\ (Lifecycle!Next \/ UNCHANGED Lifecycle!vars)
<1>1. tx'[r] \in Session
  BY DEF Inductive, TypeOK
<1>2. ASSUME UNCHANGED tables, OthersStand(r),
             tx'[r].op \in {"complete_submission", "reopen_submission"} =>
                 \/ submissions[tx'[r].s] = None
                 \/ submissions[tx'[r].s].status # "IN_PROGRESS"
      PROVE  PastProgress'
  BY <1>2 DEF PastProgress, OthersStand, tables
<1>3. CASE Arrive(r)
  <2>1. pc[r] \in Free /\ UNCHANGED tables /\ OthersStand(r)
    BY <1>3, ArriveMoves
  <2>2. tx[r].op = "none"
    BY <2>1 DEF Inductive, Sessions, SessionOK, NoSession, Blank
  <2>3. QED
    BY <1>1, <1>2, <1>3, <2>1, <2>2, ArriveStatus, QuietLifecycle
<1>4. CASE Ends(r)
  <2>1. UNCHANGED tables /\ OthersStand(r) /\ tx'[r].op = "none"
    BY <1>4 DEF Ends, Answer, OthersStand, Inductive, TypeOK, Blank
  <2>2. QED
    BY <1>1, <1>2, <2>1, QuietLifecycle
<1>5. CASE Works(r)
  <2>1. UNCHANGED tables /\ OthersStand(r) /\ tx'[r].op = tx[r].op /\ tx'[r].s = tx[r].s
    BY <1>5 DEF Works, SameRows
  <2>2. QED
    BY <1>1, <1>2, <2>1, QuietLifecycle DEF PastProgress
<1>6. CASE DeadlockVictim(r) \/ Crash(r)
  BY <1>4, <1>6, RollbackFacts DEF Crash, DeadlockVictim, Free
<1>7. QED
  BY <1>3, <1>4, <1>5, <1>6, FindMoves, CreateMoves, DuplicateMoves, InsertMoves, DayMoves,
     ParentMoves, FileMoves
  DEF StartDriveStep, Reads, Writes


\* A session that completes or reopens a day has found it there.
LEMMA SessionsPast ==
    ASSUME Inductive, NEW q \in Slots, tx[q].op \in {"complete_submission", "reopen_submission"}
    PROVE  tx[q].s \in Submissions /\ submissions[tx[q].s] # None
<1>1. pc[q] \notin Free
  BY DEF Inductive, Sessions, SessionOK, NoSession, Blank
<1>2. DaySession(q)
  BY <1>1, SessionOf DEF DayOps, Changes
<1>3. QED
  BY <1>2, StoreAssumption DEF DaySession, DayLoaded

\* A commit starts a day, checks it out, completes it, reopens it, or leaves
\* every status as it is.
LEMMA CommitLifecycle ==
    ASSUME Inductive, PastProgress, NEW r \in Slots, Commit(r)
    PROVE  PastProgress' /\ (Lifecycle!Next \/ UNCHANGED Lifecycle!vars)
<1> DEFINE s == tx[r].s
<1>1. pc[r] = "commit" /\ pc[r] \notin Free /\ OthersStand(r) /\ tx'[r].op = "none"
  BY DEF Commit, Answer, OthersStand, Inductive, TypeOK, Blank, Free
<1>2. Endings' = [Endings EXCEPT ![r] = None]
  <2>1. Endings'[r] = None /\ \A q \in Slots \ {r} : Endings'[q] = Endings[q]
    BY <1>1 DEF Endings, OthersStand
  <2>2. QED
    BY <2>1 DEF Endings
<1>3. \A x \in Submissions : x # s => x \notin locks[r]
  BY <1>1, WrittenDay
<1>4. \A x \in Submissions \ ({s} \cap locks[r]) : submissions'[x] = submissions[x]
  BY <1>3, CommittedDays
<1>5. \A q \in Slots : tx'[q].op \in {"complete_submission", "reopen_submission"} =>
          /\ tx'[q] = tx[q] /\ tx[q].op = tx'[q].op
          /\ tx[q].s \in Submissions /\ submissions[tx[q].s] # None
          /\ submissions[tx[q].s].status # "IN_PROGRESS"
  BY <1>1, SessionsPast DEF OthersStand, PastProgress
<1>6. CASE s \notin Submissions \cap locks[r]
  <2>1. \A x \in Submissions : submissions'[x] = submissions[x]
    BY <1>4, <1>6
  <2>2. tx[r].op # "end_drive"
    <3>1. ASSUME tx[r].op = "end_drive" PROVE DaySession(r)
      BY <1>1, <3>1, SessionOf DEF DayOps, Changes
    <3>2. QED
      BY <1>1, <1>6, <3>1 DEF DaySession, DayLoaded, Locked, Unlocked
  <2>3. Statuses' = Statuses /\ Endings' = Endings
    BY <1>2, <2>1, <2>2 DEF Statuses, Endings
  <2>4. QED
    BY <1>5, <2>1, <2>3 DEF Lifecycle!vars, PastProgress
<1>7. CASE s \in Submissions \cap locks[r] /\ submissions[s] = None
  <2>1. tx[r].op = "start_drive" /\ submissions'[s] # None /\ submissions'[s].status = "IN_PROGRESS"
    BY <1>7, CommittedDays, StoreAssumption
  <2>2. Statuses[s] = None /\ Statuses' = [Statuses EXCEPT ![s] = "IN_PROGRESS"]
    BY <1>4, <1>7, <2>1 DEF Statuses
  <2>3. Endings' = Endings
    BY <1>2, <2>1 DEF Endings
  <2>4. Lifecycle!Start(s)
    BY <2>2, <2>3 DEF Lifecycle!Start, Lifecycle!Move
  <2>5. PastProgress'
    BY <1>4, <1>5, <1>7 DEF PastProgress
  <2>6. QED
    BY <1>7, <2>4, <2>5 DEF Lifecycle!Next
<1>8. CASE s \in Submissions \cap locks[r] /\ submissions[s] # None
  <2>1. /\ tx[r].op \in DayOps /\ submissions'[s] # None
        /\ submissions'[s].status = IF tx[r].op \in Edits THEN submissions[s].status
                                    ELSE StatusAfter[AuditEntry[tx[r].op]]
    BY <1>8, CommittedDays
  <2>2. /\ Statuses[s] = submissions[s].status
        /\ Statuses' = [Statuses EXCEPT ![s] = submissions'[s].status]
    BY <1>4, <1>8, <2>1 DEF Statuses
  <2>3. submissions[s].status \in DayStatus
    BY <1>8 DEF Inductive, TypeOK, Submission
  <2>4. /\ tx[r].op = "end_drive" => submissions'[s].status = "CHECKED_OUT"
        /\ tx[r].op = "complete_submission" => submissions'[s].status = "COMPLETED"
        /\ tx[r].op = "reopen_submission" => submissions'[s].status = "CHECKED_OUT"
        /\ tx[r].op \in Edits => submissions'[s].status = submissions[s].status
    BY <2>1 DEF Edits, StatusAfter, AuditEntry
  <2>5. submissions'[s].status = submissions[s].status \/ submissions'[s].status # "IN_PROGRESS"
    BY <2>1, <2>4 DEF DayOps, Changes
  <2>6. PastProgress'
    BY <1>4, <1>5, <2>5 DEF PastProgress
  <2>7. tx[r].op \in {"complete_submission", "reopen_submission"} =>
            submissions[s].status \in {"CHECKED_OUT", "COMPLETED"}
    BY <1>8, <2>3 DEF PastProgress, DayStatus
  <2>8. tx[r].op # "end_drive" => Endings' = Endings
    BY <1>2 DEF Endings
  <2>9. CASE submissions'[s].status = submissions[s].status /\ tx[r].op # "end_drive"
    <3>1. Statuses' = Statuses
      BY <2>2, <2>9 DEF Statuses
    <3>2. QED
      BY <2>6, <2>8, <2>9, <3>1 DEF Lifecycle!vars
  <2>10. CASE tx[r].op = "end_drive"
    <3>1. Endings[r] = s /\ s # None
      BY <1>8, <2>10, StoreAssumption DEF Endings
    <3>2. Lifecycle!CheckOut(r)
      BY <1>2, <2>2, <2>4, <2>10, <3>1 DEF Lifecycle!CheckOut
    <3>3. QED
      BY <2>6, <3>2 DEF Lifecycle!Next
  <2>11. CASE tx[r].op = "complete_submission" /\ submissions[s].status = "CHECKED_OUT"
    <3>1. Lifecycle!Complete(s)
      BY <2>2, <2>4, <2>8, <2>11 DEF Lifecycle!Complete, Lifecycle!Move
    <3>2. QED
      BY <1>8, <2>6, <3>1 DEF Lifecycle!Next
  <2>12. CASE tx[r].op = "reopen_submission" /\ submissions[s].status = "COMPLETED"
    <3>1. Lifecycle!Reopen(s)
      BY <2>2, <2>4, <2>8, <2>12 DEF Lifecycle!Reopen, Lifecycle!Move
    <3>2. QED
      BY <1>8, <2>6, <3>1 DEF Lifecycle!Next
  <2>13. QED
    BY <2>1, <2>4, <2>7, <2>9, <2>10, <2>11, <2>12 DEF DayOps, Changes
<1>9. QED
  BY <1>6, <1>7, <1>8

\* The life cycle of the days is DayLifecycle's, for any requests overlapping in
\* any way: end_drive is let in on the status it loads and takes effect on what
\* the row has become; completions and reopenings change only what they loaded.
THEOREM ImplementsLifecycleHolds == Spec => ImplementsLifecycle
<1>1. Init => PastProgress /\ Lifecycle!Init
  BY DEF Init, PastProgress, Blank, Lifecycle!Init, Statuses, Endings
<1>2. Inductive /\ Inductive' /\ PastProgress /\ [Next]_vars
        => PastProgress' /\ [Lifecycle!Next]_(Lifecycle!vars)
  <2> SUFFICES ASSUME Inductive, Inductive', PastProgress, [Next]_vars
               PROVE  PastProgress' /\ (Lifecycle!Next \/ UNCHANGED Lifecycle!vars)
    OBVIOUS
  <2>1. CASE UNCHANGED vars
    BY <2>1 DEF vars, PastProgress, Lifecycle!vars, Statuses, Endings
  <2>2. QED
    BY <2>1, QuietSteps, CommitLifecycle DEF Next, Step, Idle
<1>3. QED
  BY <1>1, <1>2, InductiveHolds, PTL DEF Spec, ImplementsLifecycle, Lifecycle!Spec
===============================================================================

---------------------------- MODULE FieldInvariant ----------------------------
(***************************************************************************)
(* The inductive invariant of FieldOps: what each session knows of the     *)
(* rows it works on at each statement, and how the sessions stay apart.    *)
(***************************************************************************)
EXTENDS FieldOps

Changes == {"end_drive", "complete_submission", "reopen_submission"}
DayOps == Edits \cup Changes

-----------------------------------------------------------------------------
(* Facts that several sessions share. *)

\* The workorder of the session, once loaded, has its row and keeps its code.
ParentLoaded(t) ==
    /\ t.w \in Workorders /\ workorders[t.w] \in Workorder
    /\ t.wo \in Workorder /\ t.wedit \in Workorder

ParentOf(t) ==
    \/ t.w = None /\ t.wo = None /\ t.wedit = None
    \/ ParentLoaded(t) /\ t.wedit.code = t.wo.code

\* The submission of the session has its row, which stays under its workorder.
DayLoaded(t) ==
    /\ t.s \in Submissions /\ submissions[t.s] \in Submission
    /\ t.day \in Submission /\ t.day.workorder = submissions[t.s].workorder

\* The locks are those of the rows in `mine`, and the workorder's at the end.
Locked(r, mine) ==
    \/ locks[r] = mine
    \/ pc[r] = "commit" /\ tx[r].w # None /\ locks[r] = mine \cup {tx[r].w}

-----------------------------------------------------------------------------
(* The sessions. *)

NoSession(r) == tx[r] = Blank /\ locks[r] = {}

\* The submission is not there yet; the workorder is new and locked, or found.
StartSession(r) ==
    LET t == tx[r]
        mine == IF pc[r] = "commit" THEN {t.s} ELSE {}
    IN  /\ pc[r] \in {"find", "create", "duplicate", "insert", "commit"}
        /\ t.s \in Submissions /\ submissions[t.s] = None
        /\ t.day = None /\ t.a = None
        /\ t.req \in Request /\ t.req.code \in Codes
        /\ pc[r] \in {"find", "create"} =>
              t.w = None /\ t.wo = None /\ t.wedit = None /\ locks[r] = {}
        /\ pc[r] = "create" => t.req.region \in Regions /\ t.req.total \in Nat
        /\ pc[r] \in {"duplicate", "insert", "commit"} =>
              /\ t.w \in Workorders /\ t.wedit \in Workorder
              /\ \/ t.wo = None /\ workorders[t.w] = None /\ locks[r] = mine \cup {t.w}
                 \/ t.wo = t.wedit /\ workorders[t.w] \in Workorder /\ locks[r] = mine
        /\ pc[r] = "commit" => t.edit = NewDay(t.w, t.req)

\* Statements after which the session holds the lock of its submission.
Unlocked(op) == CASE op = "complete_submission" -> {"count", "parent", "aggregate", "flush"}
                  [] OTHER -> {"flush"}

DayPath ==
    [end_drive |-> {"flush", "commit"},
     update_submission |-> {"flush", "reindex", "parent", "aggregate", "commit"},
     update_admin_submission |->
        {"flush", "reindex", "parent", "aggregate", "flush_parent", "commit"},
     complete_submission |->
        {"count", "parent", "aggregate", "flush", "flush_parent", "commit"},
     reopen_submission |-> {"flush", "parent", "flush_parent", "commit"}]

\* The edit moves the submission along the lifecycle, or to other counts and
\* another date and leaves its status alone.
DaySession(r) ==
    LET t == tx[r] IN
    /\ pc[r] \in DayPath[t.op]
    /\ DayLoaded(t) /\ ParentOf(t) /\ t.a = None
    /\ t.edit \in Submission /\ t.edit.workorder = t.day.workorder
    /\ t.op \in Changes => /\ t.edit.date = t.day.date
                           /\ t.edit.status # t.day.status
                           /\ t.edit.status = StatusAfter[AuditEntry[t.op]]
    /\ t.op \in Edits => t.edit.status = t.day.status
    /\ pc[r] \in {"aggregate", "flush_parent"} => t.w # None
    /\ Locked(r, IF pc[r] \in Unlocked(t.op) THEN {} ELSE {t.s})

\* The new row is not there yet, its object is before the row is written.
UploadSession(r) ==
    LET t == tx[r] IN
    /\ pc[r] \in {"count", "store", "attach", "commit"}
    /\ DayLoaded(t) /\ t.w = None
    /\ t.a \in Attachments /\ attachments[t.a] = None
    /\ pc[r] \in {"attach", "commit"} => t.a \in objects
    /\ locks[r] = IF pc[r] = "commit" THEN {t.a} ELSE {}

DeleteSession(r) ==
    LET t == tx[r] IN
    /\ pc[r] \in {"detach", "recount", "parent", "flush_parent", "commit"}
    /\ DayLoaded(t) /\ ParentOf(t)
    /\ t.a \in Attachments /\ attachments[t.a] \in Attachment
    /\ attachments[t.a].submission = t.s
    /\ pc[r] = "flush_parent" => t.w # None
    /\ Locked(r, IF pc[r] = "detach" THEN {} ELSE {t.a})

WorkorderSession(r) ==
    LET t == tx[r] IN
    /\ pc[r] \in {"aggregate", "flush_parent", "recode", "commit"}
    /\ ParentLoaded(t) /\ t.s = None /\ t.a = None /\ t.req \in Request
    /\ locks[r] = IF pc[r] \in {"recode", "commit"} THEN {t.w} ELSE {}

SessionOK(r) ==
    IF pc[r] \in Free
    THEN NoSession(r)
    ELSE \/ tx[r].op = "start_drive" /\ StartSession(r)
         \/ tx[r].op \in DayOps /\ DaySession(r)
         \/ tx[r].op = "upload_attachment" /\ UploadSession(r)
         \/ tx[r].op = "delete_attachment" /\ DeleteSession(r)
         \/ tx[r].op = "update_workorder" /\ WorkorderSession(r)

\* No two transactions have written one row, and nobody else knows the UUID of
\* a row that is to be inserted.
Apart(q, r) ==
    /\ locks[q] \cap locks[r] = {}
    /\ tx[q].op = "start_drive" => tx[q].s # tx[r].s
    /\ tx[q].op = "upload_attachment" => tx[q].a # tx[r].a

-----------------------------------------------------------------------------
\* The foreign keys submissions.workorder_id and attachments.submission_id.
DaysHaveWorkorders ==
    \A s \in Submissions : submissions[s] # None =>
        workorders[submissions[s].workorder] # None

FilesHaveDays ==
    \A a \in Attachments : attachments[a] # None =>
        submissions[attachments[a].submission] # None

Sessions == /\ \A r \in Slots : SessionOK(r)
            /\ \A q, r \in Slots : q # r => Apart(q, r)

Inductive == TypeOK /\ DaysHaveWorkorders /\ FilesHaveDays /\ NoEmptyWorkorder
             /\ FilesAreStored /\ TrailTellsStatus /\ Sessions

-----------------------------------------------------------------------------
(* The unique keys: what a transaction has claimed once the index let it in. *)

\* r has inserted its day, or moved it to another date.
ClaimsDay(r) == /\ tx[r].s \in Submissions \cap locks[r] /\ pc[r] # "reindex"
                /\ tx[r].day = None \/ tx[r].edit.date # tx[r].day.date

\* r has inserted its workorder, or given it another code.
ClaimsCode(r) == /\ tx[r].w \in Workorders \cap locks[r] /\ pc[r] # "recode"
                 /\ tx[r].wo = None \/ tx[r].wedit.code # tx[r].wo.code

\* r has inserted its attachment.
ClaimsFile(r) == tx[r].op = "upload_attachment" /\ pc[r] = "commit"

\* No other row has a claimed key, and no two transactions claim one key.
DaysClaimed ==
    \A r \in Slots : ClaimsDay(r) =>
        /\ ~DayTaken(DayKey(tx[r].edit), tx[r].s)
        /\ \A q \in Slots \ {r} : ClaimsDay(q) => DayKey(tx[q].edit) # DayKey(tx[r].edit)

CodesClaimed ==
    \A r \in Slots : ClaimsCode(r) =>
        /\ ~CodeTaken(tx[r].wedit.code, tx[r].w)
        /\ \A q \in Slots \ {r} : ClaimsCode(q) => tx[q].wedit.code # tx[r].wedit.code

FilesClaimed ==
    \A r \in Slots : ClaimsFile(r) =>
        /\ ActiveFiles(tx[r].s, attachments) = {}
        /\ \A q \in Slots \ {r} : ClaimsFile(q) => tx[q].s # tx[r].s

UniqueDays ==
    \A s, x \in Submissions : submissions[s] # None /\ submissions[x] # None /\ s # x
        => DayKey(submissions[s]) # DayKey(submissions[x])

UniqueCodes ==
    \A w, x \in Workorders : workorders[w] # None /\ workorders[x] # None /\ w # x
        => workorders[w].code # workorders[x].code

UniqueFiles ==
    \A s \in Submissions : \A a, b \in ActiveFiles(s, attachments) : a = b

Keyed == /\ UniqueDays /\ DaysClaimed
         /\ UniqueCodes /\ CodesClaimed
         /\ UniqueFiles /\ FilesClaimed

\* The same of the identifiers clients send: r has inserted its day with one.
ClaimsClient(r) == /\ tx[r].op = "start_drive" /\ pc[r] = "commit"
                   /\ tx[r].req.client # None

ClientsClaimed ==
    \A r \in Slots : ClaimsClient(r) =>
        /\ ~ClientTaken(tx[r].req.client)
        /\ \A q \in Slots \ {r} : ClaimsClient(q) => tx[q].req.client # tx[r].req.client

UniqueClients ==
    \A s, x \in Submissions : submissions[s] # None /\ submissions[x] # None /\ s # x
        => submissions[s].client = None \/ submissions[s].client # submissions[x].client

ClientsApart == UniqueClients /\ ClientsClaimed

-----------------------------------------------------------------------------
(* Versions: the session's comes at most one after the trail's row entries. *)

RowEntriesOf(s) == Cardinality({i \in DOMAIN audit[s] : audit[s][i] \in RowEntries})

VersionsFollow ==
    \A r \in Slots : tx[r].op \in DayOps => tx[r].edit.version <= RowEntriesOf(tx[r].s) + 1

-----------------------------------------------------------------------------
\* The day a session completes or reopens is past IN_PROGRESS, and stays so.
PastProgress ==
    \A r \in Slots : tx[r].op \in {"complete_submission", "reopen_submission"} =>
        submissions[tx[r].s] = None \/ submissions[tx[r].s].status # "IN_PROGRESS"

-----------------------------------------------------------------------------
(* Where no workorder is renamed, start_drive finds the code it lost a race for. *)

NobodyRenames == \A r \in Slots : tx[r].op # "update_workorder"

SecondAttemptFinds ==
    \A r \in Slots : tx[r].again /\ pc[r] \in {"find", "create"} =>
        pc[r] = "find" /\ CodeTaken(tx[r].req.code, None)
=============================================================================

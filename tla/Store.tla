-------------------------------- MODULE Store --------------------------------
(***************************************************************************)
(* The tables the field-work services share, and the SQLAlchemy session    *)
(* through which each request in flight reads and writes them.             *)
(*                                                                         *)
(* A request runs in one PostgreSQL transaction at READ COMMITTED.  Each   *)
(* statement sees the rows committed when it starts and the writes of its  *)
(* own transaction.  The session's identity map keeps an entity as it was  *)
(* first loaded; a flush writes the columns that differ from the loaded    *)
(* ones and no others.  The row stays locked, and the unique index entries *)
(* stay contended, until the transaction ends.                             *)
(***************************************************************************)
EXTENDS Integers, Sequences, FiniteSets, FiniteSetsExt

CONSTANTS
    Slots,        \* the requests the API can have in flight at once
    Submissions,  \* the UUIDs of daily submissions
    Workorders,   \* the UUIDs of workorders
    Attachments,  \* the UUIDs of attachments, each naming one stored object
    Users,        \* the approved users
    Admins,       \* those of them with the ADMIN role
    Codes,        \* normalized workorder codes
    Regions,
    ClientIds,    \* the client_generated_ids clients send
    Dates,        \* work dates
    Future,       \* those of them after today in the workorder's region
    Grids,        \* the day's completed + skipped grids a client may send
    Totals,       \* the total_grids a client may send
    Ops,          \* the operations clients call
    MaxTrail,     \* bound: no request is accepted once the audit trails hold as many
    None

VARIABLES
    workorders,   \* the committed rows of each table, None where there is none
    submissions,
    attachments,
    audit,        \* the committed audit trail of each submission
    objects,      \* the objects in the storage bucket
    pc,           \* where each request stands; in Free when it is answered
    tx,           \* its session: the operation and the entities it holds
    locks         \* the rows its transaction has written

tables == <<workorders, submissions, attachments, audit>>
vars == <<workorders, submissions, attachments, audit, objects, pc, tx, locks>>

-----------------------------------------------------------------------------
DayStatus == {"IN_PROGRESS", "CHECKED_OUT", "COMPLETED"}
AuditAction == {"CREATED", "UPDATED", "STATUS_CHANGED", "COMPLETED", "REOPENED",
                "FILE_UPLOADED", "FILE_REMOVED"}

\* client is the client_generated_id, None for a UUID the server makes up.
Submission == [workorder : Workorders, client : ClientIds \cup {None}, owner : Users,
               date : Dates, grids : Nat, status : DayStatus, version : Nat]

\* completed_at is "now" in a session that has just stamped it: a timestamp
\* that no row holds yet.
Workorder == [code : Codes, region : Regions, total : Nat,
              status : {"ACTIVE", "COMPLETED"}, completed_at : {"null", "set", "now"}]

Attachment == [submission : Submissions, active : BOOLEAN]

\* What a client sends; None is a field left out.
Request == [code : Codes \cup {None}, region : Regions \cup {None},
            total : Nat \cup {None}, client : ClientIds \cup {None},
            date : Dates, owner : Users]

AuditEntry ==
    [start_drive |-> "CREATED", end_drive |-> "STATUS_CHANGED",
     update_submission |-> "UPDATED", update_admin_submission |-> "UPDATED",
     complete_submission |-> "COMPLETED", reopen_submission |-> "REOPENED",
     upload_attachment |-> "FILE_UPLOADED", delete_attachment |-> "FILE_REMOVED"]

Operation == DOMAIN AuditEntry \cup {"update_workorder"}

ASSUME StoreAssumption ==
    /\ Admins \subseteq Users
    /\ Future \subseteq Dates
    /\ Grids \subseteq Nat
    /\ Totals \subseteq Nat \ {0}
    /\ MaxTrail \in Nat
    /\ Ops \subseteq Operation
    /\ Submissions \cap Workorders = {} /\ Submissions \cap Attachments = {}
    /\ Workorders \cap Attachments = {}
    /\ None \notin Submissions \cup Workorders \cup Attachments \cup ClientIds
    /\ None \notin Submission \cup Workorder \cup Attachment

\* How a request can have ended: 2xx, an AppError, an exception nothing
\* handles (500), or a lost process, cancelled task or dropped connection.
Free == {"ok", "rejected", "error", "aborted"}
Waiting == {"find", "create", "duplicate", "insert", "flush", "reindex", "count", "parent",
            "aggregate", "flush_parent", "recode", "store", "attach", "detach",
            "recount", "commit"}

\* A session: s, w and a are the rows it works on, day and edit the submission
\* as loaded and as it now stands in the session, wo and wedit the workorder's.
Session == [op : Operation \cup {"none"},
            s : Submissions \cup {None}, w : Workorders \cup {None},
            a : Attachments \cup {None},
            day : Submission \cup {None}, edit : Submission \cup {None},
            wo : Workorder \cup {None}, wedit : Workorder \cup {None},
            req : Request \cup {None}, again : BOOLEAN]

Blank == [op |-> "none", s |-> None, w |-> None, a |-> None,
          day |-> None, edit |-> None, wo |-> None, wedit |-> None,
          req |-> None, again |-> FALSE]

-----------------------------------------------------------------------------
(* Flushing: what r's transaction has made of a row it has locked. *)

\* Mutant: the UPDATE writes every column the session holds.
WholeRow(stored, loaded, edited) == edited

Column(stored, loaded, edited) == IF edited = loaded THEN stored ELSE edited

FlushedDay(stored, loaded, edited) ==
    IF loaded = None
    THEN edited
    ELSE [stored EXCEPT
            !.date    = Column(stored.date, loaded.date, edited.date),
            !.grids   = Column(stored.grids, loaded.grids, edited.grids),
            !.status  = Column(stored.status, loaded.status, edited.status),
            !.version = Column(stored.version, loaded.version, edited.version)]

Stamp(completedAt) == IF completedAt = "now" THEN "set" ELSE completedAt

FlushedParent(stored, loaded, edited) ==
    IF loaded = None
    THEN edited
    ELSE [stored EXCEPT
            !.code   = Column(stored.code, loaded.code, edited.code),
            !.region = Column(stored.region, loaded.region, edited.region),
            !.total  = Column(stored.total, loaded.total, edited.total),
            !.status = Column(stored.status, loaded.status, edited.status),
            !.completed_at =
                Stamp(Column(stored.completed_at, loaded.completed_at, edited.completed_at))]

DaysSeenBy(r) ==
    [s \in Submissions |->
        IF s \in locks[r] THEN FlushedDay(submissions[s], tx[r].day, tx[r].edit)
                          ELSE submissions[s]]

ParentsSeenBy(r) ==
    [w \in Workorders |->
        IF w \in locks[r] THEN FlushedParent(workorders[w], tx[r].wo, tx[r].wedit)
                          ELSE workorders[w]]

\* An attachment row is inserted active and updated once, to inactive.
FilesSeenBy(r) ==
    [a \in Attachments |->
        IF a \in locks[r]
        THEN [submission |-> tx[r].s, active |-> attachments[a] = None]
        ELSE attachments[a]]

\* get_aggregate_progress: completed + skipped over all days of workorder w.
Progress(w, days) ==
    MapThenSumSet(LAMBDA s : days[s].grids,
                  {s \in Submissions : days[s] # None /\ days[s].workorder = w})

ActiveFiles(s, files) == {a \in Attachments : files[a] = [submission |-> s, active |-> TRUE]}

-----------------------------------------------------------------------------
(* Locks and unique indexes: who holds what r needs. *)

DayKey(row) == <<row.workorder, row.date>>

HoldersOf(row, r) == {q \in Slots \ {r} : row \in locks[q]}

\* The unfinished writers of an index entry (workorder_id, work_date) = key:
\* they insert it, move a day to it, or hold the row that has it.
HoldersOfDay(key, r) ==
    {q \in Slots \ {r} : \E s \in Submissions \cap locks[q] :
        \/ submissions[s] # None /\ DayKey(submissions[s]) = key
        \/ DayKey(tx[q].edit) = key}

DayTaken(key, s) ==
    \E x \in Submissions \ {s} : submissions[x] # None /\ DayKey(submissions[x]) = key

\* The same for client_generated_id; no two requests send what the server makes up.
HoldersOfClient(id, r) ==
    {q \in Slots \ {r} : id # None /\ \E s \in Submissions \cap locks[q] :
        tx[q].edit.client = id}

ClientTaken(id) ==
    id # None /\ \E s \in Submissions : submissions[s] # None /\ submissions[s].client = id

\* The same for workorder_code_normalized.
HoldersOfCode(code, r) ==
    {q \in Slots \ {r} : \E w \in Workorders \cap locks[q] :
        \/ workorders[w] # None /\ workorders[w].code = code
        \/ tx[q].wedit.code = code}

CodeTaken(code, w) ==
    \E x \in Workorders \ {w} : workorders[x] # None /\ workorders[x].code = code

\* The same for the partial unique index over active attachments.
HoldersOfFile(s, r) == {q \in Slots \ {r} : tx[q].s = s /\ Attachments \cap locks[q] # {}}

-----------------------------------------------------------------------------
(* The steps of a transaction. *)

Answer(r, outcome) ==
    /\ pc' = [pc EXCEPT ![r] = outcome]
    /\ tx' = [tx EXCEPT ![r] = Blank]
    /\ locks' = [locks EXCEPT ![r] = {}]

\* An exception leaves the transaction: session.rollback().
Rollback(r, outcome) == Answer(r, outcome) /\ UNCHANGED <<tables, objects>>

\* A statement that only reads, and what the service then does in memory.
Proceed(r, label, session) ==
    /\ pc' = [pc EXCEPT ![r] = label]
    /\ tx' = [tx EXCEPT ![r] = session]
    /\ UNCHANGED <<tables, objects, locks>>

\* A flush that writes a row.
Write(r, row, label, session) ==
    /\ locks' = [locks EXCEPT ![r] = @ \cup {row}]
    /\ pc' = [pc EXCEPT ![r] = label]
    /\ tx' = [tx EXCEPT ![r] = session]
    /\ UNCHANGED <<tables, objects>>

\* Mutant: an admin's edit leaves no audit row.
AuditWithoutAdminEdits(r) ==
    [s \in Submissions |->
        IF tx[r].op \in DOMAIN AuditEntry \ {"update_admin_submission"} /\ s = tx[r].s
        THEN Append(audit[s], AuditEntry[tx[r].op])
        ELSE audit[s]]

\* The audit row the service adds in the same transaction.
AuditSeenBy(r) ==
    [s \in Submissions |->
        IF tx[r].op \in DOMAIN AuditEntry /\ s = tx[r].s
        THEN Append(audit[s], AuditEntry[tx[r].op])
        ELSE audit[s]]

\* session.commit(): every written row and the audit row become visible at once.
Commit(r) ==
    /\ pc[r] = "commit"
    /\ submissions' = DaysSeenBy(r)
    /\ workorders' = ParentsSeenBy(r)
    /\ attachments' = FilesSeenBy(r)
    /\ audit' = AuditSeenBy(r)
    /\ Answer(r, "ok")
    /\ UNCHANGED objects

\* A request dies in flight: PostgreSQL rolls its transaction back.
Crash(r) == pc[r] \notin Free /\ Rollback(r, "aborted")

Accepts(r, operation) == pc[r] \in Free /\ operation \in Ops

Room == MapThenSumSet(LAMBDA s : Len(audit[s]), Submissions) < MaxTrail
=============================================================================

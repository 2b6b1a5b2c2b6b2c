------------------------------- MODULE FieldOps -------------------------------
(***************************************************************************)
(* The field-work API: every request of the four services over one store,  *)
(* the requests in flight interleaving statement by statement.             *)
(***************************************************************************)
EXTENDS StartDrive, DailySubmissions, AdminWorkorders, AttachmentFiles

Init ==
    /\ workorders = [w \in Workorders |-> None]
    /\ submissions = [s \in Submissions |-> None]
    /\ attachments = [a \in Attachments |-> None]
    /\ audit = [s \in Submissions |-> <<>>]
    /\ objects = {}
    /\ pc = [r \in Slots |-> "ok"]
    /\ tx = [r \in Slots |-> Blank]
    /\ locks = [r \in Slots |-> {}]

-----------------------------------------------------------------------------
\* An INSERT waits at the first index that somebody else is writing to.
InsertWaits(r) ==
    LET clients == HoldersOfClient(tx[r].req.client, r) IN
    IF clients # {} THEN clients
    ELSE IF ClientTaken(tx[r].req.client) THEN {}
    ELSE HoldersOfDay(<<tx[r].w, tx[r].req.date>>, r)

\* The requests a request waits for: the holders of the row or the index
\* entry its next statement needs.
Waits(r) ==
    CASE pc[r] = "create" -> HoldersOfCode(tx[r].req.code, r)
      [] pc[r] = "insert" -> InsertWaits(r)
      [] pc[r] = "flush" -> HoldersOf(tx[r].s, r)
      [] pc[r] = "reindex" -> HoldersOfDay(DayKey(tx[r].edit), r)
      [] pc[r] = "flush_parent" -> HoldersOf(tx[r].w, r)
      [] pc[r] = "recode" -> HoldersOfCode(tx[r].wedit.code, r)
      [] pc[r] = "attach" -> HoldersOfFile(tx[r].s, r)
      [] pc[r] = "detach" -> HoldersOf(tx[r].a, r)
      [] OTHER -> {}

\* The members of D wait for one another in a circle: none of them can go on.
Deadlocked(D) ==
    /\ D # {} /\ \A r \in D : Waits(r) \cap D # {}
    /\ \A E \in (SUBSET D) \ {{}, D} : \E r \in E : Waits(r) \cap (D \ E) # {}

\* Mutant: nobody breaks a deadlock.
NoVictim(r) == FALSE

\* PostgreSQL breaks a deadlock by failing one of its transactions; one that
\* only waits for them goes on waiting.
DeadlockVictim(r) ==
    /\ \E D \in SUBSET Slots : r \in D /\ Deadlocked(D)
    /\ Rollback(r, "error")

Arrive(r) ==
    \E u \in Users :
        \/ \E s \in Submissions, client \in ClientIds \cup {None}, code \in Codes,
              region \in Regions \cup {None}, total \in Totals \cup {None}, date \in Dates :
                 StartDrive(r, u, s, client, code, region, total, date)
        \/ \E s \in Submissions :
              \/ EndDrive(r, u, s)
              \/ \E version \in 1..MaxTrail, date \in Dates, grids \in Grids :
                    \/ UpdateSubmission(r, u, s, version, date, grids)
                    \/ UpdateAdminSubmission(r, u, s, version, date, grids)
              \/ CompleteSubmission(r, u, s)
              \/ ReopenSubmission(r, u, s)
              \/ \E a \in Attachments : UploadAttachment(r, u, s, a)
        \/ \E w \in Workorders, code \in Codes \cup {None}, region \in Regions \cup {None},
              total \in Totals \cup {None} : UpdateWorkorder(r, u, w, code, region, total)
        \/ \E a \in Attachments : DeleteAttachment(r, u, a)

Step(r) == \/ StartDriveStep(r) \/ DayStep(r) \/ ParentStep(r) \/ FileStep(r)
           \/ Commit(r) \/ DeadlockVictim(r)

\* No request is in flight, and none comes.
Idle == (\A r \in Slots : pc[r] \in Free) /\ UNCHANGED vars

Next == Idle \/ \E r \in Slots : Arrive(r) \/ Step(r) \/ Crash(r)

Spec == Init /\ [][Next]_vars

\* A request the server has accepted runs on.  Strong fairness for the steps
\* that wait: PostgreSQL queues the waiters of a lock.
FairSpec == Spec /\ \A r \in Slots : SF_vars(Step(r))

-----------------------------------------------------------------------------
(* The type invariant. *)

TypeOK ==
    /\ workorders \in [Workorders -> Workorder \cup {None}]
    /\ submissions \in [Submissions -> Submission \cup {None}]
    /\ attachments \in [Attachments -> Attachment \cup {None}]
    /\ audit \in [Submissions -> Seq(AuditAction)]
    /\ objects \subseteq Attachments
    /\ pc \in [Slots -> Free \cup Waiting]
    /\ tx \in [Slots -> Session]
    /\ locks \in [Slots -> SUBSET (Submissions \cup Workorders \cup Attachments)]

-----------------------------------------------------------------------------
(* What every interleaving keeps. *)

\* One day per workorder and date and per client_generated_id, one workorder
\* per normalized code, one active file per day (BUSINESS_RULES.md:29,44,105,
\* DB_SCHEMA.md:81), although the services at most look before they insert.
UniqueKeys ==
    /\ \A s, x \in Submissions : submissions[s] # None /\ submissions[x] # None /\ s # x
          => /\ DayKey(submissions[s]) # DayKey(submissions[x])
             /\ submissions[s].client = None \/ submissions[s].client # submissions[x].client
    /\ \A w, x \in Workorders : workorders[w] # None /\ workorders[x] # None /\ w # x
          => workorders[w].code # workorders[x].code
    /\ \A s \in Submissions : Cardinality(ActiveFiles(s, attachments)) <= 1

\* start_drive commits a workorder only with its first day: no race, retry or
\* crash leaves a workorder without one, nor a day without its workorder.
NoEmptyWorkorder ==
    \A w \in Workorders :
        (workorders[w] # None) <=> \E s \in Submissions : submissions[s] # None
                                                       /\ submissions[s].workorder = w

StatusAfter == [CREATED |-> "IN_PROGRESS", STATUS_CHANGED |-> "CHECKED_OUT",
                COMPLETED |-> "COMPLETED", REOPENED |-> "CHECKED_OUT"]

\* The last status entry of a day's audit trail is the status of its row,
\* however the transitions of one day race: each writes the status column and
\* its entry in one transaction, under the row lock.
TrailTellsStatus ==
    \A s \in Submissions : submissions[s] # None =>
        \E i \in DOMAIN audit[s] :
            /\ audit[s][i] \in DOMAIN StatusAfter
            /\ StatusAfter[audit[s][i]] = submissions[s].status
            /\ \A j \in DOMAIN audit[s] : j > i => audit[s][j] \notin DOMAIN StatusAfter

RowEntries == AuditAction \ {"FILE_UPLOADED", "FILE_REMOVED"}

\* No version of a day is without an audit entry: lost updates can give two
\* entries to one version, never one entry to two versions.
VersionWithinTrail ==
    \A s \in Submissions : submissions[s] # None =>
        submissions[s].version <= Cardinality({i \in DOMAIN audit[s] : audit[s][i] \in RowEntries})

\* Every attachment row, active or kept as history, has its object: the
\* object is stored before the row and nothing removes it.
FilesAreStored == \A a \in Attachments : attachments[a] # None => a \in objects

\* Requests wait for each other in a circle only when one of them moves a
\* day to another date or a workorder to another code: the row locks are
\* taken in the order attachment, submission, workorder.
OnlyKeySwapsDeadlock ==
    \A D \in SUBSET Slots : Deadlocked(D) => \E q \in D : pc[q] \in {"reindex", "recode"}

\* Where no workorder is renamed, the only unhandled exceptions are the unique
\* violations of a PATCH that moves a day, of a second active file of a day and
\* of a client_generated_id that a day already has, and the deadlocks of other
\* operations: start_drive, which retries, answers no other 500.
OnlyUniqueViolationsEscape ==
    [][\A r \in Slots : pc[r] \notin Free /\ pc'[r] = "error" =>
          \/ tx[r].op \in Edits \cup {"upload_attachment"}
          \/ tx[r].op = "start_drive" /\ ClientTaken(tx[r].req.client)
          \/ tx[r].op # "start_drive" /\ \E D \in SUBSET Slots : r \in D /\ Deadlocked(D)]_vars

\* The statuses of the days and the end_drives in flight, through every overlap
\* of requests, are those of DayLifecycle: each handler checks the status it
\* loaded before it had the row lock, and writes only the columns it changed.
Statuses ==
    [s \in Submissions |-> IF submissions[s] = None THEN None ELSE submissions[s].status]

Endings == [r \in Slots |-> IF tx[r].op = "end_drive" THEN tx[r].s ELSE None]

Lifecycle == INSTANCE DayLifecycle
             WITH Days <- Submissions, Callers <- Slots, day <- Statuses, ending <- Endings

ImplementsLifecycle == Lifecycle!Spec

\* A request the server has accepted is answered.
Answered == \A r \in Slots : pc[r] \notin Free ~> pc[r] \in Free
=============================================================================

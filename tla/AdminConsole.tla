------------------------------ MODULE AdminConsole ------------------------------
(***************************************************************************)
(* The admin web: its pages, the drawer and the dialogs that change a day, *)
(* a workorder or an account, and the React Query cache they all share.    *)
(* A page observes cache keys; a mutation that succeeds invalidates the    *)
(* keys its hook names.  Answers to reads and to mutations arrive in any   *)
(* order, and a page can be left with both outstanding.                    *)
(***************************************************************************)
EXTENDS Naturals

CONSTANTS
    Pages,        \* the pages of the console that are opened
    Keys,         \* the queries of theirs that are followed
    Slots,        \* the mutations that await an answer at once
    MaxSaves,     \* bound on the drawers and dialogs confirmed
    MaxEvents,    \* bound on the pages opened after the first, the returns to the
                  \* window, the changes of others and the requests that fail
    None

VARIABLES
    db,           \* the day's version_number and how often it was written, the account's
                  \* status, and the commits so far
    page,         \* the page on screen
    cache,        \* React Query's entry of each key
    reads,        \* the fetch of each key
    modal,        \* the drawer or dialog that is open
    mutations,    \* the mutations awaiting an answer
    own,          \* history: the console's latest change known to have succeeded, per key
    saves, events

vars == <<db, page, cache, reads, modal, mutations, own,
          saves, events>>
bounds == <<saves, events>>

Event == events < MaxEvents /\ events' = events + 1

-----------------------------------------------------------------------------
\* The query hooks: the key of each, and whether it has a staleTime (2 or 5 minutes);
\* the others are stale at once.  A list's key also holds its filters: the lists of
\* the dashboard have entries of their own.
Query(key, timed) == [key |-> key, timed |-> timed]

useDashboardSummary == Query("dashboard", TRUE)
useAdminSubmissions(key) == Query(key, TRUE)
useAdminWorkorders(key) == Query(key, TRUE)
useAdminUsers == Query("users", TRUE)
usePendingUsers == Query("pending-users", TRUE)
useNoSubmissionYet == Query("no-submission-yet", TRUE)
useAdminSubmission == Query("daily-submission", FALSE)
useSubmissionAudit == Query("submission-audit", FALSE)
useSubmissionAttachmentHistory == Query("submission-attachments", FALSE)
useAdminWorkorder == Query("workorder", FALSE)

\* The hooks each page mounts.
DashboardPage == {useDashboardSummary, useAdminWorkorders("recent-workorders"),
                  useAdminSubmissions("recent-submissions"), usePendingUsers,
                  useAdminSubmissions("file-pending-submissions")}
DailySubmissionsPage == {useAdminSubmissions("daily-submissions")}
DailySubmissionDetailPage == {useAdminSubmission, useSubmissionAudit,
                              useSubmissionAttachmentHistory}
WorkordersPage == {useAdminWorkorders("workorders")}
WorkorderDetailPage == {useAdminWorkorder}
UsersPage == {useAdminUsers}
PendingUsersPage == {usePendingUsers}
NoSubmissionYetPage == {useNoSubmissionYet}

Mounts ==
    [dashboard |-> DashboardPage, submissions |-> DailySubmissionsPage,
     submission |-> DailySubmissionDetailPage, workorders |-> WorkordersPage,
     workorder |-> WorkorderDetailPage, users |-> UsersPage, pending |-> PendingUsersPage,
     no_submission_yet |-> NoSubmissionYetPage]

Observes == [p \in Pages |-> {query.key : query \in Mounts[p]} \cap Keys]

Timed == {query.key : query \in {q \in UNION {Mounts[p] : p \in Pages} : q.timed}}

DaysLists == {"daily-submissions", "recent-submissions", "file-pending-submissions"}
WorkorderLists == {"workorders", "recent-workorders"}

\* What the onSuccess of each mutation hook invalidates.
useEditSubmission == {"daily-submission"} \cup DaysLists
useReopenSubmission == {"daily-submission"} \cup DaysLists \cup WorkorderLists
useEditWorkorder == {"workorder"} \cup WorkorderLists
useApproveUser == {"users", "pending-users"}
useRejectUser == {"users", "pending-users"}
useSuspendUser == {"users"}

Invalidates ==
    [edit_submission |-> useEditSubmission, reopen |-> useReopenSubmission,
     edit_workorder |-> useEditWorkorder, approve |-> useApproveUser,
     reject |-> useRejectUser, suspend |-> useSuspendUser]
Mutation == DOMAIN Invalidates

\* The keys whose answer the API changes with it.
Touches ==
    [edit_submission |-> Keys \ {"submission-attachments", "users", "pending-users"},
     reopen          |-> Keys \ {"submission-attachments", "users", "pending-users",
                                 "no-submission-yet"},
     edit_workorder  |-> Keys \ {"submission-audit", "submission-attachments", "users",
                                 "pending-users", "no-submission-yet"},
     approve         |-> {"users", "pending-users", "dashboard", "no-submission-yet"},
     reject          |-> {"users", "pending-users"},
     suspend         |-> {"users", "dashboard", "no-submission-yet"}]

ASSUME ConsoleAssumption ==
    /\ Pages \subseteq DOMAIN Mounts /\ Keys = UNION {Observes[p] : p \in Pages}
    /\ MaxSaves \in Nat /\ MaxEvents \in Nat

-----------------------------------------------------------------------------
\* What the API knows, as far as the console's guards read it.
Data == [at : Nat, version : Nat, changes : Nat,
         account : {"PENDING_APPROVAL", "APPROVED", "REJECTED", "SUSPENDED"}]

\* A cache entry; uncut tells (history) that its data come from a fetch that an
\* invalidation found under way and did not restart.
Entry == [data : Data \cup {None}, fresh : BOOLEAN, error : BOOLEAN, uncut : BOOLEAN]
emptyEntry == [data |-> None, fresh |-> FALSE, error |-> FALSE, uncut |-> FALSE]

Read == [state : {"idle", "out", "back", "failed"}, found : Data \cup {None}, uncut : BOOLEAN]
idle == [state |-> "idle", found |-> None, uncut |-> FALSE]
started == [idle EXCEPT !.state = "out"]

\* An open drawer or dialog, and the state of the day it was filled from, told by
\* its changes; refetched tells (history) that another one reached the page since.
Modal == [kind : Mutation, seen : Nat, refetched : BOOLEAN]

\* A request: version is the version_number it carries, loaded that of the row the
\* API checks it against, here tells that the component that sent it is still mounted.
Request == [kind : Mutation, version : Nat, seen : Nat, refetched : BOOLEAN,
            state : {"out", "admitted", "ok", "failed"}, loaded : Nat, at : Nat,
            here : BOOLEAN]

\* None is no value of the console; a page whose buttons read an entry has its key
\* followed.
ASSUME EntriesAssumption ==
    /\ None \notin Data \cup Modal \cup Request \cup [at : Nat, kind : Mutation]
    /\ \A e \in {<<"submission", "daily-submission">>, <<"workorder", "workorder">>,
                  <<"pending", "pending-users">>, <<"users", "users">>} :
          e[1] \in Pages => e[2] \in Keys

Init ==
    /\ \E s \in {"PENDING_APPROVAL", "APPROVED"} : db = [at |-> 0, version |-> 1, changes |-> 0,
                                                       account |-> s]
    /\ page \in Pages
    /\ cache = [k \in Keys |-> emptyEntry]
    /\ reads = [k \in Keys |-> IF k \in Observes[page] THEN started ELSE idle]
    /\ modal = None
    /\ mutations = [m \in Slots |-> None]
    /\ own = [k \in Keys |-> None]
    /\ saves = 0 /\ events = 0

-----------------------------------------------------------------------------
(* Pages *)

\* A page mounts its hooks: a key without fresh data is fetched, unless it is
\* being fetched already.
Mounted(p, entries) ==
    [k \in Keys |-> IF k \in Observes[p] /\ ~entries[k].fresh /\ reads[k].state = "idle"
                    THEN started ELSE reads[k]]

\* A link, the side bar or the browser's back button.  The state of the page
\* that is left is gone: its drawer, and the callbacks of its mutations.
Visit(p) ==
    /\ p # page /\ Event
    /\ page' = p
    /\ reads' = Mounted(p, cache)
    /\ modal' = None
    /\ mutations' = [m \in Slots |-> IF mutations[m] = None THEN None
                                     ELSE [mutations[m] EXCEPT !.here = FALSE]]
    /\ UNCHANGED <<db, cache, own, saves>>

\* The window gets the focus back, perhaps after every staleTime has passed.
Return ==
    /\ Event
    /\ \E late \in BOOLEAN :
          /\ cache' = [k \in Keys |-> [cache[k] EXCEPT !.fresh = @ /\ ~late]]
          /\ reads' = Mounted(page, cache')
    /\ UNCHANGED <<db, page, modal, mutations, own, saves>>

-----------------------------------------------------------------------------
(* Reads *)

ServeRead(k) ==
    /\ reads[k].state = "out"
    /\ reads' = [reads EXCEPT ![k].state = "back", ![k].found = db]
    /\ UNCHANGED <<db, page, cache, modal, mutations, own, bounds>>

\* The last retry fails.
FailRead(k) ==
    /\ reads[k].state = "out" /\ Event
    /\ reads' = [reads EXCEPT ![k].state = "failed"]
    /\ UNCHANGED <<db, page, cache, modal, mutations, own, saves>>

\* Success stores the data and clears the invalidation, a failure keeps the old
\* data; an open drawer keeps its fields.
ReadAnswered(k) ==
    /\ reads[k].state \in {"back", "failed"}
    /\ LET d == reads[k].found
       IN  IF reads[k].state = "failed"
           THEN cache' = [cache EXCEPT ![k].error = TRUE] /\ UNCHANGED modal
           ELSE /\ cache' = [cache EXCEPT ![k] = [data |-> d, fresh |-> k \in Timed,
                                                  error |-> FALSE, uncut |-> reads[k].uncut]]
                /\ modal' = IF k = "daily-submission" /\ modal # None /\ d.changes # modal.seen
                            THEN [modal EXCEPT !.refetched = TRUE] ELSE modal
    /\ reads' = [reads EXCEPT ![k] = idle]
    /\ UNCHANGED <<db, page, mutations, own, bounds>>

\* invalidateQueries: the entries become stale; the keys on screen are fetched
\* again, a fetch under way restarted if the entry has data already.  The fetch of
\* a key no page observes, and a first load, go on as they are.
Restarted(k) == k \in Observes[page] /\ (reads[k].state = "idle" \/ cache[k].data # None)

Uncut(k) == reads[k].state # "idle" /\ (k \notin Observes[page] \/ cache[k].data = None)

Invalidate(keys) ==
    /\ cache' = [k \in Keys |-> IF k \in keys THEN [cache[k] EXCEPT !.fresh = FALSE]
                                ELSE cache[k]]
    /\ reads' = [k \in Keys |-> IF k \notin keys THEN reads[k]
                                ELSE IF Restarted(k) THEN started
                                ELSE [reads[k] EXCEPT !.uncut = Uncut(k)]]

-----------------------------------------------------------------------------
(* Drawers and dialogs *)

\* The detail pages give way to an ErrorState while their query is in error.
Rendered(k) == cache[k].data # None /\ ~cache[k].error

Pending(kinds) == \E m \in Slots : /\ mutations[m] # None /\ mutations[m].here
                                   /\ mutations[m].kind \in kinds

Opened(kind, seen) ==
    /\ modal = None
    /\ modal' = [kind |-> kind, seen |-> seen, refetched |-> FALSE]
    /\ UNCHANGED <<db, page, cache, reads, mutations, own, bounds>>

\* openEdit fills the fields from the entry on screen; setReopenOpen.
OpenSubmission(kind) ==
    /\ page = "submission" /\ kind \in {"edit_submission", "reopen"}
    /\ Rendered("daily-submission")
    /\ Opened(kind, cache["daily-submission"].data.changes)

OpenWorkorder ==
    /\ page = "workorder" /\ Rendered("workorder")
    /\ Opened("edit_workorder", 0)

\* The pending list's buttons, and Suspend on the rows that show APPROVED.
OpenPending(kind) ==
    /\ page = "pending" /\ kind \in {"approve", "reject"}
    /\ cache["pending-users"].data # None
    /\ cache["pending-users"].data.account = "PENDING_APPROVAL"
    /\ Opened(kind, 0)

OpenSuspend ==
    /\ page = "users" /\ cache["users"].data # None
    /\ cache["users"].data.account = "APPROVED"
    /\ Opened("suspend", 0)

\* isConfirming on the pending list covers both of its mutations.
Busy == Pending(IF modal.kind \in {"approve", "reject"} THEN {"approve", "reject"}
                ELSE {modal.kind})

\* Escape, the backdrop, the cross and Cancel.
Close ==
    /\ modal # None /\ ~Busy
    /\ modal' = None
    /\ UNCHANGED <<db, page, cache, reads, mutations, own, bounds>>

\* A mutant of VersionSent: version_number is left out.
VersionForgotten == None

\* handleSave sends the version of the entry on screen now, not of the fields.
VersionSent ==
    IF modal.kind = "edit_submission" THEN cache["daily-submission"].data.version ELSE 0

Confirm(m) ==
    /\ modal # None /\ ~Busy
    /\ mutations[m] = None /\ saves < MaxSaves
    /\ page = "submission" => Rendered("daily-submission")
    /\ page = "workorder" => Rendered("workorder")
    /\ saves' = saves + 1
    /\ mutations' = [mutations EXCEPT ![m] =
          [kind |-> modal.kind, version |-> VersionSent, seen |-> modal.seen,
           refetched |-> modal.refetched, state |-> "out", loaded |-> 0, at |-> 0,
           here |-> TRUE]]
    /\ UNCHANGED <<db, page, cache, reads, modal, own, events>>

\* A mutant of Admits: an edit is not held to its version.
AdmitsAnyVersion(kind, version) ==
    kind \in {"approve", "reject"} => db.account = "PENDING_APPROVAL"

\* What the API holds the request to, on a row it loads without a lock.
Admits(kind, version) ==
    CASE kind = "edit_submission" -> version = db.version
      [] kind \in {"reopen", "edit_workorder"} -> TRUE
      [] kind \in {"approve", "reject"} -> db.account = "PENDING_APPROVAL"
      [] kind = "suspend" -> db.account = "APPROVED"

DaysChanges == {"edit_submission", "reopen"}

\* The row's UPDATE does not look at the version again: a day's gets the one after
\* the version that was loaded, whatever the row has by now.
Changed(kind, loaded) ==
    [at |-> db.at + 1,
     version |-> IF kind \in DaysChanges THEN loaded + 1 ELSE db.version,
     changes |-> IF kind \in DaysChanges THEN db.changes + 1 ELSE db.changes,
     account |-> CASE kind = "approve" -> "APPROVED" [] kind = "reject" -> "REJECTED"
                   [] kind = "suspend" -> "SUSPENDED" [] OTHER -> db.account]

\* The API loads the row and checks the request; it refuses a day's or a
\* workorder's change for reasons of its own, too.
AdmitMutation(m) ==
    /\ mutations[m] # None /\ mutations[m].state = "out"
    /\ LET kind == mutations[m].kind
           admits == Admits(kind, mutations[m].version)
       IN  \/ /\ admits
              /\ mutations' = [mutations EXCEPT ![m].state = "admitted",
                                                ![m].loaded = db.version]
           \/ /\ ~admits \/ kind \in DaysChanges \cup {"edit_workorder"}
              /\ mutations' = [mutations EXCEPT ![m].state = "failed"]
    /\ UNCHANGED <<db, page, cache, reads, modal, own, bounds>>

\* It writes and commits.
CommitMutation(m) ==
    /\ mutations[m] # None /\ mutations[m].state = "admitted"
    /\ db' = Changed(mutations[m].kind, mutations[m].loaded)
    /\ mutations' = [mutations EXCEPT ![m].state = "ok", ![m].at = db.at + 1]
    /\ UNCHANGED <<page, cache, reads, modal, own, bounds>>

\* The request, or its answer, does not get through.  A commit that comes after the
\* console has given up is one of Written's.
FailMutation(m) ==
    /\ mutations[m] # None /\ mutations[m].state # "failed" /\ Event
    /\ mutations' = [mutations EXCEPT ![m].state = "failed"]
    /\ UNCHANGED <<db, page, cache, reads, modal, own, saves>>

\* A mutant of MutationAnswered: the page's onSuccess invalidates, not the hook's.
AnsweredIfMounted(m) ==
    /\ mutations[m] # None /\ mutations[m].state \in {"ok", "failed"}
    /\ LET r == mutations[m]
       IN  IF r.state = "ok"
           THEN /\ IF r.here THEN Invalidate(Invalidates[r.kind]) ELSE UNCHANGED <<cache, reads>>
                /\ modal' = IF r.here THEN None ELSE modal
                /\ own' = [k \in Keys |-> IF k \in Touches[r.kind]
                                          THEN [at |-> r.at, kind |-> r.kind] ELSE own[k]]
           ELSE UNCHANGED <<cache, reads, modal, own>>
    /\ mutations' = [mutations EXCEPT ![m] = None]
    /\ UNCHANGED <<db, page, bounds>>

\* The hook's onSuccess invalidates, the page's closes its modal; a failure
\* leaves the modal open under an alert.
MutationAnswered(m) ==
    /\ mutations[m] # None /\ mutations[m].state \in {"ok", "failed"}
    /\ LET r == mutations[m]
       IN  IF r.state = "ok"
           THEN /\ Invalidate(Invalidates[r.kind])
                /\ modal' = IF r.here THEN None ELSE modal
                /\ own' = [k \in Keys |-> IF k \in Touches[r.kind]
                                          THEN [at |-> r.at, kind |-> r.kind] ELSE own[k]]
           ELSE UNCHANGED <<cache, reads, modal, own>>
    /\ mutations' = [mutations EXCEPT ![m] = None]
    /\ UNCHANGED <<db, page, bounds>>

-----------------------------------------------------------------------------
\* The phone, another administrator, or a request the console has given up: the day
\* is written, perhaps from a row loaded before other changes, or the account is
\* reviewed or suspended.
Written ==
    /\ Event
    /\ \/ \E loaded \in 1..db.version : db' = Changed("edit_submission", loaded)
       \/ \E kind \in {"approve", "reject", "suspend"} :
             Admits(kind, 0) /\ db' = Changed(kind, db.version)
    /\ UNCHANGED <<page, cache, reads, modal, mutations, own, saves>>

Next ==
    \/ \E p \in Pages : Visit(p)
    \/ Return
    \/ \E k \in Keys : ServeRead(k) \/ FailRead(k) \/ ReadAnswered(k)
    \/ \E kind \in Mutation : OpenSubmission(kind) \/ OpenPending(kind)
    \/ OpenWorkorder \/ OpenSuspend \/ Close
    \/ \E m \in Slots : \/ Confirm(m) \/ AdmitMutation(m) \/ CommitMutation(m)
                         \/ FailMutation(m) \/ MutationAnswered(m)
    \/ Written

Spec == Init /\ [][Next]_vars

-----------------------------------------------------------------------------
(* Properties *)

\* Every variable has its type.
TypeOK ==
    /\ db \in Data
    /\ page \in Pages
    /\ cache \in [Keys -> Entry]
    /\ reads \in [Keys -> Read]
    /\ modal \in Modal \cup {None}
    /\ mutations \in [Slots -> Request \cup {None}]
    /\ own \in [Keys -> [at : Nat, kind : Mutation] \cup {None}]
    /\ saves \in 0..MaxSaves /\ events \in 0..MaxEvents

\* A page at rest that is older than a change its own console has made either
\* shows a key the change's hook does not invalidate (the audit timeline, the
\* dashboard's totals, a workorder after a day's edit) or holds the answer of a
\* fetch the invalidation found under way and let go on.
OnlyUncutReadsHideOwnChanges ==
    \A k \in Observes[page] :
        /\ cache[k].data # None /\ ~cache[k].error /\ reads[k].state = "idle"
        /\ own[k] # None /\ cache[k].data.at < own[k].at
        => k \notin Invalidates[own[k].kind] \/ cache[k].uncut

\* The version no longer counts the day's changes: one was written over a row that
\* had changed since it was loaded, and both gave the day the same version.
Raced == db.version # db.changes + 1

\* An accepted edit of a day overwrites a change the admin's drawer was not filled
\* from only when that change was fetched under the open drawer (the page then sends
\* the new version with the old fields, and the API's check of version_number
\* passes), or when writes of the day have raced: this one, between its check and its
\* UPDATE, or earlier ones that gave one version twice.
OnlyRefetchedDrawersOverwrite ==
    [][\A m \in Slots :
          /\ mutations[m] # None /\ mutations[m].kind = "edit_submission"
          /\ mutations[m].state = "admitted" /\ mutations'[m] # None
          /\ mutations'[m].state = "ok" /\ mutations[m].seen # db.changes
          => mutations[m].refetched \/ Raced']_vars

=============================================================================

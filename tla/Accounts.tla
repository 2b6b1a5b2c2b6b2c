------------------------------- MODULE Accounts -------------------------------
(***************************************************************************)
(* Sign-up and review of accounts: MeService.bootstrap, which makes the    *)
(* first administrator, and AdminUsersService, whose administrators        *)
(* approve, reject and suspend.  Requests interleave statement by          *)
(* statement over app_users and user_approval_audit; a session keeps rows  *)
(* as loaded and flushes the columns it changed.                           *)
(***************************************************************************)
EXTENDS Naturals

CONSTANTS
    Slots,      \* the requests in flight at once
    People,     \* the Supabase identities; an app_users row has the id of its own
    Email,      \* the email of each identity
    Allowed,    \* the emails in BOOTSTRAP_ADMIN_EMAILS
    Reviews,    \* the review operations administrators call
    MaxStamps,  \* bound: no review is decided once the clock has been read as often
    None

VARIABLES
    users,   \* the committed rows of app_users, None where there is none
    trail,   \* the committed user_approval_audit rows of each user
    boot,    \* the request that holds the bootstrap advisory lock
    pc,      \* where each request stands; in Free when it is answered
    tx,      \* its session
    locked,  \* the user row its transaction has updated
    clock,     \* datetime.now(UTC), counted in the readings of it
    overtaken  \* history: the users with a decision committed after a later one

tables == <<users, trail, overtaken>>
vars == <<users, trail, boot, pc, tx, locked, clock, overtaken>>

-----------------------------------------------------------------------------
Role == {"DRIVE_TESTER", "ADMIN"}
Status == {"PENDING_APPROVAL", "APPROVED", "REJECTED", "SUSPENDED"}

\* requested_role, approved_role, account_status, approved_by_user_id
User == [requested : Role, role : Role \cup {None}, status : Status,
         approver : People \cup {None}]

\* An audit row; reviewer None is reviewed_by_user_id = null with the note
\* BOOTSTRAP_ADMIN_AUTO_APPROVED.  Only created_at orders the rows of a user.
Decision == [decision : {"APPROVED", "REJECTED"}, reviewer : People \cup {None},
             created_at : Nat]

Operation == {"bootstrap", "approve_user", "reject_user", "suspend_user"}

ASSUME AccountsAssumption ==
    /\ None \notin People \cup Slots \cup Role \cup User
    /\ Reviews \subseteq Operation \ {"bootstrap"}
    /\ MaxStamps \in Nat

Free == {"ok", "rejected", "error", "aborted"}

\* actor and target are identities, row the target as loaded, new as edited,
\* now what the service read from the clock.
Session == [op : Operation \cup {"none"}, actor : People \cup {None},
            target : People \cup {None}, row : User \cup {None}, new : User \cup {None},
            now : Nat]
Blank == [op |-> "none", actor |-> None, target |-> None, row |-> None, new |-> None,
          now |-> 0]

IsAdmin(row) == row # None /\ row.status = "APPROVED" /\ row.role = "ADMIN"

ApprovedAdmins == {p \in People : IsAdmin(users[p])}

Init ==
    /\ users = [p \in People |-> None]
    /\ trail = [p \in People |-> {}]
    /\ boot = None
    /\ pc = [r \in Slots |-> "ok"]
    /\ tx = [r \in Slots |-> Blank]
    /\ locked = [r \in Slots |-> None]
    /\ clock = 0 /\ overtaken = {}

Answer(r, outcome) ==
    /\ pc' = [pc EXCEPT ![r] = outcome]
    /\ tx' = [tx EXCEPT ![r] = Blank]
    /\ locked' = [locked EXCEPT ![r] = None]
    /\ boot' = IF boot = r THEN None ELSE boot

Rollback(r, outcome) == Answer(r, outcome) /\ UNCHANGED <<tables, clock>>

Read(r, label, session) ==
    /\ pc' = [pc EXCEPT ![r] = label]
    /\ tx' = [tx EXCEPT ![r] = session]
    /\ UNCHANGED <<tables, boot, locked>>

Proceed(r, label, session) == Read(r, label, session) /\ UNCHANGED clock

-----------------------------------------------------------------------------
(* POST /me/bootstrap *)

\* Mutant: the requested role is optional.
BootstrapWithoutRole(r, p, role) ==
    /\ pc[r] \in Free
    /\ Proceed(r, "lock", [Blank EXCEPT !.op = "bootstrap", !.target = p,
                               !.new = [requested |-> None, role |-> None,
                                        status |-> "PENDING_APPROVAL", approver |-> None]])

Bootstrap(r, p, role) ==
    /\ pc[r] \in Free
    /\ Proceed(r, "lock", [Blank EXCEPT !.op = "bootstrap", !.target = p,
                               !.new = [requested |-> role, role |-> None,
                                        status |-> "PENDING_APPROVAL", approver |-> None]])

\* Mutant: bootstrap goes on without the advisory lock.
NoBootstrapLock(r) ==
    /\ pc[r] = "lock"
    /\ Proceed(r, "lookup", tx[r])

\* pg_advisory_xact_lock: held until the transaction ends.
AcquireBootstrapLock(r) ==
    /\ pc[r] = "lock"
    /\ boot = None
    /\ boot' = r
    /\ pc' = [pc EXCEPT ![r] = "lookup"]
    /\ UNCHANGED <<tables, tx, locked, clock>>

\* An identity that has its row already gets it back.
LookUp(r) ==
    /\ pc[r] = "lookup"
    /\ IF users[tx[r].target] # None
       THEN Rollback(r, "ok")
       ELSE Proceed(r, "count", tx[r])

AutoApproved(row) == [row EXCEPT !.role = "ADMIN", !.status = "APPROVED"]

\* Mutant: whoever has an allowed email becomes the first administrator.
CountAdminsForAnyRole(r) ==
    LET t == tx[r] IN
    /\ pc[r] = "count"
    /\ Proceed(r, "create",
               IF ApprovedAdmins = {} /\ Email[t.target] \in Allowed
               THEN [t EXCEPT !.new = AutoApproved(@)] ELSE t)

CountApprovedAdmins(r) ==
    LET t == tx[r] IN
    /\ pc[r] = "count"
    /\ Proceed(r, "create",
               IF ApprovedAdmins = {} /\ t.new.requested = "ADMIN" /\ Email[t.target] \in Allowed
               THEN [t EXCEPT !.new = AutoApproved(@)] ELSE t)

\* The unique email of another identity's row fails the INSERT; nothing
\* handles its IntegrityError.
CreateUser(r) ==
    LET t == tx[r] IN
    /\ pc[r] = "create"
    /\ IF \E p \in People : users[p] # None /\ Email[p] = Email[t.target]
       THEN Rollback(r, "error")
       ELSE Proceed(r, "commit_user", t)

CommitUser(r) ==
    LET t == tx[r] IN
    /\ pc[r] = "commit_user"
    /\ users' = [users EXCEPT ![t.target] = t.new]
    /\ trail' = IF t.new.status = "APPROVED"
                THEN [trail EXCEPT ![t.target] = @ \cup
                        {[decision |-> "APPROVED", reviewer |-> None, created_at |-> clock]}]
                ELSE trail
    /\ Answer(r, "ok")
    /\ UNCHANGED <<clock, overtaken>>

-----------------------------------------------------------------------------
(* POST /admin/users/{id}/approve, /reject, /suspend *)

\* The status a review wants the target in.
From(operation) == IF operation = "suspend_user" THEN "APPROVED" ELSE "PENDING_APPROVAL"

Reviewed(row, operation, actor) ==
    CASE operation = "approve_user" ->
            [row EXCEPT !.status = "APPROVED", !.role = row.requested, !.approver = actor]
      [] operation = "reject_user" ->
            [row EXCEPT !.status = "REJECTED", !.role = None, !.approver = None]
      [] OTHER -> [row EXCEPT !.status = "SUSPENDED"]

\* The actor is checked once, as the request comes in.  Its row is the
\* target's too when administrators review themselves.
Review(r, operation, actor, target) ==
    /\ pc[r] \in Free /\ operation \in Reviews
    /\ users[actor] # None
    /\ IF ~IsAdmin(users[actor])
       THEN Rollback(r, "rejected")
       ELSE Proceed(r, "load", [Blank EXCEPT !.op = operation, !.actor = actor,
                                    !.target = target,
                                    !.row = IF actor = target THEN users[actor] ELSE None])

\* The decision is stamped here, before its UPDATE waits for anybody; a
\* suspension leaves no audit row.
LoadTarget(r) ==
    LET t == tx[r]
        row == IF t.row = None THEN users[t.target] ELSE t.row
        session == [t EXCEPT !.row = row, !.new = Reviewed(row, t.op, t.actor), !.now = clock]
    IN  /\ pc[r] = "load"
        /\ IF row = None \/ row.status # From(t.op)
           THEN Rollback(r, "rejected")
           ELSE IF t.op = "suspend_user"
           THEN Proceed(r, "update", session)
           ELSE Read(r, "update", session) /\ clock < MaxStamps /\ clock' = clock + 1

\* The UPDATE waits for the row lock.
UpdateTarget(r) ==
    /\ pc[r] = "update"
    /\ \A q \in Slots \ {r} : locked[q] # tx[r].target
    /\ locked' = [locked EXCEPT ![r] = tx[r].target]
    /\ pc' = [pc EXCEPT ![r] = "commit"]
    /\ UNCHANGED <<tables, boot, tx, clock>>

\* The columns the session changed go over the row as it is now.
Column(stored, loaded, edited) == IF edited = loaded THEN stored ELSE edited

Flushed(stored, loaded, edited) ==
    [stored EXCEPT !.role = Column(stored.role, loaded.role, edited.role),
                   !.status = Column(stored.status, loaded.status, edited.status),
                   !.approver = Column(stored.approver, loaded.approver, edited.approver)]

DecisionOf(operation) == IF operation = "approve_user" THEN "APPROVED" ELSE "REJECTED"

\* Mutant: the audit row of a rejection says APPROVED.
EntryOfApproval(t) == [decision |-> "APPROVED", reviewer |-> t.actor, created_at |-> t.now]

Entry(t) == [decision |-> DecisionOf(t.op), reviewer |-> t.actor, created_at |-> t.now]

\* The decisions of the target that are committed already and stamped later.
Later(t) == {e \in trail[t.target] : e.created_at > t.now}

CommitReview(r) ==
    LET t == tx[r]
        decides == t.op # "suspend_user"
    IN  /\ pc[r] = "commit"
        /\ users' = [users EXCEPT ![t.target] = Flushed(@, t.row, t.new)]
        /\ trail' = IF decides THEN [trail EXCEPT ![t.target] = @ \cup {Entry(t)}] ELSE trail
        /\ overtaken' = IF decides /\ Later(t) # {} THEN overtaken \cup {t.target}
                                                    ELSE overtaken
        /\ Answer(r, "ok")
        /\ UNCHANGED clock

Crash(r) == pc[r] \notin Free /\ Rollback(r, "aborted")

-----------------------------------------------------------------------------
BootstrapStep(r) == \/ AcquireBootstrapLock(r) \/ LookUp(r) \/ CountApprovedAdmins(r)
                    \/ CreateUser(r) \/ CommitUser(r)

ReviewStep(r) == LoadTarget(r) \/ UpdateTarget(r) \/ CommitReview(r)

Arrive(r) ==
    \/ \E p \in People, role \in Role : Bootstrap(r, p, role)
    \/ \E operation \in Operation, actor, target \in People :
          Review(r, operation, actor, target)

Next == \E r \in Slots : Arrive(r) \/ BootstrapStep(r) \/ ReviewStep(r) \/ Crash(r)

Spec == Init /\ [][Next]_vars

-----------------------------------------------------------------------------
TypeOK ==
    /\ users \in [People -> User \cup {None}]
    /\ trail \in [People -> SUBSET Decision]
    /\ boot \in Slots \cup {None}
    /\ pc \in [Slots -> Free \cup {"lock", "lookup", "count", "create", "commit_user",
                                   "load", "update", "commit"}]
    /\ tx \in [Slots -> Session]
    /\ locked \in [Slots -> People \cup {None}]
    /\ clock \in Nat /\ overtaken \subseteq People

\* The users bootstrap approved, by the note in their trail.
SelfMade == {p \in People : \E e \in trail[p] : e.reviewer = None}

\* BUSINESS_RULES.md:14,18-19: of the administrators bootstrap made, at most
\* one is approved at any time, however bootstraps, reviews and suspensions
\* race: count and insert are one critical section of the advisory lock.
OneBootstrapAdmin ==
    \A p, q \in SelfMade \cap ApprovedAdmins : p = q

Newest(entries) == {e \in entries : \A x \in entries : x.created_at <= e.created_at}

\* What an account shows is the newest decision of its trail, as the history
\* lists it, unless it was suspended, or a racing review overtook one that was
\* stamped later: then it is one of the decisions.
TrailTellsDecision ==
    \A p \in People : users[p] # None =>
        IF trail[p] = {}
        THEN users[p].status = "PENDING_APPROVAL"
        ELSE \/ users[p].status = "SUSPENDED"
             \/ \E e \in IF p \in overtaken THEN trail[p] ELSE Newest(trail[p]) :
                   e.decision = users[p].status

\* Only an administrator's decision or the bootstrap gives the rights of a
\* role, and the role is the one requested.
RightsAreReviewed ==
    \A p \in People : users[p] # None /\ users[p].status = "APPROVED" =>
        /\ \E e \in trail[p] : e.decision = "APPROVED"
        /\ users[p].role = users[p].requested

-----------------------------------------------------------------------------
(* What makes the three inductive. *)

Critical == {"lookup", "count", "create", "commit_user"}

\* A user that is not decided has no role and no trail; one that is, has one.
UndecidedRows ==
    \A p \in People : users[p] = None \/ users[p].status = "PENDING_APPROVAL" =>
        /\ trail[p] = {}
        /\ users[p] # None => users[p].role = None

\* What a bootstrap knows under the lock: there is no row of its identity, and
\* if it approves, no administrator that an earlier bootstrap approved.
BootstrapSession(r) ==
    LET t == tx[r] IN
    /\ pc[r] \in Critical => boot = r
    /\ pc[r] \in Critical \cup {"lock"} =>
          /\ t.target \in People /\ t.new \in User
          /\ \/ t.new.status = "PENDING_APPROVAL" /\ t.new.role = None
             \/ /\ t.new.status = "APPROVED" /\ t.new.role = "ADMIN"
                /\ t.new.requested = "ADMIN" /\ pc[r] \in {"create", "commit_user"}
                /\ SelfMade \cap ApprovedAdmins = {}
    /\ pc[r] \in {"count", "create", "commit_user"} => users[t.target] = None

\* What a review knows of its target: the row it loaded was in the status it
\* changes, with the role requested that the row still has.
ReviewSession(r) ==
    LET t == tx[r] IN
    /\ pc[r] \in {"load", "update", "commit"} =>
          /\ t.op \in Operation \ {"bootstrap"}
          /\ t.actor \in People /\ t.target \in People
          /\ t.row # None => /\ t.row \in User /\ users[t.target] # None
                            /\ t.row.requested = users[t.target].requested
    /\ pc[r] = "load" => t.row = None \/ (t.row.status = "APPROVED" /\ trail[t.target] # {})
    /\ pc[r] \in {"update", "commit"} =>
          /\ t.row # None
          /\ t.row.status = From(t.op)
          /\ t.new = Reviewed(t.row, t.op, t.actor)
          /\ IF t.op = "suspend_user" THEN trail[t.target] # {}
             ELSE t.row.role = None /\ t.target \notin SelfMade

Inductive ==
    /\ TypeOK
    /\ OneBootstrapAdmin
    /\ TrailTellsDecision
    /\ RightsAreReviewed
    /\ UndecidedRows
    /\ \A r \in Slots : BootstrapSession(r) /\ ReviewSession(r)
=============================================================================

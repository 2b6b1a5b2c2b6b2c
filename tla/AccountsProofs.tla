---------------------------- MODULE AccountsProofs ----------------------------
(***************************************************************************)
(* The safety properties of Accounts for any identities, slots, emails and *)
(* allowlist: Inductive holds initially and is kept by every step.         *)
(***************************************************************************)
EXTENDS Accounts, TLAPS

Labels == {"lock", "lookup", "count", "create", "commit_user", "load", "update", "commit"}

-----------------------------------------------------------------------------
(* Lemmas about the operators. *)

\* None is no value a column, a row or a key can have.
LEMMA NoneIsApart == /\ None \notin People /\ None \notin Slots
                     /\ None \notin Role /\ None \notin User
BY AccountsAssumption

\* The session of a request that is answered is type-correct.
LEMMA BlankIsSession == Blank \in Session
BY DEF Blank, Session

\* The operations that edit a row of the table keep it a row of the table.
LEMMA EditsKeepRows ==
    ASSUME NEW row \in User
    PROVE  /\ AutoApproved(row) \in User
           /\ \A operation \in Operation, actor \in People :
                 Reviewed(row, operation, actor) \in User
           /\ \A loaded, edited \in User : Flushed(row, loaded, edited) \in User
<1>1. AutoApproved(row) \in User
  BY DEF AutoApproved, User, Role, Status
<1>2. ASSUME NEW operation \in Operation, NEW actor \in People
      PROVE  Reviewed(row, operation, actor) \in User
  BY DEF Reviewed, User, Role, Status, Operation
<1>3. ASSUME NEW loaded \in User, NEW edited \in User
      PROVE  Flushed(row, loaded, edited) \in User
  BY DEF Flushed, Column, User
<1>4. QED
  BY <1>1, <1>2, <1>3

\* A user whose trail is empty was not made by bootstrap.
LEMMA EmptyTrailIsNotSelfMade ==
    ASSUME NEW p, trail[p] = {}
    PROVE  p \notin SelfMade
BY DEF SelfMade

-----------------------------------------------------------------------------
(* The steps that leave the tables alone. *)

\* A step of r that writes no row keeps the invariant if it keeps what r knows.
LEMMA SessionStep ==
    ASSUME Inductive, TypeOK', UNCHANGED tables,
           NEW r \in Slots,
           \A q \in Slots \ {r} : pc'[q] = pc[q] /\ tx'[q] = tx[q] /\ (boot = q => boot' = q),
           BootstrapSession(r)', ReviewSession(r)'
    PROVE  Inductive'
<1>1. OneBootstrapAdmin' /\ TrailTellsDecision' /\ RightsAreReviewed' /\ UndecidedRows'
  BY DEF Inductive, OneBootstrapAdmin, TrailTellsDecision, RightsAreReviewed, UndecidedRows,
         SelfMade, ApprovedAdmins, IsAdmin, tables
<1>2. ASSUME NEW q \in Slots, q # r
      PROVE  BootstrapSession(q)' /\ ReviewSession(q)'
  <2>1. BootstrapSession(q) /\ ReviewSession(q)
    BY DEF Inductive
  <2>2. BootstrapSession(q)'
    BY <1>2, <2>1 DEF BootstrapSession, SelfMade, ApprovedAdmins, IsAdmin, tables
  <2>3. ReviewSession(q)'
    BY <1>2, <2>1 DEF ReviewSession, SelfMade, tables
  <2>4. QED
    BY <2>2, <2>3
<1>3. QED
  BY <1>1, <1>2 DEF Inductive

\* A rejected, failed or aborted request.
LEMMA RollbackKeeps ==
    ASSUME Inductive, NEW r \in Slots, NEW outcome \in Free, Rollback(r, outcome)
    PROVE  Inductive'
<1>1. TypeOK'
  BY BlankIsSession DEF Inductive, TypeOK, Rollback, Answer, tables
<1>2. pc'[r] = outcome
  BY DEF Rollback, Answer, Inductive, TypeOK
<1>3. BootstrapSession(r)' /\ ReviewSession(r)'
  BY <1>2 DEF BootstrapSession, ReviewSession, Critical, Free
<1>4. \A q \in Slots \ {r} : pc'[q] = pc[q] /\ tx'[q] = tx[q] /\ (boot = q => boot' = q)
  BY DEF Rollback, Answer, Inductive, TypeOK
<1>5. UNCHANGED tables
  BY DEF Rollback
<1>6. QED
  BY <1>1, <1>3, <1>4, <1>5, SessionStep

\* A statement that only reads, when what it leaves in the session is right.
LEMMA ProceedKeeps ==
    ASSUME Inductive, NEW r \in Slots, NEW label \in Labels, NEW session \in Session,
           Read(r, label, session), clock' \in Nat, BootstrapSession(r)', ReviewSession(r)'
    PROVE  Inductive'
<1>1. TypeOK'
  BY DEF Inductive, TypeOK, Read, Labels, tables
<1>2. \A q \in Slots \ {r} : pc'[q] = pc[q] /\ tx'[q] = tx[q] /\ (boot = q => boot' = q)
  BY DEF Read, Inductive, TypeOK
<1>3. UNCHANGED tables
  BY DEF Read
<1>4. QED
  BY <1>1, <1>2, <1>3, SessionStep

\* What r's slot holds after a step that only reads.
LEMMA ProceedFacts ==
    ASSUME TypeOK, NEW r \in Slots, NEW label, NEW session, Read(r, label, session)
    PROVE  /\ pc'[r] = label /\ tx'[r] = session
           /\ users' = users /\ trail' = trail /\ boot' = boot
BY DEF TypeOK, Read, tables

\* A statement that does not read the clock either.
LEMMA ProceedReads ==
    ASSUME TypeOK, NEW r, NEW label, NEW session, Proceed(r, label, session)
    PROVE  Read(r, label, session) /\ clock' \in Nat
BY DEF TypeOK, Proceed

-----------------------------------------------------------------------------
(* The steps of a bootstrap. *)

\* The session that opens holds a pending row.
LEMMA BootstrapKeeps ==
    ASSUME Inductive, NEW r \in Slots, NEW p \in People, NEW role \in Role,
           Bootstrap(r, p, role)
    PROVE  Inductive'
<1> DEFINE row == [requested |-> role, role |-> None,
                   status |-> "PENDING_APPROVAL", approver |-> None]
           session == [Blank EXCEPT !.op = "bootstrap", !.target = p, !.new = row]
<1>1. row \in User
  BY DEF User, Status
<1>2. /\ session \in Session
      /\ session.target = p /\ session.new = row
  BY <1>1 DEF Session, Blank, Operation
<1>3. Proceed(r, "lock", session)
  BY DEF Bootstrap
<1>. HIDE DEF session
<1>4. pc'[r] = "lock" /\ tx'[r] = session
  BY <1>3, ProceedReads, ProceedFacts DEF Inductive
<1>5. BootstrapSession(r)'
  BY <1>1, <1>2, <1>4 DEF BootstrapSession, Critical
<1>6. ReviewSession(r)'
  BY <1>4 DEF ReviewSession
<1>7. QED
  BY <1>2, <1>3, <1>5, <1>6, ProceedReads, ProceedKeeps DEF Labels, Inductive

\* Nobody was in the critical section.
LEMMA AcquireBootstrapLockKeeps ==
    ASSUME Inductive, NEW r \in Slots, AcquireBootstrapLock(r)
    PROVE  Inductive'
<1>1. TypeOK'
  BY DEF Inductive, TypeOK, AcquireBootstrapLock, tables
<1>2. pc'[r] = "lookup" /\ tx'[r] = tx[r] /\ boot' = r
  BY DEF AcquireBootstrapLock, Inductive, TypeOK
<1>3. BootstrapSession(r)
  BY DEF Inductive
<1>4. BootstrapSession(r)'
  BY <1>2, <1>3 DEF BootstrapSession, Critical, AcquireBootstrapLock, tables, SelfMade, ApprovedAdmins, IsAdmin
<1>5. ReviewSession(r)'
  BY <1>2 DEF ReviewSession
<1>6. \A q \in Slots \ {r} : pc'[q] = pc[q] /\ tx'[q] = tx[q] /\ (boot = q => boot' = q)
  BY NoneIsApart DEF AcquireBootstrapLock, Inductive, TypeOK
<1>7. QED
  BY <1>1, <1>4, <1>5, <1>6, SessionStep DEF AcquireBootstrapLock

\* The identity has no row when the lookup lets it pass.
LEMMA LookUpKeeps ==
    ASSUME Inductive, NEW r \in Slots, LookUp(r)
    PROVE  Inductive'
<1>1. CASE users[tx[r].target] # None
  BY <1>1, RollbackKeeps DEF LookUp, Free
<1>2. CASE users[tx[r].target] = None
  <2>1. Proceed(r, "count", tx[r]) /\ pc[r] = "lookup"
    BY <1>2 DEF LookUp
  <2>2. tx[r] \in Session /\ BootstrapSession(r)
    BY DEF Inductive, TypeOK
  <2>3. /\ pc'[r] = "count" /\ tx'[r] = tx[r]
        /\ users' = users /\ trail' = trail /\ boot' = boot
    BY <2>1, ProceedReads, ProceedFacts DEF Inductive
  <2>4. BootstrapSession(r)'
    BY <1>2, <2>1, <2>2, <2>3 DEF BootstrapSession, Critical
  <2>5. ReviewSession(r)'
    BY <2>3 DEF ReviewSession
  <2>6. QED
    BY <2>1, <2>2, <2>4, <2>5, ProceedReads, ProceedKeeps DEF Labels, Inductive
<1>3. QED
  BY <1>1, <1>2

\* The bootstrap approves only where there is no approved administrator.
LEMMA CountApprovedAdminsKeeps ==
    ASSUME Inductive, NEW r \in Slots, CountApprovedAdmins(r)
    PROVE  Inductive'
<1>1. pc[r] = "count" /\ tx[r] \in Session /\ BootstrapSession(r)
  BY DEF CountApprovedAdmins, Inductive, TypeOK
<1>2. /\ boot = r /\ tx[r].target \in People /\ tx[r].new \in User
      /\ tx[r].new.status = "PENDING_APPROVAL" /\ tx[r].new.role = None
      /\ users[tx[r].target] = None
  BY <1>1 DEF BootstrapSession, Critical
<1>3. CASE ApprovedAdmins = {} /\ tx[r].new.requested = "ADMIN" /\ Email[tx[r].target] \in Allowed
  <2> DEFINE new == AutoApproved(tx[r].new)
             session == [tx[r] EXCEPT !.new = new]
  <2>1. /\ new \in User
        /\ new.status = "APPROVED" /\ new.role = "ADMIN" /\ new.requested = "ADMIN"
    BY <1>2, <1>3, EditsKeepRows DEF AutoApproved, User
  <2>2. Proceed(r, "create", session)
    BY <1>3 DEF CountApprovedAdmins
  <2>. HIDE DEF new
  <2>3. session \in Session /\ session.target = tx[r].target /\ session.new = new
    BY <1>1, <2>1 DEF Session
  <2>. HIDE DEF session
  <2>4. /\ pc'[r] = "create" /\ tx'[r] = session
        /\ users' = users /\ trail' = trail /\ boot' = boot
    BY <2>2, ProceedReads, ProceedFacts DEF Inductive
  <2>5. (SelfMade \cap ApprovedAdmins)' = {}
    BY <1>3, <2>4 DEF ApprovedAdmins, IsAdmin
  <2>6. BootstrapSession(r)'
    BY <1>2, <2>1, <2>3, <2>4, <2>5 DEF BootstrapSession, Critical
  <2>7. ReviewSession(r)'
    BY <2>4 DEF ReviewSession
  <2>8. QED
    BY <2>2, <2>3, <2>6, <2>7, ProceedReads, ProceedKeeps DEF Labels, Inductive
<1>4. CASE ~(ApprovedAdmins = {} /\ tx[r].new.requested = "ADMIN" /\ Email[tx[r].target] \in Allowed)
  <2>1. Proceed(r, "create", tx[r])
    BY <1>4 DEF CountApprovedAdmins
  <2>2. /\ pc'[r] = "create" /\ tx'[r] = tx[r]
        /\ users' = users /\ trail' = trail /\ boot' = boot
    BY <2>1, ProceedReads, ProceedFacts DEF Inductive
  <2>3. BootstrapSession(r)'
    BY <1>2, <2>2 DEF BootstrapSession, Critical
  <2>4. ReviewSession(r)'
    BY <2>2 DEF ReviewSession
  <2>5. QED
    BY <1>1, <2>1, <2>3, <2>4, ProceedReads, ProceedKeeps DEF Labels, Inductive
<1>5. QED
  BY <1>3, <1>4

\* The lock is still held.
LEMMA CreateUserKeeps ==
    ASSUME Inductive, NEW r \in Slots, CreateUser(r)
    PROVE  Inductive'
<1>1. CASE Rollback(r, "error")
  BY <1>1, RollbackKeeps DEF Free
<1>2. CASE Proceed(r, "commit_user", tx[r])
  <2>1. pc[r] = "create" /\ tx[r] \in Session /\ BootstrapSession(r)
    BY DEF CreateUser, Inductive, TypeOK
  <2>2. /\ pc'[r] = "commit_user" /\ tx'[r] = tx[r]
        /\ users' = users /\ trail' = trail /\ boot' = boot
    BY <1>2, ProceedReads, ProceedFacts DEF Inductive
  <2>3. BootstrapSession(r)'
    BY <2>1, <2>2 DEF BootstrapSession, Critical, SelfMade, ApprovedAdmins, IsAdmin
  <2>4. ReviewSession(r)'
    BY <2>2 DEF ReviewSession
  <2>5. QED
    BY <1>2, <2>1, <2>3, <2>4, ProceedReads, ProceedKeeps DEF Labels, Inductive
<1>3. QED
  BY <1>1, <1>2 DEF CreateUser

\* A death in flight.
LEMMA CrashKeeps ==
    ASSUME Inductive, NEW r \in Slots, Crash(r)
    PROVE  Inductive'
BY RollbackKeeps DEF Crash, Free

-----------------------------------------------------------------------------
(* The steps of a review that read. *)

\* The actor's own row is loaded with its status APPROVED.
LEMMA ReviewKeeps ==
    ASSUME Inductive, NEW r \in Slots, NEW operation \in Operation,
           NEW actor \in People, NEW target \in People,
           Review(r, operation, actor, target)
    PROVE  Inductive'
<1>1. CASE ~IsAdmin(users[actor])
  BY <1>1, RollbackKeeps DEF Review, Free
<1>2. CASE IsAdmin(users[actor])
  <2> DEFINE row == IF actor = target THEN users[actor] ELSE None
             session == [Blank EXCEPT !.op = operation, !.actor = actor,
                                      !.target = target, !.row = row]
  <2>1. Proceed(r, "load", session) /\ operation \in Operation \ {"bootstrap"}
    BY <1>2, AccountsAssumption DEF Review
  <2>2. row \in User \cup {None}
    BY DEF Inductive, TypeOK
  <2>3. row # None => /\ row = users[target] /\ users[target] # None
                      /\ row.status = "APPROVED" /\ trail[target] # {}
    BY <1>2 DEF Inductive, TrailTellsDecision, IsAdmin
  <2>. HIDE DEF row
  <2>4. /\ session \in Session /\ session.op = operation /\ session.actor = actor
        /\ session.target = target /\ session.row = row
    BY <2>2 DEF Session, Blank
  <2>. HIDE DEF session
  <2>5. /\ pc'[r] = "load" /\ tx'[r] = session
        /\ users' = users /\ trail' = trail /\ boot' = boot
    BY <2>1, ProceedReads, ProceedFacts DEF Inductive
  <2>6. BootstrapSession(r)'
    BY <2>5 DEF BootstrapSession, Critical
  <2>7. ReviewSession(r)'
    BY <2>1, <2>2, <2>3, <2>4, <2>5 DEF ReviewSession
  <2>8. QED
    BY <2>1, <2>4, <2>6, <2>7, ProceedReads, ProceedKeeps DEF Labels, Inductive
<1>3. QED
  BY <1>1, <1>2

\* The target is in the status the review changes: it is in the table with a
\* trail when it is suspended, and without one when it is decided.
LEMMA LoadTargetKeeps ==
    ASSUME Inductive, NEW r \in Slots, LoadTarget(r)
    PROVE  Inductive'
<1> DEFINE t == tx[r]
           row == IF t.row = None THEN users[t.target] ELSE t.row
           new == Reviewed(row, t.op, t.actor)
           session == [t EXCEPT !.row = row, !.new = new, !.now = clock]
<1>1. /\ pc[r] = "load" /\ t \in Session /\ ReviewSession(r)
  BY DEF LoadTarget, Inductive, TypeOK
<1>2. /\ t.op \in Operation \ {"bootstrap"} /\ t.actor \in People /\ t.target \in People
      /\ t.row # None => /\ t.row \in User /\ users[t.target] # None
                         /\ t.row.requested = users[t.target].requested
                         /\ t.row.status = "APPROVED" /\ trail[t.target] # {}
  BY <1>1 DEF ReviewSession
<1>3. CASE row = None \/ row.status # From(t.op)
  <2>1. Rollback(r, "rejected")
    BY <1>3 DEF LoadTarget
  <2>2. QED
    BY <2>1, RollbackKeeps DEF Free
<1>4. CASE ~(row = None \/ row.status # From(t.op))
  <2>1. Read(r, "update", session) /\ clock' \in Nat
    BY <1>4, ProceedReads DEF LoadTarget, Inductive, TypeOK
  <2>2. row \in User /\ row # None
    BY <1>2, <1>4 DEF Inductive, TypeOK
  <2>3. users[t.target] # None /\ row.requested = users[t.target].requested
    BY <1>2, <1>4
  <2>4. row.status = From(t.op)
    BY <1>4
  <2>5. ASSUME t.op # "suspend_user"
        PROVE  row.role = None /\ t.target \notin SelfMade
    <3>1. row.status = "PENDING_APPROVAL"
      BY <2>4, <2>5 DEF From
    <3>2. row = users[t.target]
      BY <1>2, <3>1
    <3>3. trail[t.target] = {} /\ row.role = None
      BY <1>2, <2>2, <3>1, <3>2 DEF Inductive, UndecidedRows
    <3>4. QED
      BY <3>3, EmptyTrailIsNotSelfMade
  <2>6. t.op = "suspend_user" => trail[t.target] # {}
    BY <1>2, <2>3, <2>4 DEF From, Inductive, TrailTellsDecision
  <2>7. new \in User
    BY <1>2, <2>2, EditsKeepRows
  <2>8. /\ session \in Session /\ session.op = t.op /\ session.actor = t.actor
        /\ session.target = t.target /\ session.row = row /\ session.new = new
    <3>. HIDE DEF new, row
    <3>1. QED
      BY <1>1, <2>2, <2>7 DEF Session, Inductive, TypeOK
  <2>9. /\ pc'[r] = "update" /\ tx'[r] = session
         /\ users' = users /\ trail' = trail /\ boot' = boot
    <3>. HIDE DEF session
    <3>1. QED
      BY <2>1, ProceedReads, ProceedFacts DEF Inductive
  <2>10. BootstrapSession(r)'
    BY <2>9 DEF BootstrapSession, Critical
  <2>11. ReviewSession(r)'
    <3>1. (t.target \notin SelfMade) = (t.target \notin SelfMade')
      BY <2>9 DEF SelfMade
    <3>. HIDE DEF session, row
    <3>2. QED
      BY <1>2, <2>2, <2>3, <2>4, <2>5, <2>6, <2>8, <2>9, <3>1 DEF ReviewSession
  <2>12. QED
    <3>. HIDE DEF session
    <3>1. QED
      BY <2>1, <2>8, <2>10, <2>11, ProceedReads, ProceedKeeps DEF Labels, Inductive
<1>5. QED
  BY <1>3, <1>4

\* The UPDATE changes nothing but the lock.
LEMMA UpdateTargetKeeps ==
    ASSUME Inductive, NEW r \in Slots, UpdateTarget(r)
    PROVE  Inductive'
<1>1. /\ pc[r] = "update" /\ ReviewSession(r) /\ tx[r].target \in People
  BY DEF UpdateTarget, Inductive, ReviewSession
<1>2. TypeOK'
  BY <1>1 DEF Inductive, TypeOK, UpdateTarget, tables
<1>3. /\ pc'[r] = "commit" /\ tx' = tx /\ users' = users /\ trail' = trail /\ boot' = boot
      /\ \A q \in Slots \ {r} : pc'[q] = pc[q]
  BY DEF UpdateTarget, Inductive, TypeOK, tables
<1>4. BootstrapSession(r)'
  BY <1>3 DEF BootstrapSession, Critical
<1>5. ReviewSession(r)'
  BY <1>1, <1>3 DEF ReviewSession, SelfMade
<1>6. QED
  BY <1>2, <1>3, <1>4, <1>5, SessionStep DEF UpdateTarget

-----------------------------------------------------------------------------
(* The steps that write a user. *)

\* The bootstrap inserts a row for an identity that has none.  It is the only
\* one in the critical section, so no other session counted the same
\* administrators, and no review has loaded the row.
LEMMA CommitUserKeeps ==
    ASSUME Inductive, NEW r \in Slots, CommitUser(r)
    PROVE  Inductive'
<1> DEFINE p == tx[r].target
           new == tx[r].new
           entry == [decision |-> "APPROVED", reviewer |-> None, created_at |-> clock]
<1>1. /\ pc[r] = "commit_user" /\ boot = r /\ p \in People /\ new \in User
      /\ users[p] = None
      /\ \/ new.status = "PENDING_APPROVAL" /\ new.role = None
         \/ /\ new.status = "APPROVED" /\ new.role = "ADMIN" /\ new.requested = "ADMIN"
            /\ SelfMade \cap ApprovedAdmins = {}
  BY DEF CommitUser, Inductive, BootstrapSession, Critical
<1>2. trail[p] = {} /\ p \notin SelfMade
  BY <1>1, EmptyTrailIsNotSelfMade DEF Inductive, UndecidedRows
<1>3. /\ users' = [users EXCEPT ![p] = new]
      /\ trail' = IF new.status = "APPROVED"
                  THEN [trail EXCEPT ![p] = @ \cup {entry}] ELSE trail
      /\ Answer(r, "ok") /\ clock' = clock /\ overtaken' = overtaken
  BY DEF CommitUser
<1>a. entry \in Decision /\ entry.decision = "APPROVED" /\ entry.reviewer = None
  BY DEF Decision, Inductive, TypeOK
<1>. HIDE DEF entry
<1>. HIDE DEF p, new
<1>4. TypeOK'
  <2>1. trail' \in [People -> SUBSET Decision]
    BY <1>1, <1>3, <1>a DEF Inductive, TypeOK
  <2>2. QED
    BY <1>1, <1>3, <2>1, BlankIsSession DEF Inductive, TypeOK, Answer, Free
<1>5. /\ users'[p] = new /\ new # None
      /\ new.status = "APPROVED" => trail'[p] = {entry}
      /\ new.status # "APPROVED" => trail'[p] = {}
  BY <1>1, <1>2, <1>3, NoneIsApart DEF Inductive, TypeOK
<1>6. \A q \in People \ {p} : users'[q] = users[q] /\ trail'[q] = trail[q]
  BY <1>3 DEF Inductive, TypeOK
<1>7. /\ \A q \in People \ {p} : (q \in SelfMade' <=> q \in SelfMade)
                              /\ (q \in ApprovedAdmins' <=> q \in ApprovedAdmins)
      /\ new.status # "APPROVED" => p \notin SelfMade'
  BY <1>5, <1>6 DEF SelfMade, ApprovedAdmins
<1>8. OneBootstrapAdmin'
  <2>1. SelfMade' \subseteq People /\ SelfMade \subseteq People
    BY DEF SelfMade
  <2>2. CASE new.status = "APPROVED"
    BY <1>1, <1>7, <2>1, <2>2 DEF OneBootstrapAdmin
  <2>3. CASE new.status # "APPROVED"
    BY <1>7, <2>1, <2>3 DEF OneBootstrapAdmin, Inductive
  <2>4. QED
    BY <2>2, <2>3
<1>9. TrailTellsDecision'
  <2>1. Newest({entry}) = {entry}
    BY <1>a DEF Newest, Decision
  <2>2. CASE new.status = "APPROVED"
    <3>1. \E e \in IF p \in overtaken' THEN trail'[p] ELSE Newest(trail'[p]) :
             e.decision = users'[p].status
      BY <1>a, <1>5, <2>1, <2>2
    <3>2. trail'[p] # {}
      BY <1>5, <2>2
    <3>3. QED
      BY <1>3, <1>6, <3>1, <3>2 DEF TrailTellsDecision, Inductive
  <2>3. CASE new.status # "APPROVED"
    BY <1>1, <1>3, <1>5, <1>6, <2>3 DEF TrailTellsDecision, Inductive
  <2>4. QED
    BY <2>2, <2>3
<1>10. RightsAreReviewed'
  BY <1>1, <1>a, <1>5, <1>6 DEF RightsAreReviewed, Inductive
<1>11. UndecidedRows'
  BY <1>1, <1>5, <1>6 DEF UndecidedRows, Inductive
<1>12. ASSUME NEW q \in Slots
       PROVE  BootstrapSession(q)' /\ ReviewSession(q)'
  <2>1. CASE q = r
    <3>1. pc'[q] = "ok"
      BY <1>3, <2>1 DEF Answer, Inductive, TypeOK
    <3>2. QED
      BY <3>1 DEF BootstrapSession, ReviewSession, Critical
  <2>2. CASE q # r
    <3>1. pc'[q] = pc[q] /\ tx'[q] = tx[q]
      BY <1>3, <2>2 DEF Answer, Inductive, TypeOK
    <3>2. BootstrapSession(q) /\ ReviewSession(q)
      BY DEF Inductive
    <3>3. pc[q] \notin Critical
      BY <1>1, <2>2, <3>2 DEF BootstrapSession
    <3>4. BootstrapSession(q)'
      BY <3>1, <3>2, <3>3 DEF BootstrapSession, Critical
    <3>5. pc[q] \in {"load", "update", "commit"} /\ tx[q].row # None => tx[q].target # p
      BY <1>1, <3>2 DEF ReviewSession
    <3>6. tx[q].target \in People \ {p} =>
              /\ users'[tx[q].target] = users[tx[q].target]
              /\ trail'[tx[q].target] = trail[tx[q].target]
              /\ tx[q].target \in SelfMade' <=> tx[q].target \in SelfMade
      BY <1>6, <1>7
    <3>7. ReviewSession(q)'
      BY <3>1, <3>2, <3>5, <3>6 DEF ReviewSession
    <3>8. QED
      BY <3>4, <3>7
  <2>3. QED
    BY <2>1, <2>2
<1>13. QED
  BY <1>4, <1>8, <1>9, <1>10, <1>11, <1>12 DEF Inductive

\* What a review leaves in the row and the trail of its target.
LEMMA CommitReviewWrites ==
    ASSUME Inductive, NEW r \in Slots, CommitReview(r), NEW p, p = tx[r].target
    PROVE  /\ p \in People /\ users[p] # None
           /\ users'[p] \in User /\ users'[p].requested = users[p].requested
           /\ \A q \in People \ {p} : users'[q] = users[q] /\ trail'[q] = trail[q]
           /\ trail' \in [People -> SUBSET Decision]
           /\ overtaken \subseteq overtaken' /\ overtaken' \subseteq overtaken \cup {p}
           /\ \/ /\ users'[p].status = "SUSPENDED"
                 /\ trail'[p] = trail[p] /\ trail[p] # {}
              \/ /\ users'[p].status \in {"APPROVED", "REJECTED"}
                 /\ p \notin SelfMade
                 /\ \E e \in Decision :
                       /\ trail'[p] = trail[p] \cup {e}
                       /\ e.decision = users'[p].status /\ e.reviewer \in People
                       /\ p \notin overtaken' =>
                             \A x \in trail[p] : ~(x.created_at > e.created_at)
                 /\ users'[p].status = "APPROVED" => users'[p].role = users[p].requested
<1> DEFINE t == tx[r]
           final == Flushed(users[p], t.row, t.new)
<1>1. /\ pc[r] = "commit" /\ p \in People /\ t.actor \in People
      /\ t.op \in {"approve_user", "reject_user", "suspend_user"}
      /\ t.row \in User /\ users[p] # None /\ t.row.requested = users[p].requested
      /\ t.row.status = From(t.op) /\ t.new = Reviewed(t.row, t.op, t.actor)
      /\ IF t.op = "suspend_user" THEN trail[p] # {}
         ELSE t.row.role = None /\ p \notin SelfMade
  BY DEF CommitReview, Inductive, ReviewSession, Operation
<1>2. users[p] \in User /\ t.new \in User /\ trail[p] \subseteq Decision /\ t.now \in Nat
  <2>1. t \in Session
    BY DEF Inductive, TypeOK
  <2>2. t.now \in Nat
    BY <2>1 DEF Session
  <2>3. users \in [People -> User \cup {None}] /\ trail \in [People -> SUBSET Decision]
    BY DEF Inductive, TypeOK
  <2>4. users[p] \in User /\ trail[p] \subseteq Decision
    BY <1>1, <2>3
  <2>5. t.new \in User
    BY <1>1, EditsKeepRows DEF Operation
  <2>6. QED
    BY <2>2, <2>4, <2>5
<1>3. final \in User
  BY <1>1, <1>2, EditsKeepRows
<1>4. /\ users' = [users EXCEPT ![p] = final]
      /\ trail' = IF t.op # "suspend_user" THEN [trail EXCEPT ![p] = @ \cup {Entry(t)}]
                                           ELSE trail
      /\ overtaken' = IF t.op # "suspend_user" /\ Later(t) # {} THEN overtaken \cup {p}
                                                                ELSE overtaken
  BY DEF CommitReview
<1>5. /\ final.requested = users[p].requested
      /\ final.status = Column(users[p].status, t.row.status, t.new.status)
      /\ final.role = Column(users[p].role, t.row.role, t.new.role)
  BY <1>2 DEF Flushed, User
<1>. HIDE DEF final
<1>6. users'[p] = final /\ \A q \in People \ {p} : users'[q] = users[q] /\ trail'[q] = trail[q]
  BY <1>1, <1>4 DEF Inductive, TypeOK
<1>7. CASE t.op = "suspend_user"
  <2>1. final.status = "SUSPENDED"
    BY <1>1, <1>5, <1>7 DEF Reviewed, From, Column, User
  <2>2. QED
    BY <1>1, <1>3, <1>4, <1>5, <1>6, <1>7, <2>1 DEF Inductive, TypeOK
<1>8. CASE t.op # "suspend_user"
  <2>1. final.status = DecisionOf(t.op)
    BY <1>1, <1>5, <1>8 DEF Reviewed, From, Column, User, DecisionOf
  <2>2. final.status = "APPROVED" => final.role = users[p].requested
    BY <1>1, <1>2, <1>5, <1>8, <2>1, NoneIsApart DEF Reviewed, Column, User, DecisionOf
  <2>3. /\ Entry(t) \in Decision /\ Entry(t).decision = DecisionOf(t.op)
        /\ Entry(t).reviewer \in People /\ Entry(t).created_at = t.now
    BY <1>1, <1>2 DEF Decision, DecisionOf, Entry
  <2>4. /\ trail'[p] = trail[p] \cup {Entry(t)}
        /\ trail' \in [People -> SUBSET Decision]
    BY <1>1, <1>4, <1>8, <2>3 DEF Inductive, TypeOK
  <2>5. DecisionOf(t.op) \in {"APPROVED", "REJECTED"}
    BY DEF DecisionOf
  <2>6. p \notin overtaken' => \A x \in trail[p] : ~(x.created_at > t.now)
    BY <1>4, <1>8 DEF Later
  <2>7. QED
    BY <1>1, <1>3, <1>4, <1>5, <1>6, <1>8, <2>1, <2>2, <2>3, <2>4, <2>5, <2>6
<1>9. QED
  BY <1>7, <1>8

\* Only a user that bootstrap did not make is decided by a review, so no review
\* adds to the approved administrators that bootstrap made.
LEMMA CommitReviewKeeps ==
    ASSUME Inductive, NEW r \in Slots, CommitReview(r)
    PROVE  Inductive'
<1> DEFINE p == tx[r].target
<1>1. /\ p \in People /\ users[p] # None
      /\ users'[p] \in User /\ users'[p] # None /\ users'[p].requested = users[p].requested
      /\ \A q \in People \ {p} : users'[q] = users[q] /\ trail'[q] = trail[q]
      /\ trail' \in [People -> SUBSET Decision]
      /\ overtaken \subseteq overtaken' /\ overtaken' \subseteq overtaken \cup {p}
  BY CommitReviewWrites, NoneIsApart
<1>2. \/ /\ users'[p].status = "SUSPENDED"
         /\ trail'[p] = trail[p] /\ trail[p] # {}
      \/ /\ users'[p].status \in {"APPROVED", "REJECTED"}
         /\ p \notin SelfMade
         /\ \E e \in Decision :
               /\ trail'[p] = trail[p] \cup {e}
               /\ e.decision = users'[p].status /\ e.reviewer \in People
               /\ p \notin overtaken' => \A x \in trail[p] : ~(x.created_at > e.created_at)
         /\ users'[p].status = "APPROVED" => users'[p].role = users[p].requested
  BY CommitReviewWrites
<1>3. users' \in [People -> User \cup {None}] /\ Answer(r, "ok") /\ pc[r] = "commit"
  <2>1. users' = [users EXCEPT ![p] = users'[p]]
    BY <1>1 DEF CommitReview, Inductive, TypeOK
  <2>2. QED
    BY <1>1, <2>1 DEF CommitReview, Inductive, TypeOK
<1>. HIDE DEF p
<1>4. trail[p] \subseteq Decision
  BY <1>1 DEF Inductive, TypeOK
<1>5. TypeOK'
  BY <1>1, <1>3, BlankIsSession DEF Inductive, TypeOK, Answer, Free, CommitReview
<1>6. /\ trail'[p] # {}
      /\ \/ users'[p].status = "SUSPENDED"
         \/ \E e \in IF p \in overtaken' THEN trail'[p] ELSE Newest(trail'[p]) :
               e.decision = users'[p].status
  <2>1. CASE users'[p].status = "SUSPENDED" /\ trail'[p] = trail[p] /\ trail[p] # {}
    BY <2>1
  <2>2. ASSUME NEW e \in Decision, trail'[p] = trail[p] \cup {e},
               p \notin overtaken' => \A x \in trail[p] : ~(x.created_at > e.created_at)
        PROVE  e \in IF p \in overtaken' THEN trail'[p] ELSE Newest(trail'[p])
    BY <1>4, <2>2 DEF Newest, Decision
  <2>3. QED
    BY <1>2, <2>1, <2>2
<1>7. SelfMade' = SelfMade
  <2>1. p \in SelfMade' => p \in SelfMade
    <3>1. CASE trail'[p] = trail[p]
      BY <3>1 DEF SelfMade
    <3>2. ASSUME NEW e \in Decision, trail'[p] = trail[p] \cup {e}, e.reviewer \in People
          PROVE  p \in SelfMade' => p \in SelfMade
      BY <3>2, NoneIsApart DEF SelfMade
    <3>3. QED
      BY <1>2, <3>1, <3>2
  <2>2. p \in SelfMade => p \in SelfMade'
    BY <1>2 DEF SelfMade
  <2>3. \A q \in People \ {p} : q \in SelfMade' <=> q \in SelfMade
    BY <1>1 DEF SelfMade
  <2>4. QED
    BY <2>1, <2>2, <2>3 DEF SelfMade
<1>8. (SelfMade \cap ApprovedAdmins)' \subseteq SelfMade \cap ApprovedAdmins
  <2>1. \A q \in People \ {p} : q \in ApprovedAdmins' => q \in ApprovedAdmins
    BY <1>1 DEF ApprovedAdmins
  <2>2. p \notin (SelfMade \cap ApprovedAdmins)'
    BY <1>2, <1>7 DEF ApprovedAdmins, IsAdmin
  <2>3. QED
    BY <1>7, <2>1, <2>2 DEF SelfMade
<1>9. OneBootstrapAdmin'
  BY <1>8 DEF OneBootstrapAdmin, Inductive
<1>10. TrailTellsDecision'
  BY <1>1, <1>6 DEF TrailTellsDecision, Inductive
<1>11. RightsAreReviewed'
  <2>1. ASSUME users'[p].status = "APPROVED"
        PROVE  /\ \E e \in trail'[p] : e.decision = "APPROVED"
               /\ users'[p].role = users'[p].requested
    BY <1>1, <1>2, <2>1
  <2>2. QED
    BY <1>1, <2>1 DEF RightsAreReviewed, Inductive
<1>12. UndecidedRows'
  <2>1. users'[p].status # "PENDING_APPROVAL"
    BY <1>2
  <2>2. QED
    BY <1>1, <2>1 DEF UndecidedRows, Inductive
<1>13. ASSUME NEW q \in Slots
       PROVE  BootstrapSession(q)' /\ ReviewSession(q)'
  <2>1. CASE q = r
    <3>1. pc'[q] = "ok"
      BY <1>3, <2>1 DEF Answer, Inductive, TypeOK
    <3>2. QED
      BY <3>1 DEF BootstrapSession, ReviewSession, Critical
  <2>2. CASE q # r
    <3>1. pc'[q] = pc[q] /\ tx'[q] = tx[q] /\ (boot = q => boot' = q)
      BY <1>3, <2>2 DEF Answer, Inductive, TypeOK
    <3>2. BootstrapSession(q) /\ ReviewSession(q)
      BY DEF Inductive
    <3>3. tx[q].target \in People /\ users[tx[q].target] = None
              => users'[tx[q].target] = None
      BY <1>1
    <3>4. BootstrapSession(q)'
      BY <1>8, <3>1, <3>2, <3>3 DEF BootstrapSession, Critical
    <3>5. /\ tx[q].target \in People /\ users[tx[q].target] # None =>
                /\ users'[tx[q].target] # None
                /\ users'[tx[q].target].requested = users[tx[q].target].requested
          /\ tx[q].target \in People /\ trail[tx[q].target] # {}
                => trail'[tx[q].target] # {}
      BY <1>1, <1>6
    <3>6. ReviewSession(q)'
      BY <1>7, <3>1, <3>2, <3>5 DEF ReviewSession
    <3>7. QED
      BY <3>4, <3>6
  <2>3. QED
    BY <2>1, <2>2
<1>14. QED
  BY <1>5, <1>9, <1>10, <1>11, <1>12, <1>13 DEF Inductive

-----------------------------------------------------------------------------
(* The theorems. *)

\* Nothing has happened yet: no user, no trail, no request.
LEMMA InitInductive == Init => Inductive
<1> SUFFICES ASSUME Init PROVE Inductive
  OBVIOUS
<1>1. TypeOK
  BY BlankIsSession DEF Init, TypeOK, Free
<1>2. OneBootstrapAdmin /\ TrailTellsDecision /\ RightsAreReviewed /\ UndecidedRows
  BY DEF Init, OneBootstrapAdmin, TrailTellsDecision, RightsAreReviewed, UndecidedRows,
         SelfMade, ApprovedAdmins
<1>3. \A r \in Slots : BootstrapSession(r) /\ ReviewSession(r)
  BY DEF Init, BootstrapSession, ReviewSession, Critical
<1>4. QED
  BY <1>1, <1>2, <1>3 DEF Inductive

\* Each step keeps the invariant, whatever the other requests have in flight.
LEMMA NextKeeps == Inductive /\ [Next]_vars => Inductive'
<1> SUFFICES ASSUME Inductive, [Next]_vars PROVE Inductive'
  OBVIOUS
<1>1. CASE UNCHANGED vars
  BY <1>1 DEF vars, Inductive, TypeOK, OneBootstrapAdmin, TrailTellsDecision,
              RightsAreReviewed, UndecidedRows, BootstrapSession, ReviewSession,
              SelfMade, ApprovedAdmins, IsAdmin, Newest
<1>2. ASSUME NEW r \in Slots, Arrive(r)
      PROVE  Inductive'
  <2>1. ASSUME NEW p \in People, NEW role \in Role, Bootstrap(r, p, role)
        PROVE  Inductive'
    BY <2>1, BootstrapKeeps
  <2>2. ASSUME NEW operation \in Operation, NEW actor \in People, NEW target \in People,
               Review(r, operation, actor, target)
        PROVE  Inductive'
    BY <2>2, ReviewKeeps
  <2>3. QED
    BY <1>2, <2>1, <2>2 DEF Arrive
<1>3. ASSUME NEW r \in Slots, BootstrapStep(r)
      PROVE  Inductive'
  BY <1>3, AcquireBootstrapLockKeeps, LookUpKeeps, CountApprovedAdminsKeeps,
     CreateUserKeeps, CommitUserKeeps DEF BootstrapStep
<1>4. ASSUME NEW r \in Slots, ReviewStep(r)
      PROVE  Inductive'
  BY <1>4, LoadTargetKeeps, UpdateTargetKeeps, CommitReviewKeeps DEF ReviewStep
<1>5. ASSUME NEW r \in Slots, Crash(r)
      PROVE  Inductive'
  BY <1>5, CrashKeeps
<1>6. QED
  BY <1>1, <1>2, <1>3, <1>4, <1>5 DEF Next

\* Inductive holds in every state the requests can reach.
THEOREM InductiveHolds == Spec => []Inductive
BY InitInductive, NextKeeps, PTL DEF Spec

\* Every row, session and audit entry stays of its type.
THEOREM TypeOKHolds == Spec => []TypeOK
<1>1. Inductive => TypeOK
  BY DEF Inductive
<1>2. QED
  BY <1>1, InductiveHolds, PTL

\* MeService.bootstrap under its advisory lock: at most one approved
\* administrator was ever approved by bootstrap, for any number of requests,
\* identities and allowed emails, and whatever reviews race with it.
THEOREM OneBootstrapAdminHolds == Spec => []OneBootstrapAdmin
<1>1. Inductive => OneBootstrapAdmin
  BY DEF Inductive
<1>2. QED
  BY <1>1, InductiveHolds, PTL

\* AdminUsersService writes the status and its audit row in one transaction:
\* the account shows a decision of its trail, and the one with the greatest
\* created_at where no review was committed after one that was stamped later.
THEOREM TrailTellsDecisionHolds == Spec => []TrailTellsDecision
<1>1. Inductive => TrailTellsDecision
  BY DEF Inductive
<1>2. QED
  BY <1>1, InductiveHolds, PTL

\* No interleaving of bootstraps and reviews makes an approved account without
\* an approval in its trail, or with a role it did not request.
THEOREM RightsAreReviewedHolds == Spec => []RightsAreReviewed
<1>1. Inductive => RightsAreReviewed
  BY DEF Inductive
<1>2. QED
  BY <1>1, InductiveHolds, PTL
=============================================================================

-------------------------- MODULE MobileSessionProofs --------------------------
(***************************************************************************)
(* MobileSession for any identities, slots and bounds: Inductive holds     *)
(* initially and is kept by every step.  It tells what an answer that is   *)
(* still awaited may say when it arrives, and, while no session has begun  *)
(* or ended over another, whose session each token and answer belongs to.  *)
(***************************************************************************)
EXTENDS MobileSession, TLAPS

-----------------------------------------------------------------------------
(* The inductive invariant. *)

\* u is what the API has said of an account, perhaps some reviews ago; trails are
\* the identities that have been approved.
Reported(u, trails) == u.status \in {"APPROVED", "SUSPENDED"} => u.id \in trails

Approvals == \A p \in People : account[p] \in {"APPROVED", "SUSPENDED"} => p \in approved

\* RootNavigator has nothing left to do.
Settled == ~hydrating => screen = Redirected(screen, user, FALSE)

\* The snapshot holds a user only with a token.
Tokened == snapshot.token = None => snapshot.user = None

\* A request for an account is made for a session, and is answered with the
\* account whose token it carries.
FlowFits(g, trails) ==
    /\ g.at \in {"auth", "me", "bootstrap"} => g.acc \in People
    /\ g.found # None => /\ g.at \in {"me", "bootstrap"}
                         /\ Reported(g.found, trails) /\ g.found.id = g.bearer

FlowsFit == \A f \in Slots : flows[f] # None => FlowFits(flows[f], approved)

\* What is awaited is for the stored session; requests carry its token or none.
OfSession(g, session, token) ==
    /\ g.at # "auth" => g.acc \in {None, session}
    /\ g.at \in {"me", "bootstrap"} => g.bearer \in {None, token}

\* What is on screen, what is sent and what is awaited belong to the stored session.
OneSession ==
    /\ snapshot.token \in {None, stored}
    /\ user # None => user.id = snapshot.token
    /\ \A f \in Slots : flows[f] # None => OfSession(flows[f], stored, snapshot.token)

Inductive ==
    /\ TypeOK /\ Settled /\ Tokened /\ FlowsFit /\ Approvals
    /\ Slots # {}
    /\ user # None => Reported(user, approved)
    /\ ~overlap => OneSession

-----------------------------------------------------------------------------
(* Lemmas about reports, routes and flows. *)

\* None is no identity, account or flow.
LEMMA Apart == None \notin People /\ None \notin Status /\ None \notin AppUser /\ None \notin Flow
BY SessionAssumption

\* Where RootNavigator has sent the app it leaves it.
LEMMA RedirectedStays ==
    ASSUME NEW at \in Screen, NEW u \in AppUser \cup {None}, NEW h \in BOOLEAN
    PROVE  /\ Redirected(at, u, h) \in Screen
           /\ ~h => Redirected(Redirected(at, u, h), u, FALSE) = Redirected(at, u, h)
BY Apart DEF Redirected, getStatusFromUser, Screen, AppUser, Status

\* An approval stays in the trail, and only who has one becomes APPROVED or SUSPENDED.
Reviews ==
    /\ approved \subseteq approved'
    /\ \A p \in People :
           account'[p] # account[p] /\ account'[p] \in {"APPROVED", "SUSPENDED"}
               => p \in approved'

\* What has been reported of an account stays reported of it.
LEMMA ReportedLater ==
    ASSUME TypeOK, Reviews, NEW u \in AppUser, Reported(u, approved)
    PROVE  Reported(u, approved')
BY Apart DEF Reviews, Reported, AppUser, Status

\* A flow goes on fitting while accounts are reviewed.
LEMMA FlowFitsLater ==
    ASSUME TypeOK, Reviews, NEW g \in Flow, FlowFits(g, approved)
    PROVE  FlowFits(g, approved')
BY ReportedLater DEF FlowFits, Flow

\* A step keeps the invariant if what it changes fits.
LEMMA Keeps ==
    ASSUME Inductive, Reviews, TypeOK', Settled', Tokened',
           user' # None => user' = user \/ Reported(user', approved'),
           \A h \in Slots : flows'[h] # None =>
               flows'[h] = flows[h] \/ FlowFits(flows'[h], approved'),
           ~overlap' => OneSession'
    PROVE  Inductive'
<1>1. ASSUME NEW h \in Slots, flows'[h] # None
      PROVE  FlowFits(flows'[h], approved')
  BY <1>1, FlowFitsLater DEF Inductive, TypeOK, FlowsFit
<1>2. user' # None => Reported(user', approved')
  BY ReportedLater DEF Inductive, TypeOK
<1>3. Approvals'
  BY DEF Inductive, Approvals, Reviews
<1>4. QED
  BY <1>1, <1>2, <1>3 DEF Inductive, FlowsFit

\* A step that changes one flow, and an account, keeps the invariant if the flow
\* is over or fits.
LEMMA FlowKeeps ==
    ASSUME Inductive, Reviews, account' \in [People -> Status \cup {None}],
           approved' \subseteq People, registered' \subseteq People, initial' \in BOOLEAN,
           UNCHANGED <<stored, snapshot, user, hydrating, screen, overlap>>,
           presses' \in 0..MaxPresses, failures' \in 0..MaxFailures, restarts' \in 0..MaxRestarts,
           reviews' \in 0..MaxReviews,
           \/ UNCHANGED flows
           \/ \E f \in Slots : \E g :
                 /\ flows' = [flows EXCEPT ![f] = g]
                 /\ g # None => /\ g \in Flow /\ FlowFits(g, approved')
                                /\ ~overlap => OfSession(g, stored, snapshot.token)
    PROVE  Inductive'
<1>1. /\ flows' \in [Slots -> Flow \cup {None}]
      /\ \A h \in Slots : flows'[h] # None /\ flows'[h] # flows[h] =>
             /\ FlowFits(flows'[h], approved')
             /\ ~overlap => OfSession(flows'[h], stored, snapshot.token)
  BY DEF Inductive, TypeOK
<1>2. TypeOK'
  BY <1>1 DEF Inductive, TypeOK
<1>3. Settled' /\ Tokened'
  BY DEF Inductive, Settled, Tokened
<1>4. ~overlap' => OneSession'
  BY <1>1 DEF Inductive, OneSession
<1>5. QED
  BY <1>1, <1>2, <1>3, <1>4, Keeps

\* Accounts that do not change are reviewed by nobody.
LEMMA UnchangedReviews ==
    ASSUME UNCHANGED <<account, approved>>
    PROVE  Reviews
BY DEF Reviews

\* A flow that begins has nothing found.
LEMMA BeginFits ==
    ASSUME NEW kind, NEW acc \in People \cup {None}, NEW at, NEW bearer \in People \cup {None},
           kind \in {"hydrate", "event", "signin", "signup", "signout", "leave", "refresh"},
           at \in {"url", "auth", "me", "bootstrap", "signout"},
           at \in {"auth", "me", "bootstrap"} => acc \in People,
           NEW accounts,
           NEW g, g = [kind |-> kind, acc |-> acc, at |-> at, bearer |-> bearer,
                       answer |-> "none", found |-> None]
    PROVE  g \in Flow /\ FlowFits(g, accounts)
BY DEF Flow, Answer, FlowFits

\* The types of the snapshot and of what is stored.
LEMMA SessionTypes ==
    ASSUME Inductive
    PROVE  /\ stored \in People \cup {None} /\ snapshot.token \in People \cup {None}
           /\ snapshot \in Snapshot /\ user \in AppUser \cup {None}
           /\ user # None => user.id \in People
           /\ screen \in Screen /\ hydrating \in BOOLEAN /\ initial \in BOOLEAN
           /\ overlap \in BOOLEAN /\ registered \subseteq People /\ approved \subseteq People
           /\ account \in [People -> Status \cup {None}]
           /\ presses \in 0..MaxPresses /\ failures \in 0..MaxFailures
           /\ restarts \in 0..MaxRestarts /\ reviews \in 0..MaxReviews
BY DEF Inductive, TypeOK, Snapshot, AppUser

-----------------------------------------------------------------------------
(* The API and the network. *)

\* A flow that is answered.
LEMMA ReplyKeeps ==
    ASSUME Inductive, Reviews, NEW f \in Slots, flows[f] # None,
           NEW answer \in Answer, NEW found \in AppUser \cup {None},
           flows[f].at \in {"me", "bootstrap"},
           found # None => Reported(found, approved') /\ found.id = flows[f].bearer,
           flows' = Reply(f, answer, found),
           account' \in [People -> Status \cup {None}],
           UNCHANGED <<approved, registered, reviews, stored, snapshot, user, hydrating, initial, screen, overlap>>,
           presses' \in 0..MaxPresses, failures' \in 0..MaxFailures, restarts' \in 0..MaxRestarts,
           reviews' \in 0..MaxReviews
    PROVE  Inductive'
<1> DEFINE g == [flows[f] EXCEPT !.answer = answer, !.found = found]
<1>1. flows[f] \in Flow /\ FlowFits(flows[f], approved)
      /\ (~overlap => OfSession(flows[f], stored, snapshot.token))
  BY DEF Inductive, TypeOK, FlowsFit, OneSession
<1>2. flows' = [flows EXCEPT ![f] = g]
  BY DEF Reply, Inductive, TypeOK
<1>3. /\ g \in Flow /\ g.acc = flows[f].acc /\ g.at = flows[f].at
      /\ g.bearer = flows[f].bearer /\ g.found = found
  BY <1>1 DEF Flow
<1> HIDE DEF g
<1>4. FlowFits(g, approved')
  BY <1>1, <1>3 DEF FlowFits
<1>5. ~overlap => OfSession(g, stored, snapshot.token)
  BY <1>1, <1>3 DEF OfSession
<1>6. approved' \subseteq People /\ registered' \subseteq People /\ initial' \in BOOLEAN
  BY DEF Inductive, TypeOK
<1>7. QED
  BY <1>2, <1>3, <1>4, <1>5, <1>6, FlowKeeps

\* GET /me is served.
LEMMA ServeMeKeeps ==
    ASSUME Inductive, NEW f \in Slots, ServeMe(f)
    PROVE  Inductive'
<1> DEFINE p == flows[f].bearer
<1>1. /\ flows[f] # None /\ flows[f].at = "me" /\ p \in People \cup {None}
      /\ UNCHANGED <<server, stored, snapshot, user, hydrating, initial, screen,
                     overlap, bounds>>
  BY DEF ServeMe, Inductive, TypeOK, Flow
<1>2. PICK answer \in Answer, found \in AppUser \cup {None} :
         /\ flows' = Reply(f, answer, found)
         /\ found # None => Reported(found, approved) /\ found.id = p
  <2>1. CASE p = None \/ account[p] = None
    BY <1>1, <2>1 DEF ServeMe, Answer
  <2>2. CASE p # None /\ account[p] # None
    <3> DEFINE u == [id |-> p, status |-> account[p]]
    <3>1. u \in AppUser /\ u.id = p /\ Reported(u, approved)
      BY <1>1, <2>2 DEF Inductive, Approvals, TypeOK, AppUser, Reported
    <3>2. flows' = Reply(f, "user", u) /\ "user" \in Answer
      BY <1>1, <2>2 DEF ServeMe, Answer
    <3>3. QED
      BY <3>1, <3>2
  <2>3. QED
    BY <2>1, <2>2
<1>3. Reviews /\ account' = account /\ approved' = approved
  BY <1>1, UnchangedReviews DEF server
<1>4. QED
  BY <1>1, <1>2, <1>3, SessionTypes, ReplyKeeps DEF server, bounds

\* POST /me/bootstrap is served.
LEMMA ServeBootstrapKeeps ==
    ASSUME Inductive, NEW f \in Slots, ServeBootstrap(f)
    PROVE  Inductive'
<1> DEFINE p == flows[f].bearer
           status == IF account[p] = None THEN "PENDING" ELSE account[p]
           u == [id |-> p, status |-> status]
<1>1. /\ flows[f] # None /\ flows[f].at = "bootstrap" /\ p \in People \cup {None}
      /\ UNCHANGED <<approved, registered, reviews, stored, snapshot, user, hydrating, initial,
                     screen, overlap, bounds>>
  BY DEF ServeBootstrap, Inductive, TypeOK, Flow
<1>2. CASE p = None
  <2>1. flows' = Reply(f, "missing", None) /\ UNCHANGED account /\ "missing" \in Answer
    BY <1>2 DEF ServeBootstrap, Answer
  <2>2. QED
    BY <1>1, <2>1, UnchangedReviews, ReplyKeeps DEF bounds, Inductive, TypeOK
<1>3. CASE p # None
  <2>1. /\ account' = [account EXCEPT ![p] = status] /\ flows' = Reply(f, "user", u)
        /\ "user" \in Answer
    BY <1>3 DEF ServeBootstrap, Answer
  <2>2. p \in People /\ status \in Status /\ account \in [People -> Status \cup {None}]
    BY <1>1, <1>3 DEF Inductive, TypeOK, Status
  <2>3. /\ account' \in [People -> Status \cup {None}] /\ account'[p] = status
        /\ approved' = approved
        /\ \A q \in People : account'[q] # account[q] => account'[q] = "PENDING"
    BY <1>1, <2>1, <2>2
  <2>4. Reviews
    BY <2>3 DEF Reviews
  <2>5. u \in AppUser /\ u.id = p /\ Reported(u, approved')
    BY <2>2, <2>3, Apart DEF Inductive, Approvals, AppUser, Reported
  <2> HIDE DEF u, status
  <2>6. QED
    BY <1>1, <2>1, <2>3, <2>4, <2>5, SessionTypes, ReplyKeeps DEF bounds
<1>4. QED
  BY <1>2, <1>3

\* A request fails.
LEMMA FailKeeps ==
    ASSUME Inductive, NEW f \in Slots, Fail(f)
    PROVE  Inductive'
<1>1. failures' \in 0..MaxFailures /\ "failed" \in Answer
  BY SessionAssumption DEF Fail, Inductive, TypeOK, Answer
<1>2. QED
  BY <1>1, UnchangedReviews, ReplyKeeps DEF Fail, server, Inductive, TypeOK

-----------------------------------------------------------------------------
(* The buttons and the other steps that only begin or end a request. *)

\* A flow begins, on a button or after an answer, or ends.
LEMMA BeginKeeps ==
    ASSUME Inductive, NEW f \in Slots, NEW kind, NEW acc \in People \cup {None}, NEW at,
           NEW bearer \in People \cup {None},
           kind \in {"hydrate", "event", "signin", "signup", "signout", "leave", "refresh"},
           at \in {"url", "auth", "me", "bootstrap", "signout"},
           at \in {"auth", "me", "bootstrap"} => acc \in People,
           ~overlap /\ at # "auth" => acc \in {None, stored},
           at \in {"me", "bootstrap"} => bearer = snapshot.token,
           flows' = Begin(f, kind, acc, at, bearer),
           UNCHANGED <<account, approved, reviews, stored, snapshot, user, hydrating, screen,
                       overlap>>,
           registered' \subseteq People, initial' \in BOOLEAN,
           presses' \in 0..MaxPresses, failures' \in 0..MaxFailures, restarts' \in 0..MaxRestarts,
           reviews' \in 0..MaxReviews
    PROVE  Inductive'
<1> DEFINE g == [kind |-> kind, acc |-> acc, at |-> at, bearer |-> bearer,
                 answer |-> "none", found |-> None]
<1>1. flows' = [flows EXCEPT ![f] = g]
  BY DEF Begin
<1>2. g \in Flow /\ FlowFits(g, approved')
  BY BeginFits
<1>3. ~overlap => OfSession(g, stored, snapshot.token)
  BY DEF OfSession
<1>4. Reviews /\ account' \in [People -> Status \cup {None}] /\ approved' \subseteq People
  BY UnchangedReviews DEF Inductive, TypeOK
<1> HIDE DEF g
<1>5. QED
  BY <1>1, <1>2, <1>3, <1>4, FlowKeeps

\* A button that starts a request.
LEMMA PressKeeps ==
    ASSUME Inductive, NEW f \in Slots,
           \/ \E p \in People : SignInPressed(f, p) \/ SignUpPressed(f, p)
           \/ SignOutPressed(f) \/ RefreshPressed(f)
    PROVE  Inductive'
<1>1. presses' \in 0..MaxPresses
  BY SessionAssumption
  DEF SignInPressed, SignUpPressed, SignOutPressed, RefreshPressed, Press, Inductive, TypeOK
<1>2. ASSUME NEW p \in People, SignInPressed(f, p) \/ SignUpPressed(f, p)
      PROVE  Inductive'
  <2>1. PICK kind \in {"signin", "signup"} : flows' = Begin(f, kind, p, "auth", None)
    BY <1>2 DEF SignInPressed, SignUpPressed
  <2>2. UNCHANGED <<account, approved, registered, reviews, stored, snapshot, user, hydrating, initial, screen,
                    overlap, failures, restarts>>
    BY <1>2 DEF SignInPressed, SignUpPressed, server
  <2>3. QED
    BY <1>1, <2>1, <2>2, SessionTypes, BeginKeeps
<1>3. CASE SignOutPressed(f)
  <2>1. PICK kind \in {"leave", "signout"} : flows' = Begin(f, kind, stored, "signout", None)
    BY <1>3 DEF SignOutPressed
  <2>2. UNCHANGED <<account, approved, registered, reviews, stored, snapshot, user, hydrating, initial, screen,
                    overlap, failures, restarts>>
    BY <1>3 DEF SignOutPressed, server
  <2>3. QED
    BY <1>1, <2>1, <2>2, SessionTypes, BeginKeeps
<1>4. CASE RefreshPressed(f)
  <2>1. UNCHANGED <<account, approved, registered, reviews, stored, snapshot, user, hydrating, initial, screen,
                    overlap, failures, restarts>>
    BY <1>4 DEF RefreshPressed, server
  <2>2. CASE stored = None
    <3>1. flows' = Begin(f, "refresh", None, "signout", None)
      BY <1>4, <2>2 DEF RefreshPressed
    <3>2. QED
      BY <1>1, <2>1, <3>1, SessionTypes, BeginKeeps
  <2>3. CASE stored # None
    <3>1. flows' = Begin(f, "refresh", stored, "me", snapshot.token)
      BY <1>4, <2>3 DEF RefreshPressed
    <3>2. QED
      BY <1>1, <2>1, <2>3, <3>1, SessionTypes, BeginKeeps
  <2>4. QED
    BY <2>2, <2>3
<1>5. QED
  BY <1>2, <1>3, <1>4

\* A request that is given up, or a sign-up that leaves no session.
LEMMA EndKeeps ==
    ASSUME Inductive, NEW f \in Slots, SignInRefused(f) \/ SignUpWithoutSession(f)
    PROVE  Inductive'
<1>1. /\ flows' = [flows EXCEPT ![f] = None]
      /\ UNCHANGED <<account, approved, reviews, stored, snapshot, user, hydrating, initial, screen,
                     overlap, bounds>>
  BY DEF SignInRefused, SignUpWithoutSession, Ended, server
<1>2. registered' \subseteq People
  BY Apart DEF SignInRefused, SignUpWithoutSession, server, Awaits, Inductive, TypeOK,
     FlowsFit, FlowFits
<1>3. QED
  BY <1>1, <1>2, UnchangedReviews, SessionTypes, FlowKeeps DEF bounds

\* A sign-in without a profile makes one.
LEMMA SignInBootstrapsKeeps ==
    ASSUME Inductive, NEW f \in Slots, SignInBootstraps(f)
    PROVE  Inductive'
<1>1. flows[f] # None /\ flows[f].at = "me"
      /\ flows' = Begin(f, "signin", flows[f].acc, "bootstrap", snapshot.token)
      /\ UNCHANGED <<server, stored, snapshot, user, hydrating, initial, screen,
                     overlap, bounds>>
  BY DEF SignInBootstraps, Answered, Awaits
<1>2. /\ flows[f].acc \in People
      /\ ~overlap => flows[f].acc \in {None, stored}
  BY <1>1 DEF Inductive, FlowsFit, FlowFits, OneSession, OfSession
<1>3. QED
  BY <1>1, <1>2, SessionTypes, BeginKeeps DEF server, bounds

\* The handler's request for the stored session.
LEMMA EventKeeps ==
    ASSUME Inductive, NEW f \in Slots, stored # None,
           flows' = [flows EXCEPT ![f] = SessionEvent(f, stored)],
           UNCHANGED <<server, stored, snapshot, user, hydrating, screen, overlap, bounds>>,
           initial' \in BOOLEAN
    PROVE  Inductive'
<1>1. flows' = Begin(f, "event", stored, "me", snapshot.token)
  BY DEF SessionEvent, Begin
<1>2. QED
  BY <1>1, SessionTypes, BeginKeeps DEF server, bounds

\* A stored session's token is renewed.
LEMMA TokenRefreshedKeeps ==
    ASSUME Inductive, NEW f \in Slots, TokenRefreshed(f)
    PROVE  Inductive'
BY EventKeeps, SessionTypes DEF TokenRefreshed

\* An administrator reviews an account.
LEMMA ReviewedKeeps ==
    ASSUME Inductive, NEW p \in People, Reviewed(p)
    PROVE  Inductive'
<1>1. PICK s \in Status : account' = [account EXCEPT ![p] = s]
  BY DEF Reviewed, Status
<1>2. /\ account' \in [People -> Status \cup {None}] /\ approved' \subseteq People
      /\ Reviews
  BY <1>1, SessionTypes, Apart DEF Reviewed, Reviews
<1>3. UNCHANGED <<registered, stored, snapshot, user, hydrating, initial,
                  screen, flows, overlap, bounds>>
  BY DEF Reviewed
<1>4. reviews' \in 0..MaxReviews
  BY SessionTypes, SessionAssumption DEF Reviewed
<1>5. QED
  BY <1>2, <1>3, <1>4, SessionTypes, FlowKeeps DEF bounds

-----------------------------------------------------------------------------
(* The steps that write the user, the snapshot or the route. *)

\* The step shows u, coming from asked, sets the snapshot and turns flow f into g.
Writes(f, g, u, asked, token, shown) ==
    /\ user' = u /\ screen' = Redirected(asked, u, hydrating')
    /\ snapshot' = [token |-> token, user |-> shown]
    /\ flows' = [flows EXCEPT ![f] = g]

\* What the step writes belongs to one session.
Belongs(f, g, u, session, token) ==
    /\ token \in {None, session}
    /\ u # None => u.id = token
    /\ \A h \in Slots : h # f /\ flows[h] # None => OfSession(flows[h], session, token)
    /\ g # None => OfSession(g, session, token)

\* A step that writes keeps the invariant if the user it shows is none or reported,
\* its snapshot is tokened, its flow fits, and it all belongs to one session still.
LEMMA ShowKeeps ==
    ASSUME Inductive, NEW f \in Slots, NEW g, NEW u \in AppUser \cup {None}, NEW asked \in Screen,
           NEW token \in People \cup {None}, NEW shown \in AppUser \cup {None},
           Writes(f, g, u, asked, token, shown),
           u # None => Reported(u, approved), token = None => shown = None,
           g # None => g \in Flow /\ FlowFits(g, approved),
           ~overlap' => Belongs(f, g, u, stored', token),
           hydrating' \in BOOLEAN, initial' \in BOOLEAN, stored' \in People \cup {None},
           overlap' \in BOOLEAN, UNCHANGED <<server, presses, restarts>>,
           failures' \in 0..MaxFailures
    PROVE  Inductive'
<1>1. /\ flows' \in [Slots -> Flow \cup {None}]
      /\ \A h \in Slots : h # f => flows'[h] = flows[h]
      /\ flows'[f] = g
  BY DEF Inductive, TypeOK, Writes
<1>2. /\ snapshot' \in Snapshot /\ snapshot'.token = token /\ snapshot'.user = shown
      /\ user' = u
  BY DEF Snapshot, Writes
<1>3. screen' \in Screen /\ Settled'
  BY RedirectedStays DEF Settled, Writes
<1>4. TypeOK'
  BY <1>1, <1>2, <1>3, SessionTypes DEF server, TypeOK
<1>5. Tokened'
  BY <1>2 DEF Tokened
<1>6. ~overlap' => OneSession'
  BY <1>1, <1>2 DEF OneSession, Belongs
<1>7. Reviews /\ account' = account /\ approved' = approved
  BY UnchangedReviews DEF server
<1>8. \A h \in Slots : flows'[h] # None =>
         flows'[h] = flows[h] \/ FlowFits(flows'[h], approved')
  BY <1>1, <1>7
<1>9. QED
  BY <1>2, <1>3, <1>4, <1>5, <1>6, <1>7, <1>8, Keeps

\* The flow whose answer is applied: the account found is reported, and while
\* there is one session it is that session's, whose token is in place.
LEMMA AnsweredFlow ==
    ASSUME Inductive, NEW f \in Slots, flows[f] # None, flows[f].at \in {"me", "bootstrap"}
    PROVE  /\ flows[f] \in Flow /\ flows[f].acc \in People
           /\ flows[f].found \in AppUser \cup {None}
           /\ flows[f].found # None => Reported(flows[f].found, approved)
           /\ ~overlap => /\ flows[f].acc = stored
                          /\ flows[f].found # None =>
                                 flows[f].found.id = stored /\ snapshot.token = stored
<1>1. flows[f] \in Flow /\ FlowFits(flows[f], approved)
  BY DEF Inductive, TypeOK, FlowsFit
<1>2. flows[f].acc \in People /\ flows[f].found \in AppUser \cup {None}
  BY <1>1 DEF FlowFits, Flow
<1>3. flows[f].found # None => flows[f].found.id \in People
  BY <1>2 DEF AppUser
<1>4. ASSUME ~overlap
      PROVE  /\ flows[f].acc = stored
             /\ flows[f].found # None =>
                    flows[f].found.id = stored /\ snapshot.token = stored
  <2>1. OneSession /\ OfSession(flows[f], stored, snapshot.token)
    BY <1>4 DEF Inductive, OneSession
  <2>2. QED
    BY <1>1, <1>2, <1>3, <2>1, Apart DEF OneSession, OfSession, FlowFits
<1>5. QED
  BY <1>1, <1>2, <1>4 DEF FlowFits

\* The token of the one session may be set, or taken while nothing is awaited for it.
LEMMA TokensStay ==
    ASSUME Inductive, ~overlap, NEW h \in Slots, flows[h] # None
    PROVE  /\ OfSession(flows[h], stored, snapshot.token)
           /\ OfSession(flows[h], stored, stored)
<1>1. OneSession /\ OfSession(flows[h], stored, snapshot.token)
  BY DEF Inductive, OneSession
<1>2. QED
  BY <1>1 DEF OneSession, OfSession

\* While there is one session and none is stored, nothing is awaited for any.
LEMMA NothingWithoutSession ==
    ASSUME Inductive, ~overlap, stored = None, NEW h \in Slots, flows[h] # None
    PROVE  OfSession(flows[h], None, None)
BY TokensStay

\* The start reads the stored session: a request goes out, or the app shows that
\* nobody is signed in.
LEMMA HydrateReadsKeeps ==
    ASSUME Inductive, NEW f \in Slots, HydrateReads(f)
    PROVE  Inductive'
<1>1. UNCHANGED <<server, stored, initial, overlap, bounds>>
  BY DEF HydrateReads
<1>2. CASE stored # None
  <2>1. /\ flows' = Begin(f, "hydrate", stored, "me", snapshot.token)
        /\ UNCHANGED <<snapshot, user, screen, hydrating>>
    BY <1>2 DEF HydrateReads
  <2>2. QED
    BY <1>1, <1>2, <2>1, SessionTypes, BeginKeeps DEF server, bounds
<1>3. CASE stored = None
  <2>1. /\ flows' = [flows EXCEPT ![f] = None]
        /\ snapshot' = [token |-> None, user |-> None]
        /\ hydrating' = FALSE /\ user' = user
        /\ screen' = Redirected(screen, user, hydrating')
    BY <1>3 DEF HydrateReads, Ended, applySession
  <2>2. ~overlap => user = None
    BY <1>3, SessionTypes, Apart DEF Inductive, OneSession
  <2>3. \A h \in Slots : ~overlap /\ flows[h] # None => OfSession(flows[h], stored, None)
    BY <1>3, NothingWithoutSession
  <2>4. user # None => Reported(user, approved)
    BY DEF Inductive
  <2>5. Writes(f, None, user, screen, None, None)
    BY <2>1 DEF Writes
  <2>6. ~overlap' => Belongs(f, None, user, stored', None)
    BY <1>1, <2>2, <2>3 DEF Belongs
  <2>7. QED
    BY <1>1, <2>1, <2>4, <2>5, <2>6, SessionTypes, ShowKeeps DEF server, bounds
<1>4. QED
  BY <1>2, <1>3

\* The start has its answer.
LEMMA HydrateAnsweredKeeps ==
    ASSUME Inductive, NEW f \in Slots, HydrateAnswered(f)
    PROVE  Inductive'
<1> DEFINE u == flows[f].found
           p == flows[f].acc
<1>1. /\ flows[f] # None /\ flows[f].at = "me"
      /\ user' = u /\ snapshot' = [token |-> p, user |-> u] /\ hydrating' = FALSE
      /\ screen' = Redirected(screen, u, hydrating') /\ flows' = [flows EXCEPT ![f] = None]
      /\ UNCHANGED <<server, stored, initial, overlap, bounds>>
  BY DEF HydrateAnswered, Answered, Awaits, applySession, Ended
<1>2. /\ p \in People /\ u \in AppUser \cup {None}
      /\ u # None => Reported(u, approved)
      /\ ~overlap => p = stored /\ (u # None => u.id = stored)
  BY <1>1, AnsweredFlow
<1>3. \A h \in Slots : ~overlap /\ flows[h] # None => OfSession(flows[h], stored, stored)
  BY TokensStay
<1>4. Writes(f, None, u, screen, p, u)
  BY <1>1 DEF Writes
<1> HIDE DEF u, p
<1>5. ~overlap' => Belongs(f, None, u, stored', p)
  BY <1>1, <1>2, <1>3 DEF Belongs
<1>6. p # None
  BY <1>2, Apart
<1>7. QED
  BY <1>1, <1>2, <1>4, <1>5, <1>6, SessionTypes, ShowKeeps DEF server, bounds

\* INITIAL_SESSION is delivered.
LEMMA InitialSessionKeeps ==
    ASSUME Inductive, NEW s \in Slots, InitialSession
    PROVE  Inductive'
<1>1. initial' = FALSE /\ UNCHANGED <<server, stored, hydrating, overlap, bounds>>
  BY DEF InitialSession
<1>2. CASE stored = None
  <2>1. /\ user' = None /\ screen' = Redirected(screen, None, hydrating')
        /\ snapshot' = [token |-> None, user |-> None]
        /\ UNCHANGED flows
    BY <1>1, <1>2 DEF InitialSession, Show, applySession
  <2>2. flows' = [flows EXCEPT ![s] = flows[s]]
    BY <2>1 DEF Inductive, TypeOK
  <2>3. \A h \in Slots : ~overlap /\ flows[h] # None => OfSession(flows[h], stored, None)
    BY <1>2, NothingWithoutSession
  <2>4. flows[s] # None => flows[s] \in Flow /\ FlowFits(flows[s], approved)
    BY DEF Inductive, TypeOK, FlowsFit
  <2>5. Writes(s, flows[s], None, screen, None, None)
    BY <2>1, <2>2 DEF Writes
  <2>6. ~overlap' => Belongs(s, flows[s], None, stored', None)
    BY <1>1, <2>3 DEF Belongs
  <2>7. QED
    BY <1>1, <2>4, <2>5, <2>6, SessionTypes, ShowKeeps DEF server, bounds
<1>3. CASE stored # None
  <2>1. PICK f \in Slots : flows' = [flows EXCEPT ![f] = SessionEvent(f, stored)]
    BY <1>3 DEF InitialSession
  <2>2. UNCHANGED <<user, screen, snapshot>>
    BY <1>3 DEF InitialSession
  <2>3. QED
    BY <1>1, <1>3, <2>1, <2>2, EventKeeps
<1>4. QED
  BY <1>2, <1>3

\* The screen the app shows is where RootNavigator has sent it, once it has hydrated.
LEMMA ShownIsRedirected ==
    ASSUME Inductive
    PROVE  \E asked \in Screen : screen = Redirected(asked, user, hydrating)
<1>1. Redirected(screen, user, hydrating) = screen
  BY SessionTypes DEF Inductive, Settled, Redirected
<1>2. QED
  BY <1>1, SessionTypes

\* The handler's request has its answer.
LEMMA EventAnsweredKeeps ==
    ASSUME Inductive, NEW f \in Slots, EventAnswered(f)
    PROVE  Inductive'
<1> DEFINE a == flows[f].found
           p == flows[f].acc
<1>1. /\ flows[f] # None /\ flows[f].at = "me"
      /\ flows' = [flows EXCEPT ![f] = None]
      /\ UNCHANGED <<server, stored, hydrating, initial, overlap, bounds>>
  BY DEF EventAnswered, Answered, Awaits, Ended
<1>2. /\ p \in People /\ a \in AppUser \cup {None}
      /\ a # None => Reported(a, approved)
      /\ ~overlap => p = stored /\ (a # None => a.id = stored)
  BY <1>1, AnsweredFlow
<1>3. \A h \in Slots : ~overlap /\ flows[h] # None => OfSession(flows[h], stored, stored)
  BY TokensStay
<1>4. CASE a # None
  <2>1. /\ user' = a /\ screen' = Redirected(screen, a, hydrating')
        /\ snapshot' = [token |-> p, user |-> a]
    BY <1>1, <1>4 DEF EventAnswered, Show, applySession
  <2>2. Writes(f, None, a, screen, p, a)
    BY <1>1, <2>1 DEF Writes
  <2> HIDE DEF a, p
  <2>3. ~overlap' => Belongs(f, None, a, stored', p)
    BY <1>1, <1>2, <1>3 DEF Belongs
  <2>4. p # None
    BY <1>2, Apart
  <2>5. QED
    BY <1>1, <1>2, <2>2, <2>3, <2>4, SessionTypes, ShowKeeps DEF server, bounds
<1>5. CASE a = None
  <2>1. snapshot' = [token |-> p, user |-> None] /\ UNCHANGED <<user, screen>>
    BY <1>5 DEF EventAnswered, applySession
  <2>2. PICK asked \in Screen : screen' = Redirected(asked, user, hydrating')
    BY <1>1, <2>1, ShownIsRedirected
  <2>3. /\ user # None => Reported(user, approved)
        /\ ~overlap /\ user # None => user.id = stored
    BY SessionTypes, Apart DEF Inductive, OneSession
  <2>4. Writes(f, None, user, asked, p, None)
    BY <1>1, <2>1, <2>2 DEF Writes
  <2> HIDE DEF a, p
  <2>5. ~overlap' => Belongs(f, None, user, stored', p)
    BY <1>1, <1>2, <1>3, <2>3 DEF Belongs
  <2>6. QED
    BY <1>1, <1>2, <2>3, <2>4, <2>5, SessionTypes, ShowKeeps DEF server, bounds
<1>6. QED
  BY <1>4, <1>5

\* A sign-in or a registration has its answer.
LEMMA SignAnsweredKeeps ==
    ASSUME Inductive, NEW f \in Slots, SignInAnswered(f) \/ SignUpAnswered(f)
    PROVE  Inductive'
<1> DEFINE a == flows[f].found
           p == flows[f].acc
<1>1. /\ flows[f] # None /\ flows[f].at \in {"me", "bootstrap"}
      /\ UNCHANGED <<server, stored, hydrating, initial, overlap, bounds>>
  BY DEF SignInAnswered, SignUpAnswered, Answered, Awaits
<1>2. /\ p \in People /\ a \in AppUser \cup {None}
      /\ a # None => Reported(a, approved)
      /\ ~overlap => p = stored /\ (a # None => a.id = stored)
  BY <1>1, AnsweredFlow
<1>3. \A h \in Slots : ~overlap /\ flows[h] # None => OfSession(flows[h], stored, stored)
  BY TokensStay
<1>4. \/ /\ flows' = [flows EXCEPT ![f] = None] /\ UNCHANGED <<user, screen, snapshot>>
      \/ /\ flows' = Begin(f, "signin", p, "signout", None)
         /\ UNCHANGED <<user, screen, snapshot>>
      \/ /\ a # None /\ flows' = [flows EXCEPT ![f] = None]
         /\ \E asked \in Screen : Show(a, asked)
         /\ snapshot' = [token |-> p, user |-> a]
  BY DEF SignInAnswered, SignUpAnswered, Ended, applySession, Screen
<1>5. CASE flows' = [flows EXCEPT ![f] = None] /\ UNCHANGED <<user, screen, snapshot>>
  BY <1>1, <1>5, UnchangedReviews, SessionTypes, FlowKeeps DEF server, bounds
<1>6. CASE /\ flows' = Begin(f, "signin", p, "signout", None)
           /\ UNCHANGED <<user, screen, snapshot>>
  BY <1>1, <1>2, <1>6, SessionTypes, BeginKeeps DEF server, bounds
<1>7. CASE /\ a # None /\ flows' = [flows EXCEPT ![f] = None]
           /\ \E asked \in Screen : Show(a, asked)
           /\ snapshot' = [token |-> p, user |-> a]
  <2>1. PICK asked \in Screen : user' = a /\ screen' = Redirected(asked, a, hydrating')
    BY <1>1, <1>7 DEF Show
  <2>2. Writes(f, None, a, asked, p, a)
    BY <1>7, <2>1 DEF Writes
  <2> HIDE DEF a, p
  <2>3. ~overlap' => Belongs(f, None, a, stored', p)
    BY <1>1, <1>2, <1>3 DEF Belongs
  <2>4. p # None
    BY <1>2, Apart
  <2>5. QED
    BY <1>1, <1>2, <2>2, <2>3, <2>4, SessionTypes, ShowKeeps DEF server, bounds
<1>8. QED
  BY <1>4, <1>5, <1>6, <1>7

\* refreshApprovalStatus has its answer: the token it was asked with is in place.
LEMMA RefreshAnsweredKeeps ==
    ASSUME Inductive, NEW f \in Slots, RefreshAnswered(f)
    PROVE  Inductive'
<1> DEFINE a == flows[f].found
           p == flows[f].acc
           g == IF a # None /\ a.status \in {"SUSPENDED", "REJECTED"}
                THEN [kind |-> "refresh", acc |-> p, at |-> "signout", bearer |-> None,
                      answer |-> "none", found |-> None]
                ELSE None
<1>1. /\ flows[f] # None /\ flows[f].at = "me"
      /\ flows' = [flows EXCEPT ![f] = g]
      /\ UNCHANGED <<server, stored, snapshot, hydrating, initial, overlap, bounds>>
  BY DEF RefreshAnswered, Answered, Awaits, Ended, Begin
<1>2. /\ p \in People /\ a \in AppUser \cup {None}
      /\ a # None => Reported(a, approved)
      /\ ~overlap => /\ p = stored
                     /\ a # None => a.id = stored /\ snapshot.token = stored
  BY <1>1, AnsweredFlow
<1>3. \A h \in Slots : ~overlap /\ flows[h] # None =>
         OfSession(flows[h], stored, snapshot.token)
  BY TokensStay
<1>4. g # None => /\ g \in Flow /\ FlowFits(g, approved)
                  /\ ~overlap => OfSession(g, stored, snapshot.token)
  <2>1. CASE g = None
    BY <2>1
  <2>2. CASE g = [kind |-> "refresh", acc |-> p, at |-> "signout", bearer |-> None,
                  answer |-> "none", found |-> None]
    <3>1. g \in Flow /\ FlowFits(g, approved)
      BY <1>2, <2>2, BeginFits
    <3>2. ~overlap => OfSession(g, stored, snapshot.token)
      BY <1>2, <2>2 DEF OfSession
    <3>3. QED
      BY <3>1, <3>2
  <2>3. QED
    BY <2>1, <2>2
<1> HIDE DEF g
<1>5. PICK u \in {a, user}, asked \in Screen :
         user' = u /\ screen' = Redirected(asked, u, hydrating')
  <2>1. CASE a # None
    BY <1>1, <2>1, SessionTypes DEF RefreshAnswered, Show, Screen
  <2>2. CASE a = None
    BY <1>1, <2>2, ShownIsRedirected DEF RefreshAnswered
  <2>3. QED
    BY <2>1, <2>2
<1>6. /\ u # None => Reported(u, approved)
      /\ ~overlap /\ u # None => u.id = snapshot.token
      /\ ~overlap => snapshot.token \in {None, stored}
      /\ u \in AppUser \cup {None}
  BY <1>2, SessionTypes DEF Inductive, OneSession
<1>7. snapshot' = [token |-> snapshot.token, user |-> snapshot.user]
      /\ snapshot.user \in AppUser \cup {None}
      /\ (snapshot.token = None => snapshot.user = None)
  BY <1>1, SessionTypes DEF Snapshot, Inductive, Tokened
<1>8. Writes(f, g, u, asked, snapshot.token, snapshot.user)
  BY <1>1, <1>5, <1>7 DEF Writes
<1>9. ~overlap' => Belongs(f, g, u, stored', snapshot.token)
  BY <1>1, <1>3, <1>4, <1>6 DEF Belongs
<1>10. /\ UNCHANGED <<server, stored, hydrating, initial, overlap, bounds>>
       /\ snapshot.token \in People \cup {None}
  BY <1>1, SessionTypes
<1> HIDE DEF a, p
<1>11. QED
  BY <1>4, <1>6, <1>7, <1>8, <1>9, <1>10, SessionTypes, ShowKeeps DEF server, bounds

\* A session ends, or the app forgets it.
LEMMA SignedOutKeeps ==
    ASSUME Inductive, NEW f \in Slots, SignedOut(f)
    PROVE  Inductive'
<1>1. PICK reached \in BOOLEAN :
         /\ stored' = IF reached THEN None ELSE stored
         /\ ~reached => failures < MaxFailures
         /\ failures' = IF reached THEN failures ELSE failures + 1
         /\ overlap' = (overlap \/ Outstanding({f}, None))
         /\ IF reached \/ flows[f].kind # "signin"
            THEN /\ applySession(None, None)
                 /\ Show(None, IF flows[f].kind = "leave" THEN "login" ELSE screen)
            ELSE UNCHANGED <<snapshot, user, screen>>
  BY DEF SignedOut
<1>2. /\ flows' = [flows EXCEPT ![f] = None]
      /\ UNCHANGED <<server, hydrating, initial, presses, restarts>>
  BY DEF SignedOut, Ended
<1>3. failures' \in 0..MaxFailures
  BY <1>1, SessionTypes, SessionAssumption
<1>4. CASE reached \/ flows[f].kind # "signin"
  <2>1. PICK asked \in Screen : user' = None /\ screen' = Redirected(asked, None, hydrating')
    BY <1>1, <1>2, <1>4, SessionTypes DEF Show, Screen
  <2>2. snapshot' = [token |-> None, user |-> None]
    BY <1>1, <1>4 DEF applySession
  <2>3. ASSUME ~overlap', NEW h \in Slots, h # f, flows[h] # None
        PROVE  OfSession(flows[h], stored', None)
    <3>1. flows[h].acc = None
      BY <1>1, <2>3 DEF Outstanding
    <3>2. flows[h].at \notin {"auth", "me", "bootstrap"}
      BY <2>3, <3>1, Apart DEF Inductive, FlowsFit, FlowFits
    <3>3. QED
      BY <3>1, <3>2 DEF OfSession
  <2>4. overlap' \in BOOLEAN /\ stored' \in People \cup {None}
    BY <1>1, SessionTypes
  <2>5. Writes(f, None, None, asked, None, None)
    BY <1>2, <2>1, <2>2 DEF Writes
  <2>6. ~overlap' => Belongs(f, None, None, stored', None)
    BY <2>3 DEF Belongs
  <2>7. QED
    BY <1>2, <1>3, <2>4, <2>5, <2>6, SessionTypes, ShowKeeps DEF server
<1>5. CASE ~(reached \/ flows[f].kind # "signin")
  <2>1. UNCHANGED <<stored, snapshot, user, screen>>
    BY <1>1, <1>5
  <2>2. PICK asked \in Screen : screen' = Redirected(asked, user, hydrating')
    BY <1>2, <2>1, ShownIsRedirected
  <2>3. /\ user # None => Reported(user, approved)
        /\ snapshot' = [token |-> snapshot.token, user |-> snapshot.user]
        /\ snapshot.user \in AppUser \cup {None}
        /\ snapshot.token = None => snapshot.user = None
    BY <2>1, SessionTypes DEF Snapshot, Inductive, Tokened
  <2>4. /\ ~overlap => snapshot.token \in {None, stored}
        /\ ~overlap /\ user # None => user.id = snapshot.token
        /\ \A h \in Slots : ~overlap /\ flows[h] # None =>
               OfSession(flows[h], stored, snapshot.token)
    BY TokensStay DEF Inductive, OneSession
  <2>5. overlap' \in BOOLEAN /\ (~overlap' => ~overlap)
    BY <1>1
  <2>6. Writes(f, None, user, asked, snapshot.token, snapshot.user)
    BY <1>2, <2>1, <2>2, <2>3 DEF Writes
  <2>7. ~overlap' => Belongs(f, None, user, stored', snapshot.token)
    BY <2>1, <2>4, <2>5 DEF Belongs
  <2>8. QED
    BY <1>2, <1>3, <2>1, <2>3, <2>5, <2>6, <2>7, SessionTypes, ShowKeeps DEF server
<1>6. QED
  BY <1>4, <1>5

\* A sign-in or a registration gets its session.  Without an overlap there was
\* none, or it was this one's already.
LEMMA SessionKeeps ==
    ASSUME Inductive, NEW f \in Slots, NEW g \in Slots,
           SignInAccepted(f, g) \/ SignUpWithSession(f, g)
    PROVE  Inductive'
<1> DEFINE p == flows[f].acc
<1>1. /\ flows[f] # None /\ flows[f].at = "auth" /\ flows[g] = None /\ f # g
      /\ stored' = p /\ Begins(f, p)
      /\ UNCHANGED <<account, approved, reviews, user, hydrating, initial, screen, bounds>>
  BY DEF SignInAccepted, SignUpWithSession, Awaits, Free, server
<1>2. flows[f] \in Flow /\ p \in People /\ FlowFits(flows[f], approved)
  BY <1>1 DEF Inductive, TypeOK, FlowsFit, FlowFits
<1>3. PICK token \in People \cup {None}, at \in {"me", "bootstrap"},
           bearer \in People \cup {None} :
         /\ snapshot' = [token |-> token, user |-> IF token = snapshot.token /\ at = "bootstrap"
                                                   THEN snapshot.user ELSE None]
         /\ token \in {p, snapshot.token} /\ bearer = token
         /\ (token = snapshot.token /\ at = "bootstrap") \/ token = p
         /\ flows' = [flows EXCEPT ![g] = SessionEvent(g, p), ![f].at = at, ![f].bearer = bearer]
  <2>1. CASE SignInAccepted(f, g)
    BY <1>2, <2>1 DEF SignInAccepted, applySession
  <2>2. CASE SignUpWithSession(f, g)
    <3>1. snapshot = [token |-> snapshot.token, user |-> snapshot.user]
      BY SessionTypes DEF Snapshot
    <3>2. QED
      BY <2>2, <3>1, SessionTypes DEF SignUpWithSession
  <2>3. QED
    BY <2>1, <2>2
<1> DEFINE h1 == [flows[f] EXCEPT !.at = at, !.bearer = bearer]
           h2 == SessionEvent(g, p)
<1>4. /\ flows' \in [Slots -> Flow \cup {None}]
      /\ flows'[f] = h1 /\ flows'[g] = h2
      /\ \A h \in Slots : h # f /\ h # g => flows'[h] = flows[h]
  <2>1. h1 \in Flow
    BY <1>2 DEF Flow
  <2>2. h2 \in Flow
    BY <1>2, SessionTypes DEF SessionEvent, Flow, Answer
  <2>3. flows' = [[flows EXCEPT ![g] = h2] EXCEPT ![f] = h1]
    BY <1>1, <1>3 DEF Inductive, TypeOK
  <2>4. flows \in [Slots -> Flow \cup {None}]
    BY DEF Inductive, TypeOK
  <2> HIDE DEF h1, h2
  <2>5. QED
    BY <1>1, <2>1, <2>2, <2>3, <2>4
<1>5. /\ h1.at = at /\ h1.bearer = bearer /\ h1.acc = p /\ h1.found = flows[f].found
      /\ h2.at = "me" /\ h2.bearer = snapshot.token /\ h2.acc = p /\ h2.found = None
  BY <1>2 DEF Flow, SessionEvent
<1>6. flows[f].found = None
  BY <1>1, <1>2 DEF FlowFits
<1>7. FlowFits(h1, approved) /\ FlowFits(h2, approved)
  BY <1>2, <1>5, <1>6 DEF FlowFits
<1>8. ASSUME ~overlap'
      PROVE  OneSession'
  <2>1. /\ ~overlap /\ stored \in {None, p} /\ snapshot.token \in {None, p}
        /\ \A h \in Slots : h # f /\ flows[h] # None => flows[h].acc \in {None, p}
    BY <1>1, <1>8, SessionTypes DEF Begins, Outstanding
  <2>2. OneSession
    BY <2>1 DEF Inductive
  <2>3. token \in {None, p} /\ (user # None => user.id = p /\ token = p)
    BY <1>3, <2>1, <2>2, SessionTypes, Apart DEF OneSession
  <2>4. OfSession(h1, p, token) /\ OfSession(h2, p, token)
    BY <1>3, <1>5, <2>1 DEF OfSession
  <2>5. ASSUME NEW h \in Slots, h # f, flows[h] # None
        PROVE  OfSession(flows[h], p, token)
    BY <1>3, <2>1, <2>2, <2>5 DEF OneSession, OfSession
  <2>6. stored' = p /\ snapshot'.token = token
    BY <1>1, <1>3
  <2> HIDE DEF h1, h2, p
  <2>7. QED
    BY <1>1, <1>4, <2>3, <2>4, <2>5, <2>6 DEF OneSession
<1>9. registered' \subseteq People
  BY <1>2, SessionTypes DEF SignInAccepted, SignUpWithSession, server
<1>10. TypeOK'
  <2>1. snapshot' \in Snapshot
    BY <1>3, SessionTypes DEF Snapshot
  <2>2. overlap' \in BOOLEAN
    BY <1>1, SessionTypes DEF Begins
  <2> HIDE DEF p
  <2>3. QED
    BY <1>1, <1>2, <1>4, <1>9, <2>1, <2>2, SessionTypes DEF TypeOK, bounds
<1>11. Settled' /\ Tokened'
  BY <1>1, <1>2, <1>3, Apart DEF Inductive, Settled, Tokened
<1>12. Reviews
  BY <1>1, UnchangedReviews
<1> HIDE DEF h1, h2, p
<1>13. \A h \in Slots : flows'[h] # None =>
          flows'[h] = flows[h] \/ FlowFits(flows'[h], approved')
  BY <1>1, <1>4, <1>7
<1>14. QED
  BY <1>1, <1>8, <1>10, <1>11, <1>12, <1>13, Keeps

-----------------------------------------------------------------------------
(* Navigation and restarts. *)

\* A link or the back button.
LEMMA GoToKeeps ==
    ASSUME Inductive, NEW asked \in Screen, GoTo(asked)
    PROVE  Inductive'
<1>1. /\ screen' = Redirected(asked, user, hydrating)
      /\ UNCHANGED <<server, stored, snapshot, user, hydrating, initial, flows, overlap, bounds>>
  BY DEF GoTo
<1>2. screen' \in Screen /\ Settled'
  BY <1>1, SessionTypes, RedirectedStays DEF Settled
<1>3. TypeOK'
  BY <1>1, <1>2 DEF Inductive, TypeOK, server, bounds
<1>4. Tokened' /\ (~overlap' => OneSession')
  BY <1>1 DEF Inductive, Tokened, OneSession
<1>5. Reviews
  BY <1>1, UnchangedReviews DEF server
<1>6. QED
  BY <1>1, <1>2, <1>3, <1>4, <1>5, Keeps

\* The app as it is when it is opened.
Opened ==
    /\ snapshot = emptySession /\ user = None
    /\ hydrating = TRUE /\ screen = "root"
    /\ \E f \in Slots : flows = Hydrate(f)

\* The app that has been opened fits whatever session is stored.
LEMMA OpenedFits ==
    Opened /\ stored \in People \cup {None} =>
        /\ snapshot \in Snapshot /\ flows \in [Slots -> Flow \cup {None}]
        /\ Settled /\ Tokened /\ FlowsFit /\ OneSession
<1> SUFFICES ASSUME Opened, stored \in People \cup {None}
             PROVE  /\ snapshot \in Snapshot /\ flows \in [Slots -> Flow \cup {None}]
                    /\ Settled /\ Tokened /\ FlowsFit /\ OneSession
  OBVIOUS
<1> DEFINE g == [kind |-> "hydrate", acc |-> None, at |-> "url",
                 bearer |-> None, answer |-> "none", found |-> None]
<1>1. PICK f \in Slots : flows = [[h \in Slots |-> None] EXCEPT ![f] = g]
  BY DEF Opened, Hydrate, Opening
<1>2. g \in Flow /\ FlowFits(g, approved)
  BY BeginFits
<1>3. OfSession(g, stored, None)
  BY DEF OfSession
<1> HIDE DEF g
<1>4. \A h \in Slots : flows[h] = None \/ flows[h] = g
  BY <1>1
<1>5. flows \in [Slots -> Flow \cup {None}]
  BY <1>1, <1>2
<1>6. snapshot \in Snapshot /\ snapshot.token = None /\ snapshot.user = None
      /\ user = None
  BY DEF Opened, emptySession, Snapshot
<1>7. Settled /\ Tokened
  BY <1>6 DEF Settled, Tokened, Opened
<1>8. FlowsFit
  BY <1>2, <1>4 DEF FlowsFit
<1>9. OneSession
  BY <1>3, <1>4, <1>6 DEF OneSession
<1>10. QED
  BY <1>5, <1>6, <1>7, <1>8, <1>9

\* The app is killed and opened again.
LEMMA RestartKeeps ==
    ASSUME Inductive, NEW f \in Slots, Restart(f)
    PROVE  Inductive'
<1>1. Opened' /\ UNCHANGED <<server, stored, overlap, presses, failures>> /\ initial' = TRUE
  BY DEF Restart, Opened
<1>2. restarts' \in 0..MaxRestarts
  BY SessionTypes, SessionAssumption DEF Restart
<1>3. (Opened /\ stored \in People \cup {None} =>
          /\ snapshot \in Snapshot /\ flows \in [Slots -> Flow \cup {None}]
          /\ Settled /\ Tokened /\ FlowsFit /\ OneSession)'
  BY OpenedFits, PTL
<1>4. TypeOK'
  BY <1>1, <1>2, <1>3, SessionTypes DEF Opened, server, TypeOK, Screen
<1>5. Approvals'
  BY <1>1 DEF server, Inductive, Approvals
<1>6. QED
  BY <1>1, <1>3, <1>4, <1>5, SessionTypes DEF Inductive, Opened

-----------------------------------------------------------------------------
(* The invariant. *)

\* The app starts with an invariant that holds.
LEMMA InitInductive ==
    Init => Inductive
<1>1. SUFFICES ASSUME Init PROVE Inductive
  OBVIOUS
<1>2. Opened /\ stored \in People \cup {None}
  BY <1>1 DEF Init, Opened
<1>3. /\ snapshot \in Snapshot /\ flows \in [Slots -> Flow \cup {None}]
      /\ Settled /\ Tokened /\ FlowsFit /\ OneSession
  BY <1>2, OpenedFits
<1>4. TypeOK
  <2>1. /\ registered \subseteq People /\ approved \subseteq People
        /\ account \in [People -> Status \cup {None}]
    BY <1>1 DEF Init
  <2>2. /\ presses \in 0..MaxPresses /\ failures \in 0..MaxFailures
        /\ restarts \in 0..MaxRestarts /\ reviews \in 0..MaxReviews
    BY <1>1, SessionAssumption DEF Init
  <2>3. /\ stored \in People \cup {None} /\ user \in AppUser \cup {None}
        /\ hydrating \in BOOLEAN /\ initial \in BOOLEAN /\ overlap \in BOOLEAN
        /\ screen \in Screen
    BY <1>1, <2>1 DEF Init, Screen
  <2>4. QED
    BY <1>3, <2>1, <2>2, <2>3 DEF TypeOK
<1>5. Slots # {}
  BY <1>1 DEF Init
<1>6. Approvals
  BY <1>1 DEF Init, Approvals
<1>7. QED
  BY <1>2, <1>3, <1>4, <1>5, <1>6 DEF Inductive, Opened

\* Every step keeps the invariant.
LEMMA StepInductive ==
    Inductive /\ [Next]_vars => Inductive'
<1>1. SUFFICES ASSUME Inductive, [Next]_vars PROVE Inductive'
  OBVIOUS
<1>2. ASSUME NEW f \in Slots, Continue(f) \/ Fail(f) \/ TokenRefreshed(f)
      PROVE  Inductive'
  BY <1>1, <1>2, ServeMeKeeps, ServeBootstrapKeeps, HydrateReadsKeeps, HydrateAnsweredKeeps,
     EventAnsweredKeeps, EndKeeps, SignInBootstrapsKeeps, SignAnsweredKeeps, SignedOutKeeps,
     RefreshAnsweredKeeps, FailKeeps, TokenRefreshedKeeps DEF Continue
<1>3. ASSUME NEW f \in Slots, NEW g \in Slots, SignInAccepted(f, g) \/ SignUpWithSession(f, g)
      PROVE  Inductive'
  BY <1>1, <1>3, SessionKeeps
<1>4. CASE InitialSession
  <2>1. PICK s \in Slots : TRUE
    BY <1>1 DEF Inductive
  <2>2. QED
    BY <1>1, <1>4, <2>1, InitialSessionKeeps
<1>5. ASSUME NEW f \in Slots,
             \/ \E p \in People : SignInPressed(f, p) \/ SignUpPressed(f, p)
             \/ SignOutPressed(f) \/ RefreshPressed(f) \/ Restart(f)
      PROVE  Inductive'
  BY <1>1, <1>5, PressKeeps, RestartKeeps
<1>6. CASE SplashPressed \/ goToRegister \/ goToLogin \/ BackPressed
  BY <1>1, <1>6, GoToKeeps DEF SplashPressed, goToRegister, goToLogin, BackPressed, Screen
<1>7. CASE \E p \in People : Reviewed(p)
  BY <1>1, <1>7, ReviewedKeeps
<1>8. CASE UNCHANGED vars
  <2>1. TypeOK' /\ Settled' /\ Tokened' /\ (~overlap' => OneSession')
    BY <1>1, <1>8 DEF vars, server, bounds, Inductive, TypeOK, Settled, Tokened, OneSession
  <2>2. Reviews
    BY <1>8, UnchangedReviews DEF vars
  <2>3. QED
    BY <1>1, <1>8, <2>1, <2>2, Keeps DEF vars
<1>9. QED
  BY <1>1, <1>2, <1>3, <1>4, <1>5, <1>6, <1>7, <1>8 DEF Next

\* The invariant holds of every behaviour.
THEOREM InductiveHolds == Spec => []Inductive
BY InitInductive, StepInductive, PTL DEF Spec

-----------------------------------------------------------------------------
(* The properties. *)

\* Every variable of the mobile session keeps its type, for any identities and bounds.
THEOREM TypeOKHolds == Spec => []TypeOK
<1>1. Inductive => TypeOK
  BY DEF Inductive
<1>2. QED
  BY <1>1, InductiveHolds, PTL

\* The tabs are on screen only for an account that an administrator has approved:
\* RootNavigator keeps sending every other one elsewhere (_layout.tsx:21).
THEOREM TabsAreApprovedHolds == Spec => []TabsAreApproved
<1>1. Inductive => TabsAreApproved
  BY SessionTypes, Apart
  DEF Inductive, Settled, Redirected, getStatusFromUser, Reported, TabsAreApproved, AppUser, Status
<1>2. QED
  BY <1>1, InductiveHolds, PTL

\* The user on screen is the one whose token the API client sends, while no session
\* has begun or ended over another.
THEOREM OnlyOverlapsMixHolds == Spec => []OnlyOverlapsMix
<1>1. Inductive => OnlyOverlapsMix
  BY DEF Inductive, OneSession, OnlyOverlapsMix
<1>2. QED
  BY <1>1, InductiveHolds, PTL

\* Without a stored session there is neither a user nor a token, while no session
\* has ended over an answer still awaited.
THEOREM OnlyLateAnswersSignBackInHolds == Spec => []OnlyLateAnswersSignBackIn
<1>1. ASSUME Inductive, ~overlap, stored = None
      PROVE  user = None /\ snapshot = emptySession
  <2>1. snapshot.token = None /\ user = None
    BY <1>1, SessionTypes, Apart DEF Inductive, OneSession
  <2>2. snapshot.user = None
    BY <1>1, <2>1 DEF Inductive, Tokened
  <2>3. snapshot = [token |-> snapshot.token, user |-> snapshot.user]
    BY <1>1, SessionTypes DEF Snapshot
  <2>4. QED
    BY <2>1, <2>2, <2>3 DEF emptySession
<1>2. Inductive => OnlyLateAnswersSignBackIn
  BY <1>1 DEF OnlyLateAnswersSignBackIn
<1>3. QED
  BY <1>2, InductiveHolds, PTL
=============================================================================

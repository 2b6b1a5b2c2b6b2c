----------------------------- MODULE MobileSession -----------------------------
(***************************************************************************)
(* The mobile app's authentication: AuthProvider, the session snapshot     *)
(* the API client reads its token from, RootNavigator and the sign-in,     *)
(* registration, pending-approval and settings screens.  Everything after  *)
(* an await is a step of its own: the continuations of several flows       *)
(* (hydrate, the auth-state handler, the buttons) run in the order their   *)
(* answers arrive, over one `user` and one snapshot.                       *)
(***************************************************************************)
EXTENDS Naturals

CONSTANTS
    People,       \* the identities that use this device
    Slots,        \* the flows awaiting an answer at once
    MaxPresses,   \* bound on the buttons pressed that start a flow
    MaxFailures,  \* bound on the requests that time out or do not get through
    MaxRestarts,  \* bound on the times the app is killed and opened again
    MaxReviews,   \* bound on the decisions of administrators
    None

VARIABLES
    account,     \* app_users: the account_status of each identity, None without a row
    approved,    \* user_approval_audit: the identities with an approval in their trail
    registered,  \* the identities Supabase knows
    stored,      \* whose Supabase session the device keeps (persistSession)
    snapshot,    \* session.ts: the token requests carry, and the user it was set with
    user,        \* AuthProvider's user
    hydrating,   \* isHydrating
    initial,     \* the INITIAL_SESSION event has not been delivered yet
    screen,      \* the first segment of the route
    flows,       \* what awaits an answer
    overlap,     \* history: a session began or ended with an answer of another outstanding
    presses, failures, restarts, reviews

vars == <<account, approved, registered, stored, snapshot, user, hydrating, initial,
          screen, flows, overlap, presses, failures, restarts, reviews>>

server == <<account, approved, registered, reviews>>
bounds == <<presses, failures, restarts>>

-----------------------------------------------------------------------------
\* approvalStatus, in the app's names (mapBackendStatus).
Status == {"PENDING", "APPROVED", "REJECTED", "SUSPENDED"}
Screen == {"root", "login", "register", "pending", "tabs"}
AppUser == [id : People, status : Status]

\* AuthSessionSnapshot; accessToken, authUserId and email always come from one session.
Snapshot == [token : People \cup {None}, user : AppUser \cup {None}]
emptySession == [token |-> None, user |-> None]

\* A flow: acc is the session it was started with, at what it awaits, bearer
\* whose token the request carries, answer and found what came back ("missing" is
\* the 401 of a request without a token).
Answer == {"none", "user", "missing", "notfound", "failed"}
Flow == [kind : {"hydrate", "event", "signin", "signup", "signout", "leave", "refresh"},
         acc : People \cup {None}, at : {"url", "auth", "me", "bootstrap", "signout"},
         bearer : People \cup {None}, answer : Answer, found : AppUser \cup {None}]

ASSUME SessionAssumption ==
    /\ None \notin People \cup Status \cup AppUser \cup Flow
    /\ MaxPresses \in Nat /\ MaxFailures \in Nat /\ MaxRestarts \in Nat
    /\ MaxReviews \in Nat

\* A mutant of getStatusFromUser: only a pending account is held back.
AllButPendingApproved(u) ==
    IF u = None THEN "SIGNED_OUT"
    ELSE IF u.status = "PENDING" THEN "PENDING_APPROVAL" ELSE "APPROVED"

\* authStatus; a REJECTED account shows as PENDING_APPROVAL.
getStatusFromUser(u) ==
    IF u = None THEN "SIGNED_OUT"
    ELSE IF u.status \in {"APPROVED", "SUSPENDED"} THEN u.status ELSE "PENDING_APPROVAL"

\* RootNavigator's effect, run after every change of the route or of the status.
Redirected(at, u, h) ==
    LET status == getStatusFromUser(u) IN
    IF h THEN at
    ELSE IF status = "SIGNED_OUT" /\ at \in {"pending", "tabs"} THEN "login"
    ELSE IF status = "PENDING_APPROVAL" THEN "pending"
    ELSE IF status = "APPROVED" THEN "tabs"
    ELSE at

\* The user becomes u and the app asks for a screen.
Show(u, asked) ==
    /\ user' = u
    /\ screen' = Redirected(asked, u, hydrating)

\* A mutant of applySession: accessToken keeps its default, null.
TokenForgotten(token, u) == snapshot' = [token |-> None, user |-> u]

\* A mutant of applySession: the token and the user are swapped.
SwappedSession(token, u) == snapshot' = [token |-> u, user |-> token]

applySession(token, u) == snapshot' = [token |-> token, user |-> u]

Opening == [f \in Slots |-> None]

\* hydrate awaits Linking.getInitialURL() in some slot.
Hydrate(f) == [Opening EXCEPT ![f] = [kind |-> "hydrate", acc |-> None, at |-> "url",
                                      bearer |-> None, answer |-> "none", found |-> None]]

Init ==
    /\ registered \in SUBSET People
    /\ account \in [People -> Status \cup {None}]
    /\ \A p \in People : account[p] # None => p \in registered
    /\ approved = {p \in People : account[p] \in {"APPROVED", "SUSPENDED"}}
    /\ stored \in registered \cup {None}
    /\ snapshot = emptySession /\ user = None
    /\ hydrating = TRUE /\ initial = TRUE
    /\ screen = "root"
    /\ \E f \in Slots : flows = Hydrate(f)
    /\ overlap = FALSE /\ presses = 0 /\ failures = 0 /\ restarts = 0 /\ reviews = 0

-----------------------------------------------------------------------------
(* Flows *)

Begin(f, kind, acc, at, bearer) ==
    [flows EXCEPT ![f] = [kind |-> kind, acc |-> acc, at |-> at, bearer |-> bearer,
                          answer |-> "none", found |-> None]]
Ended(f) == [flows EXCEPT ![f] = None]

Free(f) == flows[f] = None
Awaits(f, kind, at) == flows[f] # None /\ flows[f].kind = kind /\ flows[f].at = at
Answered(f, kind, at) == Awaits(f, kind, at) /\ flows[f].answer # "none"

\* A button that starts flow f; isSubmitting only changes its label.
Press(f) == Free(f) /\ presses < MaxPresses /\ presses' = presses + 1

\* Some other flow than those of fs still awaits an answer for a session that
\* is not p's; p is None at a sign-out.
Outstanding(fs, p) ==
    \E g \in Slots \ fs : flows[g] # None /\ flows[g].acc \notin {None, p}

\* A session of p begins in flow f.
Begins(f, p) ==
    overlap' = (overlap \/ {stored, snapshot.token} \ {None, p} # {}
                        \/ Outstanding({f}, p))

Reply(f, answer, found) ==
    [flows EXCEPT ![f].answer = answer, ![f].found = found]

\* GET /me: the API answers for the token the request carries.
ServeMe(f) ==
    /\ flows[f] # None /\ flows[f].at = "me" /\ flows[f].answer = "none"
    /\ LET p == flows[f].bearer
       IN  flows' = IF p = None THEN Reply(f, "missing", None)
                    ELSE IF account[p] = None THEN Reply(f, "notfound", None)
                    ELSE Reply(f, "user", [id |-> p, status |-> account[p]])
    /\ UNCHANGED <<server, stored, snapshot, user, hydrating, initial, screen,
                   overlap, bounds>>

\* POST /me/bootstrap: the row of the token's identity, made PENDING if there is none.
ServeBootstrap(f) ==
    /\ flows[f] # None /\ flows[f].at = "bootstrap" /\ flows[f].answer = "none"
    /\ LET p == flows[f].bearer
           status == IF account[p] = None THEN "PENDING" ELSE account[p]
       IN  IF p = None
           THEN flows' = Reply(f, "missing", None) /\ UNCHANGED account
           ELSE /\ account' = [account EXCEPT ![p] = status]
                /\ flows' = Reply(f, "user", [id |-> p, status |-> status])
    /\ UNCHANGED <<approved, registered, reviews, stored, snapshot, user, hydrating, initial,
                   screen, overlap, bounds>>

\* The request times out (30 s) or does not get through.
Fail(f) ==
    /\ failures < MaxFailures
    /\ flows[f] # None /\ flows[f].at \in {"me", "bootstrap"} /\ flows[f].answer = "none"
    /\ flows' = Reply(f, "failed", None)
    /\ failures' = failures + 1
    /\ UNCHANGED <<server, stored, snapshot, user, hydrating, initial, screen,
                   overlap, presses, restarts>>

-----------------------------------------------------------------------------
(* Start of the app *)

\* getInitialURL and getSession have resolved: with a session GET /me goes out,
\* carrying the token of the snapshot, which nothing has filled yet.
HydrateReads(f) ==
    /\ Awaits(f, "hydrate", "url")
    /\ IF stored # None
       THEN /\ flows' = Begin(f, "hydrate", stored, "me", snapshot.token)
            /\ UNCHANGED <<snapshot, user, screen, hydrating>>
       ELSE /\ flows' = Ended(f)
            /\ applySession(None, None)
            /\ hydrating' = FALSE
            /\ user' = user
            /\ screen' = Redirected(screen, user, FALSE)
    /\ UNCHANGED <<server, stored, initial, overlap, bounds>>

HydrateAnswered(f) ==
    /\ Answered(f, "hydrate", "me")
    /\ LET u == flows[f].found
       IN  /\ user' = u
           /\ applySession(flows[f].acc, u)
           /\ screen' = Redirected(screen, u, FALSE)
    /\ hydrating' = FALSE
    /\ flows' = Ended(f)
    /\ UNCHANGED <<server, stored, initial, overlap, bounds>>

-----------------------------------------------------------------------------
(* The auth-state handler *)

\* The handler's synchronous part for a session of p, in flow f: GET /me goes out.
SessionEvent(f, p) == [kind |-> "event", acc |-> p, at |-> "me",
                       bearer |-> snapshot.token, answer |-> "none", found |-> None]

\* INITIAL_SESSION, delivered once after the subscription.
InitialSession ==
    /\ initial
    /\ initial' = FALSE
    /\ IF stored = None
       THEN Show(None, screen) /\ applySession(None, None) /\ UNCHANGED flows
       ELSE /\ \E f \in Slots : /\ Free(f)
                                /\ flows' = [flows EXCEPT ![f] = SessionEvent(f, stored)]
            /\ UNCHANGED <<user, screen, snapshot>>
    /\ UNCHANGED <<server, stored, hydrating, overlap, bounds>>

\* TOKEN_REFRESHED: autoRefreshToken renews the stored session's token, long
\* after the handler's last request for it has timed out.
TokenRefreshed(f) ==
    /\ ~initial /\ stored # None /\ Free(f)
    /\ ~\E g \in Slots : Awaits(g, "event", "me") /\ flows[g].acc = stored
    /\ flows' = [flows EXCEPT ![f] = SessionEvent(f, stored)]
    /\ UNCHANGED <<server, stored, snapshot, user, hydrating, initial, screen,
                   overlap, bounds>>

\* A mutant of EventAnswered: a failed answer changes nothing.
EventIgnoresFailures(f) ==
    /\ Answered(f, "event", "me")
    /\ LET a == flows[f].found
       IN  IF a # None
           THEN Show(a, screen) /\ applySession(flows[f].acc, a)
           ELSE UNCHANGED <<user, screen, snapshot>>
    /\ flows' = Ended(f)
    /\ UNCHANGED <<server, stored, hydrating, initial, overlap, bounds>>

\* A failed answer leaves the user as it is and still sets the token.
EventAnswered(f) ==
    /\ Answered(f, "event", "me")
    /\ LET a == flows[f].found
       IN  IF a # None
           THEN Show(a, screen) /\ applySession(flows[f].acc, a)
           ELSE applySession(flows[f].acc, None) /\ UNCHANGED <<user, screen>>
    /\ flows' = Ended(f)
    /\ UNCHANGED <<server, stored, hydrating, initial, overlap, bounds>>

-----------------------------------------------------------------------------
(* The sign-in screen *)

SignInPressed(f, p) ==
    /\ screen = "login" /\ Press(f)
    /\ flows' = Begin(f, "signin", p, "auth", None)
    /\ UNCHANGED <<server, stored, snapshot, user, hydrating, initial, screen, overlap,
                   failures, restarts>>

\* Wrong password, unconfirmed email or no answer from Supabase.
SignInRefused(f) ==
    /\ Awaits(f, "signin", "auth")
    /\ flows' = Ended(f)
    /\ UNCHANGED <<server, stored, snapshot, user, hydrating, initial, screen, overlap,
                   bounds>>

\* The session is stored, SIGNED_IN runs the handler with the token there was,
\* then the continuation sets the fresh token and asks for the account.
SignInAccepted(f, g) ==
    /\ Awaits(f, "signin", "auth") /\ Free(g)
    /\ LET p == flows[f].acc
       IN  /\ p \in registered
           /\ stored' = p
           /\ applySession(p, None)
           /\ flows' = [flows EXCEPT ![g] = SessionEvent(g, p),
                                     ![f].at = "me", ![f].bearer = p]
    /\ Begins(f, flows[f].acc)
    /\ UNCHANGED <<server, user, hydrating, initial, screen, bounds>>

\* GET /me found no profile: one is made, with the token the snapshot has now.
SignInBootstraps(f) ==
    /\ Answered(f, "signin", "me") /\ flows[f].answer = "notfound"
    /\ flows' = Begin(f, "signin", flows[f].acc, "bootstrap", snapshot.token)
    /\ UNCHANGED <<server, stored, snapshot, user, hydrating, initial, screen,
                   overlap, bounds>>

SignInAnswered(f) ==
    /\ Answered(f, "signin", "me") \/ Answered(f, "signin", "bootstrap")
    /\ ~(flows[f].at = "me" /\ flows[f].answer = "notfound")
    /\ LET a == flows[f].found
       IN  CASE a = None ->
                  /\ flows' = Ended(f)
                  /\ UNCHANGED <<user, screen, snapshot>>
             [] a # None /\ a.status \in {"SUSPENDED", "REJECTED"} ->
                  /\ flows' = Begin(f, "signin", flows[f].acc, "signout", None)
                  /\ UNCHANGED <<user, screen, snapshot>>
             [] OTHER ->
                  /\ Show(a, IF a.status = "APPROVED" THEN "tabs" ELSE "pending")
                  /\ applySession(flows[f].acc, a)
                  /\ flows' = Ended(f)
    /\ UNCHANGED <<server, stored, hydrating, initial, overlap, bounds>>

-----------------------------------------------------------------------------
(* The registration screen *)

SignUpPressed(f, p) ==
    /\ screen = "register" /\ Press(f)
    /\ flows' = Begin(f, "signup", p, "auth", None)
    /\ UNCHANGED <<server, stored, snapshot, user, hydrating, initial, screen, overlap,
                   failures, restarts>>

\* An error, EMAIL_ALREADY_USED, or VERIFY_EMAIL_REQUIRED (registered, no session).
SignUpWithoutSession(f) ==
    /\ Awaits(f, "signup", "auth")
    /\ registered' \in {registered, registered \cup {flows[f].acc}}
    /\ flows' = Ended(f)
    /\ UNCHANGED <<account, approved, reviews, stored, snapshot, user, hydrating, initial,
                   screen, overlap, bounds>>

\* A session at once: the bootstrap goes out with the token of the snapshot,
\* which signUpWithPassword has not set.
SignUpWithSession(f, g) ==
    /\ Awaits(f, "signup", "auth") /\ Free(g)
    /\ LET p == flows[f].acc
       IN  /\ p \notin registered
           /\ registered' = registered \cup {p}
           /\ stored' = p
           /\ flows' = [flows EXCEPT ![g] = SessionEvent(g, p),
                                     ![f].at = "bootstrap", ![f].bearer = snapshot.token]
    /\ Begins(f, flows[f].acc)
    /\ UNCHANGED <<account, approved, reviews, snapshot, user, hydrating, initial, screen,
                   bounds>>

SignUpAnswered(f) ==
    /\ Answered(f, "signup", "bootstrap")
    /\ LET a == flows[f].found
       IN  IF a # None
           THEN Show(a, "tabs") /\ applySession(flows[f].acc, a)
           ELSE UNCHANGED <<user, screen, snapshot>>
    /\ flows' = Ended(f)
    /\ UNCHANGED <<server, stored, hydrating, initial, overlap, bounds>>

-----------------------------------------------------------------------------
(* Sign-out and the pending-approval screen *)

\* SIGN OUT of the pending screen ("leave": it goes to the sign-in screen
\* itself) and of the settings.
SignOutPressed(f) ==
    /\ screen \in {"pending", "tabs"} /\ Press(f)
    /\ flows' = Begin(f, IF screen = "pending" THEN "leave" ELSE "signout", stored,
                      "signout", None)
    /\ UNCHANGED <<server, stored, snapshot, user, hydrating, initial, screen,
                   overlap, failures, restarts>>

\* A mutant of SignedOut: clearAuthSessionSnapshot is forgotten.
SignedOutKeepingSnapshot(f) ==
    /\ flows[f] # None /\ flows[f].at = "signout"
    /\ stored' = None
    /\ overlap' = (overlap \/ Outstanding({f}, None))
    /\ Show(None, IF flows[f].kind = "leave" THEN "login" ELSE screen)
    /\ flows' = Ended(f)
    /\ UNCHANGED <<server, snapshot, hydrating, initial, bounds>>

\* supabase.auth.signOut has resolved; SIGNED_OUT clears the user and the
\* snapshot.  Without a network it keeps the session and emits nothing: the
\* screens clear their state all the same, a refused sign-in does not.
SignedOut(f) ==
    /\ flows[f] # None /\ flows[f].at = "signout"
    /\ \E reached \in BOOLEAN :
          /\ stored' = IF reached THEN None ELSE stored
          /\ ~reached => failures < MaxFailures
          /\ failures' = IF reached THEN failures ELSE failures + 1
          /\ overlap' = (overlap \/ Outstanding({f}, None))
          /\ IF reached \/ flows[f].kind # "signin"
             THEN /\ applySession(None, None)
                  /\ Show(None, IF flows[f].kind = "leave" THEN "login" ELSE screen)
             ELSE UNCHANGED <<snapshot, user, screen>>
    /\ flows' = Ended(f)
    /\ UNCHANGED <<server, hydrating, initial, presses, restarts>>

\* refreshApprovalStatus: without a stored session it signs out.
RefreshPressed(f) ==
    /\ screen = "pending" /\ Press(f)
    /\ flows' = IF stored = None
                THEN Begin(f, "refresh", None, "signout", None)
                ELSE Begin(f, "refresh", stored, "me", snapshot.token)
    /\ UNCHANGED <<server, stored, snapshot, user, hydrating, initial, screen, overlap,
                   failures, restarts>>

\* Only the user is set: the snapshot keeps the status it had.
RefreshAnswered(f) ==
    /\ Answered(f, "refresh", "me")
    /\ LET a == flows[f].found
       IN  /\ IF a # None
              THEN Show(a, IF a.status = "APPROVED" THEN "tabs" ELSE screen)
              ELSE UNCHANGED <<user, screen>>
           /\ IF a # None /\ a.status \in {"SUSPENDED", "REJECTED"}
              THEN flows' = Begin(f, "refresh", flows[f].acc, "signout", None)
              ELSE flows' = Ended(f)
    /\ UNCHANGED <<server, stored, snapshot, hydrating, initial, overlap, bounds>>

-----------------------------------------------------------------------------
(* Navigation, the administrators, and the phone *)

GoTo(asked) ==
    /\ screen' = Redirected(asked, user, hydrating)
    /\ UNCHANGED <<server, stored, snapshot, user, hydrating, initial, flows,
                   overlap, bounds>>

\* The splash screen, the links between the sign-in screens, and the back button,
\* which finds no history to go back to.
SplashPressed == screen = "root" /\ GoTo("login")
goToRegister == screen = "login" /\ GoTo("register")
goToLogin == screen = "register" /\ GoTo("login")
BackPressed == screen = "login" /\ GoTo("root")

\* An administrator approves, rejects or suspends.  A review that loaded the
\* account before another was committed overrides it (module Accounts).
Reviewed(p) ==
    /\ account[p] # None
    /\ reviews < MaxReviews /\ reviews' = reviews + 1
    /\ \E s \in Status \ {"PENDING", account[p]} :
           /\ s = "SUSPENDED" => p \in approved
           /\ account' = [account EXCEPT ![p] = s]
           /\ approved' = IF s = "APPROVED" THEN approved \cup {p} ELSE approved
    /\ UNCHANGED <<registered, stored, snapshot, user, hydrating, initial,
                   screen, flows, overlap, bounds>>

\* The app is killed and opened again: only Supabase's stored session survives.
Restart(f) ==
    /\ restarts < MaxRestarts
    /\ restarts' = restarts + 1
    /\ snapshot' = emptySession /\ user' = None
    /\ hydrating' = TRUE /\ initial' = TRUE
    /\ screen' = "root"
    /\ flows' = Hydrate(f)
    /\ UNCHANGED <<server, stored, overlap, presses, failures>>

Continue(f) ==
    \/ ServeMe(f) \/ ServeBootstrap(f)
    \/ HydrateReads(f) \/ HydrateAnswered(f) \/ EventAnswered(f)
    \/ SignInRefused(f) \/ SignInBootstraps(f) \/ SignInAnswered(f)
    \/ SignUpWithoutSession(f) \/ SignUpAnswered(f)
    \/ SignedOut(f) \/ RefreshAnswered(f)

Next ==
    \/ \E f \in Slots : Continue(f) \/ Fail(f) \/ TokenRefreshed(f)
    \/ \E f, g \in Slots : SignInAccepted(f, g) \/ SignUpWithSession(f, g)
    \/ InitialSession
    \/ \E f \in Slots, p \in People : SignInPressed(f, p) \/ SignUpPressed(f, p)
    \/ \E f \in Slots : SignOutPressed(f) \/ RefreshPressed(f) \/ Restart(f)
    \/ SplashPressed \/ goToRegister \/ goToLogin \/ BackPressed
    \/ \E p \in People : Reviewed(p)

Spec == Init /\ [][Next]_vars

\* Every request ends (the client aborts it after 30 s) and its continuation runs;
\* Supabase delivers its first event and keeps renewing a stored session.
Fairness ==
    /\ \A f \in Slots : WF_vars(Continue(f))
    /\ WF_vars(InitialSession)
    /\ WF_vars(\E f \in Slots : TokenRefreshed(f))

FairSpec == Spec /\ Fairness

-----------------------------------------------------------------------------
(* Properties *)

\* Every variable has its type.
TypeOK ==
    /\ account \in [People -> Status \cup {None}]
    /\ approved \subseteq People /\ registered \subseteq People
    /\ stored \in People \cup {None}
    /\ snapshot \in Snapshot
    /\ user \in AppUser \cup {None}
    /\ hydrating \in BOOLEAN /\ initial \in BOOLEAN
    /\ screen \in Screen
    /\ flows \in [Slots -> Flow \cup {None}]
    /\ overlap \in BOOLEAN
    /\ presses \in 0..MaxPresses /\ failures \in 0..MaxFailures /\ restarts \in 0..MaxRestarts
    /\ reviews \in 0..MaxReviews

\* Whatever the order of the answers, once the app has hydrated its tabs are on
\* screen only for an account that has been approved (and may have been suspended
\* since, for RootNavigator has no branch for SUSPENDED, or rejected by a racing
\* review).
TabsAreApproved ==
    ~hydrating /\ screen = "tabs" =>
        /\ user # None /\ user.id \in approved

\* The user on screen is the one whose token the API client sends, unless a
\* session began or ended while an answer for another one was outstanding or
\* another one's token was still in place: then a late answer, or the SIGNED_IN
\* handler's GET /me with the old token, shows one account and sends the other's
\* requests.
OnlyOverlapsMix ==
    ~overlap /\ user # None => user.id = snapshot.token

\* Without a stored session there is neither a user nor a token, unless an answer
\* was outstanding when the session ended: applied later, it signs back in.
OnlyLateAnswersSignBackIn ==
    ~overlap /\ stored = None => user = None /\ snapshot = emptySession

\* A stored session of an approved account ends up in the tabs ("Once your access is
\* approved, this app will take you straight to Projects", pending-approval.tsx):
\* the first GET /me of a start carries no token and is refused, and only because
\* its failure sets the token does a later event restore the account.
ApprovedReachesProjects ==
    \A p \in People :
        stored = p /\ account[p] = "APPROVED"
            ~> screen = "tabs" \/ stored # p \/ account[p] # "APPROVED"

=============================================================================


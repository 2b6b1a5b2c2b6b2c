------------------------------ MODULE TripsProofs ------------------------------
(***************************************************************************)
(* Trips for any testers, slots, days and bounds: Inductive holds          *)
(* initially and is kept by every step.  It tells what each request in     *)
(* process knows of the tables, which writes the app no longer hears of,   *)
(* and what the two screens show while nothing has gone wrong.             *)
(***************************************************************************)
EXTENDS Trips, TLAPS

-----------------------------------------------------------------------------
(* The inductive invariant. *)

\* The requests of the mileage screen and those that the app waits for.
OnMileage(r) == r.kind \in {"mileage", "start", "end"}
Watched(r) == r.awaited /\ r.active

\* What a load of p's expenses finds.
Mine(p, rows) == [row \in Row |-> IF row[1] = p THEN rows[row] ELSE 0]

\* What a request is about, and what its answer tells unless something has been
\* written since; an admitted end has its entry.
Fits(r, es, rows) ==
    /\ OnMileage(r) => r.date # None
    /\ r.kind \in {"start", "end"} => r.miles # None
    /\ r.kind = "save" => r.draft # 0
    /\ r.step \in {"admitted", "refused"} => r.kind \in {"start", "end"}
    /\ r.kind = "end" /\ r.step = "admitted" => es[KeyOf(r)] # None
    /\ r.kind = "mileage" /\ r.step = "served" /\ ~r.overtaken => r.entry = es[KeyOf(r)]
    /\ r.kind = "expenses" /\ r.step = "served" /\ ~r.overtaken => r.rows = Mine(r.by, rows)

\* A request that is not watched has its write among the lost; an active one is the
\* tester's, for the date on screen.
Follows(r, u, d, gone) ==
    /\ ~Watched(r) => Write(r) \subseteq gone
    /\ r.active => r.by = u
    /\ r.active /\ OnMileage(r) => r.date = d

\* Of the requests that a button waits for, one is watched at a time.
Rival(r, q) ==
    /\ Watched(r) /\ Watched(q)
    /\ \/ r.kind \in {"start", "end"} /\ q.kind \in {"start", "end"}
       \/ r.kind = "save" /\ q.kind = "save"

Typed ==
    /\ TypeOK /\ today \in Dates /\ drafts \in 0..MaxDrafts /\ draft <= drafts
    /\ screen = "mileage" => date # None

Requests ==
    /\ \A f \in Slots : In(f) => /\ Fits(requests[f], entries, stored)
                                 /\ Follows(requests[f], user, date, lost)
    /\ \A f, g \in Slots : In(f) /\ In(g) /\ Rival(requests[f], requests[g]) => f = g

\* An admitted end of a shift that has ended is one of two, and one of them is lost.
EndsOnce ==
    \A f \in Slots :
        At(f, "end", "admitted") /\ entries[KeyOf(requests[f])].end # None =>
            <<requests[f].by, requests[f].date, 0>> \in lost

\* Request r saves the form d of tester p.
Saves(r, p, d) == r.kind = "save" /\ r.by = p /\ r.draft = d

\* Unless the answer of a save of it was lost, a form is stored once; while it is
\* still filled in, its save is under way; a new form is in no row and no request.
SavedOnce ==
    /\ \A p \in People, d \in Drafts : <<p, None, d>> \notin lost =>
          /\ stored[<<p, d>>] <= 1
          /\ \A f \in Slots : In(f) /\ Saves(requests[f], p, d) /\ requests[f].step = "sent" =>
                stored[<<p, d>>] = 0
          /\ user = p /\ draft = d /\ stored[<<p, d>>] # 0 =>
                \E f \in Slots : In(f) /\ Saves(requests[f], p, d)
    /\ \A p \in People, d \in Drafts : d > drafts =>
          /\ stored[<<p, d>>] = 0
          /\ \A f \in Slots : In(f) => requests[f].draft # d

\* While nothing is in doubt on the mileage screen one request is under way at most;
\* a load shows as loading, and otherwise the screen, or the answer on its way to it,
\* tells the entry.
MileageTold ==
    "mileage" \notin doubted =>
        /\ \A f \in Slots : In(f) /\ OnMileage(requests[f]) =>
              /\ Watched(requests[f])
              /\ requests[f].kind = "mileage" => isLoading
              /\ requests[f].kind # "mileage" /\ requests[f].step = "served" =>
                    requests[f].entry = entries[KeyOf(requests[f])]
        /\ \A f, g \in Slots :
              In(f) /\ OnMileage(requests[f]) /\ In(g) /\ OnMileage(requests[g]) => f = g
        /\ date # None /\ ~Busy("mileage") => currentMileage = entries[<<user, date>>]

\* A save of this row is answered by the API and not yet by the screen.
Coming(row) ==
    \E f \in Slots : At(f, "save", "served") /\ Saves(requests[f], row[1], row[2])

\* While nothing is in doubt on the list its loads are awaited and its saves watched;
\* without a load under way it tells all rows but the one of a save on its way to it.
ListTold ==
    "expenses" \notin doubted =>
        /\ \A f \in Slots : In(f) /\ ~OnMileage(requests[f]) =>
              requests[f].awaited /\ (requests[f].kind = "save" => requests[f].active)
        /\ screen = "expenses" /\ ~(\E f \in Slots : In(f) /\ requests[f].kind = "expenses") =>
              \A row \in Row : expenses[row] + (IF Coming(row) THEN 1 ELSE 0)
                                   = Mine(user, stored)[row]

Inductive ==
    Typed /\ Requests /\ EndsOnce /\ SavedOnce /\ MileageTold /\ ListTold
-----------------------------------------------------------------------------
(* Lemmas about requests. *)

\* None is no value of the app.
LEMMA Apart ==
    None \notin Miles /\ None \notin Dates /\ None \notin MileageEntry /\ None \notin Request
BY TripsAssumption

\* The types of what a slot holds.
LEMMA RequestTypes ==
    ASSUME Inductive, NEW f \in Slots, In(f)
    PROVE  /\ requests[f] \in Request
           /\ Fits(requests[f], entries, stored) /\ Follows(requests[f], user, date, lost)
           /\ requests[f].by \in People /\ requests[f].draft \in 0..MaxDrafts
           /\ requests[f].date \in Dates \cup {None}
           /\ OnMileage(requests[f]) => KeyOf(requests[f]) \in Key
           /\ requests[f].kind \in {"start", "end"} => requests[f].miles \in Miles
           /\ requests[f].kind = "save" => requests[f].draft \in Drafts
<1>1. /\ requests[f] \in Request
      /\ Fits(requests[f], entries, stored) /\ Follows(requests[f], user, date, lost)
  BY DEF Inductive, Typed, TypeOK, Requests, In
<1>2. /\ requests[f].by \in People /\ requests[f].draft \in 0..MaxDrafts
      /\ requests[f].date \in Dates \cup {None} /\ requests[f].miles \in Miles \cup {None}
  BY <1>1 DEF Request
<1>3. OnMileage(requests[f]) => KeyOf(requests[f]) \in Key
  BY <1>1, <1>2 DEF Fits, KeyOf, Key
<1>4. requests[f].kind = "save" => requests[f].draft \in Drafts
  BY <1>1, <1>2, TripsAssumption DEF Fits, Drafts
<1>5. QED
  BY <1>1, <1>2, <1>3, <1>4 DEF Fits

\* q is request r later on: about the same, and no more awaited or active than it was.
Later(q, r) ==
    /\ q.kind = r.kind /\ q.by = r.by /\ q.date = r.date /\ q.miles = r.miles
    /\ q.draft = r.draft
    /\ (q.awaited => r.awaited) /\ (q.active => r.active)
    /\ q.step = "sent" => r.step = "sent"

\* No request begins, and a request nobody watches any more is lost.
Continue ==
    \A f \in Slots : requests'[f] # None =>
        /\ In(f) /\ Later(requests'[f], requests[f])
        /\ Watched(requests[f]) => Watched(requests'[f]) \/ Write(requests[f]) \subseteq lost'
        /\ requests'[f].active =>
              user' = user /\ (OnMileage(requests'[f]) => date' = date)

\* Requests that continue follow the screens.
LEMMA ContinueFollows ==
    ASSUME Inductive, Continue, lost \subseteq lost'
    PROVE  /\ \A f \in Slots : requests'[f] # None =>
                  Follows(requests'[f], user', date', lost')
           /\ \A f, g \in Slots :
                  requests'[f] # None /\ requests'[g] # None /\ Rival(requests'[f], requests'[g])
                      => f = g
<1>1. ASSUME NEW f \in Slots, requests'[f] # None
      PROVE  Follows(requests'[f], user', date', lost')
  <2>1. /\ In(f) /\ Later(requests'[f], requests[f])
        /\ Watched(requests[f]) => Watched(requests'[f]) \/ Write(requests[f]) \subseteq lost'
        /\ requests'[f].active =>
              user' = user /\ (OnMileage(requests'[f]) => date' = date)
    BY <1>1 DEF Continue
  <2>2. Follows(requests[f], user, date, lost)
    BY <2>1, RequestTypes
  <2>3. Write(requests'[f]) = Write(requests[f]) /\ OnMileage(requests'[f]) = OnMileage(requests[f])
    BY <2>1 DEF Later, Write, OnMileage
  <2>4. QED
    BY <2>1, <2>2, <2>3 DEF Follows, Later, Watched
<1>2. ASSUME NEW f \in Slots, NEW g \in Slots, requests'[f] # None, requests'[g] # None,
             Rival(requests'[f], requests'[g])
      PROVE  f = g
  <2>1. In(f) /\ In(g) /\ Rival(requests[f], requests[g])
    BY <1>2 DEF Continue, Later, Rival, Watched
  <2>2. QED
    BY <2>1 DEF Inductive, Requests
<1>3. QED
  BY <1>1, <1>2

\* The requests are right if they follow and fit.
LEMMA RequestsHold ==
    ASSUME Inductive, Continue, lost \subseteq lost',
           \A f \in Slots : requests'[f] # None => Fits(requests'[f], entries', stored')
    PROVE  Requests'
<1>1. \A f \in Slots : In(f)' = (requests'[f] # None)
  BY DEF In
<1>2. QED
  BY <1>1, ContinueFollows DEF Requests

\* A form's saves stay what they were while no save begins and no row is stored.
LEMMA SavedOnceStays ==
    ASSUME Inductive, Continue, lost \subseteq lost', UNCHANGED <<stored, drafts>>,
           \/ draft' = 0
           \/ /\ draft' = draft /\ user' = user
              /\ \A f \in Slots : In(f) /\ requests[f].kind = "save" =>
                    requests'[f] # None \/ Write(requests[f]) \subseteq lost'
    PROVE  SavedOnce'
<1>1. \A f \in Slots : In(f)' = (requests'[f] # None)
  BY DEF In
<1>2. ASSUME NEW p \in People, NEW d \in Drafts, <<p, None, d>> \notin lost'
      PROVE  /\ stored[<<p, d>>] <= 1
             /\ \A f \in Slots : /\ requests'[f] # None /\ Saves(requests'[f], p, d)
                                 /\ requests'[f].step = "sent"
                                 => stored[<<p, d>>] = 0
             /\ user' = p /\ draft' = d /\ stored[<<p, d>>] # 0 =>
                   \E f \in Slots : requests'[f] # None /\ Saves(requests'[f], p, d)
  <2>1. <<p, None, d>> \notin lost
    BY <1>2
  <2>2. stored[<<p, d>>] <= 1
    BY <2>1 DEF Inductive, SavedOnce
  <2>3. ASSUME NEW f \in Slots, requests'[f] # None, Saves(requests'[f], p, d),
               requests'[f].step = "sent"
        PROVE  stored[<<p, d>>] = 0
    <3>1. In(f) /\ Saves(requests[f], p, d) /\ requests[f].step = "sent"
      BY <2>3 DEF Continue, Later, Saves
    <3>2. QED
      BY <2>1, <3>1 DEF Inductive, SavedOnce
  <2>4. ASSUME user' = p, draft' = d, stored[<<p, d>>] # 0
        PROVE  \E f \in Slots : requests'[f] # None /\ Saves(requests'[f], p, d)
    <3>1. d # 0 /\ user = p /\ draft = d
      BY <2>4, TripsAssumption DEF Drafts
    <3>2. PICK f \in Slots : In(f) /\ Saves(requests[f], p, d)
      BY <2>1, <2>4, <3>1 DEF Inductive, SavedOnce
    <3>3. Write(requests[f]) = {<<p, None, d>>} /\ requests[f].kind = "save"
      BY <3>2 DEF Write, Saves
    <3>4. requests'[f] # None
      BY <1>2, <2>4, <3>1, <3>2, <3>3
    <3>5. QED
      BY <3>2, <3>4 DEF Continue, Later, Saves
  <2>5. QED
    BY <2>2, <2>3, <2>4
<1>3. ASSUME NEW p \in People, NEW d \in Drafts, d > drafts
      PROVE  /\ stored[<<p, d>>] = 0
             /\ \A f \in Slots : requests'[f] # None => requests'[f].draft # d
  BY <1>3 DEF Inductive, SavedOnce, Continue, Later
<1>4. QED
  BY <1>1, <1>2, <1>3 DEF SavedOnce

\* An admitted end stays what it was while no entry is written.
LEMMA EndsOnceStays ==
    ASSUME Inductive, Continue, lost \subseteq lost', UNCHANGED entries,
           \A f \in Slots : /\ requests'[f] # None /\ requests'[f].kind = "end"
                            /\ requests'[f].step = "admitted"
                            /\ entries[KeyOf(requests'[f])].end # None
                            => requests[f].step = "admitted"
    PROVE  EndsOnce'
<1>1. SUFFICES ASSUME NEW f \in Slots, requests'[f] # None, requests'[f].kind = "end",
                      requests'[f].step = "admitted",
                      entries[KeyOf(requests'[f])].end # None
               PROVE  <<requests'[f].by, requests'[f].date, 0>> \in lost'
  BY DEF EndsOnce, At, In
<1>2. /\ In(f) /\ requests[f].kind = "end" /\ requests[f].step = "admitted"
      /\ requests[f].by = requests'[f].by /\ requests[f].date = requests'[f].date
  BY <1>1 DEF Continue, Later
<1>3. QED
  BY <1>1, <1>2 DEF Inductive, EndsOnce, At, KeyOf

\* What the mileage screen tells stays told while nothing of its own changes.
LEMMA MileageStays ==
    ASSUME Inductive,
           \/ "mileage" \in doubted'
           \/ /\ UNCHANGED <<entries, user, date, currentMileage, isLoading>>
              /\ "mileage" \in doubted => "mileage" \in doubted'
              /\ \A f \in Slots : \/ requests'[f] = requests[f]
                                  \/ /\ In(f) => ~OnMileage(requests[f])
                                     /\ requests'[f] # None => ~OnMileage(requests'[f])
    PROVE  MileageTold'
<1>1. CASE "mileage" \in doubted'
  BY <1>1 DEF MileageTold
<1>2. CASE /\ UNCHANGED <<entries, user, date, currentMileage, isLoading>>
           /\ "mileage" \notin doubted
           /\ \A f \in Slots : \/ requests'[f] = requests[f]
                               \/ /\ In(f) => ~OnMileage(requests[f])
                                  /\ requests'[f] # None => ~OnMileage(requests'[f])
  <2>1. \A f \in Slots : requests'[f] # None /\ OnMileage(requests'[f]) =>
            In(f) /\ requests'[f] = requests[f]
    BY <1>2 DEF In
  <2>2. \A f \in Slots : In(f) /\ OnMileage(requests[f]) => requests'[f] = requests[f]
    BY <1>2 DEF In
  <2>3. ~Busy("mileage")' => ~Busy("mileage")
    <3>1. SUFFICES ASSUME NEW f \in Slots, In(f), Part(requests[f].kind) = "mileage"
                   PROVE  In(f)' /\ Part(requests'[f].kind) = "mileage"
      BY DEF Busy
    <3>2. OnMileage(requests[f])
      BY <3>1, RequestTypes DEF OnMileage, Part, Request
    <3>3. QED
      BY <2>2, <3>1, <3>2 DEF In
  <2>4. QED
    BY <1>2, <2>1, <2>2, <2>3 DEF Inductive, MileageTold, In
<1>3. QED
  BY <1>1, <1>2

\* What the list tells stays told while nothing of its own changes.
LEMMA ListStays ==
    ASSUME Inductive,
           \/ "expenses" \in doubted'
           \/ /\ UNCHANGED <<stored, user, expenses>>
              /\ screen' = screen \/ screen' # "expenses"
              /\ "expenses" \in doubted => "expenses" \in doubted'
              /\ \A f \in Slots : \/ requests'[f] = requests[f]
                                  \/ /\ In(f) => OnMileage(requests[f])
                                     /\ requests'[f] # None => OnMileage(requests'[f])
    PROVE  ListTold'
<1>1. CASE "expenses" \in doubted'
  BY <1>1 DEF ListTold
<1>2. CASE /\ UNCHANGED <<stored, user, expenses>>
           /\ screen' = screen \/ screen' # "expenses"
           /\ "expenses" \notin doubted
           /\ \A f \in Slots : \/ requests'[f] = requests[f]
                               \/ /\ In(f) => OnMileage(requests[f])
                                  /\ requests'[f] # None => OnMileage(requests'[f])
  <2>1. \A f \in Slots : requests'[f] # None /\ ~OnMileage(requests'[f]) =>
            In(f) /\ requests'[f] = requests[f]
    BY <1>2 DEF In
  <2>2. \A f \in Slots : In(f) /\ ~OnMileage(requests[f]) => requests'[f] = requests[f]
    BY <1>2 DEF In
  <2>3. (\E f \in Slots : In(f) /\ requests[f].kind = "expenses") =>
            \E f \in Slots : In(f)' /\ requests'[f].kind = "expenses"
    BY <2>2 DEF In, OnMileage
  <2>4. \A row \in Row : Coming(row)' <=> Coming(row)
    BY <2>1, <2>2 DEF Coming, At, In, OnMileage
  <2>5. \A f \in Slots : In(f)' /\ ~OnMileage(requests'[f]) =>
            requests'[f].awaited /\ (requests'[f].kind = "save" => requests'[f].active)
    BY <1>2, <2>1 DEF Inductive, ListTold, In
  <2>6. ASSUME screen' = "expenses",
               ~(\E f \in Slots : In(f)' /\ requests'[f].kind = "expenses"),
               NEW row \in Row
        PROVE  expenses'[row] + (IF Coming(row)' THEN 1 ELSE 0) = Mine(user', stored')[row]
    <3>1. expenses[row] + (IF Coming(row) THEN 1 ELSE 0) = Mine(user, stored)[row]
      BY <1>2, <2>3, <2>6 DEF Inductive, ListTold
    <3>2. Mine(user', stored') = Mine(user, stored)
      BY <1>2
    <3>3. QED
      BY <1>2, <2>4, <3>1, <3>2
  <2>7. QED
    BY <2>5, <2>6 DEF ListTold
<1>3. QED
  BY <1>1, <1>2


\* The types of what the app holds.
LEMMA StateTypes ==
    ASSUME Inductive
    PROVE  /\ entries \in [Key -> MileageEntry \cup {None}]
           /\ stored \in [Row -> Nat] /\ expenses \in [Row -> Nat]
           /\ user \in People /\ today \in Dates
           /\ screen \in {"modules", "mileage", "expenses"} /\ date \in Dates \cup {None}
           /\ currentMileage \in MileageEntry \cup {None} /\ isLoading \in BOOLEAN
           /\ viewMode \in {"list", "form"} /\ draft \in 0..MaxDrafts
           /\ requests \in [Slots -> Request \cup {None}]
           /\ doubted \subseteq {"mileage", "expenses"}
           /\ drafts \in 0..MaxDrafts /\ draft <= drafts
           /\ screen = "mileage" => date # None
BY DEF Inductive, Typed, TypeOK

-----------------------------------------------------------------------------
(* Answers of the API that write nothing. *)

\* Request f becomes q: answered, and gone if nobody awaits it.
Replies(f, q) ==
    /\ requests' = [requests EXCEPT ![f] = q]
    /\ q = None => ~requests[f].awaited
    /\ q # None =>
          /\ q \in Request /\ Later(q, requests[f])
          /\ q.awaited = requests[f].awaited /\ q.active = requests[f].active
          /\ Fits(q, entries, stored)
          /\ q.kind \in {"start", "end"} => q.step # "served"
          /\ q.kind = "end" /\ q.step = "admitted" => entries[KeyOf(q)].end = None

\* Such an answer keeps the invariant.
LEMMA ReplyKeeps ==
    ASSUME Inductive, NEW f \in Slots, In(f), requests[f].kind # "save", NEW q, Replies(f, q),
           UNCHANGED <<api, phone, history, bounds>>
    PROVE  Inductive'
<1>1. /\ requests[f] \in Request
      /\ Follows(requests[f], user, date, lost)
  BY RequestTypes
<1>2. /\ requests' \in [Slots -> Request \cup {None}] /\ requests'[f] = q
      /\ \A g \in Slots : g # f => requests'[g] = requests[g]
  BY StateTypes DEF Replies
<1>3. UNCHANGED <<entries, stored, user, screen, date, currentMileage, isLoading, expenses,
                  viewMode, draft, lost, doubted, today, drafts>>
  BY DEF api, phone, history, bounds
<1>4. Continue
  <2>1. SUFFICES ASSUME NEW g \in Slots, requests'[g] # None
                 PROVE  /\ In(g) /\ Later(requests'[g], requests[g])
                        /\ Watched(requests[g]) =>
                              Watched(requests'[g]) \/ Write(requests[g]) \subseteq lost'
                        /\ requests'[g].active =>
                              user' = user /\ (OnMileage(requests'[g]) => date' = date)
    BY DEF Continue
  <2>2. CASE g = f
    BY <1>2, <1>3, <2>1, <2>2 DEF Replies, Watched
  <2>3. CASE g # f
    BY <1>2, <1>3, <2>1, <2>3 DEF In, Later
  <2>4. QED
    BY <2>2, <2>3
<1>5. Typed'
  BY <1>2, <1>3 DEF Inductive, Typed, TypeOK
<1>6. Requests'
  <2>1. ASSUME NEW g \in Slots, requests'[g] # None
        PROVE  Fits(requests'[g], entries', stored')
    BY <1>2, <1>3, <2>1, RequestTypes DEF Replies, In
  <2>2. QED
    BY <1>3, <1>4, <2>1, RequestsHold
<1>7. EndsOnce'
  <2>1. \A g \in Slots : /\ requests'[g] # None /\ requests'[g].kind = "end"
                         /\ requests'[g].step = "admitted"
                         /\ entries[KeyOf(requests'[g])].end # None
                         => requests[g].step = "admitted"
    BY <1>2 DEF Replies
  <2>2. QED
    BY <1>3, <1>4, <2>1, EndsOnceStays
<1>8. SavedOnce'
  <2>1. \A g \in Slots : In(g) /\ requests[g].kind = "save" => requests'[g] # None
    BY <1>2 DEF In
  <2>2. QED
    BY <1>3, <1>4, <2>1, SavedOnceStays
<1>9. MileageTold'
  <2>1. CASE ~OnMileage(requests[f])
    <3>1. q # None => ~OnMileage(q)
      BY <2>1 DEF Replies, Later, OnMileage
    <3>2. QED
      BY <1>2, <1>3, <2>1, <3>1, MileageStays
  <2>2. CASE "mileage" \notin doubted /\ OnMileage(requests[f])
    <3>1. Watched(requests[f]) /\ q # None
      BY <2>2 DEF Inductive, MileageTold, Replies, Watched
    <3>2. /\ OnMileage(q) /\ Watched(q) /\ q.kind = requests[f].kind
          /\ q.kind # "mileage" => q.step # "served"
      BY <2>2, <3>1 DEF Replies, Later, OnMileage, Watched
    <3>3. \A g \in Slots : In(g)' <=> In(g)
      BY <1>2, <3>1 DEF In
    <3>4. \A g \in Slots : In(g) => requests'[g].kind = requests[g].kind
      BY <1>2, <3>2
    <3>5. Busy("mileage")' <=> Busy("mileage")
      BY <3>3, <3>4 DEF Busy
    <3>6. \A g \in Slots : In(g) => (OnMileage(requests'[g]) <=> OnMileage(requests[g]))
      BY <3>4 DEF OnMileage
    <3>7. ASSUME NEW g \in Slots, In(g), OnMileage(requests[g])
          PROVE  /\ Watched(requests'[g])
                 /\ requests'[g].kind = "mileage" => isLoading
                 /\ requests'[g].kind # "mileage" /\ requests'[g].step = "served" =>
                       requests'[g].entry = entries[KeyOf(requests'[g])]
      BY <1>2, <2>2, <3>2, <3>7 DEF Inductive, MileageTold
    <3>8. \A g, h \in Slots :
              In(g) /\ OnMileage(requests[g]) /\ In(h) /\ OnMileage(requests[h]) => g = h
      BY <2>2 DEF Inductive, MileageTold
    <3>9. date # None /\ ~Busy("mileage") => currentMileage = entries[<<user, date>>]
      BY <2>2 DEF Inductive, MileageTold
    <3>10. QED
      BY <1>3, <3>3, <3>5, <3>6, <3>7, <3>8, <3>9 DEF MileageTold
  <2>3. QED
    BY <1>3, <2>1, <2>2 DEF MileageTold
<1>10. ListTold'
  <2>1. CASE OnMileage(requests[f])
    <3>1. q # None => OnMileage(q)
      BY <2>1 DEF Replies, Later, OnMileage
    <3>2. QED
      BY <1>2, <1>3, <2>1, <3>1, ListStays
  <2>2. CASE "expenses" \notin doubted /\ ~OnMileage(requests[f])
    <3>1. requests[f].awaited /\ q # None
      BY <2>2 DEF Inductive, ListTold, Replies
    <3>2. /\ q.awaited /\ q.kind = "expenses" /\ requests[f].kind = "expenses"
      BY <1>1, <2>2, <3>1 DEF Replies, Later, OnMileage, Request
    <3>3. \A g \in Slots : In(g)' <=> In(g)
      BY <1>2, <3>1 DEF In
    <3>4. \E g \in Slots : In(g)' /\ requests'[g].kind = "expenses"
      BY <1>2, <3>2, <3>1 DEF In
    <3>5. \A g \in Slots : In(g)' /\ ~OnMileage(requests'[g]) =>
              requests'[g].awaited /\ (requests'[g].kind = "save" => requests'[g].active)
      BY <1>2, <2>2, <3>2, <3>3 DEF Inductive, ListTold
    <3>6. QED
      BY <3>4, <3>5 DEF ListTold
  <2>3. QED
    BY <1>3, <2>1, <2>2 DEF ListTold
<1>11. QED
  BY <1>5, <1>6, <1>7, <1>8, <1>9, <1>10 DEF Inductive

\* A request that leaves the API is gone if nobody awaits it.
LEMMA DoneTells ==
    ASSUME NEW rs \in [Slots -> Request \cup {None}], NEW f \in Slots, NEW step, Done(rs, f, step)
    PROVE  requests' = [rs EXCEPT ![f] = IF rs[f].awaited THEN [rs[f] EXCEPT !.step = step]
                                         ELSE None]
BY DEF Done

\* A load or a refusal is done with.
LEMMA RepliesDone ==
    ASSUME Inductive, NEW f \in Slots, In(f), NEW entry \in MileageEntry \cup {None},
           NEW rows \in [Row -> Nat], NEW step \in {"served", "refused"},
           requests[f].kind \in {"start", "end"} <=> step = "refused",
           requests[f].kind = "mileage" /\ step = "served" => entry = entries[KeyOf(requests[f])],
           requests[f].kind = "expenses" /\ step = "served" => rows = Mine(requests[f].by, stored),
           Done([requests EXCEPT ![f] = [requests[f] EXCEPT !.entry = entry, !.rows = rows]],
                f, step)
    PROVE  \E q : Replies(f, q)
<1> DEFINE r == [requests[f] EXCEPT !.entry = entry, !.rows = rows]
           q == [r EXCEPT !.step = step]
           rs == [requests EXCEPT ![f] = r]
<1>1. requests[f] \in Request /\ Fits(requests[f], entries, stored)
  BY RequestTypes
<1>2. r \in Request /\ r.awaited = requests[f].awaited
  BY <1>1 DEF Request
<1>3. rs \in [Slots -> Request \cup {None}] /\ rs[f] = r
  BY <1>2, StateTypes
<1>4. requests' = [rs EXCEPT ![f] = IF r.awaited THEN q ELSE None]
  BY <1>3, DoneTells
<1>5. requests' = [requests EXCEPT ![f] = IF r.awaited THEN q ELSE None]
  BY <1>4, StateTypes
<1>6. /\ q \in Request /\ q.awaited = requests[f].awaited /\ q.active = requests[f].active
      /\ q.kind = requests[f].kind /\ q.by = requests[f].by /\ q.date = requests[f].date
      /\ q.miles = requests[f].miles /\ q.draft = requests[f].draft
      /\ q.overtaken = requests[f].overtaken
      /\ q.step = step /\ q.entry = entry /\ q.rows = rows
  BY <1>1 DEF Request
<1> HIDE DEF q, r, rs
<1>7. Later(q, requests[f])
  BY <1>6 DEF Later
<1>8. Fits(q, entries, stored)
  BY <1>1, <1>6 DEF Fits, OnMileage, KeyOf
<1>9. CASE r.awaited
  <2>1. requests' = [requests EXCEPT ![f] = q]
    BY <1>5, <1>9
  <2>2. q # None /\ (q.kind \in {"start", "end"} => q.step # "served")
        /\ ~(q.kind = "end" /\ q.step = "admitted")
    BY <1>6, Apart
  <2>3. Replies(f, q)
    BY <1>6, <1>7, <1>8, <2>1, <2>2 DEF Replies
  <2>4. QED
    BY <2>3
<1>10. CASE ~r.awaited
  <2>1. Replies(f, None)
    BY <1>2, <1>5, <1>10 DEF Replies
  <2>2. QED
    BY <2>1
<1>11. QED
  BY <1>9, <1>10


\* The entry of a date is looked up.
LEMMA ServeMileageKeeps ==
    ASSUME Inductive, NEW f \in Slots, ServeMileage(f)
    PROVE  Inductive'
<1> DEFINE entry == entries[KeyOf(requests[f])]
<1>1. /\ In(f) /\ requests[f].kind = "mileage" /\ requests[f].step = "sent"
      /\ Done([requests EXCEPT ![f].entry = entry], f, "served")
      /\ UNCHANGED <<api, phone, history, bounds>>
  BY DEF ServeMileage, At
<1>2. requests[f] \in Request /\ entry \in MileageEntry \cup {None}
  BY <1>1, RequestTypes, StateTypes DEF OnMileage
<1>3. [requests[f] EXCEPT !.entry = entry]
          = [requests[f] EXCEPT !.entry = entry, !.rows = requests[f].rows]
      /\ requests[f].rows \in [Row -> Nat]
  BY <1>2 DEF Request
<1>4. [requests EXCEPT ![f].entry = entry]
          = [requests EXCEPT ![f] = [requests[f] EXCEPT !.entry = entry,
                                                        !.rows = requests[f].rows]]
  BY <1>3, StateTypes
<1>5. \E q : Replies(f, q)
  BY <1>1, <1>2, <1>3, <1>4, RepliesDone
<1>6. QED
  BY <1>1, <1>5, ReplyKeeps

\* The tester's expenses are listed.
LEMMA ListExpensesKeeps ==
    ASSUME Inductive, NEW f \in Slots, ListExpenses(f)
    PROVE  Inductive'
<1> DEFINE rows == Mine(requests[f].by, stored)
<1>1. /\ In(f) /\ requests[f].kind = "expenses" /\ requests[f].step = "sent"
      /\ Done([requests EXCEPT ![f].rows = rows], f, "served")
      /\ UNCHANGED <<api, phone, history, bounds>>
  BY DEF ListExpenses, At, Mine
<1>2. requests[f] \in Request /\ rows \in [Row -> Nat]
  BY <1>1, RequestTypes, StateTypes DEF Mine
<1>3. [requests[f] EXCEPT !.rows = rows]
          = [requests[f] EXCEPT !.entry = requests[f].entry, !.rows = rows]
      /\ requests[f].entry \in MileageEntry \cup {None}
  BY <1>2 DEF Request
<1>4. [requests EXCEPT ![f].rows = rows]
          = [requests EXCEPT ![f] = [requests[f] EXCEPT !.entry = requests[f].entry,
                                                        !.rows = rows]]
  BY <1>3, StateTypes
<1> HIDE DEF rows
<1>5. \E q : Replies(f, q)
  BY <1>1, <1>2, <1>3, <1>4, RepliesDone DEF rows
<1>6. QED
  BY <1>1, <1>5, ReplyKeeps

\* A start or an end is refused.
LEMMA RefusedReply ==
    ASSUME Inductive, NEW f \in Slots, In(f), requests[f].kind \in {"start", "end"},
           Done(requests, f, "refused")
    PROVE  \E q : Replies(f, q)
<1>1. requests[f] \in Request
  BY RequestTypes
<1>2. /\ requests[f].entry \in MileageEntry \cup {None} /\ requests[f].rows \in [Row -> Nat]
      /\ requests[f] = [requests[f] EXCEPT !.entry = requests[f].entry, !.rows = requests[f].rows]
  BY <1>1 DEF Request
<1>3. requests = [requests EXCEPT ![f] = [requests[f] EXCEPT !.entry = requests[f].entry,
                                                             !.rows = requests[f].rows]]
  BY <1>2, StateTypes
<1>4. Done([requests EXCEPT ![f] = [requests[f] EXCEPT !.entry = requests[f].entry,
                                                      !.rows = requests[f].rows]], f, "refused")
  BY <1>3
<1>5. QED
  BY <1>2, <1>4, RepliesDone

\* A start or an end is admitted, which an end is while its shift is under way.
LEMMA AdmittedReply ==
    ASSUME Inductive, NEW f \in Slots, In(f), requests[f].kind \in {"start", "end"},
           requests[f].kind = "end" =>
               /\ entries[KeyOf(requests[f])] # None
               /\ entries[KeyOf(requests[f])].end = None,
           requests' = [requests EXCEPT ![f].step = "admitted"]
    PROVE  \E q : Replies(f, q)
<1> DEFINE q == [requests[f] EXCEPT !.step = "admitted"]
<1>1. requests[f] \in Request /\ Fits(requests[f], entries, stored)
  BY RequestTypes
<1>2. /\ q \in Request /\ q.awaited = requests[f].awaited /\ q.active = requests[f].active
      /\ q.kind = requests[f].kind /\ q.by = requests[f].by /\ q.date = requests[f].date
      /\ q.miles = requests[f].miles /\ q.draft = requests[f].draft
      /\ q.step = "admitted"
  BY <1>1 DEF Request
<1>3. requests' = [requests EXCEPT ![f] = q]
  BY StateTypes
<1> HIDE DEF q
<1>4. q # None /\ Later(q, requests[f]) /\ KeyOf(q) = KeyOf(requests[f])
  BY <1>2, Apart DEF Later, KeyOf
<1>5. Fits(q, entries, stored)
  BY <1>1, <1>2, <1>4 DEF Fits, OnMileage
<1>6. q.kind = "end" => entries[KeyOf(q)].end = None
  BY <1>2, <1>4
<1>7. Replies(f, q)
  BY <1>2, <1>3, <1>4, <1>5, <1>6 DEF Replies
<1>8. QED
  BY <1>7

\* The checks of start_shift and end_shift.
LEMMA AdmitKeeps ==
    ASSUME Inductive, NEW f \in Slots, AdmitStart(f) \/ AdmitEnd(f)
    PROVE  Inductive'
<1>1. /\ In(f) /\ requests[f].kind \in {"start", "end"}
      /\ UNCHANGED <<api, phone, history, bounds>>
  BY DEF AdmitStart, AdmitEnd, At
<1>2. \/ Done(requests, f, "refused")
      \/ /\ requests' = [requests EXCEPT ![f].step = "admitted"]
         /\ requests[f].kind = "end" =>
               /\ entries[KeyOf(requests[f])] # None
               /\ entries[KeyOf(requests[f])].end = None
  BY DEF AdmitStart, AdmitEnd, At, Ends
<1>3. \E q : Replies(f, q)
  BY <1>1, <1>2, RefusedReply, AdmittedReply
<1>4. QED
  BY <1>1, <1>3, ReplyKeeps

-----------------------------------------------------------------------------
(* Answers of the API that write. *)

\* Request f is served with q, or gone if nobody awaits it, and the loads of its
\* part are overtaken.
Overtakes(f, q) ==
    /\ requests' \in [Slots -> Request \cup {None}]
    /\ IF requests[f].awaited THEN requests'[f] = q ELSE requests'[f] = None
    /\ q \in Request /\ Later(q, requests[f]) /\ q.step = "served"
    /\ q.awaited = requests[f].awaited /\ q.active = requests[f].active
    /\ \A g \in Slots \ {f} :
          IF In(g) /\ requests[g].kind = Part(requests[f].kind)
          THEN /\ Later(requests'[g], requests[g])
               /\ requests'[g] # None /\ requests'[g].overtaken
               /\ requests'[g].step = requests[g].step
               /\ requests'[g].awaited = requests[g].awaited
               /\ requests'[g].active = requests[g].active
          ELSE requests'[g] = requests[g]

\* What Done and Overtaking make of the requests.
LEMMA OvertakesDone ==
    ASSUME Inductive, NEW f \in Slots, In(f), requests[f].kind \in {"start", "end", "save"},
           NEW entry \in MileageEntry \cup {None},
           Done([Overtaking(f) EXCEPT ![f] = [requests[f] EXCEPT !.entry = entry]], f, "served")
    PROVE  \E q : Overtakes(f, q) /\ q.entry = entry
<1> DEFINE r == [requests[f] EXCEPT !.entry = entry]
           q == [r EXCEPT !.step = "served"]
           rs == [Overtaking(f) EXCEPT ![f] = r]
<1>1. requests[f] \in Request
  BY RequestTypes
<1>2. r \in Request /\ r.awaited = requests[f].awaited
  BY <1>1 DEF Request
<1>3. ASSUME NEW g \in Slots, In(g)
      PROVE  LET o == [requests[g] EXCEPT !.overtaken = TRUE]
             IN  /\ o \in Request /\ o # None /\ Later(o, requests[g]) /\ o.overtaken
                 /\ o.step = requests[g].step /\ o.awaited = requests[g].awaited
                 /\ o.active = requests[g].active
  <2> DEFINE o == [requests[g] EXCEPT !.overtaken = TRUE]
  <2>1. requests[g] \in Request
    BY <1>3, RequestTypes
  <2>2. /\ o \in Request /\ o.overtaken
        /\ o.kind = requests[g].kind /\ o.by = requests[g].by /\ o.date = requests[g].date
        /\ o.miles = requests[g].miles /\ o.draft = requests[g].draft
        /\ o.step = requests[g].step /\ o.awaited = requests[g].awaited
        /\ o.active = requests[g].active
    BY <2>1 DEF Request
  <2> HIDE DEF o
  <2>3. o # None /\ Later(o, requests[g])
    BY <2>2, Apart DEF Later
  <2>4. QED
    BY <2>2, <2>3 DEF o
<1>4. Overtaking(f) \in [Slots -> Request \cup {None}]
  BY <1>3, StateTypes DEF Overtaking
<1>5. rs \in [Slots -> Request \cup {None}] /\ rs[f] = r
  BY <1>2, <1>4
<1>6. requests' = [rs EXCEPT ![f] = IF r.awaited THEN q ELSE None]
  BY <1>5, DoneTells
<1>7. /\ q \in Request /\ q.step = "served" /\ q.entry = entry /\ Later(q, requests[f])
      /\ q.awaited = requests[f].awaited /\ q.active = requests[f].active
  BY <1>1 DEF Later, Request
<1>8. \A g \in Slots \ {f} :
         requests'[g] = IF In(g) /\ requests[g].kind = Part(requests[f].kind)
                        THEN [requests[g] EXCEPT !.overtaken = TRUE] ELSE requests[g]
  BY <1>4, <1>6 DEF Overtaking
<1> HIDE DEF q, r, rs
<1>9. /\ requests' \in [Slots -> Request \cup {None}]
      /\ IF requests[f].awaited THEN requests'[f] = q ELSE requests'[f] = None
  BY <1>2, <1>5, <1>6, <1>7
<1>10. Overtakes(f, q)
  BY <1>3, <1>7, <1>8, <1>9 DEF Overtakes
<1>11. QED
  BY <1>7, <1>10

\* The requests go on after such an answer.
LEMMA OvertakesContinue ==
    ASSUME Inductive, NEW f \in Slots, In(f), NEW q, Overtakes(f, q),
           UNCHANGED <<user, date, lost>>
    PROVE  Continue
<1>1. SUFFICES ASSUME NEW g \in Slots, requests'[g] # None
               PROVE  /\ In(g) /\ Later(requests'[g], requests[g])
                      /\ Watched(requests[g]) => Watched(requests'[g])
  BY DEF Continue
<1>2. CASE g = f
  BY <1>1, <1>2 DEF Overtakes, Watched
<1>3. CASE g # f /\ In(g) /\ requests[g].kind = Part(requests[f].kind)
  BY <1>3 DEF Overtakes, Watched
<1>4. CASE g # f /\ ~(In(g) /\ requests[g].kind = Part(requests[f].kind))
  BY <1>1, <1>4 DEF Overtakes, Later, In
<1>5. QED
  BY <1>2, <1>3, <1>4


\* An admitted start or end writes its entry.  If two ends of a shift are admitted one
\* of them is not watched, and lost.
LEMMA EntryKeeps ==
    ASSUME Inductive, NEW f \in Slots, In(f), requests[f].kind \in {"start", "end"},
           NEW entry \in MileageEntry, entry.end # None => requests[f].kind = "end",
           entries' = [entries EXCEPT ![KeyOf(requests[f])] = entry],
           NEW q, Overtakes(f, q), q.entry = entry,
           UNCHANGED <<stored, phone, history, bounds>>
    PROVE  Inductive'
<1> DEFINE K == KeyOf(requests[f])
<1>1. /\ requests[f] \in Request /\ K \in Key /\ Follows(requests[f], user, date, lost)
      /\ requests[f].date # None
  BY RequestTypes DEF OnMileage, Fits
<1>2. UNCHANGED <<stored, user, screen, date, currentMileage, isLoading, expenses,
                  viewMode, draft, lost, doubted, today, drafts>>
  BY DEF phone, history, bounds
<1>3. entries' \in [Key -> MileageEntry \cup {None}] /\ entries'[K] = entry /\ entry # None
      /\ \A k \in Key : k # K => entries'[k] = entries[k]
  BY <1>1, StateTypes, Apart
<1> HIDE DEF K
<1>4. Continue
  BY <1>2, OvertakesContinue
<1>5. \A g \in Slots \ {f} : requests'[g] # None =>
         /\ In(g) /\ requests'[g].kind = requests[g].kind
         /\ requests'[g].step = requests[g].step
         /\ KeyOf(requests'[g]) = KeyOf(requests[g])
         /\ requests[g].kind = "mileage" => requests'[g].overtaken
         /\ requests[g].kind # "mileage" => requests'[g] = requests[g]
  BY DEF Overtakes, Later, In, Part, KeyOf
<1>6. requests'[f] # None => /\ requests'[f] = q /\ q.kind = requests[f].kind
                             /\ q.step = "served" /\ q.by = requests[f].by
                             /\ q.date = requests[f].date /\ q.miles = requests[f].miles
                             /\ KeyOf(q) = K
  BY DEF Overtakes, Later, K, KeyOf
<1>7. Typed'
  BY <1>2, <1>3 DEF Inductive, Typed, TypeOK, Overtakes
<1>8. Requests'
  <2>1. ASSUME NEW g \in Slots, requests'[g] # None
        PROVE  Fits(requests'[g], entries', stored')
    <3>1. CASE g = f
      <4>1. Fits(requests[f], entries, stored)
        BY RequestTypes
      <4>2. QED
        BY <1>1, <1>6, <2>1, <3>1, <4>1 DEF Fits, OnMileage
    <3>2. CASE g # f
      <4>1. /\ Fits(requests[g], entries, stored) /\ requests[g].by \in People
            /\ OnMileage(requests[g]) => KeyOf(requests[g]) \in Key
        BY <1>5, <2>1, <3>2, RequestTypes
      <4>2. CASE requests[g].kind = "mileage"
        <5>1. requests'[g].kind = "mileage" /\ requests'[g].overtaken
              /\ requests'[g].step \notin {"admitted", "refused"} /\ requests'[g].date # None
          BY <1>5, <2>1, <3>2, <4>1, <4>2, <1>4 DEF Fits, OnMileage, Continue, Later
        <5>2. QED
          BY <5>1 DEF Fits
      <4>3. CASE requests[g].kind # "mileage"
        <5>1. requests'[g] = requests[g]
          BY <1>5, <2>1, <3>2, <4>3
        <5>2. requests[g].kind = "end" => entries'[KeyOf(requests[g])] \in
                                              {entry, entries[KeyOf(requests[g])]}
          BY <1>3, <4>1 DEF OnMileage
        <5>3. QED
          BY <1>2, <1>3, <4>1, <4>3, <5>1, <5>2 DEF Fits
      <4>4. QED
        BY <4>2, <4>3
    <3>3. QED
      BY <3>1, <3>2
  <2>2. QED
    BY <1>2, <1>4, <2>1, RequestsHold
<1>9. EndsOnce'
  <2>1. SUFFICES ASSUME NEW g \in Slots, requests'[g] # None, requests'[g].kind = "end",
                        requests'[g].step = "admitted",
                        entries'[KeyOf(requests'[g])].end # None
                 PROVE  <<requests'[g].by, requests'[g].date, 0>> \in lost
    BY <1>2 DEF EndsOnce, At, In
  <2>2. g # f /\ In(g) /\ requests'[g] = requests[g]
    BY <1>5, <1>6, <2>1
  <2>3. KeyOf(requests[g]) \in Key
    BY <2>1, <2>2, RequestTypes DEF OnMileage
  <2>4. CASE KeyOf(requests[g]) # K
    BY <1>3, <2>1, <2>2, <2>3, <2>4 DEF Inductive, EndsOnce, At
  <2>5. CASE KeyOf(requests[g]) = K
    <3>1. requests[f].kind = "end" /\ requests[g].kind = "end"
      BY <1>3, <2>1, <2>2, <2>5
    <3>2. requests[g].by = requests[f].by /\ requests[g].date = requests[f].date
      BY <2>5 DEF KeyOf, K
    <3>3. ~Watched(requests[f]) \/ ~Watched(requests[g])
      BY <2>2, <3>1 DEF Inductive, Requests, Rival
    <3>4. Follows(requests[g], user, date, lost)
      BY <2>2, RequestTypes
    <3>5. QED
      BY <1>1, <2>2, <3>1, <3>2, <3>3, <3>4 DEF Follows, Write
  <2>6. QED
    BY <2>4, <2>5
<1>10. SavedOnce'
  <2>1. \A g \in Slots : In(g) /\ requests[g].kind = "save" => requests'[g] # None
    BY DEF Overtakes, In, Part
  <2>2. QED
    BY <1>2, <1>4, <2>1, SavedOnceStays
<1>11. MileageTold'
  <2>1. SUFFICES ASSUME "mileage" \notin doubted PROVE MileageTold'
    BY <1>2 DEF MileageTold
  <2>2. /\ Watched(requests[f])
        /\ \A g \in Slots : In(g) /\ OnMileage(requests[g]) => g = f
    BY <2>1 DEF Inductive, MileageTold, OnMileage
  <2>3. requests'[f] = q /\ Watched(q) /\ q # None /\ OnMileage(q)
    BY <2>2, <1>6, Apart DEF Overtakes, Watched, Later, OnMileage
  <2>4. \A g \in Slots : In(g)' /\ OnMileage(requests'[g]) => g = f
    BY <1>5, <2>2 DEF In, OnMileage
  <2>5. Busy("mileage")'
    BY <2>3 DEF Busy, In, Part, OnMileage
  <2>6. QED
    BY <1>3, <1>6, <2>3, <2>4, <2>5 DEF MileageTold, In
<1>12. ListTold'
  <2>1. \A g \in Slots : \/ requests'[g] = requests[g]
                         \/ /\ In(g) => OnMileage(requests[g])
                            /\ requests'[g] # None => OnMileage(requests'[g])
    BY <1>5, <1>6 DEF OnMileage, Overtakes
  <2>2. QED
    BY <1>2, <2>1, ListStays
<1>13. QED
  BY <1>7, <1>8, <1>9, <1>10, <1>11, <1>12 DEF Inductive

\* The entry of a shift is inserted or updated, or its insertion is refused.
LEMMA WriteShiftKeeps ==
    ASSUME Inductive, NEW f \in Slots, InsertEntry(f) \/ SaveEnd(f)
    PROVE  Inductive'
<1> DEFINE K == KeyOf(requests[f])
<1>1. /\ In(f) /\ requests[f].kind \in {"start", "end"} /\ requests[f].step = "admitted"
      /\ UNCHANGED <<stored, phone, history, bounds>>
  BY DEF InsertEntry, SaveEnd, At
<1>2. /\ K \in Key /\ requests[f].miles \in Miles
      /\ requests[f].kind = "end" => entries[K] # None /\ entries[K] \in MileageEntry
  BY <1>1, RequestTypes, StateTypes DEF Fits, OnMileage
<1>3. CASE Done(requests, f, "refused") /\ UNCHANGED entries
  BY <1>1, <1>3, RefusedReply, ReplyKeeps DEF api
<1>4. ASSUME NEW entry \in MileageEntry, entry.end # None => requests[f].kind = "end",
             entries' = [entries EXCEPT ![K] = entry],
             Done([Overtaking(f) EXCEPT ![f].entry = entry], f, "served")
      PROVE  Inductive'
  <2>1. requests[f].kind # Part(requests[f].kind)
    BY <1>1 DEF Part
  <2>2. [Overtaking(f) EXCEPT ![f].entry = entry]
            = [Overtaking(f) EXCEPT ![f] = [requests[f] EXCEPT !.entry = entry]]
    BY <2>1 DEF Overtaking
  <2>3. \E q : Overtakes(f, q) /\ q.entry = entry
    BY <1>1, <1>4, <2>2, OvertakesDone
  <2>4. QED
    BY <1>1, <1>4, <2>3, EntryKeeps
<1>5. CASE InsertEntry(f) /\ entries[K] = None
  <2> DEFINE entry == [key |-> K, start |-> requests[f].miles, end |-> None]
  <2>1. entry \in MileageEntry /\ entry.end = None
    BY <1>2 DEF MileageEntry
  <2>2. /\ entries' = [entries EXCEPT ![K] = entry]
        /\ Done([Overtaking(f) EXCEPT ![f].entry = entry], f, "served")
    BY <1>5 DEF InsertEntry
  <2> HIDE DEF entry, K
  <2>3. QED
    BY <1>4, <2>1, <2>2
<1>6. CASE SaveEnd(f)
  <2> DEFINE entry == [entries[K] EXCEPT !.end = requests[f].miles]
  <2>1. requests[f].kind = "end" /\ entry \in MileageEntry
    BY <1>2, <1>6 DEF MileageEntry, SaveEnd, At
  <2>2. /\ entries' = [entries EXCEPT ![K] = entry]
        /\ Done([Overtaking(f) EXCEPT ![f].entry = entry], f, "served")
    BY <1>6 DEF SaveEnd
  <2> HIDE DEF entry, K
  <2>3. QED
    BY <1>4, <2>1, <2>2
<1>7. QED
  BY <1>3, <1>5, <1>6 DEF InsertEntry


\* A filled-in form becomes a row: its second, only if the answer of a save is lost.
LEMMA CreateExpenseKeeps ==
    ASSUME Inductive, NEW f \in Slots, CreateExpense(f)
    PROVE  Inductive'
<1> DEFINE by == requests[f].by
           form == requests[f].draft
<1>1. /\ In(f) /\ requests[f].kind = "save" /\ requests[f].step = "sent"
      /\ stored' = [stored EXCEPT ![<<by, form>>] = @ + 1]
      /\ Done(Overtaking(f), f, "served")
      /\ UNCHANGED <<entries, phone, history, bounds>>
  BY DEF CreateExpense, At
<1>2. /\ requests[f] \in Request /\ by \in People /\ form \in Drafts
      /\ Follows(requests[f], user, date, lost) /\ Fits(requests[f], entries, stored)
      /\ Write(requests[f]) = {<<by, None, form>>}
  BY <1>1, RequestTypes DEF Write
<1>3. UNCHANGED <<entries, user, screen, date, currentMileage, isLoading, expenses,
                  viewMode, draft, lost, doubted, today, drafts>>
  BY <1>1 DEF phone, history, bounds
<1>4. PICK q : Overtakes(f, q)
  <2>1. requests[f].entry \in MileageEntry \cup {None}
        /\ requests[f] = [requests[f] EXCEPT !.entry = requests[f].entry]
    BY <1>2 DEF Request
  <2>2. Overtaking(f)[f] = requests[f]
    BY <1>1 DEF Overtaking, Part
  <2>3. Overtaking(f)
            = [Overtaking(f) EXCEPT ![f] = [requests[f] EXCEPT !.entry = requests[f].entry]]
    BY <2>1, <2>2 DEF Overtaking
  <2>4. Done([Overtaking(f) EXCEPT ![f] = [requests[f] EXCEPT !.entry = requests[f].entry]],
             f, "served")
    BY <1>1, <2>3
  <2>5. QED
    BY <1>1, <2>1, <2>4, OvertakesDone
<1> HIDE DEF by, form
<1>5. Continue
  BY <1>1, <1>3, <1>4, OvertakesContinue
<1>6. \A g \in Slots \ {f} : requests'[g] # None =>
         /\ In(g) /\ requests'[g].kind = requests[g].kind
         /\ requests'[g].step = requests[g].step
         /\ requests[g].kind = "expenses" =>
               requests'[g].overtaken /\ requests'[g].awaited = requests[g].awaited
         /\ requests[g].kind # "expenses" => requests'[g] = requests[g]
  BY <1>1, <1>4 DEF Overtakes, Later, In, Part
<1>7. \A g \in Slots \ {f} : requests'[g] = None => ~In(g)
  BY <1>1, <1>4 DEF Overtakes, In, Part
<1>8. requests'[f] # None => /\ requests'[f] = q /\ q.kind = "save"
                             /\ q.step = "served" /\ q.by = by /\ q.draft = form
  BY <1>1, <1>4 DEF Overtakes, Later, by, form
<1>9. /\ stored' \in [Row -> Nat] /\ stored'[<<by, form>>] = stored[<<by, form>>] + 1
      /\ \A row \in Row : row # <<by, form>> => stored'[row] = stored[row]
  <2>1. <<by, form>> \in Row
    BY <1>2 DEF Row
  <2>2. QED
    BY <1>1, <2>1, StateTypes
<1>10. Typed'
  BY <1>3, <1>4, <1>9 DEF Inductive, Typed, TypeOK, Overtakes
<1>11. Requests'
  <2>1. ASSUME NEW g \in Slots, requests'[g] # None
        PROVE  Fits(requests'[g], entries', stored')
    <3>1. CASE g = f
      BY <1>1, <1>2, <1>4, <1>8, <2>1, <3>1 DEF Fits, OnMileage, Overtakes, Later
    <3>2. CASE g # f
      <4>1. Fits(requests[g], entries, stored)
        BY <1>6, <2>1, <3>2, RequestTypes
      <4>2. CASE requests[g].kind = "expenses"
        <5>1. requests'[g].kind = "expenses" /\ requests'[g].overtaken
              /\ requests'[g].step \notin {"admitted", "refused"}
          BY <1>6, <2>1, <3>2, <4>1, <4>2 DEF Fits
        <5>2. QED
          BY <5>1 DEF Fits, OnMileage
      <4>3. CASE requests[g].kind # "expenses"
        BY <1>3, <1>6, <2>1, <3>2, <4>1, <4>3 DEF Fits
      <4>4. QED
        BY <4>2, <4>3
    <3>3. QED
      BY <3>1, <3>2
  <2>2. QED
    BY <1>3, <1>5, <2>1, RequestsHold
<1>12. EndsOnce'
  <2>1. \A g \in Slots : /\ requests'[g] # None /\ requests'[g].kind = "end"
                         /\ requests'[g].step = "admitted"
                         /\ entries[KeyOf(requests'[g])].end # None
                         => requests[g].step = "admitted"
    BY <1>6, <1>8
  <2>2. QED
    BY <1>3, <1>5, <2>1, EndsOnceStays
<1>13. ASSUME NEW g \in Slots, In(g), Saves(requests[g], by, form), g # f
       PROVE  <<by, None, form>> \in lost
  <2>1. ~Watched(requests[f]) \/ ~Watched(requests[g])
    BY <1>1, <1>13 DEF Inductive, Requests, Rival, Saves
  <2>2. Follows(requests[g], user, date, lost) /\ Write(requests[g]) = {<<by, None, form>>}
    BY <1>13, RequestTypes DEF Write, Saves
  <2>3. QED
    BY <1>2, <2>1, <2>2 DEF Follows
<1>14. <<by, None, form>> \notin lost => stored[<<by, form>>] = 0 /\ requests'[f] # None
  <2>1. ASSUME <<by, None, form>> \notin lost
        PROVE  stored[<<by, form>>] = 0
    BY <1>1, <1>2, <2>1 DEF Inductive, SavedOnce, Saves, by, form
  <2>2. ASSUME <<by, None, form>> \notin lost
        PROVE  requests[f].awaited
    BY <1>2, <2>2 DEF Follows, Watched
  <2>3. QED
    BY <1>4, <2>1, <2>2, Apart DEF Overtakes
<1>15. SavedOnce'
  <2>1. ASSUME NEW p \in People, NEW d \in Drafts, <<p, None, d>> \notin lost
        PROVE  /\ stored'[<<p, d>>] <= 1
               /\ \A g \in Slots : /\ In(g)' /\ Saves(requests'[g], p, d)
                                   /\ requests'[g].step = "sent"
                                   => stored'[<<p, d>>] = 0
               /\ user = p /\ draft = d /\ stored'[<<p, d>>] # 0 =>
                     \E g \in Slots : In(g)' /\ Saves(requests'[g], p, d)
    <3>1. CASE p = by /\ d = form
      <4>1. stored'[<<p, d>>] = 1 /\ requests'[f] # None
        BY <1>9, <1>14, <2>1, <3>1
      <4>2. In(f)' /\ Saves(requests'[f], p, d)
        BY <1>8, <3>1, <4>1 DEF In, Saves
      <4>3. \A g \in Slots : In(g)' /\ Saves(requests'[g], p, d) => g = f
        BY <1>6, <1>13, <2>1, <3>1 DEF In, Saves
      <4>4. QED
        BY <1>8, <4>1, <4>2, <4>3
    <3>2. CASE ~(p = by /\ d = form)
      <4>1. <<p, d>> # <<by, form>> /\ <<p, d>> \in Row
        BY <3>2 DEF Row
      <4>2. stored'[<<p, d>>] = stored[<<p, d>>]
        BY <1>9, <4>1
      <4>3. \A g \in Slots : In(g) /\ Saves(requests[g], p, d) => In(g)' /\ Saves(requests'[g], p, d)
        BY <1>2, <1>6, <1>7, <3>2 DEF In, Saves, by, form
      <4>4. \A g \in Slots : In(g)' /\ Saves(requests'[g], p, d) /\ requests'[g].step = "sent" =>
                In(g) /\ Saves(requests[g], p, d) /\ requests[g].step = "sent"
        BY <1>6, <1>8 DEF In, Saves
      <4>5. QED
        BY <2>1, <4>2, <4>3, <4>4 DEF Inductive, SavedOnce
    <3>3. QED
      BY <3>1, <3>2
  <2>2. ASSUME NEW p \in People, NEW d \in Drafts, d > drafts
        PROVE  /\ stored'[<<p, d>>] = 0
               /\ \A g \in Slots : In(g)' => requests'[g].draft # d
    <3>1. /\ stored[<<p, d>>] = 0
          /\ \A g \in Slots : In(g) => requests[g].draft # d
      BY <2>2 DEF Inductive, SavedOnce
    <3>2. <<p, d>> # <<by, form>> /\ <<p, d>> \in Row
      BY <1>1, <3>1 DEF Row, form
    <3>3. QED
      BY <1>5, <1>9, <3>1, <3>2 DEF Continue, Later, In
  <2>3. QED
    BY <1>3, <2>1, <2>2 DEF SavedOnce
<1>16. MileageTold'
  <2>1. \A g \in Slots : \/ requests'[g] = requests[g]
                         \/ /\ In(g) => ~OnMileage(requests[g])
                            /\ requests'[g] # None => ~OnMileage(requests'[g])
    BY <1>1, <1>6, <1>7, <1>8 DEF OnMileage, In
  <2>2. QED
    BY <1>3, <2>1, MileageStays
<1>17. ListTold'
  <2>1. SUFFICES ASSUME "expenses" \notin doubted PROVE ListTold'
    BY <1>3 DEF ListTold
  <2>2. Watched(requests[f]) /\ requests[f].by = user
    BY <1>1, <1>2, <2>1 DEF Inductive, ListTold, OnMileage, Watched, Follows
  <2>3. requests'[f] = q /\ q # None /\ Watched(q)
    BY <1>4, <1>8, <2>2, Apart DEF Overtakes, Watched
  <2>4. \A g \in Slots : In(g) /\ requests[g].kind = "save" => g = f
    BY <1>1, <2>1, <2>2 DEF Inductive, ListTold, Requests, Rival, Watched, OnMileage
  <2>5. \A g \in Slots : In(g)' /\ ~OnMileage(requests'[g]) =>
            requests'[g].awaited /\ (requests'[g].kind = "save" => requests'[g].active)
    <3>1. ASSUME NEW g \in Slots, In(g)', ~OnMileage(requests'[g])
          PROVE  requests'[g].awaited /\ (requests'[g].kind = "save" => requests'[g].active)
      <4>1. CASE g = f
        BY <2>3, <4>1 DEF Watched
      <4>2. CASE g # f
        <5>1. /\ In(g) /\ requests'[g].kind = requests[g].kind
              /\ requests[g].kind = "expenses" => requests'[g].awaited = requests[g].awaited
              /\ requests[g].kind # "expenses" => requests'[g] = requests[g]
          BY <1>6, <3>1, <4>2 DEF In
        <5>2. requests[g].awaited /\ (requests[g].kind = "save" => requests[g].active)
          BY <2>1, <3>1, <5>1 DEF Inductive, ListTold, OnMileage
        <5>3. QED
          BY <5>1, <5>2
      <4>3. QED
        BY <4>1, <4>2
    <3>2. QED
      BY <3>1
  <2>6. (\E g \in Slots : In(g) /\ requests[g].kind = "expenses") =>
            \E g \in Slots : In(g)' /\ requests'[g].kind = "expenses"
    BY <1>1, <1>6, <1>7 DEF In
  <2>7. ASSUME NEW row \in Row
        PROVE  /\ Coming(row)' <=> row = <<by, form>>
               /\ ~Coming(row)
    <3>1. ~Coming(row)
      BY <1>1, <2>4 DEF Coming, At
    <3>2. \A g \in Slots : In(g)' /\ requests'[g].kind = "save" => g = f
      BY <1>6, <2>4 DEF In
    <3>3. Coming(row)' <=> q.by = row[1] /\ q.draft = row[2]
      BY <1>8, <2>3, <3>2 DEF Coming, At, In, Saves
    <3>4. row = <<row[1], row[2]>>
      BY DEF Row
    <3>5. q.by = by /\ q.draft = form
      BY <1>8, <2>3
    <3>6. QED
      BY <3>1, <3>3, <3>4, <3>5
  <2>8. ASSUME screen = "expenses",
               ~(\E g \in Slots : In(g)' /\ requests'[g].kind = "expenses"),
               NEW row \in Row
        PROVE  expenses[row] + (IF Coming(row)' THEN 1 ELSE 0) = Mine(user, stored')[row]
    <3>1. expenses[row] = Mine(user, stored)[row] /\ expenses[row] \in Nat
      BY <2>1, <2>6, <2>7, <2>8, StateTypes DEF Inductive, ListTold
    <3>2. CASE row = <<by, form>>
      <4>1. row[1] = user
        BY <2>2, <3>2 DEF by
      <4>2. QED
        BY <1>9, <2>7, <3>1, <3>2, <4>1 DEF Mine
    <3>3. CASE row # <<by, form>>
      BY <1>9, <2>7, <3>1, <3>3 DEF Mine
    <3>4. QED
      BY <3>2, <3>3
  <2>9. QED
    BY <1>3, <2>5, <2>8 DEF ListTold
<1>18. QED
  BY <1>10, <1>11, <1>12, <1>15, <1>16, <1>17 DEF Inductive

-----------------------------------------------------------------------------
(* What the app does with an answer, or without one. *)

\* Request f is over, or goes on with nobody awaiting it, its write then lost.
Settles(f, q) ==
    /\ requests' = [requests EXCEPT ![f] = q]
    /\ \/ q = None
       \/ /\ q = [requests[f] EXCEPT !.awaited = FALSE]
          /\ Write(requests[f]) \subseteq lost'

\* The tables are as they were and so is the tester, who keeps what is on the form
\* unless it is emptied; a save that is over was answered or is lost.
Calm(f) ==
    /\ UNCHANGED <<entries, stored, user, date, today, drafts>>
    /\ lost \subseteq lost'
    /\ \/ draft' = 0
       \/ draft' = draft /\ (requests[f].kind = "save" => Write(requests[f]) \subseteq lost')

\* Such a step keeps all but what the screens show.
LEMMA SettleKeeps ==
    ASSUME Inductive, NEW f \in Slots, In(f), NEW q, Settles(f, q), Calm(f),
           screen' = screen, isLoading' \in BOOLEAN, viewMode' \in {"list", "form"},
           currentMileage' \in MileageEntry \cup {None}, expenses' \in [Row -> Nat],
           doubted' \subseteq {"mileage", "expenses"}
    PROVE  /\ Typed' /\ Requests' /\ EndsOnce' /\ SavedOnce'
           /\ requests'[f] = q
           /\ \A g \in Slots : g # f => requests'[g] = requests[g]
           /\ q # None => q.kind = requests[f].kind
<1>1. /\ requests[f] \in Request
      /\ Follows(requests[f], user, date, lost) /\ Fits(requests[f], entries, stored)
  BY RequestTypes
<1>2. /\ requests'[f] = q /\ \A g \in Slots : g # f => requests'[g] = requests[g]
  BY StateTypes DEF Settles
<1>3. q # None => /\ q \in Request /\ ~q.awaited /\ q.active = requests[f].active
                  /\ q.kind = requests[f].kind /\ q.by = requests[f].by
                  /\ q.date = requests[f].date /\ q.miles = requests[f].miles
                  /\ q.draft = requests[f].draft /\ q.step = requests[f].step
                  /\ q.entry = requests[f].entry /\ q.rows = requests[f].rows
                  /\ q.overtaken = requests[f].overtaken
                  /\ Write(requests[f]) \subseteq lost'
  BY <1>1 DEF Settles, Request
<1>4. requests' \in [Slots -> Request \cup {None}]
  BY <1>3, StateTypes DEF Settles
<1>5. UNCHANGED <<entries, stored, user, date, today, drafts>> /\ lost \subseteq lost'
  BY DEF Calm
<1>6. Continue
  <2>1. SUFFICES ASSUME NEW g \in Slots, requests'[g] # None
                 PROVE  /\ In(g) /\ Later(requests'[g], requests[g])
                        /\ Watched(requests[g]) =>
                              Watched(requests'[g]) \/ Write(requests[g]) \subseteq lost'
                        /\ requests'[g].active =>
                              user' = user /\ (OnMileage(requests'[g]) => date' = date)
    BY DEF Continue
  <2>2. CASE g = f
    BY <1>2, <1>3, <1>5, <2>1, <2>2 DEF Later
  <2>3. CASE g # f
    BY <1>2, <1>5, <2>1, <2>3 DEF In, Later
  <2>4. QED
    BY <2>2, <2>3
<1>7. Typed'
  <2>1. draft' \in 0..MaxDrafts /\ draft' <= drafts
    <3>1. 0 \in 0..MaxDrafts /\ 0 <= drafts
      BY StateTypes, TripsAssumption
    <3>2. QED
      BY <3>1, StateTypes DEF Calm
  <2>2. QED
    BY <1>4, <1>5, <2>1 DEF Inductive, Typed, TypeOK
<1>8. Requests'
  <2>1. ASSUME NEW g \in Slots, requests'[g] # None
        PROVE  Fits(requests'[g], entries', stored')
    <3>1. CASE g = f
      BY <1>1, <1>2, <1>3, <1>5, <2>1, <3>1 DEF Fits, OnMileage, KeyOf
    <3>2. CASE g # f
      BY <1>2, <1>5, <2>1, <3>2, RequestTypes DEF In
    <3>3. QED
      BY <3>1, <3>2
  <2>2. QED
    BY <1>5, <1>6, <2>1, RequestsHold
<1>9. EndsOnce'
  <2>1. \A g \in Slots : requests'[g] # None => requests'[g].step = requests[g].step
    BY <1>2, <1>3
  <2>2. QED
    BY <1>5, <1>6, <2>1, EndsOnceStays
<1>10. SavedOnce'
  <2>1. \/ draft' = 0
        \/ /\ draft' = draft /\ user' = user
           /\ \A g \in Slots : In(g) /\ requests[g].kind = "save" =>
                 requests'[g] # None \/ Write(requests[g]) \subseteq lost'
    BY <1>2, <1>5 DEF Calm, In
  <2>2. QED
    BY <1>5, <1>6, <2>1, SavedOnceStays
<1>11. QED
  BY <1>2, <1>3, <1>7, <1>8, <1>9, <1>10

\* A load whose answer leaves nothing in doubt was the only request of its part,
\* active, and not overtaken.
LEMMA LoadedTells ==
    ASSUME NEW f \in Slots, NEW part, Loaded(f, part), part \notin doubted'
    PROVE  /\ requests[f].active /\ ~requests[f].overtaken
           /\ \A g \in Slots : g # f /\ In(g) => Part(requests[g].kind) # part
           /\ doubted' = doubted \ {part}
BY DEF Loaded

\* The parts of the app.
LEMMA Parts ==
    ASSUME Inductive, NEW f \in Slots, In(f)
    PROVE  /\ Part(requests[f].kind) = "mileage" <=> OnMileage(requests[f])
           /\ Part(requests[f].kind) = "expenses" <=> ~OnMileage(requests[f])
           /\ ~OnMileage(requests[f]) => requests[f].kind \in {"expenses", "save"}
<1>1. requests[f].kind \in {"mileage", "start", "end", "expenses", "save"}
  BY RequestTypes DEF Request
<1>2. QED
  BY <1>1 DEF Part, OnMileage

\* The screen shows the entry of its date.
LEMMA MileageAnsweredKeeps ==
    ASSUME Inductive, NEW f \in Slots, MileageAnswered(f)
    PROVE  Inductive'
<1>1. /\ In(f) /\ requests[f].kind = "mileage" /\ requests[f].step = "served"
      /\ requests[f].awaited /\ Loaded(f, "mileage")
      /\ requests' = [requests EXCEPT ![f] = None]
      /\ currentMileage' = requests[f].entry /\ isLoading' = FALSE
      /\ UNCHANGED <<api, user, screen, date, expenses, viewMode, draft, lost, bounds>>
  BY DEF MileageAnswered, Answered, At, Free, setCurrentMileage
<1>2. /\ requests[f] \in Request /\ Fits(requests[f], entries, stored)
      /\ Follows(requests[f], user, date, lost)
  BY <1>1, RequestTypes
<1>3. UNCHANGED <<entries, stored, user, screen, date, today, drafts, expenses, viewMode,
                  draft, lost>>
  BY <1>1 DEF api, bounds
<1>4. Settles(f, None) /\ Calm(f)
  BY <1>1, <1>3 DEF Settles, Calm
<1>5. doubted' \subseteq {"mileage", "expenses"}
  BY <1>1, StateTypes DEF Loaded
<1>6. currentMileage' \in MileageEntry \cup {None}
  BY <1>1, <1>2 DEF Request
<1>7. /\ Typed' /\ Requests' /\ EndsOnce' /\ SavedOnce'
      /\ requests'[f] = None /\ \A g \in Slots : g # f => requests'[g] = requests[g]
  BY <1>1, <1>3, <1>4, <1>5, <1>6, SettleKeeps, StateTypes
<1>8. MileageTold'
  <2>1. SUFFICES ASSUME "mileage" \notin doubted' PROVE MileageTold'
    BY DEF MileageTold
  <2>2. /\ requests[f].active /\ ~requests[f].overtaken
        /\ \A g \in Slots : g # f /\ In(g) => ~OnMileage(requests[g])
    BY <1>1, <2>1, LoadedTells, Parts
  <2>3. \A g \in Slots : requests'[g] # None => ~OnMileage(requests'[g])
    BY <1>7, <2>2 DEF In
  <2>4. requests[f].entry = entries[<<user, date>>]
    BY <1>1, <1>2, <2>2 DEF Fits, Follows, OnMileage, KeyOf
  <2>5. QED
    BY <1>1, <1>3, <2>3, <2>4 DEF MileageTold, In
<1>9. ListTold'
  <2>1. "expenses" \in doubted => "expenses" \in doubted'
    BY <1>1 DEF Loaded
  <2>2. QED
    BY <1>1, <1>3, <1>7, <2>1, ListStays DEF OnMileage
<1>10. QED
  BY <1>7, <1>8, <1>9 DEF Inductive

\* The screen shows the entry it has written.
LEMMA ShiftAnsweredKeeps ==
    ASSUME Inductive, NEW f \in Slots, ShiftAnswered(f)
    PROVE  Inductive'
<1>1. /\ In(f) /\ requests[f].kind \in {"start", "end"} /\ requests[f].step = "served"
      /\ requests[f].awaited
      /\ requests' = [requests EXCEPT ![f] = None]
      /\ currentMileage' = requests[f].entry
      /\ UNCHANGED <<api, user, screen, date, isLoading, expenses, viewMode, draft, history,
                     bounds>>
  BY DEF ShiftAnswered, Answered, At, Free, setCurrentMileage
<1>2. requests[f] \in Request /\ Follows(requests[f], user, date, lost)
  BY <1>1, RequestTypes
<1>3. UNCHANGED <<entries, stored, user, screen, date, isLoading, today, drafts, expenses,
                  viewMode, draft, lost, doubted>>
  BY <1>1 DEF api, history, bounds
<1>4. Settles(f, None) /\ Calm(f)
  BY <1>1, <1>3 DEF Settles, Calm
<1>5. currentMileage' \in MileageEntry \cup {None}
  BY <1>1, <1>2 DEF Request
<1>6. /\ Typed' /\ Requests' /\ EndsOnce' /\ SavedOnce'
      /\ requests'[f] = None /\ \A g \in Slots : g # f => requests'[g] = requests[g]
  BY <1>1, <1>3, <1>4, <1>5, SettleKeeps, StateTypes
<1>7. MileageTold'
  <2>1. SUFFICES ASSUME "mileage" \notin doubted PROVE MileageTold'
    BY <1>3 DEF MileageTold
  <2>2. /\ Watched(requests[f]) /\ requests[f].entry = entries[KeyOf(requests[f])]
        /\ \A g \in Slots : In(g) /\ OnMileage(requests[g]) => g = f
    BY <1>1, <2>1 DEF Inductive, MileageTold, OnMileage
  <2>3. \A g \in Slots : requests'[g] # None => ~OnMileage(requests'[g])
    BY <1>6, <2>2 DEF In
  <2>4. requests[f].entry = entries[<<user, date>>]
    BY <1>1, <1>2, <2>2 DEF Follows, OnMileage, KeyOf, Watched
  <2>5. QED
    BY <1>1, <1>3, <2>3, <2>4 DEF MileageTold, In
<1>8. ListTold'
  BY <1>1, <1>3, <1>6, ListStays DEF OnMileage
<1>9. QED
  BY <1>6, <1>7, <1>8 DEF Inductive

\* The list shows the rows that were found.
LEMMA ExpensesAnsweredKeeps ==
    ASSUME Inductive, NEW f \in Slots, ExpensesAnswered(f)
    PROVE  Inductive'
<1>1. /\ In(f) /\ requests[f].kind = "expenses" /\ requests[f].step = "served"
      /\ requests[f].awaited /\ Loaded(f, "expenses")
      /\ requests' = [requests EXCEPT ![f] = None]
      /\ expenses' = requests[f].rows
      /\ viewMode' \in {"list", viewMode}
      /\ UNCHANGED <<api, user, screen, date, currentMileage, isLoading, draft, lost, bounds>>
  BY DEF ExpensesAnswered, Answered, At, Free
<1>2. /\ requests[f] \in Request /\ Fits(requests[f], entries, stored)
      /\ Follows(requests[f], user, date, lost)
  BY <1>1, RequestTypes
<1>3. UNCHANGED <<entries, stored, user, screen, date, currentMileage, isLoading, today,
                  drafts, draft, lost>>
  BY <1>1 DEF api, bounds
<1>4. Settles(f, None) /\ Calm(f)
  BY <1>1, <1>3 DEF Settles, Calm
<1>5. doubted' \subseteq {"mileage", "expenses"} /\ viewMode' \in {"list", "form"}
  BY <1>1, StateTypes DEF Loaded
<1>6. expenses' \in [Row -> Nat]
  BY <1>1, <1>2 DEF Request
<1>7. /\ Typed' /\ Requests' /\ EndsOnce' /\ SavedOnce'
      /\ requests'[f] = None /\ \A g \in Slots : g # f => requests'[g] = requests[g]
  BY <1>1, <1>3, <1>4, <1>5, <1>6, SettleKeeps, StateTypes
<1>8. MileageTold'
  <2>1. "mileage" \in doubted => "mileage" \in doubted'
    BY <1>1 DEF Loaded
  <2>2. QED
    BY <1>1, <1>3, <1>7, <2>1, MileageStays DEF OnMileage
<1>9. ListTold'
  <2>1. SUFFICES ASSUME "expenses" \notin doubted' PROVE ListTold'
    BY DEF ListTold
  <2>2. /\ requests[f].active /\ ~requests[f].overtaken
        /\ \A g \in Slots : g # f /\ In(g) => OnMileage(requests[g])
    BY <1>1, <2>1, LoadedTells, Parts
  <2>3. \A g \in Slots : requests'[g] # None => OnMileage(requests'[g])
    BY <1>7, <2>2 DEF In
  <2>4. requests[f].rows = Mine(user, stored)
    BY <1>1, <1>2, <2>2 DEF Fits, Follows
  <2>5. \A row \in Row : ~Coming(row)'
    BY <2>3 DEF Coming, At, In, OnMileage
  <2>6. \A row \in Row : expenses'[row] \in Nat
    BY <1>6
  <2>7. \A row \in Row : expenses'[row] + (IF Coming(row)' THEN 1 ELSE 0) = Mine(user', stored')[row]
    BY <1>1, <1>3, <2>4, <2>5, <2>6
  <2>8. \A g \in Slots : In(g)' => OnMileage(requests'[g])
    BY <2>3 DEF In
  <2>9. QED
    BY <2>7, <2>8 DEF ListTold
<1>10. QED
  BY <1>7, <1>8, <1>9 DEF Inductive

\* The list shows the row it has saved.
LEMMA SaveAnsweredKeeps ==
    ASSUME Inductive, NEW f \in Slots, SaveAnswered(f)
    PROVE  Inductive'
<1> DEFINE saved == <<requests[f].by, requests[f].draft>>
<1>1. /\ In(f) /\ requests[f].kind = "save" /\ requests[f].step = "served"
      /\ requests[f].awaited
      /\ requests' = [requests EXCEPT ![f] = None]
      /\ expenses' = [expenses EXCEPT ![saved] = @ + 1]
      /\ IF requests[f].active THEN draft' = 0 /\ viewMode' = "list"
                               ELSE UNCHANGED <<draft, viewMode>>
      /\ UNCHANGED <<api, user, screen, date, currentMileage, isLoading, history, bounds>>
  BY DEF SaveAnswered, Answered, At, Free, PrependExpense
<1>2. /\ requests[f] \in Request /\ Follows(requests[f], user, date, lost) /\ saved \in Row
  BY <1>1, RequestTypes DEF Row
<1>3. UNCHANGED <<entries, stored, user, screen, date, currentMileage, isLoading, today,
                  drafts, lost, doubted>>
  BY <1>1 DEF api, history, bounds
<1>4. Settles(f, None) /\ Calm(f)
  BY <1>1, <1>2, <1>3 DEF Settles, Calm, Follows, Watched
<1>5. viewMode' \in {"list", "form"}
  BY <1>1, StateTypes
<1>6. /\ expenses' \in [Row -> Nat] /\ expenses'[saved] = expenses[saved] + 1
      /\ \A row \in Row : row # saved => expenses'[row] = expenses[row]
  BY <1>1, <1>2, StateTypes
<1>7. /\ Typed' /\ Requests' /\ EndsOnce' /\ SavedOnce'
      /\ requests'[f] = None /\ \A g \in Slots : g # f => requests'[g] = requests[g]
  BY <1>1, <1>3, <1>4, <1>5, <1>6, SettleKeeps, StateTypes
<1>8. MileageTold'
  BY <1>1, <1>3, <1>7, MileageStays DEF OnMileage
<1>9. ListTold'
  <2>1. SUFFICES ASSUME "expenses" \notin doubted PROVE ListTold'
    BY <1>3 DEF ListTold
  <2>2. Watched(requests[f])
    BY <1>1, <2>1 DEF Inductive, ListTold, OnMileage, Watched
  <2>3. \A g \in Slots : In(g) /\ requests[g].kind = "save" => g = f
    BY <1>1, <2>1, <2>2 DEF Inductive, ListTold, Requests, Rival, Watched, OnMileage
  <2>4. \A g \in Slots : In(g)' /\ ~OnMileage(requests'[g]) =>
            requests'[g].awaited /\ (requests'[g].kind = "save" => requests'[g].active)
    BY <1>7, <2>1 DEF Inductive, ListTold, In
  <2>5. (\E g \in Slots : In(g) /\ requests[g].kind = "expenses") =>
            \E g \in Slots : In(g)' /\ requests'[g].kind = "expenses"
    BY <1>1, <1>7 DEF In
  <2>6. ASSUME NEW row \in Row
        PROVE  ~Coming(row)' /\ (Coming(row) <=> row = saved)
    <3>1. row = <<row[1], row[2]>>
      BY DEF Row
    <3>2. ~Coming(row)'
      BY <1>7, <2>3 DEF Coming, At, In
    <3>3. Coming(row) <=> Saves(requests[f], row[1], row[2])
      BY <1>1, <2>3 DEF Coming, At
    <3>4. QED
      BY <1>1, <3>1, <3>2, <3>3 DEF Saves
  <2> HIDE DEF saved
  <2>7. ASSUME screen = "expenses",
               ~(\E g \in Slots : In(g)' /\ requests'[g].kind = "expenses"),
               NEW row \in Row
        PROVE  expenses'[row] + (IF Coming(row)' THEN 1 ELSE 0) = Mine(user, stored)[row]
    <3>1. /\ expenses[row] + (IF Coming(row) THEN 1 ELSE 0) = Mine(user, stored)[row]
          /\ expenses[row] \in Nat
      BY <2>1, <2>5, <2>7, StateTypes DEF Inductive, ListTold
    <3>2. QED
      BY <1>6, <2>6, <3>1
  <2>8. QED
    BY <1>3, <2>4, <2>7 DEF ListTold
<1>10. QED
  BY <1>7, <1>8, <1>9 DEF Inductive

\* A request that fails leaves its part in doubt.
LEMMA FailingKeeps ==
    ASSUME Inductive, NEW f \in Slots, In(f), NEW q, Settles(f, q), Failing(f),
           UNCHANGED <<today, drafts>>, lost \subseteq lost',
           requests[f].kind = "save" => Write(requests[f]) \subseteq lost'
    PROVE  Inductive'
<1>1. /\ UNCHANGED <<entries, stored, user, screen, date, currentMileage, expenses, viewMode,
                     draft>>
      /\ isLoading' = (isLoading /\ requests[f].kind # "mileage")
      /\ doubted' = doubted \cup {Part(requests[f].kind)}
  BY DEF Failing, api, phone
<1>2. Calm(f)
  BY <1>1 DEF Calm
<1>3. doubted' \subseteq {"mileage", "expenses"} /\ isLoading' \in BOOLEAN
  BY <1>1, StateTypes DEF Part
<1>4. /\ Typed' /\ Requests' /\ EndsOnce' /\ SavedOnce'
      /\ requests'[f] = q /\ \A g \in Slots : g # f => requests'[g] = requests[g]
      /\ q # None => q.kind = requests[f].kind
  BY <1>1, <1>2, <1>3, SettleKeeps, StateTypes
<1>5. MileageTold'
  <2>1. CASE OnMileage(requests[f])
    BY <1>1, <2>1, Parts DEF MileageTold
  <2>2. CASE ~OnMileage(requests[f])
    <3>1. isLoading' = isLoading
      BY <1>1, <2>2, StateTypes DEF OnMileage
    <3>2. QED
      BY <1>1, <1>4, <2>2, <3>1, MileageStays DEF OnMileage
  <2>3. QED
    BY <2>1, <2>2
<1>6. ListTold'
  <2>1. CASE ~OnMileage(requests[f])
    BY <1>1, <2>1, Parts DEF ListTold
  <2>2. CASE OnMileage(requests[f])
    BY <1>1, <1>4, <2>2, ListStays DEF OnMileage
  <2>3. QED
    BY <2>1, <2>2
<1>7. QED
  BY <1>4, <1>5, <1>6 DEF Inductive

\* A refusal or an answer that never comes is a failure; a save is never refused.
LEMMA FailureKeeps ==
    ASSUME Inductive, NEW f \in Slots, Refused(f) \/ TimedOut(f)
    PROVE  Inductive'
<1>1. In(f) /\ Failing(f) /\ UNCHANGED <<today, drafts>>
  BY DEF Refused, TimedOut, bounds
<1>2. CASE Refused(f)
  <2>1. requests[f].kind # "save" /\ lost' = lost
    BY <1>1, <1>2, RequestTypes DEF Refused, Fits
  <2>2. Settles(f, None)
    BY <1>2 DEF Refused, Free, Settles
  <2>3. QED
    BY <1>1, <2>1, <2>2, FailingKeeps
<1>3. CASE TimedOut(f)
  <2>1. lost' = lost \cup Write(requests[f])
    BY <1>3 DEF TimedOut
  <2>2. \/ requests' = [requests EXCEPT ![f] = None]
        \/ requests' = [requests EXCEPT ![f].awaited = FALSE]
    BY <1>3 DEF TimedOut, Free
  <2>3. CASE requests' = [requests EXCEPT ![f] = None]
    <3>1. Settles(f, None)
      BY <2>3 DEF Settles
    <3>2. QED
      BY <1>1, <2>1, <3>1, FailingKeeps
  <2>4. CASE requests' = [requests EXCEPT ![f].awaited = FALSE]
    <3> DEFINE q == [requests[f] EXCEPT !.awaited = FALSE]
    <3>1. Settles(f, q)
      BY <2>1, <2>4, StateTypes DEF Settles
    <3> HIDE DEF q
    <3>2. QED
      BY <1>1, <2>1, <3>1, FailingKeeps
  <2>5. QED
    BY <2>2, <2>3, <2>4
<1>4. QED
  BY <1>2, <1>3

-----------------------------------------------------------------------------
(* What the tester does. *)

\* A request of the tester begins: about the date of the mileage screen, which is
\* fixed at the latest now, or about the form, whose save nothing is to be rival to.
Sends(f, kind, miles, d) ==
    /\ Send(f, Sent(kind, miles, d))
    /\ UNCHANGED <<entries, stored, user, draft, lost, doubted, drafts, today,
                   currentMileage, expenses, viewMode>>
    /\ date' = date \/ (date = None /\ date' = today)
    /\ kind \in {"mileage", "start", "end", "expenses", "save"}
    /\ miles \in Miles \cup {None}
    /\ kind \in {"mileage", "start", "end"} => date' # None
    /\ kind \in {"start", "end"} => miles # None /\ ~Awaiting({"start", "end"})
    /\ IF kind = "save" THEN d = draft /\ d # 0 /\ ~Awaiting({"save"}) ELSE d = 0

\* What begins with it.
LEMMA SendTells ==
    ASSUME Inductive, NEW f \in Slots, NEW kind, NEW miles, NEW d, Sends(f, kind, miles, d)
    PROVE  /\ ~In(f) /\ requests' \in [Slots -> Request \cup {None}]
           /\ \A g \in Slots : g # f => requests'[g] = requests[g]
           /\ In(f)'
           /\ requests'[f].kind = kind /\ requests'[f].by = user /\ requests'[f].date = date'
           /\ requests'[f].miles = miles /\ requests'[f].draft = d
           /\ requests'[f].step = "sent" /\ Watched(requests'[f])
           /\ date' \in Dates \cup {None} /\ d \in 0..MaxDrafts
<1> DEFINE q == Sent(kind, miles, d)
<1>1. date' \in Dates \cup {None} /\ d \in 0..MaxDrafts
  BY StateTypes, TripsAssumption DEF Sends
<1>2. NoRows \in [Row -> Nat]
  BY DEF NoRows
<1>3. q \in Request
  BY <1>1, <1>2, StateTypes DEF Sends, Sent, Request
<1>4. /\ q.kind = kind /\ q.by = user /\ q.date = date' /\ q.miles = miles /\ q.draft = d
      /\ q.step = "sent" /\ q.awaited /\ q.active
  BY DEF Sent
<1>5. ~In(f) /\ requests' = [requests EXCEPT ![f] = q]
  BY DEF Sends, Send
<1> HIDE DEF q
<1>6. /\ requests' \in [Slots -> Request \cup {None}] /\ requests'[f] = q
      /\ \A g \in Slots : g # f => requests'[g] = requests[g]
  BY <1>3, <1>5, StateTypes
<1>7. q # None
  BY <1>3, Apart
<1>8. QED
  BY <1>1, <1>4, <1>5, <1>6, <1>7 DEF In, Watched

\* A request that begins keeps all but what the screens show.
LEMMA SendKeeps ==
    ASSUME Inductive, NEW f \in Slots, NEW kind, NEW miles, NEW d, Sends(f, kind, miles, d),
           screen' \in {"modules", "mileage", "expenses"}, screen' = "mileage" => date' # None,
           isLoading' \in BOOLEAN
    PROVE  Typed' /\ Requests' /\ EndsOnce' /\ SavedOnce'
<1>1. /\ ~In(f) /\ requests' \in [Slots -> Request \cup {None}]
      /\ \A g \in Slots : g # f => requests'[g] = requests[g]
      /\ In(f)'
      /\ requests'[f].kind = kind /\ requests'[f].by = user /\ requests'[f].date = date'
      /\ requests'[f].miles = miles /\ requests'[f].draft = d
      /\ requests'[f].step = "sent" /\ Watched(requests'[f])
      /\ date' \in Dates \cup {None} /\ d \in 0..MaxDrafts
  BY SendTells
<1>2. /\ UNCHANGED <<entries, stored, user, draft, lost, doubted, drafts, today,
                     currentMileage, expenses, viewMode>>
      /\ date' = date \/ (date = None /\ date' = today)
      /\ kind \in {"mileage", "start", "end"} => date' # None
      /\ kind \in {"start", "end"} => miles # None /\ ~Awaiting({"start", "end"})
      /\ IF kind = "save" THEN d = draft /\ d # 0 /\ ~Awaiting({"save"}) ELSE d = 0
  BY DEF Sends
<1>3. \A g \in Slots \ {f} : In(g)' => In(g) /\ requests'[g] = requests[g]
  BY <1>1 DEF In
<1>4. \A g \in Slots : In(g) => g # f /\ In(g)' /\ requests'[g] = requests[g]
  BY <1>1 DEF In
<1>5. Typed'
  BY <1>1, <1>2 DEF Inductive, Typed, TypeOK
<1>6. Requests'
  <2>1. ASSUME NEW g \in Slots, In(g)'
        PROVE  Fits(requests'[g], entries', stored') /\ Follows(requests'[g], user', date', lost')
    <3>1. CASE g = f
      BY <1>1, <1>2, <3>1 DEF Fits, Follows, OnMileage
    <3>2. CASE g # f
      <4>1. /\ Fits(requests[g], entries, stored) /\ Follows(requests[g], user, date, lost)
            /\ requests'[g] = requests[g]
        BY <1>3, <2>1, <3>2, RequestTypes
      <4>2. requests[g].active /\ OnMileage(requests[g]) => date' = date
        BY <1>2, <4>1 DEF Fits, Follows
      <4>3. QED
        BY <1>2, <4>1, <4>2 DEF Follows
    <3>3. QED
      BY <3>1, <3>2
  <2>2. ASSUME NEW g \in Slots \ {f}, In(g)'
        PROVE  ~Rival(requests'[f], requests'[g]) /\ ~Rival(requests'[g], requests'[f])
    BY <1>1, <1>2, <1>3, <2>2 DEF Rival, Awaiting, Watched
  <2>3. ASSUME NEW g \in Slots, NEW h \in Slots, In(g)', In(h)', Rival(requests'[g], requests'[h])
        PROVE  g = h
    <3>1. CASE g = f \/ h = f
      BY <2>2, <2>3, <3>1
    <3>2. CASE g # f /\ h # f
      BY <1>3, <2>3, <3>2 DEF Inductive, Requests
    <3>3. QED
      BY <3>1, <3>2
  <2>4. QED
    BY <2>1, <2>3 DEF Requests
<1>7. EndsOnce'
  <2>1. ASSUME NEW g \in Slots, At(g, "end", "admitted")'
        PROVE  At(g, "end", "admitted") /\ requests'[g] = requests[g]
    BY <1>1, <1>3, <2>1 DEF At
  <2>2. QED
    BY <1>2, <2>1 DEF Inductive, EndsOnce, KeyOf
<1>8. SavedOnce'
  <2>1. ASSUME kind = "save", <<user, None, draft>> \notin lost
        PROVE  stored[<<user, draft>>] = 0
    <3>1. draft \in Drafts
      BY <1>2, <2>1, StateTypes, TripsAssumption DEF Drafts
    <3>2. SUFFICES ASSUME NEW g \in Slots, In(g), Saves(requests[g], user, draft)
                   PROVE  FALSE
      BY <2>1, <3>1, StateTypes DEF Inductive, SavedOnce
    <3>3. ~Watched(requests[g])
      BY <1>2, <2>1, <3>2 DEF Awaiting, Watched, Saves
    <3>4. Write(requests[g]) = {<<user, None, draft>>} /\ Follows(requests[g], user, date, lost)
      BY <3>2, RequestTypes DEF Saves, Write
    <3>5. QED
      BY <2>1, <3>3, <3>4 DEF Follows
  <2>2. ASSUME NEW p \in People, NEW e \in Drafts, <<p, None, e>> \notin lost
        PROVE  /\ stored[<<p, e>>] <= 1
               /\ \A g \in Slots : In(g)' /\ Saves(requests'[g], p, e) /\ requests'[g].step = "sent"
                      => stored[<<p, e>>] = 0
               /\ user = p /\ draft = e /\ stored[<<p, e>>] # 0 =>
                     \E g \in Slots : In(g)' /\ Saves(requests'[g], p, e)
    <3>1. /\ stored[<<p, e>>] <= 1
          /\ \A g \in Slots : In(g) /\ Saves(requests[g], p, e) /\ requests[g].step = "sent" =>
                stored[<<p, e>>] = 0
          /\ user = p /\ draft = e /\ stored[<<p, e>>] # 0 =>
                \E g \in Slots : In(g) /\ Saves(requests[g], p, e)
      BY <2>2 DEF Inductive, SavedOnce
    <3>2. ASSUME Saves(requests'[f], p, e) PROVE stored[<<p, e>>] = 0
      BY <1>1, <1>2, <2>1, <2>2, <3>2 DEF Saves
    <3>3. QED
      BY <1>3, <1>4, <3>1, <3>2
  <2>3. ASSUME NEW p \in People, NEW e \in Drafts, e > drafts
        PROVE  /\ stored[<<p, e>>] = 0
               /\ \A g \in Slots : In(g)' => requests'[g].draft # e
    <3>1. /\ stored[<<p, e>>] = 0
          /\ \A g \in Slots : In(g) => requests[g].draft # e
      BY <2>3 DEF Inductive, SavedOnce
    <3>2. requests'[f].draft # e
      BY <1>1, <1>2, <2>3, StateTypes, TripsAssumption DEF Drafts
    <3>3. QED
      BY <1>3, <3>1, <3>2
  <2>4. QED
    BY <1>2, <2>2, <2>3 DEF SavedOnce
<1>9. QED
  BY <1>5, <1>6, <1>7, <1>8

\* While the mileage screen is in no doubt and waits for nothing, what it sends is
\* the one request of its part.
LEMMA SendMileageKeeps ==
    ASSUME Inductive, NEW f \in Slots, NEW kind \in {"mileage", "start", "end"}, NEW miles,
           Sends(f, kind, miles, 0), screen' = "mileage",
           IF kind = "mileage" THEN date = None /\ isLoading' = TRUE
                               ELSE date' = date /\ isLoading' = isLoading /\ ~isLoading
    PROVE  Inductive'
<1>1. Typed' /\ Requests' /\ EndsOnce' /\ SavedOnce'
  <2>1. isLoading' \in BOOLEAN /\ date' # None
    BY StateTypes DEF Sends
  <2>2. QED
    BY <2>1, SendKeeps
<1>2. /\ ~In(f) /\ \A g \in Slots : g # f => requests'[g] = requests[g]
      /\ In(f)' /\ requests'[f].kind = kind
      /\ requests'[f].step = "sent" /\ Watched(requests'[f])
  BY SendTells
<1>3. /\ UNCHANGED <<entries, stored, user, doubted, currentMileage, expenses>>
      /\ kind \in {"start", "end"} => ~Awaiting({"start", "end"})
  BY DEF Sends
<1>4. MileageTold'
  <2>1. SUFFICES ASSUME "mileage" \notin doubted PROVE MileageTold'
    BY <1>3 DEF MileageTold
  <2>2. ASSUME NEW g \in Slots, In(g), OnMileage(requests[g])
        PROVE  FALSE
    <3>1. Watched(requests[g]) /\ (requests[g].kind = "mileage" => isLoading)
      BY <2>1, <2>2 DEF Inductive, MileageTold
    <3>2. Fits(requests[g], entries, stored) /\ Follows(requests[g], user, date, lost)
      BY <2>2, RequestTypes
    <3>3. date # None
      BY <2>2, <3>1, <3>2 DEF Fits, Follows, Watched
    <3>4. kind # "mileage" /\ ~isLoading
      BY <3>3
    <3>5. QED
      BY <1>3, <2>2, <3>1, <3>4 DEF Awaiting, Watched, OnMileage
  <2>3. \A g \in Slots : In(g)' /\ OnMileage(requests'[g]) => g = f
    BY <1>2, <2>2 DEF In
  <2>4. Busy("mileage")'
    BY <1>2 DEF Busy, Part
  <2>5. kind = "mileage" => isLoading'
    OBVIOUS
  <2>6. QED
    BY <1>2, <2>3, <2>4, <2>5 DEF MileageTold
<1>5. ListTold'
  <2>1. OnMileage(requests'[f])
    BY <1>2 DEF OnMileage
  <2>2. QED
    BY <1>2, <1>3, <2>1, ListStays
<1>6. QED
  BY <1>1, <1>4, <1>5 DEF Inductive

\* The list does not speak while it loads; a save that begins changes nothing of it.
LEMMA SendExpensesKeeps ==
    ASSUME Inductive, NEW f \in Slots, NEW kind \in {"expenses", "save"}, NEW miles, NEW d,
           Sends(f, kind, miles, d), UNCHANGED <<date, isLoading>>, screen' = "expenses",
           kind = "save" => screen = "expenses"
    PROVE  Inductive'
<1>1. Typed' /\ Requests' /\ EndsOnce' /\ SavedOnce'
  BY SendKeeps, StateTypes
<1>2. /\ ~In(f) /\ \A g \in Slots : g # f => requests'[g] = requests[g]
      /\ In(f)' /\ requests'[f].kind = kind
      /\ requests'[f].step = "sent" /\ Watched(requests'[f])
  BY SendTells
<1>3. UNCHANGED <<entries, stored, user, doubted, currentMileage, expenses>>
  BY DEF Sends
<1>4. MileageTold'
  <2>1. ~OnMileage(requests'[f])
    BY <1>2 DEF OnMileage
  <2>2. QED
    BY <1>2, <1>3, <2>1, MileageStays
<1>5. ListTold'
  <2>1. SUFFICES ASSUME "expenses" \notin doubted PROVE ListTold'
    BY <1>3 DEF ListTold
  <2>2. \A g \in Slots : In(g)' /\ ~OnMileage(requests'[g]) =>
            requests'[g].awaited /\ (requests'[g].kind = "save" => requests'[g].active)
    BY <1>2, <2>1 DEF Inductive, ListTold, In, Watched
  <2>3. ASSUME ~(\E g \in Slots : In(g)' /\ requests'[g].kind = "expenses"), NEW row \in Row
        PROVE  expenses[row] + (IF Coming(row)' THEN 1 ELSE 0) = Mine(user, stored)[row]
    <3>1. kind = "save"
      BY <1>2, <2>3
    <3>2. ~(\E g \in Slots : In(g) /\ requests[g].kind = "expenses")
      BY <1>2, <2>3 DEF In
    <3>3. Coming(row)' <=> Coming(row)
      BY <1>2 DEF Coming, At, In
    <3>4. QED
      BY <2>1, <3>1, <3>2, <3>3 DEF Inductive, ListTold
  <2>4. QED
    BY <1>3, <2>2, <2>3 DEF ListTold
<1>6. QED
  BY <1>1, <1>4, <1>5 DEF Inductive

\* The screens are opened: the first visit of the mileage screen loads its date, and
\* each of the expense screen its list.
LEMMA OpenKeeps ==
    ASSUME Inductive, NEW f \in Slots,
           (OpenMileage(f) /\ date = None) \/ OpenExpenses(f)
    PROVE  Inductive'
<1>1. CASE OpenMileage(f) /\ date = None
  <2>1. /\ date' = today /\ isLoading' = TRUE /\ Send(f, Sent("mileage", None, 0))
        /\ screen' = "mileage" /\ today \in Dates
        /\ UNCHANGED <<entries, stored, user, draft, lost, doubted, drafts, today,
                       currentMileage, expenses, viewMode>>
    BY <1>1, StateTypes DEF OpenMileage, api, history, bounds
  <2>2. Sends(f, "mileage", None, 0)
    BY <1>1, <2>1, Apart DEF Sends
  <2>3. QED
    BY <1>1, <2>1, <2>2, SendMileageKeeps
<1>2. CASE OpenExpenses(f)
  <2>1. Sends(f, "expenses", None, 0)
    BY <1>2 DEF OpenExpenses, Sends, api, history, bounds
  <2>2. QED
    BY <1>2, <2>1, SendExpensesKeeps DEF OpenExpenses
<1>3. QED
  BY <1>1, <1>2

\* The buttons: disabled while what they have sent is waited for.
LEMMA PressKeeps ==
    ASSUME Inductive, NEW f \in Slots,
           \/ \E miles \in Miles : StartShift(f, miles) \/ EndShift(f, miles)
           \/ SaveExpense(f)
    PROVE  Inductive'
<1>1. ASSUME NEW miles \in Miles, StartShift(f, miles) \/ EndShift(f, miles)
      PROVE  Inductive'
  <2>1. PICK kind \in {"start", "end"} :
            /\ screen = "mileage" /\ SaveEnabled
            /\ Press(f, kind, miles, 0)
    BY <1>1 DEF StartShift, EndShift
  <2>2. date # None /\ ~isLoading /\ ~Awaiting({"start", "end"}) /\ miles # None
    BY <2>1, StateTypes, Apart DEF SaveEnabled
  <2>3. /\ UNCHANGED <<date, isLoading, screen>>
        /\ Sends(f, kind, miles, 0)
    BY <2>1, <2>2 DEF Press, Sends, api, history
  <2>4. QED
    BY <2>1, <2>2, <2>3, SendMileageKeeps
<1>2. CASE SaveExpense(f)
  <2>1. /\ screen = "expenses" /\ draft # 0 /\ ~Awaiting({"save"})
        /\ Press(f, "save", None, draft)
    BY <1>2 DEF SaveExpense, OnForm, SavingEnabled
  <2>2. /\ UNCHANGED <<date, isLoading, screen>>
        /\ Sends(f, "save", None, draft)
    BY <2>1 DEF Press, Sends, api, history
  <2>3. QED
    BY <2>1, <2>2, SendExpensesKeeps
<1>3. QED
  BY <1>1, <1>2

\* No request changes, nor what the screens show; a form is left as it is, emptied,
\* or filled in anew.
Quiet ==
    /\ UNCHANGED <<entries, stored, user, date, currentMileage, isLoading, expenses,
                   requests, lost, doubted>>
    /\ screen' = screen \/ (screen' = "mileage" /\ date # None)
    /\ today' \in Dates /\ viewMode' \in {"list", "form"}
    /\ \/ draft' \in {0, draft} /\ drafts' = drafts
       \/ draft' = drafts + 1 /\ drafts' = drafts + 1 /\ drafts < MaxDrafts

\* Such a step keeps the invariant.
LEMMA QuietKeeps ==
    ASSUME Inductive, Quiet
    PROVE  Inductive'
<1>1. /\ UNCHANGED <<entries, stored, user, date, currentMileage, isLoading, expenses,
                     requests, lost, doubted>>
      /\ screen' = screen \/ (screen' = "mileage" /\ date # None)
      /\ \A f \in Slots : In(f)' <=> In(f)
  BY DEF Quiet, In
<1>2. Typed'
  <2>1. /\ draft' \in 0..MaxDrafts /\ drafts' \in 0..MaxDrafts /\ draft' <= drafts'
    BY StateTypes, TripsAssumption DEF Quiet
  <2>2. screen' \in {"modules", "mileage", "expenses"} /\ (screen' = "mileage" => date' # None)
    BY <1>1, StateTypes
  <2>3. today' \in Nat
    BY TripsAssumption DEF Quiet, Dates
  <2>4. QED
    BY <1>1, <2>1, <2>2, <2>3 DEF Inductive, Typed, TypeOK, Quiet
<1>3. Requests' /\ EndsOnce'
  BY <1>1 DEF Inductive, Requests, EndsOnce, At, KeyOf
<1>4. SavedOnce'
  <2>1. drafts \in Nat /\ drafts' \in Nat /\ drafts' >= drafts
    BY StateTypes, TripsAssumption DEF Quiet
  <2>2. ASSUME NEW p \in People, NEW d \in Drafts, <<p, None, d>> \notin lost
        PROVE  /\ stored[<<p, d>>] <= 1
               /\ \A f \in Slots : In(f) /\ Saves(requests[f], p, d) /\ requests[f].step = "sent" =>
                     stored[<<p, d>>] = 0
               /\ user = p /\ draft' = d /\ stored[<<p, d>>] # 0 =>
                     \E f \in Slots : In(f) /\ Saves(requests[f], p, d)
    <3>1. draft' = d => draft = d \/ d > drafts
      BY <2>1, TripsAssumption DEF Quiet, Drafts
    <3>2. QED
      BY <2>2, <3>1 DEF Inductive, SavedOnce
  <2>3. ASSUME NEW p \in People, NEW d \in Drafts, d > drafts'
        PROVE  /\ stored[<<p, d>>] = 0
               /\ \A f \in Slots : In(f) => requests[f].draft # d
    <3>1. d > drafts
      BY <2>1, <2>3, TripsAssumption DEF Drafts
    <3>2. QED
      BY <3>1 DEF Inductive, SavedOnce
  <2>4. QED
    BY <1>1, <2>2, <2>3 DEF SavedOnce
<1>5. MileageTold'
  BY <1>1, MileageStays
<1>6. ListTold'
  BY <1>1, ListStays
<1>7. QED
  BY <1>2, <1>3, <1>4, <1>5, <1>6 DEF Inductive

\* Quiet are a later visit of the mileage screen, the buttons of the expense screen,
\* and midnight.
LEMMA QuietSteps ==
    ASSUME Inductive,
           \/ \E f \in Slots : OpenMileage(f) /\ date # None
           \/ openNewExpense \/ Back \/ FillIn \/ Midnight
    PROVE  Inductive'
<1>1. ASSUME NEW f \in Slots, OpenMileage(f), date # None
      PROVE  Quiet
  BY <1>1, StateTypes DEF OpenMileage, Quiet, api, history, bounds
<1>2. CASE openNewExpense \/ Back \/ FillIn
  <2>1. /\ UNCHANGED <<entries, stored, user, date, currentMileage, isLoading, expenses,
                       requests, lost, doubted, screen, today>>
        /\ viewMode' \in {"list", "form"}
    BY <1>2 DEF openNewExpense, Back, FillIn, View, api, history
  <2>2. \/ draft' \in {0, draft} /\ drafts' = drafts
        \/ draft' = drafts + 1 /\ drafts' = drafts + 1 /\ drafts < MaxDrafts
    BY <1>2 DEF openNewExpense, Back, FillIn, View
  <2>3. QED
    BY <2>1, <2>2, QuietKeeps, StateTypes DEF Quiet
<1>3. CASE Midnight
  <2>1. today' \in Dates
    BY <1>3, StateTypes, TripsAssumption DEF Midnight, Dates
  <2>2. QED
    BY <1>3, <2>1, QuietKeeps, StateTypes DEF Midnight, Quiet, api, phone, history
<1>4. QED
  BY <1>1, <1>2, <1>3, QuietKeeps

\* Loads stay awaited when their screen is left, but are active no more.
LEMMA LeaveKeeps ==
    ASSUME Inductive, Leave
    PROVE  Inductive'
<1>1. /\ screen' = "modules"
      /\ UNCHANGED <<entries, stored, user, date, currentMileage, isLoading, expenses,
                     viewMode, draft, lost, doubted, today, drafts>>
  BY DEF Leave, api, history, bounds
<1>2. ASSUME NEW f \in Slots
      PROVE  /\ ~In(f) => requests'[f] = None
             /\ In(f) /\ requests[f].kind # "expenses" => requests'[f] = requests[f]
             /\ In(f) /\ requests[f].kind = "expenses" =>
                   requests'[f] = [requests[f] EXCEPT !.active = FALSE]
  BY <1>2 DEF Leave, In
<1>3. ASSUME NEW f \in Slots, In(f)
      PROVE  /\ requests'[f] \in Request /\ requests'[f] # None
             /\ Later(requests'[f], requests[f])
             /\ requests'[f].awaited = requests[f].awaited
             /\ requests'[f].step = requests[f].step /\ requests'[f].kind = requests[f].kind
             /\ Fits(requests'[f], entries, stored)
  <2>1. requests[f] \in Request /\ Fits(requests[f], entries, stored)
    BY <1>3, RequestTypes
  <2>2. CASE requests[f].kind # "expenses"
    BY <1>2, <1>3, <2>1, <2>2, Apart DEF Later
  <2>3. CASE requests[f].kind = "expenses"
    <3> DEFINE q == [requests[f] EXCEPT !.active = FALSE]
    <3>1. /\ q \in Request /\ q.kind = requests[f].kind /\ q.by = requests[f].by
          /\ q.date = requests[f].date /\ q.miles = requests[f].miles
          /\ q.draft = requests[f].draft /\ q.step = requests[f].step
          /\ q.awaited = requests[f].awaited /\ ~q.active /\ q.rows = requests[f].rows
          /\ q.overtaken = requests[f].overtaken
      BY <2>1 DEF Request
    <3>2. requests'[f] = q
      BY <1>2, <1>3, <2>3
    <3> HIDE DEF q
    <3>3. Later(q, requests[f]) /\ Fits(q, entries, stored)
      BY <2>1, <2>3, <3>1 DEF Later, Fits, OnMileage
    <3>4. QED
      BY <3>1, <3>2, <3>3, Apart
  <2>4. QED
    BY <2>2, <2>3
<1>4. \A f \in Slots : requests'[f] # None => In(f)
  BY <1>2
<1>5. \A f \in Slots : In(f) /\ requests[f].kind # "expenses" => requests'[f] = requests[f]
  BY <1>2
<1>6. Continue
  <2>1. SUFFICES ASSUME NEW f \in Slots, requests'[f] # None
                 PROVE  /\ In(f) /\ Later(requests'[f], requests[f])
                        /\ Watched(requests[f]) =>
                              Watched(requests'[f]) \/ Write(requests[f]) \subseteq lost'
                        /\ requests'[f].active =>
                              user' = user /\ (OnMileage(requests'[f]) => date' = date)
    BY DEF Continue
  <2>2. requests[f].kind = "expenses" => Write(requests[f]) = {}
    BY DEF Write
  <2>3. QED
    BY <1>1, <1>3, <1>4, <1>5, <2>1, <2>2
<1>7. Typed'
  <2>1. requests' \in [Slots -> Request \cup {None}]
    <3>1. \A f \in Slots : requests'[f] \in Request \cup {None}
      BY <1>2, <1>3
    <3>2. QED
      BY <3>1 DEF Leave
  <2>2. QED
    BY <1>1, <2>1 DEF Inductive, Typed, TypeOK
<1>8. Requests'
  BY <1>1, <1>3, <1>4, <1>6, RequestsHold
<1>9. EndsOnce'
  BY <1>1, <1>3, <1>4, <1>6, EndsOnceStays
<1>10. SavedOnce'
  BY <1>1, <1>3, <1>6, SavedOnceStays
<1>11. MileageTold'
  <2>1. \A f \in Slots : \/ requests'[f] = requests[f]
                         \/ /\ In(f) => ~OnMileage(requests[f])
                            /\ requests'[f] # None => ~OnMileage(requests'[f])
    BY <1>2, <1>3, <1>4 DEF OnMileage, In
  <2>2. QED
    BY <1>1, <2>1, MileageStays
<1>12. ListTold'
  BY <1>1, <1>3, <1>4, <1>5 DEF Inductive, ListTold, In, OnMileage
<1>13. QED
  BY <1>7, <1>8, <1>9, <1>10, <1>11, <1>12 DEF Inductive

\* After a sign-out or a restart nothing is active: what was under way leaves its
\* write lost and its part in doubt.
LEMMA AbandonKeeps ==
    ASSUME Inductive, NEW awaited \in BOOLEAN, Abandon(awaited), user' \in People,
           currentMileage' \in MileageEntry \cup {None}, isLoading' \in BOOLEAN,
           expenses' \in [Row -> Nat]
    PROVE  Inductive'
<1>1. /\ UNCHANGED <<entries, stored, today, drafts>>
      /\ lost' = lost \cup UNION {Write(requests[f]) : f \in {g \in Slots : In(g)}}
      /\ doubted' = doubted \cup {Part(requests[f].kind) : f \in {g \in Slots : In(g)}}
      /\ screen' = "modules" /\ date' = None /\ viewMode' = "list" /\ draft' = 0
  BY DEF Abandon, api
<1>2. \A f \in Slots : In(f) =>
          Write(requests[f]) \subseteq lost' /\ Part(requests[f].kind) \in doubted'
  BY <1>1
<1>3. ASSUME NEW f \in Slots, requests'[f] # None
      PROVE  /\ In(f)
             /\ requests'[f] = [requests[f] EXCEPT !.active = FALSE,
                                                   !.awaited = requests[f].awaited /\ awaited]
  BY <1>3 DEF Abandon
<1>4. ASSUME NEW f \in Slots, requests'[f] # None
      PROVE  /\ requests'[f] \in Request /\ ~requests'[f].active
             /\ Later(requests'[f], requests[f])
             /\ requests'[f].step = requests[f].step
             /\ Fits(requests'[f], entries, stored)
  <2> DEFINE q == [requests[f] EXCEPT !.active = FALSE,
                                      !.awaited = requests[f].awaited /\ awaited]
  <2>1. requests[f] \in Request /\ Fits(requests[f], entries, stored)
    BY <1>3, <1>4, RequestTypes
  <2>2. (requests[f].awaited /\ awaited) \in BOOLEAN
    OBVIOUS
  <2>3. /\ q \in Request /\ q.kind = requests[f].kind /\ q.by = requests[f].by
        /\ q.date = requests[f].date /\ q.miles = requests[f].miles
        /\ q.draft = requests[f].draft /\ q.step = requests[f].step
        /\ (q.awaited => requests[f].awaited) /\ ~q.active /\ q.rows = requests[f].rows
        /\ q.entry = requests[f].entry /\ q.overtaken = requests[f].overtaken
    BY <2>1, <2>2 DEF Request
  <2>4. requests'[f] = q
    BY <1>3, <1>4
  <2> HIDE DEF q
  <2>5. Later(q, requests[f]) /\ Fits(q, entries, stored)
    BY <2>1, <2>3 DEF Later, Fits, OnMileage, KeyOf
  <2>6. QED
    BY <2>3, <2>4, <2>5
<1>5. Continue
  BY <1>2, <1>3, <1>4 DEF Continue
<1>6. lost \subseteq lost'
  BY <1>1
<1>7. Typed'
  <2>1. requests' \in [Slots -> Request \cup {None}]
    <3>1. \A f \in Slots : requests'[f] \in Request \cup {None}
      BY <1>4
    <3>2. QED
      BY <3>1 DEF Abandon
  <2>2. doubted' \subseteq {"mileage", "expenses"}
    BY <1>1, StateTypes DEF Part
  <2>3. 0 \in 0..MaxDrafts /\ 0 <= drafts
    BY StateTypes, TripsAssumption
  <2>4. QED
    BY <1>1, <2>1, <2>2, <2>3 DEF Inductive, Typed, TypeOK
<1>8. Requests'
  BY <1>1, <1>4, <1>5, <1>6, RequestsHold
<1>9. EndsOnce'
  BY <1>1, <1>4, <1>5, <1>6, EndsOnceStays
<1>10. SavedOnce'
  BY <1>1, <1>5, <1>6, SavedOnceStays
<1>11. \A f \in Slots : In(f)' => In(f) /\ requests'[f].kind = requests[f].kind
  BY <1>3, <1>4 DEF In, Later
<1>12. MileageTold'
  <2>1. "mileage" \notin doubted' => \A f \in Slots : In(f)' => ~OnMileage(requests'[f])
    BY <1>2, <1>11, Parts DEF OnMileage
  <2>2. QED
    BY <1>1, <2>1 DEF MileageTold
<1>13. ListTold'
  <2>1. "expenses" \notin doubted' => \A f \in Slots : In(f)' => OnMileage(requests'[f])
    BY <1>2, <1>11, Parts DEF OnMileage
  <2>2. QED
    BY <1>1, <2>1 DEF ListTold
<1>14. QED
  BY <1>7, <1>8, <1>9, <1>10, <1>12, <1>13 DEF Inductive

\* Sign-out and sign-in, and the restart of the app.
LEMMA SwitchKeeps ==
    ASSUME Inductive, (\E p \in People : SwitchUser(p)) \/ Restart
    PROVE  Inductive'
<1>1. CASE \E p \in People : SwitchUser(p)
  BY <1>1, AbandonKeeps, StateTypes DEF SwitchUser
<1>2. CASE Restart
  <2>1. NoRows \in [Row -> Nat]
    BY DEF NoRows
  <2>2. QED
    BY <1>2, <2>1, AbandonKeeps, StateTypes DEF Restart
<1>3. QED
  BY <1>1, <1>2

-----------------------------------------------------------------------------
(* The theorems. *)

\* Nothing is stored, shown or under way at first.
LEMMA InitInductive == Init => Inductive
<1>1. SUFFICES ASSUME Init PROVE Inductive
  OBVIOUS
<1>2. \A f \in Slots : ~In(f)
  BY <1>1 DEF Init, In
<1>3. Typed
  <2>1. {MaxDays, MaxMiles, MaxDrafts} \subseteq Nat /\ MaxDays >= 1
    BY TripsAssumption
  <2>2. NoRows \in [Row -> Nat]
    BY DEF NoRows
  <2>3. today \in Dates /\ today \in Nat
    BY <1>1, <2>1 DEF Init, Dates
  <2>4. entries \in [Key -> MileageEntry \cup {None}] /\ requests \in [Slots -> Request \cup {None}]
    BY <1>1 DEF Init
  <2>5. drafts \in 0..MaxDrafts /\ draft \in 0..MaxDrafts /\ draft <= drafts
    BY <1>1, <2>1 DEF Init
  <2>6. QED
    BY <1>1, <2>2, <2>3, <2>4, <2>5 DEF Init, Typed, TypeOK
<1>4. Requests /\ EndsOnce
  BY <1>2 DEF Requests, EndsOnce, At
<1>5. \A row \in Row : stored[row] = 0 /\ expenses[row] = 0
  BY <1>1 DEF Init, NoRows
<1>6. SavedOnce
  <2>1. \A p \in People, d \in Drafts : stored[<<p, d>>] = 0
    BY <1>5 DEF Row
  <2>2. QED
    BY <1>2, <2>1 DEF SavedOnce
<1>7. MileageTold
  BY <1>1, <1>2 DEF Init, MileageTold
<1>8. ListTold
  BY <1>1, <1>2 DEF Init, ListTold
<1>9. QED
  BY <1>3, <1>4, <1>6, <1>7, <1>8 DEF Inductive

\* Every step keeps it.
LEMMA StepInductive == Inductive /\ [Next]_vars => Inductive'
<1>1. SUFFICES ASSUME Inductive, [Next]_vars PROVE Inductive'
  OBVIOUS
<1>2. ASSUME NEW f \in Slots,
             \/ ServeMileage(f) \/ AdmitStart(f) \/ AdmitEnd(f) \/ InsertEntry(f) \/ SaveEnd(f)
             \/ ListExpenses(f) \/ CreateExpense(f)
      PROVE  Inductive'
  BY <1>1, <1>2, ServeMileageKeeps, AdmitKeeps, WriteShiftKeeps, ListExpensesKeeps,
     CreateExpenseKeeps
<1>3. ASSUME NEW f \in Slots,
             \/ MileageAnswered(f) \/ ShiftAnswered(f) \/ ExpensesAnswered(f) \/ SaveAnswered(f)
             \/ Refused(f) \/ TimedOut(f)
      PROVE  Inductive'
  BY <1>1, <1>3, MileageAnsweredKeeps, ShiftAnsweredKeeps, ExpensesAnsweredKeeps,
     SaveAnsweredKeeps, FailureKeeps
<1>4. ASSUME NEW f \in Slots,
             \/ OpenMileage(f) \/ OpenExpenses(f) \/ SaveExpense(f)
             \/ \E miles \in Miles : StartShift(f, miles) \/ EndShift(f, miles)
      PROVE  Inductive'
  BY <1>1, <1>4, OpenKeeps, QuietSteps, PressKeeps
<1>5. CASE Leave \/ openNewExpense \/ Back \/ FillIn \/ Midnight
  BY <1>1, <1>5, LeaveKeeps, QuietSteps
<1>6. CASE (\E p \in People : SwitchUser(p)) \/ Restart
  BY <1>1, <1>6, SwitchKeeps
<1>7. CASE UNCHANGED vars
  <2>1. Quiet
    BY <1>1, <1>7, StateTypes DEF Quiet, vars, api, phone, history, bounds
  <2>2. QED
    BY <1>1, <2>1, QuietKeeps
<1>8. QED
  BY <1>1, <1>2, <1>3, <1>4, <1>5, <1>6, <1>7 DEF Next

\* The invariant holds of every behaviour.
THEOREM InductiveHolds == Spec => []Inductive
BY InitInductive, StepInductive, PTL DEF Spec

\* Every variable has its type.
THEOREM TypeOKHolds == Spec => []TypeOK
<1>1. Inductive => TypeOK
  BY DEF Inductive, Typed
<1>2. QED
  BY <1>1, InductiveHolds, PTL

\* saveExpense stores a filled-in form once, unless the answer of a save of it was
\* lost: Save is disabled while one is awaited, and an answered one empties the form.
THEOREM OnlyLostAnswersDuplicateHolds == Spec => []OnlyLostAnswersDuplicate
<1>1. Inductive => OnlyLostAnswersDuplicate
  <2>1. SUFFICES ASSUME Inductive, NEW row \in Row, stored[row] > 1
                 PROVE  <<row[1], None, row[2]>> \in lost
    BY DEF OnlyLostAnswersDuplicate
  <2>2. row[1] \in People /\ row[2] \in Drafts /\ row = <<row[1], row[2]>>
    BY DEF Row
  <2>3. <<row[1], None, row[2]>> \notin lost => stored[row] <= 1
    BY <2>1, <2>2 DEF Inductive, SavedOnce
  <2>4. stored[row] \in Nat
    BY <2>1, StateTypes
  <2>5. QED
    BY <2>1, <2>3, <2>4
<1>2. QED
  BY <1>1, InductiveHolds, PTL

\* Once its requests are answered the mileage screen shows the entry of its work date
\* and of the tester who is signed in, unless something was left in doubt.
THEOREM ScreenTellsShiftHolds == Spec => []ScreenTellsShift
<1>1. Inductive => ScreenTellsShift
  BY DEF Inductive, MileageTold, ScreenTellsShift
<1>2. QED
  BY <1>1, InductiveHolds, PTL

\* Likewise the list shows the expenses of the tester who is signed in.
THEOREM ListTellsExpensesHolds == Spec => []ListTellsExpenses
<1>1. Inductive => ListTellsExpenses
  <2>1. SUFFICES ASSUME Inductive, screen = "expenses", ~Busy("expenses"),
                        "expenses" \notin doubted, NEW row \in Row
                 PROVE  expenses[row] = IF row[1] = user THEN stored[row] ELSE 0
    BY DEF ListTellsExpenses
  <2>2. \A f \in Slots : In(f) => requests[f].kind \notin {"expenses", "save"}
    BY <2>1 DEF Busy, Part
  <2>3. ~Coming(row) /\ ~(\E f \in Slots : In(f) /\ requests[f].kind = "expenses")
    BY <2>2 DEF Coming, At
  <2>4. expenses[row] + 0 = Mine(user, stored)[row] /\ expenses[row] \in Nat
    BY <2>1, <2>3, StateTypes DEF Inductive, ListTold
  <2>5. QED
    BY <2>4 DEF Mine
<1>2. QED
  BY <1>1, InductiveHolds, PTL

\* An entry changes only by end_shift's update once it is there.
LEMMA OnlyEndsChange ==
    ASSUME Inductive, [Next]_vars, NEW key \in Key,
           entries[key] # None, entries[key].end # None, entries'[key] # entries[key]
    PROVE  <<key[1], key[2], 0>> \in lost
<1>1. \E f \in Slots : InsertEntry(f) \/ SaveEnd(f)
  <2>1. entries' # entries
    OBVIOUS
  <2>2. QED
    BY <2>1 DEF Next, vars, api, ServeMileage, AdmitStart, AdmitEnd, ListExpenses, CreateExpense,
          MileageAnswered, ShiftAnswered, ExpensesAnswered, SaveAnswered, Refused, TimedOut,
          Failing, OpenMileage, OpenExpenses, SaveExpense, StartShift, EndShift, Press, Leave,
          openNewExpense, Back, FillIn, View, SwitchUser, Restart, Abandon, Midnight
<1>2. PICK f \in Slots : InsertEntry(f) \/ SaveEnd(f)
  BY <1>1
<1>3. \A k \in Key : k # KeyOf(requests[f]) => entries'[k] = entries[k]
  BY <1>2, StateTypes DEF InsertEntry, SaveEnd
<1>4. key = KeyOf(requests[f])
  BY <1>3
<1>5. At(f, "end", "admitted")
  BY <1>2, <1>4 DEF InsertEntry, SaveEnd
<1>6. <<requests[f].by, requests[f].date, 0>> \in lost
  BY <1>4, <1>5 DEF Inductive, EndsOnce
<1>7. QED
  BY <1>4, <1>6 DEF KeyOf

\* end_shift changes an ended shift only if the app lost the answer of an end of it.
THEOREM EndedShiftsStayHolds == Spec => EndedShiftsStay
<1>1. Inductive /\ [Next]_vars =>
          [\A key \in Key :
              entries[key] # None /\ entries[key].end # None /\ entries'[key] # entries[key] =>
                  <<key[1], key[2], 0>> \in lost]_vars
  BY OnlyEndsChange
<1>2. QED
  BY <1>1, InductiveHolds, PTL DEF Spec, EndedShiftsStay
=============================================================================

--------------------------------- MODULE Trips ---------------------------------
(***************************************************************************)
(* The mobile app's mileage tracker and expenses: MileageProvider and      *)
(* ExpensesProvider, which outlive sign-outs, the two screens, and the API *)
(* they call.  A request the client gives up after its timeout still runs  *)
(* on the API; its retry is a second request.                              *)
(***************************************************************************)
EXTENDS Naturals

CONSTANTS
    People,       \* the testers that use this device
    Slots,        \* the requests in process at once
    MaxDays,      \* bound on the days the device is used
    MaxMiles,     \* bound on the odometer
    MaxDrafts,    \* bound on the expenses filled in
    MaxPresses,   \* bound on the start, end and save buttons pressed
    MaxFailures,  \* bound on the answers that time out or get lost
    MaxSwitches,  \* bound on sign-outs, restarts and midnights
    None

VARIABLES
    entries,         \* the API's mileage entries, one per tester and work date
    stored,          \* its expenses: how many rows of each filled-in form
    today, user, screen,
    date,            \* the work date of the mileage screen, fixed when it is mounted
    currentMileage,  \* MileageProvider
    isLoading,       \* MileageProvider
    expenses,        \* ExpensesProvider
    viewMode, draft, \* the expense screen, and what its form holds (0: nothing)
    requests,
    lost,            \* history: the writes whose answer this app never got
    doubted,         \* history: the screens that missed something since their last load
    drafts, presses, failures, switches

api == <<entries, stored>>
phone == <<user, screen, date, currentMileage, isLoading, expenses, viewMode, draft>>
history == <<lost, doubted>>
bounds == <<today, drafts, presses, failures, switches>>
vars == <<api, phone, requests, history, bounds>>

-----------------------------------------------------------------------------
Dates == 1..MaxDays
Miles == 1..MaxMiles
Drafts == 1..MaxDrafts
Key == People \X Dates

\* A mileage entry; it is completed when it has an end.
MileageEntry == [key : Key, start : Miles, end : Miles \cup {None}]
Row == People \X Drafts
NoRows == [row \in Row |-> 0]

\* A request: awaited while its continuation will run, active while the screen
\* that sent it is there (for an expense load: in focus); entry and rows are the
\* answer; overtaken is history: something was written since it was sent.
Request == [kind : {"mileage", "start", "end", "expenses", "save"},
            by : People, date : Dates \cup {None},
            miles : Miles \cup {None}, draft : 0..MaxDrafts,
            step : {"sent", "admitted", "served", "refused"},
            awaited : BOOLEAN, active : BOOLEAN, overtaken : BOOLEAN,
            entry : MileageEntry \cup {None}, rows : [Row -> Nat]]

ASSUME TripsAssumption ==
    /\ {MaxDays, MaxMiles, MaxDrafts, MaxPresses, MaxFailures, MaxSwitches} \subseteq Nat
    /\ MaxDays >= 1
    /\ None \notin Miles \cup Dates \cup MileageEntry \cup Request

Part(kind) == IF kind \in {"expenses", "save"} THEN "expenses" ELSE "mileage"

In(f) == requests[f] # None
At(f, kind, step) == In(f) /\ requests[f].kind = kind /\ requests[f].step = step
Busy(part) == \E f \in Slots : In(f) /\ Part(requests[f].kind) = part
Awaiting(kinds) ==
    \E f \in Slots : In(f) /\ requests[f].awaited /\ requests[f].active /\ requests[f].kind \in kinds

\* The key of the entry a mileage request is about.
KeyOf(r) == <<r.by, r.date>>

Sent(kind, miles, d) ==
    [kind |-> kind, by |-> user, date |-> date', miles |-> miles, draft |-> d,
     step |-> "sent", awaited |-> TRUE, active |-> TRUE, overtaken |-> FALSE,
     entry |-> None, rows |-> NoRows]

Send(f, request) == ~In(f) /\ requests' = [requests EXCEPT ![f] = request]

\* What f has written overtakes the loads of its part.
Overtaking(f) ==
    [g \in Slots |-> IF In(g) /\ requests[g].kind = Part(requests[f].kind)
                     THEN [requests[g] EXCEPT !.overtaken = TRUE] ELSE requests[g]]

\* f leaves the API; nothing is left of a request nobody awaits.
Done(rs, f, step) ==
    requests' = [rs EXCEPT ![f] = IF @.awaited THEN [@ EXCEPT !.step = step] ELSE None]

-----------------------------------------------------------------------------
(* The API *)

ServeMileage(f) ==
    /\ At(f, "mileage", "sent")
    /\ Done([requests EXCEPT ![f].entry = entries[KeyOf(requests[f])]], f, "served")
    /\ UNCHANGED <<api, phone, history, bounds>>

\* start_shift and end_shift read the entry and upload the image; then they write.
AdmitStart(f) ==
    /\ At(f, "start", "sent")
    /\ IF entries[KeyOf(requests[f])] = None
       THEN requests' = [requests EXCEPT ![f].step = "admitted"]
       ELSE Done(requests, f, "refused")
    /\ UNCHANGED <<api, phone, history, bounds>>

Ends(entry, miles) == entry # None /\ entry.end = None /\ miles >= entry.start

AdmitEnd(f) ==
    /\ At(f, "end", "sent")
    /\ IF Ends(entries[KeyOf(requests[f])], requests[f].miles)
       THEN requests' = [requests EXCEPT ![f].step = "admitted"]
       ELSE Done(requests, f, "refused")
    /\ UNCHANGED <<api, phone, history, bounds>>

\* The second INSERT for a work date violates its unique constraint.
InsertEntry(f) ==
    LET r == requests[f]
        entry == [key |-> KeyOf(r), start |-> r.miles, end |-> None]
    IN  /\ At(f, "start", "admitted")
        /\ IF entries[KeyOf(r)] = None
           THEN /\ entries' = [entries EXCEPT ![KeyOf(r)] = entry]
                /\ Done([Overtaking(f) EXCEPT ![f].entry = entry], f, "served")
           ELSE Done(requests, f, "refused") /\ UNCHANGED entries
        /\ UNCHANGED <<stored, phone, history, bounds>>

\* The UPDATE looks at nothing.
SaveEnd(f) ==
    LET r == requests[f]
        entry == [entries[KeyOf(r)] EXCEPT !.end = r.miles]
    IN  /\ At(f, "end", "admitted")
        /\ entries' = [entries EXCEPT ![KeyOf(r)] = entry]
        /\ Done([Overtaking(f) EXCEPT ![f].entry = entry], f, "served")
        /\ UNCHANGED <<stored, phone, history, bounds>>

ListExpenses(f) ==
    /\ At(f, "expenses", "sent")
    /\ Done([requests EXCEPT ![f].rows =
                 [row \in Row |-> IF row[1] = requests[f].by THEN stored[row] ELSE 0]], f, "served")
    /\ UNCHANGED <<api, phone, history, bounds>>

\* Nothing tells a retry from another expense.
CreateExpense(f) ==
    /\ At(f, "save", "sent")
    /\ stored' = [stored EXCEPT ![<<requests[f].by, requests[f].draft>>] = @ + 1]
    /\ Done(Overtaking(f), f, "served")
    /\ UNCHANGED <<entries, phone, history, bounds>>

-----------------------------------------------------------------------------
(* Continuations *)

\* A load of the screen that is there and that nothing overtook tells all there is.
Loaded(f, part) ==
    doubted' = IF \/ requests[f].overtaken \/ ~requests[f].active
                  \/ \E g \in Slots \ {f} :
                     In(g) /\ Part(requests[g].kind) = part
               THEN doubted \cup {part} ELSE doubted \ {part}

Free(f) == requests' = [requests EXCEPT ![f] = None]

Answered(f, kind) == At(f, kind, "served") /\ requests[f].awaited

\* Mutant: a date without an entry leaves the one there is.
ShowIfAny(entry) == currentMileage' = IF entry = None THEN currentMileage ELSE entry

setCurrentMileage(entry) == currentMileage' = entry

\* loadMileageForDate
MileageAnswered(f) ==
    /\ Answered(f, "mileage")
    /\ setCurrentMileage(requests[f].entry)
    /\ isLoading' = FALSE
    /\ Free(f) /\ Loaded(f, "mileage")
    /\ UNCHANGED <<api, user, screen, date, expenses, viewMode, draft, lost, bounds>>

\* startShift, endShift
ShiftAnswered(f) ==
    /\ Answered(f, "start") \/ Answered(f, "end")
    /\ setCurrentMileage(requests[f].entry)
    /\ Free(f)
    /\ UNCHANGED <<api, user, screen, date, isLoading, expenses, viewMode, draft, history, bounds>>

ExpensesAnswered(f) ==
    /\ Answered(f, "expenses")
    /\ expenses' = requests[f].rows
    /\ viewMode' = IF requests[f].active /\ requests[f].rows # NoRows THEN "list" ELSE viewMode
    /\ Free(f) /\ Loaded(f, "expenses")
    /\ UNCHANGED <<api, user, screen, date, currentMileage, isLoading, draft, lost, bounds>>

\* Mutant: the saved expense is taken off the list.
DropExpense(row) == expenses' = [expenses EXCEPT ![row] = @ - 1]

\* Mutant: the list is left to its next load.
LeaveExpenses(row) == expenses' = expenses

PrependExpense(row) == expenses' = [expenses EXCEPT ![row] = @ + 1]

\* saveExpense and the end of handleSave, which resets whatever the form holds by now.
SaveAnswered(f) ==
    /\ Answered(f, "save")
    /\ PrependExpense(<<requests[f].by, requests[f].draft>>)
    /\ IF requests[f].active THEN draft' = 0 /\ viewMode' = "list"
                             ELSE UNCHANGED <<draft, viewMode>>
    /\ Free(f)
    /\ UNCHANGED <<api, user, screen, date, currentMileage, isLoading, history, bounds>>

\* Shown in the screen, if it is still there; the form keeps what it holds.
Failing(f) ==
    /\ isLoading' = (isLoading /\ requests[f].kind # "mileage")
    /\ doubted' = doubted \cup {Part(requests[f].kind)}
    /\ UNCHANGED <<api, user, screen, date, currentMileage, expenses, viewMode, draft>>

Refused(f) ==
    /\ In(f) /\ requests[f].step = "refused"
    /\ Failing(f) /\ Free(f)
    /\ UNCHANGED <<lost, bounds>>

\* What is lost with an answer: the write, by the entry or the form it is about.
Write(r) == IF r.kind = "save" THEN {<<r.by, None, r.draft>>}
            ELSE IF r.kind \in {"start", "end"} THEN {<<r.by, r.date, 0>>} ELSE {}

\* The client aborts a request it has awaited for 30 s, or the network fails: the
\* API never gets it, or goes on with it.
TimedOut(f) ==
    /\ In(f) /\ requests[f].awaited /\ requests[f].step # "refused"
    /\ failures < MaxFailures /\ failures' = failures + 1
    /\ Failing(f)
    /\ lost' = lost \cup Write(requests[f])
    /\ \/ Free(f)
       \/ /\ requests[f].step \in {"sent", "admitted"}
          /\ requests' = [requests EXCEPT ![f].awaited = FALSE]
    /\ UNCHANGED <<today, drafts, presses, switches>>

-----------------------------------------------------------------------------
(* What the tester does *)

\* The first visit mounts the mileage screen, which loads its date.
OpenMileage(f) ==
    /\ screen = "modules" /\ screen' = "mileage"
    /\ IF date = None
       THEN date' = today /\ isLoading' = TRUE /\ Send(f, Sent("mileage", None, 0))
       ELSE UNCHANGED <<date, isLoading, requests>>
    /\ UNCHANGED <<api, user, currentMileage, expenses, viewMode, draft, history, bounds>>

\* Every focus loads the expenses.
OpenExpenses(f) ==
    /\ screen = "modules" /\ screen' = "expenses"
    /\ UNCHANGED date /\ Send(f, Sent("expenses", None, 0))
    /\ UNCHANGED <<api, user, currentMileage, isLoading, expenses, viewMode, draft, history,
                   bounds>>

\* Close, Modules, or the tab bar.
Leave ==
    /\ screen # "modules" /\ screen' = "modules"
    /\ requests' = [f \in Slots |-> IF In(f) /\ requests[f].kind = "expenses"
                                    THEN [requests[f] EXCEPT !.active = FALSE] ELSE requests[f]]
    /\ UNCHANGED <<api, user, date, currentMileage, isLoading, expenses, viewMode, draft,
                   history, bounds>>

Press(f, kind, miles, d) ==
    /\ presses < MaxPresses /\ presses' = presses + 1
    /\ UNCHANGED date /\ Send(f, Sent(kind, miles, d))
    /\ UNCHANGED <<api, user, screen, currentMileage, isLoading, expenses, viewMode, draft,
                   history, today, drafts, failures, switches>>

\* Mutant: the button is not disabled while it submits.
SaveEnabledSubmitting == ~isLoading

SaveEnabled == ~Awaiting({"start", "end"}) /\ ~isLoading

\* What the mileage screen asks for: the start of a shift, its end, or nothing.
isStartMode == currentMileage = None
isEndMode == currentMileage # None /\ currentMileage.end = None

\* handleSave of the mileage screen, with the field and the image filled in.
StartShift(f, miles) ==
    /\ screen = "mileage" /\ SaveEnabled /\ isStartMode
    /\ Press(f, "start", miles, 0)

EndShift(f, miles) ==
    /\ screen = "mileage" /\ SaveEnabled /\ isEndMode
    /\ Press(f, "end", miles, 0)

showList == screen = "expenses" /\ viewMode = "list"
OnForm == screen = "expenses" /\ viewMode = "form"

View(mode, d) ==
    /\ viewMode' = mode /\ draft' = d
    /\ UNCHANGED <<api, user, screen, date, currentMileage, isLoading, expenses, requests, history,
                   today, presses, failures, switches>>

openNewExpense == showList /\ View("form", 0) /\ UNCHANGED drafts

Back == OnForm /\ View("list", draft) /\ UNCHANGED drafts

FillIn ==
    /\ OnForm /\ draft = 0 /\ drafts < MaxDrafts /\ drafts' = drafts + 1
    /\ View("form", drafts')

\* Mutant: Save is not disabled while an expense is being saved.
SavingAllowed == TRUE

SavingEnabled == ~Awaiting({"save"})

\* handleSave of the expense screen, with the form filled in.
SaveExpense(f) ==
    /\ OnForm /\ draft # 0 /\ SavingEnabled
    /\ Press(f, "save", None, draft)

\* Whatever is awaited now is not awaited by the screens of the next session.
Abandon(awaited) ==
    /\ switches < MaxSwitches /\ switches' = switches + 1
    /\ requests' = [f \in Slots |-> IF ~In(f) THEN None
                                    ELSE IF ~awaited /\ requests[f].step \in {"served", "refused"}
                                    THEN None
                                    ELSE [requests[f] EXCEPT !.active = FALSE,
                                                             !.awaited = @ /\ awaited]]
    /\ lost' = lost \cup UNION {Write(requests[f]) : f \in {g \in Slots : In(g)}}
    /\ doubted' = doubted \cup {Part(requests[f].kind) : f \in {g \in Slots : In(g)}}
    /\ screen' = "modules" /\ date' = None /\ viewMode' = "list" /\ draft' = 0
    /\ UNCHANGED <<api, today, drafts, presses, failures>>

\* Sign-out and sign-in: the tabs are unmounted, the providers stay.
SwitchUser(p) ==
    /\ p # user /\ user' = p
    /\ Abandon(TRUE)
    /\ UNCHANGED <<currentMileage, isLoading, expenses>>

Restart ==
    /\ Abandon(FALSE)
    /\ currentMileage' = None /\ isLoading' = FALSE /\ expenses' = NoRows
    /\ UNCHANGED user

Midnight ==
    /\ today < MaxDays /\ today' = today + 1
    /\ switches < MaxSwitches /\ switches' = switches + 1
    /\ UNCHANGED <<api, phone, requests, history, drafts, presses, failures>>

Init ==
    /\ entries = [key \in Key |-> None] /\ stored = NoRows
    /\ user \in People /\ today = 1 /\ screen = "modules" /\ date = None
    /\ currentMileage = None /\ isLoading = FALSE
    /\ expenses = NoRows /\ viewMode = "list" /\ draft = 0
    /\ requests = [f \in Slots |-> None]
    /\ lost = {} /\ doubted = {}
    /\ drafts = 0 /\ presses = 0 /\ failures = 0 /\ switches = 0

Next ==
    \/ \E f \in Slots :
          \/ ServeMileage(f) \/ AdmitStart(f) \/ AdmitEnd(f) \/ InsertEntry(f) \/ SaveEnd(f)
          \/ ListExpenses(f) \/ CreateExpense(f)
          \/ MileageAnswered(f) \/ ShiftAnswered(f) \/ ExpensesAnswered(f) \/ SaveAnswered(f)
          \/ Refused(f) \/ TimedOut(f)
          \/ OpenMileage(f) \/ OpenExpenses(f) \/ SaveExpense(f)
          \/ \E miles \in Miles : StartShift(f, miles) \/ EndShift(f, miles)
    \/ Leave \/ openNewExpense \/ Back \/ FillIn
    \/ \E p \in People : SwitchUser(p)
    \/ Restart \/ Midnight

Spec == Init /\ [][Next]_vars

-----------------------------------------------------------------------------
\* Every variable has its type.
TypeOK ==
    /\ entries \in [Key -> MileageEntry \cup {None}]
    /\ stored \in [Row -> Nat] /\ expenses \in [Row -> Nat]
    /\ user \in People /\ today \in Nat
    /\ screen \in {"modules", "mileage", "expenses"} /\ date \in Dates \cup {None}
    /\ currentMileage \in MileageEntry \cup {None} /\ isLoading \in BOOLEAN
    /\ viewMode \in {"list", "form"} /\ draft \in 0..MaxDrafts
    /\ requests \in [Slots -> Request \cup {None}]
    /\ doubted \subseteq {"mileage", "expenses"}

\* An ended shift keeps its end: end_shift checks and writes in two steps, so two
\* end requests of one shift may both be admitted, but only when the app lost the
\* answer of the first.
EndedShiftsStay ==
    [][\A key \in Key :
          entries[key] # None /\ entries[key].end # None /\ entries'[key] # entries[key] =>
              <<key[1], key[2], 0>> \in lost]_vars

\* One filled-in expense is one row, however often Save is pressed, unless the
\* answer of a save of it was lost and it was saved again.
OnlyLostAnswersDuplicate ==
    \A row \in Row : stored[row] > 1 => <<row[1], None, row[2]>> \in lost

\* Once its requests are answered the mileage screen shows the entry of its work
\* date and of the tester who is signed in, though the provider outlives both,
\* unless something went wrong since it was last loaded.
ScreenTellsShift ==
    date # None /\ ~Busy("mileage") /\ "mileage" \notin doubted =>
        currentMileage = entries[<<user, date>>]

\* Likewise the list shows the expenses of the tester who is signed in.  A load
\* that a save has overtaken leaves the saved expense out until the next focus.
ListTellsExpenses ==
    screen = "expenses" /\ ~Busy("expenses") /\ "expenses" \notin doubted =>
        \A row \in Row : expenses[row] = IF row[1] = user THEN stored[row] ELSE 0
=============================================================================

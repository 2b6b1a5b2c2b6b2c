----------------------------- MODULE CheckInProofs -----------------------------
(***************************************************************************)
(* CheckIn for any days, counts, slots and bounds: Inductive holds         *)
(* initially and is kept by every step, and the properties of the check-in *)
(* follow from it.                                                         *)
(***************************************************************************)
EXTENDS CheckIn, TLAPS

-----------------------------------------------------------------------------
(* The inductive invariant. *)

\* The row may have been g: its version has not gone back, and what has changed
\* since without one is only that a file has come.
Past(g, row) ==
    /\ g \in Day /\ row \in Day
    /\ g.version <= row.version
    /\ g.version = row.version =>
          g.status = row.status /\ g.done = row.done /\ g.skipped = row.skipped
    /\ g.file => row.file
    /\ row.status = "IN_PROGRESS" => g.status = "IN_PROGRESS"

\* VersionTellsRecord for one record, and what an older record tells.
Tells(record, row) ==
    /\ row \in Day
    /\ record.version <= row.version
    /\ row.status = "IN_PROGRESS" => record.status = "ONGOING"
    /\ record.version = row.version =>
        /\ record.done = row.done \/ "counts" \in record.mixed
        /\ record.skipped = row.skipped \/ "skips" \in record.mixed
        /\ \/ record.status = "COMPLETED" <=> row.status = "COMPLETED"
           \/ record.status = "COMPLETED" /\ "status" \in record.mixed
        /\ row.status = "CHECKED_OUT" => record.status = "ATTACHMENTS" \/ row.file

\* Day d of rows has been g, or tells the record: all that is known of a day in
\* over, which was written over a row loaded before a change, is that it exists.
Was(g, rows, over, d) == rows[d] \in Day /\ (d \notin over => Past(g, rows[d]))
Told(record, rows, over, d) == rows[d] \in Day /\ (d \notin over => Tells(record, rows[d]))

RecordsTell == \A id \in Id : records[id] # None => Told(records[id], days, raced, id[1])

\* A screen that has not crashed shows a record.
Mounted ==
    /\ screen = "detail" => opened # None
    /\ opened # None /\ ~crashed => records[opened] # None

\* The chain that awaits an answer is in one of its requests.
Shape(g) ==
    /\ g.kind = "list" <=> g.at = "list"
    /\ g.kind = "start" <=> g.at = "start"
    /\ g.kind = "grid-update" => g.at = "patch"
    /\ g.kind = "end-workorder" => g.at \in {"patch", "end"}
    /\ g.kind = "complete" => g.at \in {"patch", "upload", "complete"}
    /\ g.at = "list" => g.got \in List \cup {None, Failed}
    /\ g.at # "list" => g.got \in Day \cup {None, Failed} /\ g.id \in Id
    /\ g.at \in {"patch", "end"} => g.done \in Grids
    /\ g.at = "patch" => g.seen \in Record
    /\ g.kind = "complete" /\ g.at # "complete" => g.left \in 1..MaxFiles

\* What an answered request has done, at.
Outcome(g) ==
    /\ g.at = "start" => g.got.status = "IN_PROGRESS"
    /\ g.at = "end" => g.got.status = "CHECKED_OUT"
    /\ g.at = "complete" => g.got.status = "COMPLETED"
    /\ g.kind = "grid-update" => /\ g.got.status # "COMPLETED"
                                 /\ g.got.status = "CHECKED_OUT" => g.got.file

\* A chain works on a day of the API, as it was or is.
Chain(g, rows, over) ==
    /\ g.at \notin {"list", "start"} => rows[g.id[1]] \in Day
    /\ g.at = "patch" => Told(g.seen, rows, over, g.id[1])
    /\ g.kind = "grid-update" => g.seen.status = "ONGOING"
    /\ g.at # "list" /\ g.got \in Day =>
          /\ Was(g.got, rows, over, g.id[1])
          /\ g.id[1] \notin over => Outcome(g)
    /\ g.at = "list" /\ g.got \in List =>
          \A d \in Days : g.got.rows[d] # None => Was(g.got.rows[d], rows, over, d)

\* The answer of a load nobody overtook lists every day the app shows that its page
\* has room for.
Lists(g, rs) ==
    g.at = "list" /\ g.got \in List /\ ~g.overtaken =>
        \A d \in Days : rs[<<d, "api">>] # None => g.got.rows[d] # None \/ d \in g.got.cut

FlowsFit ==
    \A f \in Slots : flows[f] # None =>
        Shape(flows[f]) /\ Chain(flows[f], days, raced) /\ Lists(flows[f], records)

\* A transaction is to lead on from the row it has loaded, which the day was or is.
Leads(call, rows, over) ==
    /\ Was(call.row, rows, over, call.day)
    /\ call.new.file = call.row.file
    /\ \/ call.new = call.row
       \/ /\ call.new.version = call.row.version + 1
          /\ call.new.status = "IN_PROGRESS" => call.row.status = "IN_PROGRESS"

\* A transaction serves the request that awaits it, if one does.
Serves(g, call, over) ==
    \/ g = None \/ g.got = Failed
    \/ /\ g.got = None /\ g.at \in {"patch", "end", "complete"} /\ call.day = g.id[1]
       /\ g.at = "patch" => g.seen.version = call.row.version
       /\ call.day \notin over => Outcome([g EXCEPT !.got = call.new])

CallsFit ==
    \A c \in Callers : calls[c] # None =>
        /\ Leads(calls[c], days, raced)
        /\ c \in Slots => Serves(flows[c], calls[c], raced)

Inductive == TypeOK /\ Mounted /\ RecordsTell /\ FlowsFit /\ CallsFit

-----------------------------------------------------------------------------
(* Lemmas about rows and records. *)

\* None and Failed are no day, list, id, record, flow or call.
LEMMA Apart ==
    /\ None # Failed
    /\ None \notin Day /\ None \notin List /\ None \notin Id
    /\ None \notin Record /\ None \notin Flow /\ None \notin Call
    /\ Failed \notin Day /\ Failed \notin List
BY CheckInAssumption

\* A row may have been what it is.
LEMMA PastReflexive ==
    ASSUME NEW row \in Day
    PROVE  Past(row, row)
BY DEF Past, Day

\* What a row has been it stays having been.
LEMMA PastTransitive ==
    ASSUME NEW a, NEW b, NEW c, Past(a, b), Past(b, c)
    PROVE  Past(a, c)
BY DEF Past, Day, DayStatus

\* A record goes on telling what it tells as its row moves on.
LEMMA TellsLater ==
    ASSUME NEW record \in Record, NEW a, NEW b, Tells(record, a), Past(a, b)
    PROVE  Tells(record, b)
BY DEF Tells, Past, Day, Record, DayStatus

\* A record made of a list's row tells that row and those it becomes.
LEMMA ListedTells ==
    ASSUME NEW g, NEW row, Past(g, row)
    PROVE  /\ toSubmissionRecord(g) \in Record
           /\ Tells(toSubmissionRecord(g), row)
<1>1. toSubmissionRecord(g) \in Record
  BY CheckInAssumption DEF toSubmissionRecord, toLocalStatus, Record, Past, Day, DayStatus
<1>2. Tells(toSubmissionRecord(g), row)
  BY DEF toSubmissionRecord, toLocalStatus, Tells, Past, Day, DayStatus
<1>3. QED
  BY <1>1, <1>2

\* What is made of a list's row is a record.
LEMMA ListedIsRecord ==
    ASSUME NEW row \in Day
    PROVE  toSubmissionRecord(row) \in Record /\ toSubmissionRecord(row) # None
BY PastReflexive, ListedTells, Apart

\* Each row is what it was or comes after it, but where it is written over.
Advances ==
    /\ raced \subseteq raced'
    /\ \A d \in Days : days[d] # None => Was(days[d], days', raced', d)

\* What is known of a day is known later.
LEMMA WasLater ==
    ASSUME Advances, NEW d \in Days, NEW g, Was(g, days, raced, d)
    PROVE  Was(g, days', raced', d)
<1>1. days[d] # None
  BY Apart DEF Was
<1>2. Was(days[d], days', raced', d) /\ raced \subseteq raced'
  BY <1>1 DEF Advances
<1>3. QED
  BY <1>2, PastTransitive DEF Was

\* What a record tells of a day it tells later.
LEMMA ToldLater ==
    ASSUME Advances, NEW d \in Days, NEW record \in Record, Told(record, days, raced, d)
    PROVE  Told(record, days', raced', d)
<1>1. days[d] # None
  BY Apart DEF Told
<1>2. Was(days[d], days', raced', d) /\ raced \subseteq raced'
  BY <1>1 DEF Advances
<1>3. QED
  BY <1>2, TellsLater DEF Was, Told

\* A chain goes on fitting its day as the days advance.
LEMMA ChainLater ==
    ASSUME TypeOK, Advances, NEW g \in Flow, Shape(g), Chain(g, days, raced)
    PROVE  Chain(g, days', raced')
<1>1. g.at # "list" => g.id[1] \in Days
  BY DEF Shape, Id
<1>2. ASSUME g.at \notin {"list", "start"}
      PROVE  days'[g.id[1]] \in Day
  <2>1. g.id[1] \in Days /\ days[g.id[1]] \in Day
    BY <1>1, <1>2 DEF Chain
  <2>2. QED
    BY <2>1, Apart DEF Advances, Was
<1>3. ASSUME g.at = "patch"
      PROVE  Told(g.seen, days', raced', g.id[1])
  BY <1>1, <1>3, ToldLater DEF Chain, Shape
<1>4. ASSUME g.at # "list", g.got \in Day
      PROVE  Was(g.got, days', raced', g.id[1]) /\ (g.id[1] \notin raced' => Outcome(g))
  <2>1. g.id[1] \in Days /\ Was(g.got, days, raced, g.id[1])
        /\ (g.id[1] \notin raced => Outcome(g))
    BY <1>1, <1>4 DEF Chain
  <2>2. QED
    BY <2>1, WasLater DEF Advances
<1>5. ASSUME g.at = "list", g.got \in List, NEW d \in Days, g.got.rows[d] # None
      PROVE  Was(g.got.rows[d], days', raced', d)
  BY <1>5, WasLater DEF Chain
<1>6. g.kind = "grid-update" => g.seen.status = "ONGOING"
  BY DEF Chain
<1>7. QED
  BY <1>2, <1>3, <1>4, <1>5, <1>6 DEF Chain

\* The records go on telling their days as the days advance.
LEMMA RecordsTellLater ==
    ASSUME TypeOK, RecordsTell, Advances, UNCHANGED records
    PROVE  RecordsTell'
<1>1. SUFFICES ASSUME NEW id \in Id, records[id] # None
               PROVE  Told(records[id], days', raced', id[1])
  BY DEF RecordsTell
<1>2. records[id] \in Record /\ Told(records[id], days, raced, id[1]) /\ id[1] \in Days
  BY <1>1 DEF TypeOK, RecordsTell, Id
<1>3. QED
  BY <1>2, ToldLater

\* A flow fits the days and the records.
Fits(g, rows, over, rs) == g \in Flow /\ Shape(g) /\ Chain(g, rows, over) /\ Lists(g, rs)

\* No day of the API comes on the screens' list.
NoneListed(rs) ==
    \A d \in Days : rs[<<d, "api">>] # None => records[<<d, "api">>] # None

\* The flows go on fitting, but for those that are new, as the days advance
\* and while nothing is listed.
LEMMA FlowsFitLater ==
    ASSUME TypeOK, FlowsFit, Advances, NoneListed(records'),
           flows' \in [Slots -> Flow \cup {None}],
           \A h \in Slots : flows'[h] # flows[h] =>
               flows'[h] = None \/ Fits(flows'[h], days', raced', records')
    PROVE  FlowsFit'
<1>1. SUFFICES ASSUME NEW h \in Slots, flows'[h] # None, flows'[h] = flows[h]
               PROVE  /\ Shape(flows'[h]) /\ Chain(flows'[h], days', raced')
                      /\ Lists(flows'[h], records')
  BY DEF FlowsFit, Fits
<1>2. /\ flows[h] \in Flow /\ Shape(flows[h]) /\ Chain(flows[h], days, raced)
      /\ Lists(flows[h], records)
  BY <1>1 DEF FlowsFit, TypeOK
<1>3. Chain(flows[h], days', raced')
  BY <1>2, ChainLater
<1>4. Lists(flows[h], records')
  BY <1>2 DEF Lists, NoneListed
<1>5. QED
  BY <1>1, <1>2, <1>3, <1>4

\* A transaction goes on leading on from its row as the days advance.
LEMMA LeadsLater ==
    ASSUME Advances, NEW call \in Call, Leads(call, days, raced)
    PROVE  Leads(call, days', raced')
<1>1. call.day \in Days
  BY DEF Call
<1>2. QED
  BY <1>1, WasLater DEF Leads

\* The transactions go on fitting, but for those that are new, if no flow that one
\* serves changes but to end or to fail.
LEMMA CallsFitLater ==
    ASSUME TypeOK, CallsFit, Advances,
           \A c \in Callers : calls'[c] = calls[c] \/ calls'[c] = None
               \/ /\ Leads(calls'[c], days', raced')
                  /\ c \in Slots => Serves(flows'[c], calls'[c], raced'),
           \A c \in Slots : flows'[c] = flows[c] \/ flows'[c] = None
               \/ flows'[c].got = Failed \/ calls'[c] # calls[c] \/ calls[c] = None
    PROVE  CallsFit'
<1>1. SUFFICES ASSUME NEW c \in Callers, calls'[c] # None, calls'[c] = calls[c]
               PROVE  /\ Leads(calls'[c], days', raced')
                      /\ c \in Slots => Serves(flows'[c], calls'[c], raced')
  BY DEF CallsFit
<1>2. calls[c] \in Call /\ Leads(calls[c], days, raced)
      /\ (c \in Slots => Serves(flows[c], calls[c], raced))
  BY <1>1 DEF TypeOK, CallsFit
<1>3. c \in Slots => Serves(flows'[c], calls[c], raced')
  BY <1>1, <1>2 DEF Serves, Advances
<1>4. QED
  BY <1>1, <1>2, <1>3, LeadsLater

\* A flow that has its answer, or awaits one no transaction gives, has no transaction.
LEMMA NoCall ==
    ASSUME Inductive, NEW f \in Slots, flows[f] # None, flows[f].got # Failed,
           flows[f].got # None \/ flows[f].at \notin {"patch", "end", "complete"}
    PROVE  calls[f] = None
<1>1. f \in Callers
  BY DEF Callers
<1>2. QED
  BY <1>1 DEF Inductive, CallsFit, Serves


-----------------------------------------------------------------------------
(* The API's steps. *)

\* A step of the API or of an admin that leaves the phone alone keeps the invariant
\* if the days advance and what it answers and the transactions fit them.
LEMMA ServedKeeps ==
    ASSUME Inductive, UNCHANGED phone, Advances,
           days' \in [Days -> Day \cup {None}], beyond' \subseteq Days, raced' \subseteq Days,
           calls' \in [Callers -> Call \cup {None}], moves' \in 0..MaxMoves,
           flows' \in [Slots -> Flow \cup {None}], CallsFit',
           \A h \in Slots : flows'[h] # flows[h] => Fits(flows'[h], days', raced', records)
    PROVE  Inductive'
<1>1. TypeOK'
  BY DEF Inductive, TypeOK, phone
<1>2. Mounted'
  BY DEF Inductive, Mounted, phone
<1>3. RecordsTell'
  BY RecordsTellLater DEF Inductive, phone
<1>4. NoneListed(records') /\ records' = records
  BY DEF NoneListed, phone
<1>5. FlowsFit'
  BY <1>4, FlowsFitLater DEF Inductive
<1>6. QED
  BY <1>1, <1>2, <1>3, <1>5 DEF Inductive

\* A move is counted.
LEMMA MoveCounts ==
    ASSUME TypeOK, Move \/ UNCHANGED moves
    PROVE  moves' \in 0..MaxMoves
BY CheckInAssumption DEF Move, TypeOK

\* The answer a flow is given.
LEMMA AnswerFits ==
    ASSUME Inductive, Advances, NEW f \in Slots, flows[f] # None,
           NEW got \in Day \cup List \cup {Failed},
           got \in Day => /\ flows[f].at # "list"
                          /\ Was(got, days', raced', flows[f].id[1])
                          /\ flows[f].id[1] \notin raced' =>
                                Outcome([flows[f] EXCEPT !.got = got]),
           got \in List => /\ flows[f].at = "list"
                           /\ \A d \in Days : got.rows[d] # None =>
                                 Was(got.rows[d], days', raced', d)
                           /\ Lists([flows[f] EXCEPT !.got = got], records),
           Answer(f, got)
    PROVE  /\ flows' \in [Slots -> Flow \cup {None}]
           /\ \A h \in Slots : flows'[h] # flows[h] => Fits(flows'[h], days', raced', records)
           /\ \A h \in Slots : h # f => flows'[h] = flows[h]
           /\ flows'[f].got = got
<1> DEFINE g == [flows[f] EXCEPT !.got = got]
<1>1. /\ flows[f] \in Flow /\ Shape(flows[f]) /\ Chain(flows[f], days, raced)
      /\ Chain(flows[f], days', raced')
  BY ChainLater DEF Inductive, TypeOK, FlowsFit
<1>2. /\ g \in Flow
      /\ g.kind = flows[f].kind /\ g.at = flows[f].at /\ g.id = flows[f].id
      /\ g.done = flows[f].done /\ g.seen = flows[f].seen /\ g.left = flows[f].left
      /\ g.got = got
  BY <1>1 DEF Flow
<1>3. /\ flows' = [flows EXCEPT ![f] = g]
      /\ Lists(g, records) \/ got \notin List
      /\ got \in Day /\ g.id[1] \notin raced' => Outcome(g)
  BY <1>2 DEF Answer
<1> HIDE DEF g
<1>4. got \in List => got \notin Day
  BY <1>1
<1>5. Shape(g)
  BY <1>1, <1>2, <1>4 DEF Shape
<1>6. Chain(g, days', raced')
  <2>1. g.kind = "grid-update" => g.seen.status = "ONGOING"
    BY <1>1, <1>2 DEF Chain
  <2>2. QED
    BY <1>1, <1>2, <1>3, <2>1 DEF Chain
<1>7. Lists(g, records)
  BY <1>2, <1>3 DEF Lists
<1>8. flows' \in [Slots -> Flow \cup {None}]
  BY <1>2, <1>3 DEF Inductive, TypeOK
<1>9. \A h \in Slots : flows'[h] = IF h = f THEN g ELSE flows[h]
  BY <1>3 DEF Inductive, TypeOK
<1>10. QED
  BY <1>2, <1>5, <1>6, <1>7, <1>8, <1>9 DEF Fits

\* Days that do not change advance.
LEMMA UnchangedAdvances ==
    ASSUME TypeOK, UNCHANGED <<days, raced>>
    PROVE  Advances
BY PastReflexive DEF TypeOK, Advances, Was

\* Days of which one becomes a later row, or is written over, advance.
LEMMA OneAdvances ==
    ASSUME TypeOK, NEW d \in Days, NEW row \in Day, raced \subseteq raced',
           days[d] = None \/ Past(days[d], row) \/ d \in raced',
           days' = [days EXCEPT ![d] = row]
    PROVE  Advances /\ days' \in [Days -> Day \cup {None}]
BY PastReflexive DEF TypeOK, Advances, Was

\* A request that is refused or lost, with its transaction or without.
LEMMA FailedKeeps ==
    ASSUME Inductive, NEW f \in Slots, flows[f] # None, Answer(f, Failed),
           calls' \in {calls, [calls EXCEPT ![f] = None]},
           UNCHANGED <<days, beyond, raced, phone>>, moves' \in 0..MaxMoves
    PROVE  Inductive'
<1>1. Advances
  BY UnchangedAdvances DEF Inductive
<1>2. Failed \notin Day /\ Failed \notin List
  BY Apart
<1>3. /\ flows' \in [Slots -> Flow \cup {None}]
      /\ \A h \in Slots : flows'[h] # flows[h] => Fits(flows'[h], days', raced', records)
      /\ \A h \in Slots : h # f => flows'[h] = flows[h]
      /\ flows'[f].got = Failed
  BY <1>1, <1>2, AnswerFits
<1>4. /\ calls' \in [Callers -> Call \cup {None}]
      /\ \A c \in Callers : calls'[c] = calls[c] \/ calls'[c] = None
  BY DEF Inductive, TypeOK
<1>5. CallsFit'
  BY <1>1, <1>3, <1>4, CallsFitLater DEF Inductive
<1>6. days' \in [Days -> Day \cup {None}] /\ beyond' \subseteq Days /\ raced' \subseteq Days
  BY DEF Inductive, TypeOK
<1>7. QED
  BY <1>1, <1>3, <1>4, <1>5, <1>6, ServedKeeps

\* A request is answered that no transaction serves.
LEMMA AnsweredKeeps ==
    ASSUME Inductive, Advances, NEW f \in Slots, flows[f] # None, calls[f] = None,
           days' \in [Days -> Day \cup {None}],
           flows' \in [Slots -> Flow \cup {None}],
           \A h \in Slots : flows'[h] # flows[h] => Fits(flows'[h], days', raced', records),
           \A h \in Slots : h # f => flows'[h] = flows[h],
           UNCHANGED <<beyond, calls, raced, phone, moves>>
    PROVE  Inductive'
<1>1. CallsFit'
  BY CallsFitLater DEF Inductive
<1>2. /\ beyond' \subseteq Days /\ raced' \subseteq Days /\ moves' \in 0..MaxMoves
      /\ calls' \in [Callers -> Call \cup {None}]
  BY DEF Inductive, TypeOK
<1>3. QED
  BY <1>1, <1>2, ServedKeeps

\* The list is served.
LEMMA ServeListKeeps ==
    ASSUME Inductive, NEW f \in Slots, ServeList(f)
    PROVE  Inductive'
<1> DEFINE got == [rows |-> [d \in Days |-> IF d \in beyond THEN None ELSE days[d]],
                   cut |-> beyond]
<1>1. /\ flows[f] # None /\ flows[f].at = "list" /\ flows[f].got = None /\ Answer(f, got)
      /\ UNCHANGED <<days, beyond, calls, raced, phone, moves>>
  BY DEF ServeList, Pending, api
<1>2. /\ got \in List /\ got.cut = beyond
      /\ \A d \in Days : got.rows[d] = IF d \in beyond THEN None ELSE days[d]
  BY DEF List, Inductive, TypeOK
<1> HIDE DEF got
<1>3. Advances
  BY <1>1, UnchangedAdvances DEF Inductive
<1>4. got \notin Day
  BY <1>2 DEF List, Day
<1>5. \A d \in Days : got.rows[d] # None => Was(got.rows[d], days', raced', d)
  BY <1>1, <1>2, PastReflexive DEF Inductive, TypeOK, Was
<1>6. Lists([flows[f] EXCEPT !.got = got], records)
  <2>1. flows[f] \in Flow
    BY <1>1 DEF Inductive, TypeOK
  <2>2. \A d \in Days : records[<<d, "api">>] # None => days[d] # None
    BY Apart DEF Inductive, RecordsTell, Told, Id
  <2>3. [flows[f] EXCEPT !.got = got].got = got
    BY <2>1 DEF Flow
  <2>4. QED
    BY <2>2, <2>3, <1>2 DEF Lists
<1>7. /\ flows' \in [Slots -> Flow \cup {None}]
      /\ \A h \in Slots : flows'[h] # flows[h] => Fits(flows'[h], days', raced', records)
      /\ \A h \in Slots : h # f => flows'[h] = flows[h]
  BY <1>1, <1>2, <1>3, <1>4, <1>5, <1>6, AnswerFits
<1>8. calls[f] = None /\ days' \in [Days -> Day \cup {None}]
  BY <1>1, Apart, NoCall DEF Inductive, TypeOK
<1>9. QED
  BY <1>1, <1>3, <1>7, <1>8, AnsweredKeeps

\* The first page changes.
LEMMA RepageKeeps ==
    ASSUME Inductive, NEW d \in Days, Repage(d)
    PROVE  Inductive'
<1>1. Advances
  BY UnchangedAdvances DEF Inductive, Repage
<1>2. moves' \in 0..MaxMoves
  BY MoveCounts DEF Repage, Inductive
<1>3. CallsFit'
  BY <1>1, CallsFitLater DEF Repage, Inductive
<1>4. beyond' \subseteq Days
  BY DEF Repage, Inductive, TypeOK
<1>5. QED
  BY <1>1, <1>2, <1>3, <1>4, ServedKeeps DEF Repage, Inductive, TypeOK

\* A day is started, or was before.
LEMMA ServeStartKeeps ==
    ASSUME Inductive, NEW f \in Slots, ServeStart(f)
    PROVE  Inductive'
<1> DEFINE d == flows[f].id[1]
<1>1. /\ flows[f] # None /\ flows[f].at = "start" /\ flows[f].got = None
      /\ UNCHANGED <<beyond, calls, raced, phone, moves>> /\ moves' \in 0..MaxMoves
  BY DEF ServeStart, Pending, Inductive, TypeOK
<1>2. d \in Days /\ flows[f] \in Flow /\ Shape(flows[f])
  BY <1>1 DEF Inductive, TypeOK, FlowsFit, Shape, Id
<1>3. CASE days[d] = None
  <2>1. days' = [days EXCEPT ![d] = Fresh] /\ Answer(f, Fresh)
    BY <1>3 DEF ServeStart
  <2>2. Fresh \in Day /\ Fresh \notin List /\ Fresh.status = "IN_PROGRESS"
    BY CheckInAssumption DEF Fresh, Day, DayStatus, List
  <2>3. Advances /\ days' \in [Days -> Day \cup {None}]
    BY <1>1, <1>2, <1>3, <2>1, <2>2, OneAdvances DEF Inductive
  <2>4. Was(Fresh, days', raced', d)
    BY <1>2, <2>1, <2>2, PastReflexive DEF Inductive, TypeOK, Was
  <2>5. Outcome([flows[f] EXCEPT !.got = Fresh])
    BY <1>1, <1>2, <2>2 DEF Outcome, Flow, Shape
  <2>6. /\ flows' \in [Slots -> Flow \cup {None}]
        /\ \A h \in Slots : flows'[h] # flows[h] => Fits(flows'[h], days', raced', records)
        /\ \A h \in Slots : h # f => flows'[h] = flows[h]
    BY <1>1, <2>1, <2>2, <2>3, <2>4, <2>5, AnswerFits
  <2>7. calls[f] = None
    BY <1>1, Apart, NoCall
  <2>8. QED
    BY <1>1, <2>3, <2>6, <2>7, AnsweredKeeps
<1>4. CASE days[d] # None
  BY <1>1, <1>4, FailedKeeps DEF ServeStart
<1>5. QED
  BY <1>3, <1>4

\* The day a chain is about, as the API has it.
LEMMA TargetIsDay ==
    ASSUME Inductive, NEW f \in Slots, NEW at, at \in {"patch", "end", "upload", "complete"},
           Pending(f, at)
    PROVE  /\ flows[f] \in Flow /\ flows[f].at = at /\ Shape(flows[f])
           /\ flows[f].got = None /\ flows[f].id[1] \in Days
           /\ at = "patch" => flows[f].done \in Grids /\ flows[f].seen \in Record
           /\ Target(f) \in Day
           /\ at = "patch" => Told(flows[f].seen, days, raced, flows[f].id[1])
           /\ flows[f].kind = "grid-update" => flows[f].seen.status = "ONGOING"
           /\ \A got : [flows[f] EXCEPT !.got = got].at = at
           /\ \A got : [flows[f] EXCEPT !.got = got].id = flows[f].id
           /\ \A got : [flows[f] EXCEPT !.got = got].kind = flows[f].kind
           /\ \A got : [flows[f] EXCEPT !.got = got].got = got
<1>1. /\ flows[f] \in Flow /\ Shape(flows[f]) /\ Chain(flows[f], days, raced)
      /\ flows[f].at = at /\ flows[f].got = None
  BY DEF Inductive, TypeOK, FlowsFit, Pending
<1>2. /\ \A got : [flows[f] EXCEPT !.got = got].at = at
      /\ \A got : [flows[f] EXCEPT !.got = got].id = flows[f].id
      /\ \A got : [flows[f] EXCEPT !.got = got].kind = flows[f].kind
      /\ \A got : [flows[f] EXCEPT !.got = got].got = got
  BY <1>1 DEF Flow
<1>3. QED
  BY <1>1, <1>2 DEF Shape, Chain, Target, Id

\* A request is received: its transaction leads on from the row it has loaded to what
\* the request asks for, or it is refused.
LEMMA ReceiveKeeps ==
    ASSUME Inductive, NEW f \in Slots, NEW at, at \in {"patch", "end", "complete"},
           NEW allowed \in BOOLEAN, NEW new, Receive(f, at, allowed, new),
           allowed => /\ new \in Day /\ new.file = Target(f).file
                      /\ \/ new = Target(f)
                         \/ /\ new.version = Target(f).version + 1
                            /\ new.status = "IN_PROGRESS" => Target(f).status = "IN_PROGRESS"
                      /\ at = "patch" => flows[f].seen.version = Target(f).version
                      /\ flows[f].id[1] \notin raced =>
                            Outcome([flows[f] EXCEPT !.got = new])
    PROVE  Inductive'
<1> DEFINE d == flows[f].id[1]
           call == [day |-> d, row |-> days[d], new |-> new]
<1>1. /\ Pending(f, at) /\ calls[f] = None
      /\ UNCHANGED <<days, beyond, raced, phone, moves>>
  BY DEF Receive
<1>2. /\ flows[f] # None /\ moves' \in 0..MaxMoves /\ flows[f].at = at /\ flows[f].got = None
      /\ Target(f) \in Day /\ d \in Days /\ Target(f) = days[d] /\ f \in Callers
  BY <1>1, TargetIsDay DEF Pending, Inductive, TypeOK, Target, Callers
<1>3. CASE flows[f].id[2] = "api" /\ allowed
  <2>1. calls' = [calls EXCEPT ![f] = call] /\ UNCHANGED flows
    BY <1>3 DEF Receive, Load
  <2>2. /\ call \in Call /\ call.day = d /\ call.row = days[d] /\ call.new = new
    BY <1>2, <1>3 DEF Call
  <2> HIDE DEF call
  <2>3. Leads(call, days', raced')
    BY <1>1, <1>2, <1>3, <2>2, PastReflexive DEF Leads, Was
  <2>4. Serves(flows'[f], call, raced')
    BY <1>1, <1>2, <1>3, <2>1, <2>2 DEF Serves
  <2>5. /\ calls' \in [Callers -> Call \cup {None}]
        /\ \A c \in Callers : calls'[c] = calls[c] \/ (calls'[c] = call /\ c = f)
    BY <1>2, <2>1, <2>2 DEF Inductive, TypeOK
  <2>6. Advances
    BY <1>1, UnchangedAdvances DEF Inductive
  <2>7. CallsFit'
    BY <2>1, <2>3, <2>4, <2>5, <2>6, CallsFitLater DEF Inductive
  <2>8. QED
    BY <1>1, <1>2, <2>1, <2>5, <2>6, <2>7, ServedKeeps DEF Inductive, TypeOK
<1>4. CASE ~(flows[f].id[2] = "api" /\ allowed)
  BY <1>1, <1>2, <1>4, FailedKeeps DEF Receive
<1>5. QED
  BY <1>3, <1>4

\* Each way a transaction turns its row into another leads on from it.
LEMMA RowsLead ==
    ASSUME NEW row \in Day
    PROVE  /\ \A status \in DayStatus :
                 LET new == Bumped([row EXCEPT !.status = status])
                 IN  /\ new \in Day /\ new.file = row.file
                     /\ new.version = row.version + 1 /\ new.status = status
           /\ \A done \in Grids, skipped \in Grids \cup {None} :
                 LET new == Edited(row, done, skipped)
                 IN  /\ new \in Day /\ new.file = row.file /\ new.status = row.status
                     /\ new = row \/ new.version = row.version + 1
           /\ LET new == [row EXCEPT !.file = TRUE]
              IN  new \in Day /\ Past(row, new)
<1>1. ASSUME NEW status \in DayStatus
      PROVE  LET new == Bumped([row EXCEPT !.status = status])
             IN  /\ new \in Day /\ new.file = row.file
                 /\ new.version = row.version + 1 /\ new.status = status
  <2>1. /\ [row EXCEPT !.status = status] \in Day
        /\ [row EXCEPT !.status = status].status = status
        /\ [row EXCEPT !.status = status].version = row.version
        /\ [row EXCEPT !.status = status].file = row.file
    BY <1>1 DEF Day
  <2>2. ASSUME NEW r \in Day
        PROVE  /\ Bumped(r) \in Day /\ Bumped(r).file = r.file
               /\ Bumped(r).version = r.version + 1 /\ Bumped(r).status = r.status
    BY DEF Bumped, Day
  <2>3. QED
    BY <2>1, <2>2
<1>2. ASSUME NEW done \in Grids, NEW skipped \in Grids \cup {None}
      PROVE  LET new == Edited(row, done, skipped)
             IN  /\ new \in Day /\ new.file = row.file /\ new.status = row.status
                 /\ new = row \/ new.version = row.version + 1
  <2> DEFINE edited == [row EXCEPT !.done = done,
                                   !.skipped = IF skipped = None THEN @ ELSE skipped]
  <2>1. /\ edited \in Day /\ edited.file = row.file /\ edited.status = row.status
        /\ edited.version = row.version
    BY <1>2 DEF Day
  <2>2. Edited(row, done, skipped) = IF edited = row THEN row ELSE Bumped(edited)
    BY DEF Edited
  <2> HIDE DEF edited
  <2>3. /\ Bumped(edited) \in Day /\ Bumped(edited).file = edited.file
        /\ Bumped(edited).version = edited.version + 1
        /\ Bumped(edited).status = edited.status
    BY <2>1 DEF Bumped, Day
  <2>4. QED
    BY <2>1, <2>2, <2>3
<1>3. [row EXCEPT !.file = TRUE] \in Day /\ Past(row, [row EXCEPT !.file = TRUE])
  <2>1. /\ [row EXCEPT !.file = TRUE] \in Day
        /\ [row EXCEPT !.file = TRUE].file = TRUE
        /\ [row EXCEPT !.file = TRUE].version = row.version
        /\ [row EXCEPT !.file = TRUE].done = row.done
        /\ [row EXCEPT !.file = TRUE].skipped = row.skipped
        /\ [row EXCEPT !.file = TRUE].status = row.status
    BY DEF Day
  <2>2. row.version \in Nat
    BY DEF Day
  <2>3. QED
    BY <2>1, <2>2 DEF Past
<1>4. QED
  BY <1>1, <1>2, <1>3

\* A PATCH is received.
LEMMA ReceivePatchKeeps ==
    ASSUME Inductive, NEW f \in Slots, ReceivePatch(f)
    PROVE  Inductive'
<1> DEFINE new == Edited(Target(f), flows[f].done, flows[f].skipped)
           allowed == /\ Target(f).status # "COMPLETED"
                      /\ Target(f).version = flows[f].seen.version
<1>1. Receive(f, "patch", allowed, new) /\ Pending(f, "patch")
  BY DEF ReceivePatch, Receive
<1>2. /\ Target(f) \in Day /\ flows[f].done \in Grids /\ flows[f].skipped \in Grids \cup {None}
      /\ Target(f) = days[flows[f].id[1]]
  BY <1>1, TargetIsDay DEF Flow, Target
<1>3. /\ new \in Day /\ new.file = Target(f).file /\ new.status = Target(f).status
      /\ new = Target(f) \/ new.version = Target(f).version + 1
  BY <1>2, RowsLead
<1>4. ASSUME allowed, flows[f].id[1] \notin raced
      PROVE  Outcome([flows[f] EXCEPT !.got = new])
  <2>1. /\ flows[f].kind = "grid-update" /\ new.status = "CHECKED_OUT" => new.file
        /\ new.status # "COMPLETED"
    BY <1>1, <1>2, <1>3, <1>4, TargetIsDay DEF Tells, Told
  <2> HIDE DEF new
  <2>2. QED
    BY <1>1, <2>1, TargetIsDay DEF Outcome
<1>5. allowed \in BOOLEAN
  OBVIOUS
<1> HIDE DEF new
<1>6. QED
  BY <1>1, <1>3, <1>4, <1>5, ReceiveKeeps

\* A request to end a workorder or to complete a day is received.
LEMMA ReceiveStatusKeeps ==
    ASSUME Inductive, NEW f \in Slots, ReceiveEndDrive(f) \/ ReceiveComplete(f)
    PROVE  Inductive'
<1>1. PICK at \in {"end", "complete"}, status \in DayStatus, allowed \in BOOLEAN :
         /\ Receive(f, at, allowed, Bumped([Target(f) EXCEPT !.status = status]))
         /\ at = "end" => status = "CHECKED_OUT"
         /\ at = "complete" => status = "COMPLETED"
  <2>1. CASE ReceiveEndDrive(f)
    <3>1. Receive(f, "end", Target(f).status = "IN_PROGRESS",
                  Bumped([Target(f) EXCEPT !.status = "CHECKED_OUT"]))
      BY <2>1 DEF ReceiveEndDrive
    <3>2. (Target(f).status = "IN_PROGRESS") \in BOOLEAN /\ "CHECKED_OUT" \in DayStatus
      BY DEF DayStatus
    <3>3. QED
      BY <3>1, <3>2
  <2>2. CASE ReceiveComplete(f)
    <3>1. Receive(f, "complete", Target(f).status = "CHECKED_OUT" /\ Target(f).file,
                  Bumped([Target(f) EXCEPT !.status = "COMPLETED"]))
      BY <2>2 DEF ReceiveComplete
    <3>2. /\ (Target(f).status = "CHECKED_OUT" /\ Target(f).file) \in BOOLEAN
          /\ "COMPLETED" \in DayStatus
      BY DEF DayStatus
    <3>3. QED
      BY <3>1, <3>2
  <2>3. QED
    BY <2>1, <2>2
<1> DEFINE new == Bumped([Target(f) EXCEPT !.status = status])
<1>2. Pending(f, at)
  BY <1>1 DEF Receive
<1>3. /\ new \in Day /\ new.file = Target(f).file
      /\ new.version = Target(f).version + 1 /\ new.status = status
  BY <1>2, TargetIsDay, RowsLead
<1>4. Receive(f, at, allowed, new)
  BY <1>1
<1> HIDE DEF new
<1>5. new.status # "IN_PROGRESS"
  BY <1>1, <1>3
<1>6. Outcome([flows[f] EXCEPT !.got = new])
  BY <1>1, <1>2, <1>3, TargetIsDay DEF Outcome, Shape
<1>7. QED
  BY <1>1, <1>3, <1>4, <1>5, <1>6, ReceiveKeeps

\* An upload is served.
LEMMA ServeUploadKeeps ==
    ASSUME Inductive, NEW f \in Slots, ServeUpload(f)
    PROVE  Inductive'
<1> DEFINE d == flows[f].id[1]
           row == [Target(f) EXCEPT !.file = TRUE]
<1>1. /\ Pending(f, "upload") /\ UNCHANGED <<beyond, calls, raced, phone, moves>>
      /\ moves' \in 0..MaxMoves /\ flows[f] # None
  BY DEF ServeUpload, Pending, Inductive, TypeOK
<1>2. d \in Days /\ Target(f) \in Day /\ Target(f) = days[d]
  BY <1>1, TargetIsDay DEF Target
<1>3. CASE flows[f].id[2] = "api" /\ ~Target(f).file
  <2>1. days' = [days EXCEPT ![d] = row] /\ Answer(f, row)
    BY <1>3 DEF ServeUpload
  <2>2. row \in Day /\ Past(days[d], row) /\ row \notin List
    <3>1. row \in Day /\ Past(days[d], row)
      BY <1>2, RowsLead
    <3> HIDE DEF row
    <3>2. QED
      BY <3>1 DEF Day, List
  <2> HIDE DEF row
  <2>3. Advances /\ days' \in [Days -> Day \cup {None}]
    BY <1>1, <1>2, <2>1, <2>2, OneAdvances DEF Inductive
  <2>4. Was(row, days', raced', d)
    BY <1>2, <2>1, <2>2, PastReflexive DEF Inductive, TypeOK, Was
  <2>5. Outcome([flows[f] EXCEPT !.got = row])
    BY <1>1, TargetIsDay DEF Outcome, Shape
  <2>6. /\ flows' \in [Slots -> Flow \cup {None}]
        /\ \A h \in Slots : flows'[h] # flows[h] => Fits(flows'[h], days', raced', records)
        /\ \A h \in Slots : h # f => flows'[h] = flows[h]
    BY <1>1, <2>1, <2>2, <2>3, <2>4, <2>5, TargetIsDay, AnswerFits
  <2>7. calls[f] = None
    BY <1>1, Apart, TargetIsDay, NoCall
  <2>8. QED
    BY <1>1, <2>3, <2>6, <2>7, AnsweredKeeps
<1>4. CASE ~(flows[f].id[2] = "api" /\ ~Target(f).file)
  BY <1>1, <1>4, FailedKeeps DEF ServeUpload
<1>5. QED
  BY <1>3, <1>4

\* What a transaction writes over a row.
LEMMA FlushedIsDay ==
    ASSUME NEW stored \in Day, NEW call \in Call
    PROVE  /\ Flushed(stored, call) \in Day
           /\ call.new = call.row => Flushed(stored, call) = stored
           /\ /\ [stored EXCEPT !.file = call.row.file] = call.row
              /\ call.new.file = call.row.file
              => Flushed(stored, call) = [call.new EXCEPT !.file = stored.file]
<1>1. /\ call.row \in Day /\ call.new \in Day
      /\ DOMAIN stored = {"status", "version", "done", "skipped", "file"}
  BY DEF Call, Day
<1>2. Flushed(stored, call) =
         [status |-> IF call.new.status # call.row.status THEN call.new.status
                     ELSE stored.status,
          version |-> IF call.new.version # call.row.version THEN call.new.version
                      ELSE stored.version,
          done |-> IF call.new.done # call.row.done THEN call.new.done ELSE stored.done,
          skipped |-> IF call.new.skipped # call.row.skipped THEN call.new.skipped
                      ELSE stored.skipped,
          file |-> IF call.new.file # call.row.file THEN call.new.file ELSE stored.file]
  BY <1>1 DEF Flushed
<1>3. Flushed(stored, call) \in Day
  BY <1>1, <1>2 DEF Day
<1>4. call.new = call.row => Flushed(stored, call) = stored
  BY <1>1, <1>2 DEF Day
<1>5. ASSUME [stored EXCEPT !.file = call.row.file] = call.row,
             call.new.file = call.row.file
      PROVE  Flushed(stored, call) = [call.new EXCEPT !.file = stored.file]
  <2>1. /\ call.row.status = stored.status /\ call.row.version = stored.version
        /\ call.row.done = stored.done /\ call.row.skipped = stored.skipped
    BY <1>5 DEF Day
  <2>2. QED
    BY <1>1, <1>2, <1>5, <2>1 DEF Day
<1>6. QED
  BY <1>3, <1>4, <1>5

\* A transaction commits: where the day has not changed since it loaded the row, the
\* day moves on to what it was to write; elsewhere the day is written over.
LEMMA CommitKeeps ==
    ASSUME Inductive, NEW c \in Callers, Commit(c)
    PROVE  /\ Inductive'
           /\ \A f \in Slots : f # c => flows'[f] = flows[f]
           /\ calls[c].new = calls[c].row => UNCHANGED days
           /\ \/ calls[c].new = calls[c].row \/ calls[c].day \in raced'
              \/ [days[calls[c].day] EXCEPT !.file = calls[c].row.file] = calls[c].row
<1> DEFINE call == calls[c]
           d == call.day
           stored == days[d]
           row == Flushed(stored, call)
           got == [call.new EXCEPT !.file = stored.file]
<1>1. /\ call \in Call /\ d \in Days /\ call.row \in Day /\ call.new \in Day
      /\ Leads(call, days, raced) /\ (c \in Slots => Serves(flows[c], call, raced))
  BY DEF Commit, Inductive, TypeOK, CallsFit, Call
<1>2. /\ days' = [days EXCEPT ![d] = row]
      /\ raced' = IF call.new # call.row /\ Stale(call) THEN raced \cup {d} ELSE raced
      /\ calls' = [calls EXCEPT ![c] = None]
      /\ UNCHANGED <<beyond, phone, moves>>
      /\ \/ c \in Slots /\ flows[c] # None /\ flows[c].got = None /\ Answer(c, got)
         \/ ~(c \in Slots /\ flows[c] # None /\ flows[c].got = None) /\ UNCHANGED flows
  BY <1>1 DEF Commit, Inductive, TypeOK
<1>3. /\ stored \in Day /\ (d \notin raced => Past(call.row, stored))
      /\ call.new.file = call.row.file
      /\ \/ call.new = call.row
         \/ /\ call.new.version = call.row.version + 1
            /\ call.new.status = "IN_PROGRESS" => call.row.status = "IN_PROGRESS"
  BY <1>1 DEF Leads, Was
<1>4. /\ row \in Day
      /\ call.new = call.row => row = stored
      /\ [stored EXCEPT !.file = call.row.file] = call.row => row = got
  BY <1>1, <1>3, FlushedIsDay
<1>5. ~Stale(call) <=> [stored EXCEPT !.file = call.row.file] = call.row
  BY DEF Stale
<1>6. /\ got \in Day /\ got.file = stored.file /\ got.status = call.new.status
      /\ got.version = call.new.version /\ got.done = call.new.done
      /\ got.skipped = call.new.skipped
  BY <1>1, <1>3 DEF Day
<1>7. got \notin List
  <2> HIDE DEF got
  <2>1. QED
    BY <1>6 DEF Day, List
<1>8. raced \subseteq raced' /\ raced' \subseteq Days
  BY <1>1, <1>2 DEF Inductive, TypeOK
<1>9. ASSUME d \notin raced'
      PROVE  Past(stored, row) /\ Past(got, row)
  <2>1. call.new = call.row \/ [stored EXCEPT !.file = call.row.file] = call.row
    BY <1>2, <1>5, <1>9
  <2>2. CASE call.new = call.row
    <3>1. row = stored /\ Past(call.row, stored)
      BY <1>3, <1>4, <1>8, <1>9, <2>2
    <3>2. Past(got, stored)
      BY <1>6, <2>2, <3>1 DEF Past
    <3>3. QED
      BY <1>3, <3>1, <3>2, PastReflexive
  <2>3. CASE call.new # call.row /\ [stored EXCEPT !.file = call.row.file] = call.row
    <3>1. row = got
      BY <1>4, <2>3
    <3>2. /\ call.row.status = stored.status /\ call.row.version = stored.version
      BY <1>3, <2>3 DEF Day
    <3>3. Past(stored, got)
      BY <1>3, <1>6, <2>3, <3>2 DEF Past, Day
    <3>4. QED
      BY <1>6, <3>1, <3>3, PastReflexive
  <2>4. QED
    BY <2>1, <2>2, <2>3
<1> HIDE DEF row, got
<1>10. Advances /\ days' \in [Days -> Day \cup {None}]
  BY <1>1, <1>2, <1>4, <1>8, <1>9, OneAdvances DEF Inductive
<1>11. Was(got, days', raced', d)
  BY <1>1, <1>2, <1>4, <1>9 DEF Inductive, TypeOK, Was
<1>12. /\ flows' \in [Slots -> Flow \cup {None}]
       /\ \A h \in Slots : flows'[h] # flows[h] => Fits(flows'[h], days', raced', records)
       /\ \A h \in Slots : h # c => flows'[h] = flows[h]
  <2>1. CASE UNCHANGED flows
    BY <2>1 DEF Inductive, TypeOK
  <2>2. CASE c \in Slots /\ flows[c] # None /\ flows[c].got = None /\ Answer(c, got)
    <3>1. /\ flows[c] \in Flow /\ flows[c].at \in {"patch", "end", "complete"}
          /\ d = flows[c].id[1]
          /\ d \notin raced => Outcome([flows[c] EXCEPT !.got = call.new])
      BY <1>1, <2>2, Apart DEF Serves, Inductive, TypeOK
    <3>2. ASSUME d \notin raced'
          PROVE  Outcome([flows[c] EXCEPT !.got = got])
      <4>1. call.new.file => got.file
        BY <1>3, <1>6, <1>8, <3>2 DEF Past
      <4>2. Outcome([flows[c] EXCEPT !.got = call.new])
        BY <1>8, <3>1, <3>2
      <4>3. \A x : /\ [flows[c] EXCEPT !.got = x].got = x
                   /\ [flows[c] EXCEPT !.got = x].at = flows[c].at
                   /\ [flows[c] EXCEPT !.got = x].kind = flows[c].kind
        BY <3>1 DEF Flow
      <4>4. QED
        BY <1>6, <4>1, <4>2, <4>3 DEF Outcome
    <3>3. QED
      BY <1>6, <1>7, <1>10, <1>11, <2>2, <3>1, <3>2, AnswerFits
  <2>3. QED
    BY <1>2, <2>1, <2>2
<1>13. calls' \in [Callers -> Call \cup {None}] /\ calls'[c] = None /\ calls[c] # None
       /\ \A b \in Callers : calls'[b] = calls[b] \/ calls'[b] = None
  BY <1>1, <1>2, Apart DEF Inductive, TypeOK
<1>14. CallsFit'
  <2>1. \A b \in Slots : flows'[b] = flows[b] \/ calls'[b] # calls[b]
    BY <1>12, <1>13
  <2>2. QED
    BY <1>10, <1>13, <2>1, CallsFitLater DEF Inductive
<1>15. Inductive'
  BY <1>2, <1>8, <1>10, <1>12, <1>13, <1>14, ServedKeeps DEF Inductive, TypeOK
<1>16. call.new = call.row => UNCHANGED days
  BY <1>1, <1>2, <1>4 DEF Inductive, TypeOK
<1>17. QED
  BY <1>2, <1>5, <1>12, <1>15, <1>16

\* A request gets lost.
LEMMA LoseKeeps ==
    ASSUME Inductive, NEW f \in Slots, Lose(f)
    PROVE  Inductive'
<1>1. moves' \in 0..MaxMoves
  BY MoveCounts DEF Lose, Inductive
<1>2. QED
  BY <1>1, FailedKeeps DEF Lose

\* An admin's transaction is to lead on from its row.
LEMMA AdministerKeeps ==
    ASSUME Inductive, NEW d \in Days, NEW new \in Day, days[d] # None,
           new.file = days[d].file, new.version = days[d].version + 1,
           new.status = "IN_PROGRESS" => days[d].status = "IN_PROGRESS",
           Administer(d, new)
    PROVE  Inductive'
<1> DEFINE call == [day |-> d, row |-> days[d], new |-> new]
<1>1. /\ calls' = [calls EXCEPT ![Desk] = call]
      /\ UNCHANGED <<days, beyond, raced, phone, flows>>
  BY DEF Administer, Load
<1>2. days[d] \in Day /\ Desk \in Callers /\ Desk \notin Slots
  BY CheckInAssumption DEF Inductive, TypeOK, Callers
<1>3. call \in Call /\ call.day = d /\ call.row = days[d] /\ call.new = new
  BY <1>2 DEF Call
<1> HIDE DEF call
<1>4. Leads(call, days', raced')
  BY <1>1, <1>2, <1>3, PastReflexive DEF Leads, Was
<1>5. /\ calls' \in [Callers -> Call \cup {None}]
      /\ \A c \in Callers : calls'[c] = calls[c] \/ (calls'[c] = call /\ c \notin Slots)
  BY <1>1, <1>2, <1>3 DEF Inductive, TypeOK
<1>6. Advances
  BY <1>1, UnchangedAdvances DEF Inductive
<1>7. CallsFit'
  BY <1>1, <1>4, <1>5, <1>6, CallsFitLater DEF Inductive
<1>8. moves' \in 0..MaxMoves
  BY MoveCounts DEF Administer, Inductive
<1>9. QED
  BY <1>1, <1>5, <1>6, <1>7, <1>8, ServedKeeps DEF Inductive, TypeOK

\* An admin edits or reopens a day.
LEMMA AdminKeeps ==
    ASSUME Inductive, NEW d \in Days,
           AdminReopens(d) \/ \E counts \in Corrections : AdminEdits(d, counts)
    PROVE  Inductive'
<1>1. CASE AdminReopens(d)
  <2> DEFINE new == Bumped([days[d] EXCEPT !.status = "CHECKED_OUT"])
  <2>1. days[d] \in Day /\ days[d] # None /\ Administer(d, new)
    BY <1>1 DEF AdminReopens, Inductive, TypeOK
  <2>2. /\ new \in Day /\ new.file = days[d].file /\ new.version = days[d].version + 1
        /\ new.status = "CHECKED_OUT"
    BY <2>1, RowsLead DEF DayStatus
  <2> HIDE DEF new
  <2>3. QED
    BY <2>1, <2>2, AdministerKeeps
<1>2. ASSUME NEW counts \in Corrections, AdminEdits(d, counts)
      PROVE  Inductive'
  <2> DEFINE new == Edited(days[d], counts.done, counts.skipped)
  <2>1. /\ days[d] \in Day /\ days[d] # None /\ Administer(d, new) /\ new # days[d]
        /\ counts.done \in Grids /\ counts.skipped \in Grids
    BY <1>2, CheckInAssumption DEF AdminEdits, Inductive, TypeOK
  <2>2. /\ new \in Day /\ new.file = days[d].file /\ new.version = days[d].version + 1
        /\ new.status = days[d].status
    <3>1. counts.skipped \in Grids \cup {None}
      BY <2>1
    <3>2. /\ new \in Day /\ new.file = days[d].file /\ new.status = days[d].status
          /\ new = days[d] \/ new.version = days[d].version + 1
      BY <2>1, <3>1, RowsLead
    <3>3. QED
      BY <2>1, <3>2
  <2> HIDE DEF new
  <2>3. QED
    BY <2>1, <2>2, AdministerKeeps
<1>3. QED
  BY <1>1, <1>2

-----------------------------------------------------------------------------
(* The phone's steps. *)

\* A step that leaves the API and the records alone keeps the invariant if the flow
\* it changes, if any, is over or fits and has no transaction.
LEMMA PhoneKeeps ==
    ASSUME Inductive, UNCHANGED <<api, records>>, Mounted',
           screen' \in {"home", "list", "new", "detail"},
           opened' \in Id \cup {None},
           form' \in [done : Grids, skipped : Grids \cup {None}, files : 0..MaxFiles],
           mode' \in {"grid-update", "end-workorder", None}, crashed' \in BOOLEAN,
           moves' \in 0..MaxMoves,
           \/ UNCHANGED flows
           \/ \E f \in Slots : \E g :
                 /\ flows' = [flows EXCEPT ![f] = g]
                 /\ g = None \/ (Fits(g, days, raced, records) /\ calls[f] = None)
    PROVE  Inductive'
<1>1. Advances
  BY UnchangedAdvances DEF Inductive, api
<1>2. RecordsTell'
  BY <1>1, RecordsTellLater DEF Inductive
<1>3. /\ flows' \in [Slots -> Flow \cup {None}]
      /\ \A h \in Slots : flows'[h] # flows[h] =>
            flows'[h] = None \/ Fits(flows'[h], days, raced, records)
      /\ \A h \in Slots : flows'[h] = flows[h] \/ flows'[h] = None \/ calls[h] = None
  BY DEF Inductive, TypeOK, Fits
<1>4. NoneListed(records')
  BY DEF NoneListed
<1>5. FlowsFit'
  BY <1>1, <1>3, <1>4, FlowsFitLater DEF Inductive, api
<1>6. CallsFit'
  BY <1>1, <1>3, CallsFitLater DEF Inductive, api
<1>7. TypeOK'
  BY <1>3 DEF Inductive, TypeOK, api
<1>8. QED
  BY <1>2, <1>5, <1>6, <1>7 DEF Inductive

\* The load of the list is a flow with nothing answered.
LEMMA LoadingIsFlow ==
    /\ Loading \in Flow /\ Loading.got = None /\ Loading.kind = "list" /\ Loading.at = "list"
    /\ Loading.files = 0 /\ Loading.left = 0
BY CheckInAssumption DEF Loading, Flow

\* The load of the list fits whatever there is.
LEMMA LoadingFits ==
    ASSUME NEW rows, NEW over, NEW rs
    PROVE  Fits(Loading, rows, over, rs)
BY Apart, LoadingIsFlow DEF Fits, Shape, Chain, Lists

\* A render of a screen over some records.
LEMMA RenderMounts ==
    ASSUME TypeOK, ~crashed, NEW at, NEW id, NEW rs,
           at \in {"home", "list", "new", "detail"}, id \in Id \cup {None},
           rs \in [Id -> Record \cup {None}], at = "detail" => id # None,
           Render(at, id, rs)
    PROVE  /\ Mounted' /\ records' = rs
           /\ screen' \in {"home", "list", "new", "detail"}
           /\ opened' \in Id \cup {None}
           /\ form' \in [done : Grids, skipped : Grids \cup {None}, files : 0..MaxFiles]
           /\ mode' \in {"grid-update", "end-workorder", None} /\ crashed' \in BOOLEAN
           /\ crashed' => id # None /\ rs[id] = None
<1>1. screen' = at /\ opened' = id /\ records' = rs
  BY DEF Render
<1>2. CASE id = None
  BY <1>1, <1>2 DEF Render, Mounted, TypeOK
<1>3. CASE id # None /\ rs[id] = None
  BY <1>1, <1>3 DEF Render, Mounted, TypeOK
<1>4. CASE id # None /\ rs[id] # None
  <2>1. rs[id] \in Record
    BY <1>4
  <2>2. Filled(id, rs) \in [done : Grids, skipped : Grids \cup {None}, files : 0..MaxFiles]
    BY <2>1 DEF Filled, Record, TypeOK
  <2>3. form' \in Forms(id, rs)
    BY <1>4 DEF Render
  <2>4. form' \in [done : Grids, skipped : Grids \cup {None}, files : 0..MaxFiles]
    BY <2>2, <2>3 DEF Forms, TypeOK
  <2>5. mode' \in {"grid-update", "end-workorder", None} /\ crashed' = FALSE
    BY <1>4 DEF Render, TypeOK
  <2>6. QED
    BY <1>1, <1>4, <2>4, <2>5 DEF Mounted
<1>5. QED
  BY <1>2, <1>3, <1>4

\* A screen is opened.
LEMMA OpenKeeps ==
    ASSUME Inductive,
           \/ \E f \in Slots : OpenList(f)
           \/ OpenNew
           \/ \E id \in Id : OpenDetail(id)
    PROVE  Inductive'
<1>1. PICK at \in {"list", "new", "detail"}, id \in Id \cup {None} :
         Open(at, id) /\ (at = "detail" => id # None)
  BY Apart DEF OpenList, OpenNew, OpenDetail, Inductive, TypeOK
<1>2. ~crashed /\ Render(at, id, records) /\ UNCHANGED <<api, moves>>
  BY <1>1, CheckInAssumption DEF Open, Inductive, TypeOK
<1>3. /\ Mounted' /\ records' = records
      /\ screen' \in {"home", "list", "new", "detail"}
      /\ opened' \in Id \cup {None}
      /\ form' \in [done : Grids, skipped : Grids \cup {None}, files : 0..MaxFiles]
      /\ mode' \in {"grid-update", "end-workorder", None} /\ crashed' \in BOOLEAN
  BY <1>1, <1>2, RenderMounts DEF Inductive, TypeOK
<1>4. \/ UNCHANGED flows
      \/ \E f \in Slots : /\ flows' = [flows EXCEPT ![f] = Loading]
                          /\ Fits(Loading, days, raced, records) /\ calls[f] = None
  BY LoadingFits DEF OpenList, OpenNew, OpenDetail, Free
<1>5. QED
  BY <1>2, <1>3, <1>4, PhoneKeeps DEF Inductive, TypeOK

\* The tester chooses an action or changes the form.
LEMMA FormKeeps ==
    ASSUME Inductive,
           \/ \E action \in {"grid-update", "end-workorder"} : Choose(action)
           \/ \E grids \in Grids : TypeCompleted(grids) \/ TypeSkipped(grids)
           \/ PickDocument \/ RemoveAttachment
    PROVE  Inductive'
<1>1. UNCHANGED <<api, records, screen, opened, crashed, flows, moves>>
  BY DEF Choose, TypeCompleted, TypeSkipped, PickDocument, RemoveAttachment, Fill
<1>2. mode' \in {"grid-update", "end-workorder", None}
  BY DEF Choose, TypeCompleted, TypeSkipped, PickDocument, RemoveAttachment, Fill,
     Inductive, TypeOK
<1>3. form' \in [done : Grids, skipped : Grids \cup {None}, files : 0..MaxFiles]
  BY CheckInAssumption
  DEF Choose, TypeCompleted, TypeSkipped, PickDocument, RemoveAttachment, Fill,
      Inductive, TypeOK
<1>4. Mounted'
  BY <1>1 DEF Inductive, Mounted
<1>5. QED
  BY <1>1, <1>2, <1>3, <1>4, PhoneKeeps DEF Inductive, TypeOK

\* A chain that starts with a flow that fits.
LEMMA PressKeeps ==
    ASSUME Inductive, NEW f \in Slots, NEW g, Fits(g, days, raced, records), Press(f, g)
    PROVE  Inductive'
<1>1. moves' \in 0..MaxMoves
  BY MoveCounts DEF Press, Inductive
<1>2. Mounted'
  BY DEF Press, phone, Inductive, Mounted
<1>3. QED
  BY <1>1, <1>2, PhoneKeeps DEF Press, Free, phone, Inductive, TypeOK

\* A day is started.
LEMMA StartKeeps ==
    ASSUME Inductive, NEW f \in Slots, NEW d \in Days, handleSaveAsOngoing(f, d)
    PROVE  Inductive'
<1> DEFINE g == [Loading EXCEPT !.kind = "start", !.id = <<d, "clock">>, !.at = "start"]
<1>1. <<d, "clock">> \in Id
  BY DEF Id
<1>2. /\ g \in Flow /\ g.kind = "start" /\ g.at = "start" /\ g.got = None
      /\ g.id \in Id
  BY <1>1, LoadingIsFlow DEF Flow
<1>3. Press(f, g)
  BY DEF handleSaveAsOngoing
<1> HIDE DEF g
<1>4. Fits(g, days, raced, records)
  BY <1>2, Apart DEF Fits, Shape, Chain, Lists
<1>5. QED
  BY <1>3, <1>4, PressKeeps

\* The record the detail screen shows, where its controls can be used.
LEMMA ShownIsRecord ==
    ASSUME Inductive, NEW control, OnDetail(control)
    PROVE  /\ opened \in Id /\ Shown \in Record /\ Told(Shown, days, raced, opened[1])
           /\ control = "save" => Shown.status = "ONGOING" /\ mode # None
           /\ control = "complete" => Shown.status = "ATTACHMENTS"
<1>1. ~crashed /\ ~showActionModal /\ screen = "detail" /\ control \in Controls[Shown.status]
  BY CheckInAssumption DEF OnDetail, Inductive, TypeOK
<1>2. opened \in Id /\ Shown \in Record /\ Told(Shown, days, raced, opened[1])
  BY <1>1 DEF Inductive, TypeOK, Mounted, RecordsTell, Shown
<1>3. /\ control = "save" => Shown.status = "ONGOING"
      /\ control = "complete" => Shown.status = "ATTACHMENTS"
  BY <1>1, <1>2 DEF Controls, Record
<1>4. control = "save" => mode # None
  BY <1>1, <1>2, <1>3, Apart DEF showActionModal, editable, Shown
<1>5. QED
  BY <1>2, <1>3, <1>4

\* A chain that begins with a PATCH fits.
LEMMA PatchingFits ==
    ASSUME Inductive, opened \in Id, Shown \in Record, Told(Shown, days, raced, opened[1]),
           NEW g \in Flow, g.kind \in {"grid-update", "end-workorder", "complete"},
           g.at = "patch", g.id = opened, g.done \in Grids, g.seen = Shown, g.got = None,
           g.kind = "complete" => g.left > 0,
           g.kind = "grid-update" => Shown.status = "ONGOING"
    PROVE  Fits(g, days, raced, records)
<1>1. Shape(g)
  BY CheckInAssumption DEF Shape, Flow
<1>2. Chain(g, days, raced) /\ Lists(g, records)
  BY Apart DEF Chain, Told, Lists
<1>3. QED
  BY <1>1, <1>2 DEF Fits

\* A day's counts are saved, or its workorder ended.
LEMMA SaveKeeps ==
    ASSUME Inductive, NEW f \in Slots, handleSave(f)
    PROVE  Inductive'
<1>1. OnDetail("save") /\ Press(f, Patching(mode))
  BY DEF handleSave
<1>2. mode \in {"grid-update", "end-workorder"} /\ form.done \in Grids
  BY <1>1, ShownIsRecord DEF Inductive, TypeOK
<1>3. opened \in Id /\ Shown \in Record
  BY <1>1, ShownIsRecord
<1>4. /\ Patching(mode) \in Flow /\ Patching(mode).kind = mode /\ Patching(mode).at = "patch"
      /\ Patching(mode).id = opened /\ Patching(mode).done = form.done
      /\ Patching(mode).seen = Shown /\ Patching(mode).got = None
  BY <1>2, <1>3, LoadingIsFlow DEF Patching, Flow
<1>5. Fits(Patching(mode), days, raced, records)
  BY <1>1, <1>2, <1>3, <1>4, ShownIsRecord, PatchingFits
<1>6. QED
  BY <1>1, <1>5, PressKeeps

\* A day is completed with its files.
LEMMA SaveAttachmentsKeeps ==
    ASSUME Inductive, NEW f \in Slots, handleSaveAttachments(f)
    PROVE  Inductive'
<1> DEFINE g == [Patching("complete") EXCEPT !.skipped = form.skipped, !.files = form.files,
                                             !.left = form.files]
<1>1. OnDetail("complete") /\ form.files > 0 /\ Press(f, g)
  BY DEF handleSaveAttachments
<1>2. form.files \in 0..MaxFiles /\ form.done \in Grids /\ form.skipped \in Grids \cup {None}
  BY DEF Inductive, TypeOK
<1>3. opened \in Id /\ Shown \in Record
  BY <1>1, ShownIsRecord
<1>4. /\ g \in Flow /\ g.kind = "complete" /\ g.at = "patch" /\ g.id = opened
      /\ g.done = form.done /\ g.seen = Shown /\ g.left = form.files /\ g.got = None
  BY <1>2, <1>3, LoadingIsFlow DEF Patching, Flow
<1> HIDE DEF g
<1>5. Fits(g, days, raced, records)
  BY <1>1, <1>2, <1>3, <1>4, ShownIsRecord, PatchingFits
<1>6. QED
  BY <1>1, <1>5, PressKeeps

-----------------------------------------------------------------------------
(* The answers. *)

\* The flow whose answer is used, and its answer.
LEMMA AnsweredFlow ==
    ASSUME Inductive, NEW f \in Slots, NEW at, Answered(f, at), Got(f) # Failed
    PROVE  /\ ~crashed /\ flows[f] \in Flow /\ flows[f].at = at /\ calls[f] = None
           /\ Shape(flows[f]) /\ Chain(flows[f], days, raced) /\ Lists(flows[f], records)
           /\ at = "list" => Got(f) \in List
           /\ at # "list" => /\ Got(f) \in Day /\ flows[f].id \in Id
                             /\ Was(Got(f), days, raced, flows[f].id[1])
                             /\ flows[f].id[1] \notin raced => Outcome(flows[f])
<1>1. /\ ~crashed /\ flows[f] # None /\ flows[f].at = at
      /\ flows[f].got # None /\ flows[f].got # Failed
  BY DEF Answered, Got, Inductive, TypeOK
<1>2. /\ flows[f] \in Flow
      /\ Shape(flows[f]) /\ Chain(flows[f], days, raced) /\ Lists(flows[f], records)
  BY <1>1 DEF Inductive, TypeOK, FlowsFit
<1>3. calls[f] = None
  BY <1>1, NoCall
<1>4. QED
  BY <1>1, <1>2, <1>3 DEF Shape, Chain, Got

\* A chain that fails, or goes on with a flow that fits.
LEMMA ContinueKeeps ==
    ASSUME Inductive, NEW f \in Slots, NEW g,
           g = None \/ (Fits(g, days, raced, records) /\ calls[f] = None),
           flows' = [flows EXCEPT ![f] = g], UNCHANGED <<api, phone, moves>>
    PROVE  Inductive'
<1>1. Mounted'
  BY DEF phone, Inductive, Mounted
<1>2. QED
  BY <1>1, PhoneKeeps DEF phone, Inductive, TypeOK

\* A chain has failed.
LEMMA ChainFailedKeeps ==
    ASSUME Inductive, NEW f \in Slots, ChainFailed(f)
    PROVE  Inductive'
BY ContinueKeeps DEF ChainFailed, Stop

\* The next request of a chain fits if it is one of the chain's.
LEMMA NextFits ==
    ASSUME Inductive, NEW f \in Slots, NEW g \in Flow,
           flows[f] \in Flow, Shape(flows[f]), Chain(flows[f], days, raced),
           flows[f].at \notin {"list", "start"}, flows[f].kind # "grid-update",
           g.kind = flows[f].kind, g.id = flows[f].id, g.got = None,
           g.kind = "end-workorder" => g.at = "end" /\ g.done \in Grids,
           g.kind = "complete" => g.at \in {"upload", "complete"},
           g.kind = "complete" /\ g.at # "complete" => g.left \in 1..MaxFiles
    PROVE  Fits(g, days, raced, records)
<1>1. g.kind \in {"end-workorder", "complete"}
  BY DEF Shape, Flow
<1>2. Shape(g)
  BY <1>1 DEF Shape
<1>3. Chain(g, days, raced) /\ Lists(g, records)
  BY <1>1, Apart DEF Chain, Lists
<1>4. QED
  BY <1>2, <1>3 DEF Fits

\* The PATCH of a longer chain is answered.
LEMMA PatchAnsweredKeeps ==
    ASSUME Inductive, NEW f \in Slots, PatchAnswered(f)
    PROVE  Inductive'
<1>1. Answered(f, "patch") /\ Got(f) # Failed
  BY DEF PatchAnswered
<1>2. /\ flows[f] \in Flow /\ Shape(flows[f]) /\ Chain(flows[f], days, raced)
      /\ Got(f) \in Day /\ flows[f].at = "patch" /\ calls[f] = None
  BY <1>1, AnsweredFlow
<1>3. CASE /\ flows[f].kind = "end-workorder"
           /\ Continue(f, [flows[f] EXCEPT !.at = "end", !.done = Got(f).done, !.seen = None])
  <2> DEFINE g == [[flows[f] EXCEPT !.at = "end", !.done = Got(f).done, !.seen = None]
                   EXCEPT !.got = None]
  <2>1. /\ g \in Flow /\ g.kind = "end-workorder" /\ g.at = "end" /\ g.id = flows[f].id
        /\ g.done = Got(f).done /\ g.got = None
        /\ Got(f).done \in Grids
    BY <1>2, <1>3 DEF Flow, Day
  <2>2. flows' = [flows EXCEPT ![f] = g] /\ UNCHANGED <<api, phone, moves>>
    BY <1>3 DEF Continue
  <2> HIDE DEF g
  <2>3. Fits(g, days, raced, records)
    BY <1>2, <1>3, <2>1, NextFits
  <2>4. QED
    BY <1>2, <2>2, <2>3, ContinueKeeps
<1>4. CASE /\ flows[f].kind = "complete"
           /\ Continue(f, [flows[f] EXCEPT !.at = "upload", !.done = None,
                                           !.skipped = None, !.seen = None])
  <2> DEFINE g == [[flows[f] EXCEPT !.at = "upload", !.done = None, !.skipped = None,
                                    !.seen = None] EXCEPT !.got = None]
  <2>1. /\ g \in Flow /\ g.kind = "complete" /\ g.at = "upload" /\ g.id = flows[f].id
        /\ g.got = None /\ g.left = flows[f].left
    BY <1>2, <1>4 DEF Flow
  <2>2. flows' = [flows EXCEPT ![f] = g] /\ UNCHANGED <<api, phone, moves>>
    BY <1>4 DEF Continue
  <2> HIDE DEF g
  <2>3. g.left \in 1..MaxFiles
    BY <1>2, <1>4, <2>1 DEF Shape
  <2>4. Fits(g, days, raced, records)
    BY <1>2, <1>4, <2>1, <2>3, NextFits
  <2>5. QED
    BY <1>2, <2>2, <2>4, ContinueKeeps
<1>5. QED
  BY <1>3, <1>4 DEF PatchAnswered

\* An upload is answered: the next file, or the completion.
LEMMA UploadAnsweredKeeps ==
    ASSUME Inductive, NEW f \in Slots, UploadAnswered(f)
    PROVE  Inductive'
<1> DEFINE at == IF flows[f].left = 1 THEN "complete" ELSE "upload"
           g == [[flows[f] EXCEPT !.at = at, !.left = @ - 1] EXCEPT !.got = None]
<1>1. Answered(f, "upload") /\ Got(f) # Failed
  BY DEF UploadAnswered
<1>2. /\ flows[f] \in Flow /\ Shape(flows[f]) /\ Chain(flows[f], days, raced)
      /\ flows[f].at = "upload" /\ calls[f] = None
  BY <1>1, AnsweredFlow
<1>3. /\ flows[f].kind = "complete" /\ flows[f].left \in 1..MaxFiles
  BY <1>2 DEF Shape, Flow
<1>4. flows[f].left - 1 \in 0..MaxFiles /\ at \in {"complete", "upload"}
  BY <1>3, CheckInAssumption
<1>5. flows' = [flows EXCEPT ![f] = g] /\ UNCHANGED <<api, phone, moves>>
  BY DEF UploadAnswered, Continue
<1>6. /\ g \in Flow /\ g.kind = "complete" /\ g.at = at /\ g.id = flows[f].id
      /\ g.got = None /\ g.left = flows[f].left - 1
  <2> HIDE DEF at
  <2>1. ASSUME NEW left \in 0..MaxFiles, NEW h, h = [[flows[f] EXCEPT !.at = at, !.left = left]
                                                   EXCEPT !.got = None]
        PROVE  /\ h \in Flow /\ h.kind = flows[f].kind /\ h.at = at /\ h.id = flows[f].id
               /\ h.got = None /\ h.left = left
    BY <1>2, <1>4, <2>1 DEF Flow
  <2>2. g = [[flows[f] EXCEPT !.at = at, !.left = flows[f].left - 1] EXCEPT !.got = None]
    BY <1>2 DEF Flow
  <2>3. QED
    BY <1>3, <1>4, <2>1, <2>2
<1>7. at # "complete" => flows[f].left - 1 \in 1..MaxFiles
  BY <1>3, CheckInAssumption
<1> HIDE DEF g, at
<1>8. Fits(g, days, raced, records)
  BY <1>2, <1>3, <1>4, <1>6, <1>7, NextFits
<1>9. QED
  BY <1>2, <1>5, <1>8, ContinueKeeps

\* A chain ends: the records tell their days, and none is taken away.
LEMMA FinishKeeps ==
    ASSUME Inductive, ~crashed, NEW f \in Slots, calls[f] = None,
           NEW rs \in [Id -> Record \cup {None}],
           \A id \in Id : rs[id] # None => Told(rs[id], days, raced, id[1]),
           \A id \in Id : records[id] # None => rs[id] # None,
           NoneListed(rs), Finish(f, rs)
    PROVE  Inductive' /\ ~crashed'
<1>1. Render("list", opened, rs) /\ UNCHANGED <<api, moves>>
  BY DEF Finish
<1>2. /\ Mounted' /\ records' = rs
      /\ screen' \in {"home", "list", "new", "detail"}
      /\ opened' \in Id \cup {None}
      /\ form' \in [done : Grids, skipped : Grids \cup {None}, files : 0..MaxFiles]
      /\ mode' \in {"grid-update", "end-workorder", None} /\ crashed' \in BOOLEAN
      /\ crashed' => opened # None /\ rs[opened] = None
  BY <1>1, RenderMounts DEF Inductive, TypeOK
<1>3. ~crashed'
  BY <1>2 DEF Inductive, Mounted, TypeOK
<1>4. Advances
  BY <1>1, UnchangedAdvances DEF Inductive, api
<1>5. \E g : flows' = [flows EXCEPT ![f] = g] /\ (g = None \/ Fits(g, days, raced, rs))
  BY LoadingFits DEF Finish
<1>6. /\ flows' \in [Slots -> Flow \cup {None}]
      /\ \A h \in Slots : flows'[h] # flows[h] =>
            h = f /\ (flows'[h] = None \/ Fits(flows'[h], days, raced, rs))
  BY <1>5 DEF Inductive, TypeOK, Fits
<1>7. FlowsFit'
  BY <1>1, <1>2, <1>4, <1>6, FlowsFitLater DEF Inductive, api
<1>8. CallsFit'
  BY <1>1, <1>4, <1>6, CallsFitLater DEF Inductive, api
<1>9. RecordsTell'
  BY <1>1, <1>2 DEF RecordsTell, api
<1>10. TypeOK'
  BY <1>1, <1>2, <1>6 DEF Inductive, TypeOK, api
<1>11. QED
  BY <1>2, <1>3, <1>7, <1>8, <1>9, <1>10 DEF Inductive

\* A record that takes over the version of an answer tells the day what it says, and
\* the answer says what else it leaves out.
LEMMA MixedTells ==
    ASSUME NEW record \in Record, NEW row, NEW now, Past(row, now),
           record.version = row.version,
           now.status = "IN_PROGRESS" => record.status = "ONGOING",
           row.status = "COMPLETED" => record.status = "COMPLETED",
           row.status = "CHECKED_OUT" => record.status = "ATTACHMENTS" \/ row.file
    PROVE  LET mixed == [record EXCEPT !.mixed = Mixed(record, row)]
           IN  mixed \in Record /\ Tells(mixed, now)
<1> DEFINE mixed == [record EXCEPT !.mixed = Mixed(record, row)]
<1>1. Mixed(record, row) \subseteq Gap
  BY DEF Mixed, Gap
<1>2. /\ mixed \in Record
      /\ mixed.status = record.status /\ mixed.version = record.version
      /\ mixed.done = record.done /\ mixed.skipped = record.skipped
      /\ mixed.mixed = Mixed(record, row)
  BY <1>1 DEF Record
<1>3. /\ record.done = row.done \/ "counts" \in Mixed(record, row)
      /\ record.skipped = row.skipped \/ "skips" \in Mixed(record, row)
      /\ (record.status = "COMPLETED" <=> row.status = "COMPLETED")
         \/ "status" \in Mixed(record, row)
  BY DEF Mixed
<1> HIDE DEF mixed
<1>4. Tells(mixed, now)
  BY <1>2, <1>3 DEF Tells, Past, Day, DayStatus
<1>5. QED
  BY <1>2, <1>4 DEF mixed

\* A record is updated to one that tells its day.
LEMMA UpdatedTells ==
    ASSUME Inductive, NEW id \in Id, NEW record, NEW row,
           records[id] # None =>
               /\ [record EXCEPT !.mixed = Mixed(record, row)] \in Record
               /\ Told([record EXCEPT !.mixed = Mixed(record, row)], days, raced, id[1])
    PROVE  /\ Updated(id, record, row) \in [Id -> Record \cup {None}]
           /\ \A j \in Id : Updated(id, record, row)[j] # None =>
                 Told(Updated(id, record, row)[j], days, raced, j[1])
           /\ \A j \in Id : records[j] # None => Updated(id, record, row)[j] # None
           /\ NoneListed(Updated(id, record, row))
<1> DEFINE rs == Updated(id, record, row)
           mixed == [record EXCEPT !.mixed = Mixed(record, row)]
<1>1. records \in [Id -> Record \cup {None}]
  BY DEF Inductive, TypeOK
<1>2. rs = [records EXCEPT ![id] = IF records[id] = None THEN None ELSE mixed]
  BY <1>1 DEF Updated
<1> HIDE DEF mixed
<1>3. /\ \A j \in Id : j # id => rs[j] = records[j]
      /\ records[id] = None => rs[id] = None
      /\ records[id] # None => rs[id] = mixed
      /\ rs \in [Id -> Record \cup {None}]
  BY <1>1, <1>2 DEF mixed
<1>4. \A j \in Id : rs[j] # None => Told(rs[j], days, raced, j[1])
  BY <1>3 DEF Inductive, RecordsTell, mixed
<1>5. \A j \in Id : records[j] # None => rs[j] # None
  BY <1>3, Apart DEF mixed
<1>6. \A d \in Days : <<d, "api">> \in Id
  BY DEF Id
<1>7. NoneListed(rs)
  BY <1>3, <1>6 DEF NoneListed
<1>8. QED
  BY <1>3, <1>4, <1>5, <1>7

\* A day started is added after the clock.
LEMMA StartAnsweredKeeps ==
    ASSUME Inductive, NEW f \in Slots, StartAnswered(f)
    PROVE  Inductive' /\ ~crashed'
<1> DEFINE d == flows[f].id[1]
           row == Got(f)
           record == [status |-> "ONGOING", version |-> row.version, done |-> row.done,
                      skipped |-> row.skipped, ended |-> FALSE, files |-> None,
                      mixed |-> {}]
<1>1. /\ ~crashed /\ d \in Days /\ row \in Day /\ Was(row, days, raced, d)
      /\ d \notin raced => row.status = "IN_PROGRESS"
      /\ calls[f] = None
  BY AnsweredFlow DEF StartAnswered, Id, Outcome, Got
<1>2. record \in Record
  BY <1>1, CheckInAssumption DEF Record, Day
<1>3. Told(record, days, raced, d)
  BY <1>1 DEF Told, Was, Tells, Past, Day
<1>4. /\ Finish(f, Added(d, row))
      /\ Added(d, row) = [records EXCEPT ![<<d, "clock">>] = record]
  BY DEF StartAnswered, Added
<1> HIDE DEF record
<1> DEFINE rs == [records EXCEPT ![<<d, "clock">>] = record]
<1>5. <<d, "clock">> \in Id /\ records \in [Id -> Record \cup {None}]
  BY <1>1 DEF Id, Inductive, TypeOK
<1>6. /\ rs \in [Id -> Record \cup {None}]
      /\ \A j \in Id : rs[j] # records[j] => rs[j] = record /\ j = <<d, "clock">>
  BY <1>2, <1>5
<1>7. \A j \in Id : rs[j] # None => Told(rs[j], days, raced, j[1])
  BY <1>3, <1>6 DEF Inductive, RecordsTell
<1>8. \A j \in Id : records[j] # None => rs[j] # None
  BY <1>2, <1>6, Apart
<1>9. NoneListed(rs)
  BY <1>6 DEF NoneListed, Id
<1>10. QED
  BY <1>1, <1>4, <1>6, <1>7, <1>8, <1>9, FinishKeeps

\* The record of an id that is listed, and the day of its answer.
LEMMA AnsweredRecord ==
    ASSUME Inductive, NEW f \in Slots, NEW at \in {"patch", "end", "complete"},
           Answered(f, at), Got(f) # Failed
    PROVE  LET id == flows[f].id
           IN  /\ ~crashed /\ calls[f] = None /\ id \in Id /\ Got(f) \in Day
               /\ Was(Got(f), days, raced, id[1])
               /\ flows[f] \in Flow /\ flows[f].at = at /\ Shape(flows[f])
               /\ id[1] \notin raced => Outcome(flows[f])
               /\ records[id] # None => /\ records[id] \in Record
                                        /\ Told(records[id], days, raced, id[1])
BY AnsweredFlow DEF Inductive, TypeOK, RecordsTell

\* An answered chain that updates a record ends well if the record tells its day.
LEMMA UpdateKeeps ==
    ASSUME Inductive, NEW f \in Slots, NEW at \in {"patch", "end", "complete"},
           Answered(f, at), Got(f) # Failed, NEW record,
           records[flows[f].id] # None => record \in Record,
           records[flows[f].id] # None /\ flows[f].id[1] \notin raced =>
              LET row == Got(f)
                  now == days[flows[f].id[1]]
              IN  /\ record.version = row.version
                  /\ now.status = "IN_PROGRESS" => record.status = "ONGOING"
                  /\ row.status = "COMPLETED" => record.status = "COMPLETED"
                  /\ row.status = "CHECKED_OUT" => record.status = "ATTACHMENTS" \/ row.file,
           Finish(f, Updated(flows[f].id, record, Got(f)))
    PROVE  Inductive' /\ ~crashed'
<1> DEFINE id == flows[f].id
           mixed == [record EXCEPT !.mixed = Mixed(record, Got(f))]
<1>1. /\ ~crashed /\ calls[f] = None /\ id \in Id /\ Was(Got(f), days, raced, id[1])
  BY AnsweredRecord
<1>2. ASSUME records[id] # None
      PROVE  mixed \in Record /\ Told(mixed, days, raced, id[1])
  <2>1. mixed \in Record
    <3>1. Mixed(record, Got(f)) \subseteq Gap
      BY DEF Mixed, Gap
    <3>2. QED
      BY <1>2, <3>1 DEF Record
  <2>2. ASSUME id[1] \notin raced
        PROVE  Tells(mixed, days[id[1]])
    BY <1>1, <1>2, <2>2, MixedTells DEF Was
  <2>3. QED
    BY <1>1, <2>1, <2>2 DEF Told, Was
<1> HIDE DEF mixed
<1>3. records[id] # None =>
         /\ [record EXCEPT !.mixed = Mixed(record, Got(f))] \in Record
         /\ Told([record EXCEPT !.mixed = Mixed(record, Got(f))], days, raced, id[1])
  BY <1>2 DEF mixed
<1> HIDE DEF id
<1>4. /\ Updated(id, record, Got(f)) \in [Id -> Record \cup {None}]
      /\ \A j \in Id : Updated(id, record, Got(f))[j] # None =>
            Told(Updated(id, record, Got(f))[j], days, raced, j[1])
      /\ \A j \in Id : records[j] # None => Updated(id, record, Got(f))[j] # None
      /\ NoneListed(Updated(id, record, Got(f)))
  BY <1>1, <1>3, UpdatedTells
<1>5. QED
  BY <1>1, <1>4, FinishKeeps DEF id

\* The counts are saved.
LEMMA SaveAnsweredKeeps ==
    ASSUME Inductive, NEW f \in Slots, SaveAnswered(f)
    PROVE  Inductive' /\ ~crashed'
<1> DEFINE id == flows[f].id
           row == Got(f)
           record == [records[id] EXCEPT !.version = row.version, !.done = row.done]
<1>1. /\ Answered(f, "patch") /\ Got(f) # Failed /\ flows[f].kind = "grid-update"
      /\ Finish(f, Updated(id, record, row))
  BY DEF SaveAnswered
<1>2. /\ row \in Day /\ Was(row, days, raced, id[1])
      /\ id[1] \notin raced => Outcome(flows[f])
      /\ records[id] # None => records[id] \in Record /\ Told(records[id], days, raced, id[1])
  BY <1>1, AnsweredRecord
<1>3. id[1] \notin raced => row.status # "COMPLETED" /\ (row.status = "CHECKED_OUT" => row.file)
  BY <1>1, <1>2 DEF Outcome, Got
<1>4. records[id] # None =>
         /\ record \in Record /\ record.version = row.version
         /\ record.status = records[id].status
  BY <1>2 DEF Record, Day
<1> HIDE DEF record
<1>5. records[id] # None /\ id[1] \notin raced /\ days[id[1]].status = "IN_PROGRESS" =>
         record.status = "ONGOING"
  BY <1>2, <1>4 DEF Told, Tells
<1>6. QED
  BY <1>1, <1>3, <1>4, <1>5, UpdateKeeps

\* A workorder is ended.
LEMMA EndDriveAnsweredKeeps ==
    ASSUME Inductive, NEW f \in Slots, EndDriveAnswered(f)
    PROVE  Inductive' /\ ~crashed'
<1> DEFINE id == flows[f].id
           row == Got(f)
           record == [records[id] EXCEPT !.version = row.version, !.done = flows[f].done,
                                         !.status = "ATTACHMENTS", !.ended = TRUE]
<1>1. /\ Answered(f, "end") /\ Got(f) # Failed
      /\ Finish(f, Updated(id, record, row))
  BY DEF EndDriveAnswered
<1>2. /\ row \in Day /\ Was(row, days, raced, id[1]) /\ flows[f].done \in Grids
      /\ id[1] \notin raced => Outcome(flows[f]) /\ flows[f].at = "end"
      /\ records[id] # None => records[id] \in Record
  BY <1>1, AnsweredRecord DEF Shape
<1>3. id[1] \notin raced => row.status = "CHECKED_OUT" /\ days[id[1]].status # "IN_PROGRESS"
  BY <1>2 DEF Outcome, Got, Was, Past
<1>4. records[id] # None =>
         /\ record \in Record /\ record.version = row.version
         /\ record.status = "ATTACHMENTS"
  BY <1>2 DEF Record, Day
<1> HIDE DEF record
<1>5. QED
  BY <1>1, <1>3, <1>4, UpdateKeeps

\* A day is completed.
LEMMA CompleteAnsweredKeeps ==
    ASSUME Inductive, NEW f \in Slots, CompleteAnswered(f)
    PROVE  Inductive' /\ ~crashed'
<1> DEFINE id == flows[f].id
           row == Got(f)
           record == [records[id] EXCEPT !.version = row.version, !.done = row.done,
                                         !.skipped = row.skipped, !.status = "COMPLETED",
                                         !.files = flows[f].files]
<1>1. /\ Answered(f, "complete") /\ Got(f) # Failed
      /\ Finish(f, Updated(id, record, row))
  BY DEF CompleteAnswered
<1>2. /\ row \in Day /\ Was(row, days, raced, id[1]) /\ flows[f].files \in 0..MaxFiles
      /\ id[1] \notin raced => Outcome(flows[f]) /\ flows[f].at = "complete"
      /\ records[id] # None => records[id] \in Record
  BY <1>1, AnsweredRecord DEF Flow
<1>3. id[1] \notin raced => row.status = "COMPLETED" /\ days[id[1]].status # "IN_PROGRESS"
  BY <1>2 DEF Outcome, Got, Was, Past
<1>4. records[id] # None =>
         /\ record \in Record /\ record.version = row.version
         /\ record.status = "COMPLETED"
  BY <1>2 DEF Record, Day
<1> HIDE DEF record
<1>5. QED
  BY <1>1, <1>3, <1>4, UpdateKeeps

\* A list answer replaces every record; the loads it overtakes promise nothing
\* of what they will take away.
LEMMA ListAnsweredKeeps ==
    ASSUME Inductive, NEW f \in Slots, ListAnswered(f)
    PROVE  Inductive'
<1> DEFINE rows == Got(f).rows
           rs == Listed(rows)
<1>1. /\ ~crashed /\ Got(f) \in List /\ calls[f] = None
      /\ \A d \in Days : rows[d] # None => Was(rows[d], days, raced, d)
      /\ \A d \in Days : rows[d] \in Day \cup {None}
  BY AnsweredFlow DEF ListAnswered, Chain, Got, List
<1>2. /\ flows' = [Overtaking EXCEPT ![f] = None] /\ Render(screen, opened, rs)
      /\ UNCHANGED <<api, moves>>
  BY DEF ListAnswered
<1>3. ASSUME NEW id \in Id
      PROVE  /\ rs[id] \in Record \cup {None}
             /\ rs[id] # None => Told(rs[id], days, raced, id[1])
  <2>1. id[1] \in Days
    BY DEF Id
  <2>2. rs[id] = IF id[2] = "clock" \/ rows[id[1]] = None THEN None
                 ELSE toSubmissionRecord(rows[id[1]])
    BY DEF Listed
  <2>3. rows[id[1]] # None =>
           /\ rows[id[1]] \in Day /\ days[id[1]] \in Day
           /\ id[1] \notin raced => Past(rows[id[1]], days[id[1]])
    BY <1>1, <2>1 DEF Was
  <2>4. QED
    BY <2>2, <2>3, ListedIsRecord, ListedTells DEF Told
<1>4. rs \in [Id -> Record \cup {None}]
  BY <1>3 DEF Listed
<1> HIDE DEF rs
<1>5. /\ Mounted' /\ records' = rs
      /\ screen' \in {"home", "list", "new", "detail"}
      /\ opened' \in Id \cup {None}
      /\ form' \in [done : Grids, skipped : Grids \cup {None}, files : 0..MaxFiles]
      /\ mode' \in {"grid-update", "end-workorder", None} /\ crashed' \in BOOLEAN
  BY <1>1, <1>2, <1>4, RenderMounts DEF Inductive, TypeOK, Mounted
<1>6. ASSUME NEW h \in Slots, flows'[h] # None
      PROVE  /\ Fits(flows'[h], days, raced, rs)
             /\ flows'[h] = flows[h] \/ flows'[h].got = Failed \/ calls[h] = None
  <2>1. h # f /\ flows[h] # None
    BY <1>2, <1>6 DEF Overtaking
  <2>2. /\ flows[h] \in Flow /\ Shape(flows[h]) /\ Chain(flows[h], days, raced)
    BY <2>1 DEF Inductive, TypeOK, FlowsFit
  <2>3. CASE flows[h].kind # "list"
    <3>1. flows'[h] = flows[h] /\ flows[h].at # "list"
      BY <1>2, <2>1, <2>2, <2>3 DEF Overtaking, Shape
    <3>2. QED
      BY <2>2, <3>1 DEF Fits, Lists
  <2>4. CASE flows[h].kind = "list"
    <3> DEFINE g == [flows[h] EXCEPT !.overtaken = TRUE]
    <3>1. flows'[h] = g
      BY <1>2, <2>1, <2>4 DEF Overtaking
    <3>2. /\ g \in Flow /\ g.overtaken = TRUE /\ g.kind = flows[h].kind
          /\ g.at = flows[h].at /\ g.id = flows[h].id /\ g.done = flows[h].done
          /\ g.seen = flows[h].seen /\ g.left = flows[h].left /\ g.got = flows[h].got
      BY <2>2 DEF Flow
    <3> HIDE DEF g
    <3>3. Shape(g)
      BY <2>2, <3>2 DEF Shape
    <3>4. Chain(g, days, raced)
      BY <2>2, <2>4, <3>2 DEF Chain, Shape
    <3>5. Lists(g, rs)
      BY <3>2 DEF Lists
    <3>6. g.got = Failed \/ calls[h] = None
      BY <2>1, <2>2, <2>4, <3>2, NoCall DEF Shape
    <3>7. QED
      BY <3>1, <3>2, <3>3, <3>4, <3>5, <3>6 DEF Fits
  <2>5. QED
    BY <2>3, <2>4
<1>7. flows' \in [Slots -> Flow \cup {None}]
  <2>1. \A h \in Slots : flows'[h] \in Flow \cup {None}
    BY <1>6 DEF Fits
  <2>2. QED
    BY <1>2, <2>1 DEF Overtaking
<1>8. FlowsFit'
  BY <1>2, <1>5, <1>6 DEF FlowsFit, Fits, api
<1>9. CallsFit'
  <2>1. Advances
    BY <1>2, UnchangedAdvances DEF Inductive, api
  <2>2. QED
    BY <1>2, <1>6, <2>1, CallsFitLater DEF Inductive, api
<1>10. RecordsTell'
  BY <1>2, <1>3, <1>5 DEF RecordsTell, api
<1>11. TypeOK'
  BY <1>2, <1>4, <1>5, <1>7 DEF Inductive, TypeOK, api
<1>12. QED
  BY <1>5, <1>8, <1>9, <1>10, <1>11 DEF Inductive

-----------------------------------------------------------------------------
(* The invariant. *)

\* The app as it is when it is opened.
Blank ==
    /\ records = [id \in Id |-> None]
    /\ screen = "home" /\ opened = None /\ form = Unfilled
    /\ mode = None /\ crashed = FALSE
    /\ flows = [f \in Slots |-> None]

\* The app that has been opened fits whatever the API has.
LEMMA BlankIsTyped ==
    Blank => /\ records \in [Id -> Record \cup {None}]
             /\ screen \in {"home", "list", "new", "detail"}
             /\ opened \in Id \cup {None}
             /\ form \in [done : Grids, skipped : Grids \cup {None}, files : 0..MaxFiles]
             /\ mode \in {"grid-update", "end-workorder", None}
             /\ crashed \in BOOLEAN
             /\ flows \in [Slots -> Flow \cup {None}]
             /\ Mounted /\ RecordsTell /\ FlowsFit
<1>1. ASSUME Blank
      PROVE  Mounted /\ RecordsTell /\ FlowsFit
  BY <1>1 DEF Blank, Mounted, RecordsTell, FlowsFit
<1>2. ASSUME Blank
      PROVE  form \in [done : Grids, skipped : Grids \cup {None}, files : 0..MaxFiles]
  BY <1>2, CheckInAssumption DEF Blank, Unfilled
<1>3. QED
  BY <1>1, <1>2 DEF Blank

\* What an earlier use of the app has left is a day, or nothing.
LEMMA EarlierIsDay ==
    Earlier \subseteq Day \cup {None}
<1>1. Fresh \in Day
  BY CheckInAssumption DEF Fresh, Day, DayStatus
<1>2. \A status \in DayStatus, version \in Nat, file \in BOOLEAN :
         [Fresh EXCEPT !.status = status, !.version = version, !.file = file] \in Day
  BY <1>1 DEF Day
<1>3. /\ \A file \in BOOLEAN :
            [Fresh EXCEPT !.status = "CHECKED_OUT", !.version = 2, !.file = file] \in Day
      /\ [Fresh EXCEPT !.status = "COMPLETED", !.version = 3, !.file = TRUE] \in Day
  BY <1>2 DEF DayStatus
<1>4. QED
  BY <1>1, <1>3 DEF Earlier

\* The app starts with an invariant that holds.
LEMMA InitInductive ==
    Init => Inductive
<1>1. SUFFICES ASSUME Init PROVE Inductive
  OBVIOUS
<1>2. Blank
  BY <1>1 DEF Init, Blank
<1>3. /\ days \in [Days -> Day \cup {None}] /\ beyond = {} /\ raced = {} /\ moves = 0
      /\ calls = [c \in Callers |-> None]
  BY <1>1, EarlierIsDay DEF Init
<1>4. TypeOK
  BY <1>2, <1>3, CheckInAssumption, BlankIsTyped DEF TypeOK
<1>5. CallsFit
  BY <1>3 DEF CallsFit
<1>6. QED
  BY <1>2, <1>4, <1>5, BlankIsTyped DEF Inductive

\* The app is opened again.
LEMMA RestartKeeps ==
    ASSUME Inductive, Restart
    PROVE  Inductive' /\ ~crashed'
<1>1. Blank' /\ UNCHANGED <<api, moves>>
  BY DEF Restart, Blank
<1>2. /\ records' \in [Id -> Record \cup {None}]
      /\ screen' \in {"home", "list", "new", "detail"}
      /\ opened' \in Id \cup {None}
      /\ form' \in [done : Grids, skipped : Grids \cup {None}, files : 0..MaxFiles]
      /\ mode' \in {"grid-update", "end-workorder", None}
      /\ crashed' \in BOOLEAN
      /\ flows' \in [Slots -> Flow \cup {None}]
      /\ Mounted' /\ RecordsTell' /\ FlowsFit'
  <2>1. (Blank => /\ records \in [Id -> Record \cup {None}]
                  /\ screen \in {"home", "list", "new", "detail"}
                  /\ opened \in Id \cup {None}
                  /\ form \in [done : Grids, skipped : Grids \cup {None}, files : 0..MaxFiles]
                  /\ mode \in {"grid-update", "end-workorder", None}
                  /\ crashed \in BOOLEAN
                  /\ flows \in [Slots -> Flow \cup {None}]
                  /\ Mounted /\ RecordsTell /\ FlowsFit)'
    BY BlankIsTyped, PTL
  <2>2. QED
    BY <1>1, <2>1
<1>3. TypeOK'
  BY <1>1, <1>2 DEF Inductive, TypeOK, api
<1>4. CallsFit'
  <2>1. Advances
    BY <1>1, UnchangedAdvances DEF Inductive, api
  <2>2. \A f \in Slots : flows'[f] = None
    BY <1>1 DEF Blank
  <2>3. QED
    BY <1>1, <2>1, <2>2, CallsFitLater DEF Inductive, api
<1>5. QED
  BY <1>1, <1>2, <1>3, <1>4 DEF Inductive, Blank

\* Every step keeps the invariant.
LEMMA StepInductive ==
    Inductive /\ [Next]_vars => Inductive'
<1>1. SUFFICES ASSUME Inductive, [Next]_vars PROVE Inductive'
  OBVIOUS
<1>2. ASSUME NEW f \in Slots, Api(f)
      PROVE  Inductive'
  BY <1>1, <1>2, ServeListKeeps, ServeStartKeeps, ReceivePatchKeeps, ReceiveStatusKeeps,
     ServeUploadKeeps DEF Api
<1>3. ASSUME NEW f \in Slots, Continuation(f)
      PROVE  Inductive'
  BY <1>1, <1>3, ChainFailedKeeps, ListAnsweredKeeps, StartAnsweredKeeps, SaveAnsweredKeeps,
     PatchAnsweredKeeps, EndDriveAnsweredKeeps, UploadAnsweredKeeps, CompleteAnsweredKeeps
  DEF Continuation
<1>4. ASSUME NEW f \in Slots, Button(f)
      PROVE  Inductive'
  BY <1>1, <1>4, OpenKeeps, SaveKeeps, SaveAttachmentsKeeps, StartKeeps DEF Button
<1>5. CASE \/ OpenNew \/ PickDocument \/ RemoveAttachment \/ Restart
           \/ \E id \in Id : OpenDetail(id)
           \/ \E action \in {"grid-update", "end-workorder"} : Choose(action)
           \/ \E grids \in Grids : TypeCompleted(grids) \/ TypeSkipped(grids)
  BY <1>1, <1>5, OpenKeeps, FormKeeps, RestartKeeps
<1>6. CASE \E d \in Days : \/ AdminReopens(d) \/ Repage(d)
                           \/ \E counts \in Corrections : AdminEdits(d, counts)
  BY <1>1, <1>6, AdminKeeps, RepageKeeps
<1>7. CASE UNCHANGED vars
  <2>1. Mounted'
    BY <1>1, <1>7 DEF vars, Inductive, Mounted
  <2>2. QED
    BY <1>1, <1>7, <2>1, PhoneKeeps DEF vars, api, Inductive, TypeOK
<1>8. QED
  BY <1>1, <1>2, <1>3, <1>4, <1>5, <1>6, <1>7, LoseKeeps, CommitKeeps DEF Next

\* Records and answers fit the API's days, and every transaction leads on from the row
\* it has loaded, for any days, counts and bounds; of a day that was written over a
\* changed row (submission_service.py:348) only that it exists is known.
THEOREM InductiveHolds == Spec => []Inductive
BY InitInductive, StepInductive, PTL DEF Spec

-----------------------------------------------------------------------------
(* The properties. *)

\* Every variable of the check-in keeps its type, for any days, counts and bounds.
THEOREM TypeOKHolds == Spec => []TypeOK
<1>1. Inductive => TypeOK
  BY DEF Inductive
<1>2. QED
  BY <1>1, InductiveHolds, PTL

\* A record that carries the API's version of its day shows the API's counts and status,
\* whatever answers overtook each other (SubmissionsProvider.tsx:130), where no two
\* calls have given one version twice; counts, skipped counts and status that its
\* answer left out are the gaps it names.
THEOREM VersionTellsRecordHolds == Spec => []VersionTellsRecord
<1>1. Inductive => VersionTellsRecord
  BY DEF Inductive, RecordsTell, Told, VersionTellsRecord, Tells
<1>2. QED
  BY <1>1, InductiveHolds, PTL

\* A step that changes a day and answers a PATCH commits that PATCH.
LEMMA PatchesCommit ==
    ASSUME Inductive, Next, NEW f \in Slots, Pending(f, "patch"),
           days' # days, flows'[f] # flows[f]
    PROVE  Commit(f)
<1>1. (\E g \in Slots : Api(g)) \/ (\E c \in Callers : Commit(c))
  BY DEF Next, Lose, Continuation, Button, ChainFailed, ListAnswered, StartAnswered,
     SaveAnswered, PatchAnswered, EndDriveAnswered, UploadAnswered, CompleteAnswered,
     Continue, Finish, OpenList, OpenNew, OpenDetail, Open, handleSave,
     handleSaveAttachments, handleSaveAsOngoing, Press, Choose, TypeCompleted, TypeSkipped,
     PickDocument, RemoveAttachment, Fill, Restart, AdminReopens, AdminEdits, Administer,
     Repage, api
<1>2. ASSUME NEW g \in Slots, Api(g)
      PROVE  FALSE
  <2>1. ServeStart(g) \/ ServeUpload(g)
    BY <1>2 DEF Api, ServeList, ReceivePatch, ReceiveEndDrive, ReceiveComplete, Receive, api
  <2>2. g # f
    BY <2>1 DEF ServeStart, ServeUpload, Pending
  <2>3. flows'[f] = flows[f]
    BY <2>1, <2>2 DEF ServeStart, ServeUpload, Answer, Inductive, TypeOK
  <2>4. QED
    BY <2>3
<1>3. ASSUME NEW c \in Callers, Commit(c)
      PROVE  c = f
  BY <1>3, CommitKeeps
<1>4. QED
  BY <1>1, <1>2, <1>3

\* No save overwrites counts its tester has not seen, unless the day was written over a
\* row loaded before a change: a PATCH that commits on the row it has loaded was made on
\* the version that row has, and so on its counts (API_SPEC.md:206).
THEOREM SavesOverwriteWhatWasSeenHolds == Spec => SavesOverwriteWhatWasSeen
<1> DEFINE Seen == \A f \in Slots :
              Pending(f, "patch") /\ days' # days /\ flows'[f] # flows[f] =>
                  \/ flows[f].id[1] \in raced'
                  \/ /\ \/ flows[f].seen.done = Target(f).done
                        \/ "counts" \in flows[f].seen.mixed
                     /\ \/ flows[f].seen.skipped = Target(f).skipped
                        \/ "skips" \in flows[f].seen.mixed
<1>1. Inductive /\ [Next]_vars => [Seen]_vars
  <2>1. SUFFICES ASSUME Inductive, Next, NEW f \in Slots, Pending(f, "patch"),
                        days' # days, flows'[f] # flows[f], flows[f].id[1] \notin raced'
                 PROVE  /\ \/ flows[f].seen.done = Target(f).done
                           \/ "counts" \in flows[f].seen.mixed
                        /\ \/ flows[f].seen.skipped = Target(f).skipped
                           \/ "skips" \in flows[f].seen.mixed
    OBVIOUS
  <2>2. Commit(f) /\ f \in Callers
    BY <2>1, PatchesCommit DEF Callers
  <2>3. /\ flows[f].got = None /\ flows[f].at = "patch" /\ flows[f] # None
        /\ flows[f].id[1] \notin raced /\ flows[f].id[1] \in Days
        /\ Told(flows[f].seen, days, raced, flows[f].id[1])
        /\ Target(f) = days[flows[f].id[1]]
    BY <2>1, <2>2, TargetIsDay DEF Pending, Commit, Target
  <2>4. /\ calls[f] \in Call /\ Serves(flows[f], calls[f], raced)
        /\ calls[f].day = flows[f].id[1] /\ flows[f].seen.version = calls[f].row.version
    <3>1. calls[f] # None
      BY <2>2 DEF Commit
    <3>2. calls[f] \in Call /\ Serves(flows[f], calls[f], raced)
      BY <2>1, <2>2, <3>1 DEF Inductive, TypeOK, CallsFit
    <3>3. flows[f].got # Failed
      BY <2>3, Apart
    <3>4. QED
      BY <2>3, <3>2, <3>3 DEF Serves
  <2>5. [Target(f) EXCEPT !.file = calls[f].row.file] = calls[f].row
    BY <2>1, <2>2, <2>3, <2>4, CommitKeeps
  <2>6. Target(f).version = calls[f].row.version
    <3>1. Target(f) \in Day
      BY <2>3 DEF Told
    <3>2. [Target(f) EXCEPT !.file = calls[f].row.file].version = Target(f).version
      BY <3>1 DEF Day
    <3>3. QED
      BY <2>5, <3>2
  <2>7. QED
    BY <2>3, <2>4, <2>6 DEF Told, Tells
<1>2. QED
  BY <1>1, InductiveHolds, PTL DEF Spec, SavesOverwriteWhatWasSeen

\* Opening a screen over a record that is there does not crash.
LEMMA OpenDoesNotCrash ==
    ASSUME Inductive, \/ \E f \in Slots : OpenList(f)
                      \/ OpenNew
                      \/ \E id \in Id : OpenDetail(id)
    PROVE  ~crashed'
<1>1. PICK at \in {"list", "new", "detail"}, id \in Id \cup {None} :
         Open(at, id) /\ (at = "detail" => id # None) /\ (id # None => records[id] # None)
  BY Apart DEF OpenList, OpenNew, OpenDetail, Open, Inductive, TypeOK, Mounted
<1>2. ~crashed /\ Render(at, id, records)
  BY <1>1, CheckInAssumption DEF Open, Inductive, TypeOK
<1>3. QED
  BY <1>1, <1>2, RenderMounts DEF Inductive, TypeOK

\* The app crashes only when a list answer takes the record from under the detail screen:
\* the clock's, one an overtaken load's answer does not know, or one that the first page
\* has no room for (routers/submissions.py:63).
THEOREM OnlyLateListsCrashHolds == Spec => OnlyLateListsCrash
<1> DEFINE Late == crashed' /\ ~crashed =>
              \/ opened[2] = "clock"
              \/ \E f \in Slots :
                    /\ flows[f] # None /\ flows'[f] = None
                    /\ flows[f].overtaken \/ opened[1] \in flows[f].got.cut
<1>1. Inductive /\ [Next]_vars => [Late]_vars
  <2>1. SUFFICES ASSUME Inductive, Next, crashed', ~crashed
                 PROVE  \/ opened[2] = "clock"
                        \/ \E f \in Slots :
                              /\ flows[f] # None /\ flows'[f] = None
                              /\ flows[f].overtaken \/ opened[1] \in flows[f].got.cut
    OBVIOUS
  <2>2. PICK f \in Slots : ListAnswered(f)
    <3>1. \/ UNCHANGED crashed
          \/ Restart \/ OpenNew \/ \E id \in Id : OpenDetail(id)
          \/ \E f \in Slots : \/ ListAnswered(f) \/ StartAnswered(f) \/ SaveAnswered(f)
                              \/ EndDriveAnswered(f) \/ CompleteAnswered(f) \/ OpenList(f)
      BY <2>1 DEF Next, Lose, Commit, Continuation, Button, Api, ChainFailed, PatchAnswered,
         UploadAnswered, Continue, handleSave, handleSaveAttachments, handleSaveAsOngoing,
         Press, Choose, TypeCompleted, TypeSkipped, PickDocument, RemoveAttachment, Fill,
         AdminReopens, AdminEdits, Administer, Repage, ServeList, ServeStart, ReceivePatch,
         ReceiveEndDrive, ServeUpload, ReceiveComplete, Receive, phone
    <3>2. QED
      BY <2>1, <3>1, RestartKeeps, OpenDoesNotCrash, StartAnsweredKeeps, SaveAnsweredKeeps,
         EndDriveAnsweredKeeps, CompleteAnsweredKeeps
  <2>3. /\ Got(f) \in List /\ flows[f] \in Flow /\ Lists(flows[f], records)
        /\ flows[f].at = "list"
    BY <2>1, <2>2, AnsweredFlow DEF ListAnswered
  <2>4. /\ Render(screen, opened, Listed(Got(f).rows))
        /\ flows'[f] = None /\ flows[f] # None
    BY <2>1, <2>2 DEF ListAnswered, Answered, Overtaking
  <2>5. /\ opened \in Id /\ Listed(Got(f).rows)[opened] = None
        /\ records[opened] # None
    BY <2>1, <2>4 DEF Render, Inductive, TypeOK, Mounted
  <2>6. opened[2] = "clock" \/ Got(f).rows[opened[1]] = None
    <3>1. opened[1] \in Days
      BY <2>5 DEF Id
    <3>2. Got(f).rows[opened[1]] \in Day \cup {None}
      BY <2>3, <3>1 DEF List
    <3>3. QED
      BY <2>5, <3>2, ListedIsRecord DEF Listed
  <2>7. opened[2] = "api" => opened = <<opened[1], "api">> /\ opened[1] \in Days
    BY <2>5 DEF Id
  <2>8. opened[2] = "clock" \/ flows[f].overtaken \/ opened[1] \in flows[f].got.cut
    BY <2>3, <2>5, <2>6, <2>7 DEF Lists, Got, Id
  <2>9. QED
    BY <2>4, <2>8
<1>2. QED
  BY <1>1, InductiveHolds, PTL DEF Spec, OnlyLateListsCrash
=============================================================================

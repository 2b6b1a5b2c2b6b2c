-------------------------------- MODULE CheckIn --------------------------------
(***************************************************************************)
(* The mobile app's check-in: SubmissionsProvider's copy of the tester's   *)
(* days, the list, the new-submission and the detail screen, and the API   *)
(* they call.  A save, an end of a workorder and a completion are chains   *)
(* of requests; the copy is written only when a chain ends.  Whatever      *)
(* awaits an answer interleaves with the tester, with the list's reloads   *)
(* and with the admins.  The API checks a day on the row it has loaded and *)
(* writes what it changes when it commits, over what the row is by then.   *)
(***************************************************************************)
EXTENDS Naturals

CONSTANTS
    Days,         \* the days the tester may start
    Grids,        \* the counts a form may hold
    Corrections,  \* the counts an admin may write
    Slots,        \* the chains and loads awaiting an answer at once
    MaxMoves,     \* bound on the chains started, the requests that get lost, what
                  \* admins change and the days that change page, together
    MaxFiles,     \* bound on the files picked
    Desk,         \* the admins, one of whose calls is served at a time
    None,
    Failed        \* the answer of a request that was refused or lost

VARIABLES
    days,      \* the API's daily submissions
    beyond,    \* those the first page of GET /submissions leaves out
    calls,     \* the API's transactions between loading a day and committing
    raced,     \* history: the days that were written over a row loaded before a change
    records,   \* SubmissionsProvider: submissions, by id
    screen,    \* the focused screen
    opened,    \* the id the detail screen is mounted with
    form,      \* its completedGrids, its skippedGrids and the number of its attachments
    mode,      \* its actionMode
    crashed,   \* React has thrown the tree away
    flows,     \* what awaits an answer
    moves      \* what MaxMoves bounds

vars == <<days, beyond, calls, raced, records, screen, opened, form, mode, crashed, flows,
          moves>>
api == <<days, beyond, calls, raced>>
phone == <<records, screen, opened, form, mode, crashed>>

-----------------------------------------------------------------------------
DayStatus == {"IN_PROGRESS", "CHECKED_OUT", "COMPLETED"}

\* skipped stands for the force-tested count too, which the app sends and fills
\* with it; file: the day has an active attachment.
Day == [status : DayStatus, version : Nat, done : Grids, skipped : Grids, file : BOOLEAN]

\* A transaction that has loaded row and is to commit new.
Call == [day : Days, row : Day, new : Day]

\* addSubmission names a record after the clock, whatever the API called the day.
Id == Days \X {"api", "clock"}

\* files is None where the record has no attachments; mixed is history: what the
\* answer that brought the version said otherwise than the record does.
Gap == {"counts", "skips", "status"}
Record == [status : {"ONGOING", "ATTACHMENTS", "COMPLETED"}, version : Nat, done : Grids,
           skipped : Grids, ended : BOOLEAN, files : 0..MaxFiles \cup {None},
           mixed : SUBSET Gap]

\* cut is history: the days the page had no room for.
List == [rows : [Days -> Day \cup {None}], cut : SUBSET Days]

\* A flow: at is the request it awaits, done and skipped the counts the screen sent
\* (None if it sends none any more), seen the record it was pressed on, left the files still to
\* upload; overtaken is history: another list answer arrived while this one was awaited.
Flow == [kind : {"list", "start", "grid-update", "end-workorder", "complete"},
         id : Id \cup {None}, at : {"list", "start", "patch", "end", "upload", "complete"},
         done : Grids \cup {None}, skipped : Grids \cup {None}, seen : Record \cup {None},
         files : 0..MaxFiles, left : 0..MaxFiles, overtaken : BOOLEAN,
         got : Day \cup List \cup {None, Failed}]

ASSUME CheckInAssumption ==
    /\ 0 \in Grids /\ Corrections \subseteq [done : Grids, skipped : Grids]
    /\ MaxMoves \in Nat /\ MaxFiles \in Nat
    /\ None # Failed /\ None \notin Grids /\ Desk \notin Slots
    /\ {None, Failed} \cap (Day \cup List \cup Id \cup Record \cup Flow \cup Call) = {}

Callers == Slots \cup {Desk}

Loading == [kind |-> "list", id |-> None, at |-> "list", done |-> None, skipped |-> None,
            seen |-> None, files |-> 0, left |-> 0, overtaken |-> FALSE, got |-> None]

\* A slot is taken until its flow is over and the API is done with its call.
Free(f) == flows[f] = None /\ calls[f] = None

Move == moves < MaxMoves /\ moves' = moves + 1

-----------------------------------------------------------------------------
(* The API: a request that changes a day loads and checks it without a lock, and
   commits later. *)

Fresh == [status |-> "IN_PROGRESS", version |-> 1, done |-> 0, skipped |-> 0, file |-> FALSE]

Bumped(row) == [row EXCEPT !.version = @ + 1]

Pending(f, at) == flows[f] # None /\ flows[f].at = at /\ flows[f].got = None

Answer(f, got) == flows' = [flows EXCEPT ![f].got = got]

ServeList(f) ==
    /\ Pending(f, "list")
    /\ Answer(f, [rows |-> [d \in Days |-> IF d \in beyond THEN None ELSE days[d]],
                  cut |-> beyond])
    /\ UNCHANGED <<api, phone, moves>>

\* Other days of the tester come and go, and an admin moves dates: the first 20 by
\* date no longer hold d, or hold it again.
Repage(d) ==
    /\ days[d] # None
    /\ beyond' = IF d \in beyond THEN beyond \ {d} ELSE beyond \cup {d}
    /\ Move
    /\ UNCHANGED <<days, calls, raced, phone, flows>>

\* A day has one submission.
ServeStart(f) ==
    LET d == flows[f].id[1] IN
    /\ Pending(f, "start")
    /\ IF days[d] = None
       THEN days' = [days EXCEPT ![d] = Fresh] /\ Answer(f, Fresh)
       ELSE Answer(f, Failed) /\ UNCHANGED days
    /\ UNCHANGED <<beyond, calls, raced, phone, moves>>

\* The day the API finds under the id of a request; the clock's ids name none.
Target(f) == days[flows[f].id[1]]

\* The transaction of caller c has loaded d and is to turn it into new.
Load(c, d, new) == calls' = [calls EXCEPT ![c] = [day |-> d, row |-> days[d], new |-> new]]

\* The request at `at` is received; the row it loads tells whether it is allowed.
Receive(f, at, allowed, new) ==
    /\ Pending(f, at) /\ calls[f] = None
    /\ IF flows[f].id[2] = "api" /\ allowed
       THEN Load(f, flows[f].id[1], new) /\ UNCHANGED flows
       ELSE Answer(f, Failed) /\ UNCHANGED calls
    /\ UNCHANGED <<days, beyond, raced, phone, moves>>

\* An edit that changes nothing takes no version; counts that are not sent stay.
Edited(row, done, skipped) ==
    LET edited == [row EXCEPT !.done = done,
                              !.skipped = IF skipped = None THEN @ ELSE skipped]
    IN  IF edited = row THEN row ELSE Bumped(edited)

\* Mutant: a PATCH does not look at the version it was made on.
ReceiveAnyPatch(f) ==
    Receive(f, "patch", Target(f).status # "COMPLETED",
            Edited(Target(f), flows[f].done, flows[f].skipped))

ReceivePatch(f) ==
    Receive(f, "patch",
            Target(f).status # "COMPLETED" /\ Target(f).version = flows[f].seen.version,
            Edited(Target(f), flows[f].done, flows[f].skipped))

ReceiveEndDrive(f) ==
    Receive(f, "end", Target(f).status = "IN_PROGRESS",
            Bumped([Target(f) EXCEPT !.status = "CHECKED_OUT"]))

ReceiveComplete(f) ==
    Receive(f, "complete", Target(f).status = "CHECKED_OUT" /\ Target(f).file,
            Bumped([Target(f) EXCEPT !.status = "COMPLETED"]))

\* A day has one active file; an upload changes neither its status nor its version.
ServeUpload(f) ==
    /\ Pending(f, "upload")
    /\ IF flows[f].id[2] = "api" /\ ~Target(f).file
       THEN LET row == [Target(f) EXCEPT !.file = TRUE]
            IN  days' = [days EXCEPT ![flows[f].id[1]] = row] /\ Answer(f, row)
       ELSE Answer(f, Failed) /\ UNCHANGED days
    /\ UNCHANGED <<beyond, calls, raced, phone, moves>>

\* The UPDATE sets the columns the transaction has changed, whatever they are by now.
Flushed(stored, call) ==
    [column \in DOMAIN stored |-> IF call.new[column] # call.row[column]
                                  THEN call.new[column] ELSE stored[column]]

\* The row has changed since the transaction loaded it.
Stale(call) == [days[call.day] EXCEPT !.file = call.row.file] # call.row

\* The answer shows the row of the transaction's session; its file is counted after
\* the commit.
Commit(c) ==
    LET call == calls[c] IN
    /\ call # None
    /\ days' = [days EXCEPT ![call.day] = Flushed(@, call)]
    /\ raced' = IF call.new # call.row /\ Stale(call) THEN raced \cup {call.day} ELSE raced
    /\ calls' = [calls EXCEPT ![c] = None]
    /\ IF c \in Slots /\ flows[c] # None /\ flows[c].got = None
       THEN Answer(c, [call.new EXCEPT !.file = days[call.day].file])
       ELSE UNCHANGED flows
    /\ UNCHANGED <<beyond, phone, moves>>

\* A request gets lost, fails or times out: the API has received it or never will,
\* and commits it or not.
Lose(f) ==
    /\ flows[f] # None /\ flows[f].got # Failed
    /\ Move
    /\ Answer(f, Failed)
    /\ calls' \in {calls, [calls EXCEPT ![f] = None]}
    /\ UNCHANGED <<days, beyond, raced, phone>>

\* An admin's request is received.
Administer(d, new) ==
    /\ calls[Desk] = None /\ Load(Desk, d, new)
    /\ Move
    /\ UNCHANGED <<days, beyond, raced, phone, flows>>

AdminEdits(d, counts) ==
    LET edited == Edited(days[d], counts.done, counts.skipped)
    IN  days[d] # None /\ edited # days[d] /\ Administer(d, edited)

AdminReopens(d) ==
    /\ days[d] # None /\ days[d].status = "COMPLETED"
    /\ Administer(d, Bumped([days[d] EXCEPT !.status = "CHECKED_OUT"]))

-----------------------------------------------------------------------------
(* Rendering: the detail screen stays mounted once it has been opened. *)

editable(id, rs) == id # None /\ rs[id] # None /\ rs[id].status = "ONGOING"

\* The dependencies of the effect that fills the form.  They lack the id; the
\* clock's records leave forceTestedGrids undefined.
Dependencies(id, rs) == <<rs[id].done, rs[id].skipped, rs[id].ended, rs[id].files, id[2]>>

\* A count of skipped grids that is zero leaves its field blank.
Filled(id, rs) == [done |-> rs[id].done,
                   skipped |-> IF rs[id].skipped = 0 THEN None ELSE rs[id].skipped,
                   files |-> IF rs[id].files = None THEN form.files ELSE rs[id].files]

\* The form after a render of id: filled when a dependency has changed.  End
\* times are compared too, and those of two days may differ or not.
Forms(id, rs) ==
    IF opened = None \/ Dependencies(id, rs) # Dependencies(opened, records)
    THEN {Filled(id, rs)}
    ELSE IF id # opened /\ rs[id].ended THEN {form, Filled(id, rs)}
    ELSE {form}

\* The screen at is focused, the detail screen renders id over the records rs.
\* Its hooks after the early return are called for the first time, or no longer,
\* when the record it shows comes or goes: React throws.
Render(at, id, rs) ==
    /\ screen' = at /\ opened' = id /\ records' = rs
    /\ IF id = None
       THEN UNCHANGED <<form, mode, crashed>>
       ELSE IF rs[id] = None
       THEN crashed' = TRUE /\ UNCHANGED <<form, mode>>
       ELSE /\ form' \in Forms(id, rs)
            /\ mode' = IF /\ at = "detail" /\ editable(id, rs)
                          /\ ~(screen = "detail" /\ editable(opened, records) /\ opened = id)
                       THEN None ELSE mode
            /\ UNCHANGED crashed

\* The Select Action modal lies over every screen.
showActionModal == editable(opened, records) /\ mode = None

\* Mutant: a list answer leaves out the completed days.
ListedOngoing(got) ==
    [id \in Id |->
        IF id[2] = "clock" \/ got[id[1]] = None THEN None
        ELSE LET row == got[id[1]] IN
             IF row.status = "COMPLETED" THEN None ELSE
             [status |-> IF row.status = "CHECKED_OUT" /\ ~row.file THEN "ATTACHMENTS"
                         ELSE "ONGOING",
              version |-> row.version, done |-> row.done, skipped |-> row.skipped,
              ended |-> row.status # "IN_PROGRESS", files |-> None, mixed |-> {}]]

\* Mutant: the API's status is shown as it is.
UnmappedStatus(row) == row.status

toLocalStatus(row) == IF row.status = "COMPLETED" THEN "COMPLETED"
                      ELSE IF row.status = "CHECKED_OUT" /\ ~row.file THEN "ATTACHMENTS"
                      ELSE "ONGOING"

toSubmissionRecord(row) ==
    [status |-> toLocalStatus(row), version |-> row.version, done |-> row.done,
     skipped |-> row.skipped, ended |-> row.status # "IN_PROGRESS", files |-> None,
     mixed |-> {}]

\* The list answer replaces every record, those it does not hold included.
Listed(got) ==
    [id \in Id |-> IF id[2] = "clock" \/ got[id[1]] = None THEN None
                   ELSE toSubmissionRecord(got[id[1]])]

\* addSubmission
Added(d, row) ==
    [records EXCEPT ![<<d, "clock">>] =
        [status |-> "ONGOING", version |-> row.version, done |-> row.done,
         skipped |-> row.skipped, ended |-> FALSE, files |-> None, mixed |-> {}]]

\* What the record of an answer that brought row as its day says otherwise.
Mixed(record, row) ==
    (IF record.done = row.done THEN {} ELSE {"counts"})
    \cup (IF record.skipped = row.skipped THEN {} ELSE {"skips"})
    \cup (IF record.status = "COMPLETED" <=> row.status = "COMPLETED" THEN {} ELSE {"status"})

\* updateSubmission, on an answer that brought row: an id no longer listed is left alone.
Updated(id, record, row) ==
    [records EXCEPT ![id] = IF @ = None THEN @
                            ELSE [record EXCEPT !.mixed = Mixed(record, row)]]

-----------------------------------------------------------------------------
(* What the tester does.  Every focus of the list loads it. *)

Open(at, id) ==
    /\ ~crashed /\ ~showActionModal /\ screen # at
    /\ Render(at, id, records)
    /\ UNCHANGED <<api, moves>>

OpenList(f) == Free(f) /\ Open("list", opened) /\ flows' = [flows EXCEPT ![f] = Loading]

OpenNew == screen = "list" /\ Open("new", opened) /\ UNCHANGED flows

OpenDetail(id) == screen = "list" /\ records[id] # None /\ Open("detail", id) /\ UNCHANGED flows

Shown == records[opened]

\* What the detail screen shows of a record of each status: the fields of the counts
\* and their save button, the attachments and the button that completes the day.
Controls ==
    [ONGOING |-> {"counts", "save"},
     ATTACHMENTS |-> {"counts", "attachments", "complete"},
     COMPLETED |-> {}]

OnDetail(control) ==
    ~crashed /\ ~showActionModal /\ screen = "detail" /\ control \in Controls[Shown.status]

Choose(action) ==
    /\ ~crashed /\ showActionModal
    /\ mode' = action
    /\ UNCHANGED <<api, records, screen, opened, form, crashed, flows, moves>>

Fill(filled) ==
    /\ form' = filled /\ form' # form
    /\ UNCHANGED <<api, records, screen, opened, mode, crashed, flows, moves>>

TypeCompleted(done) ==
    OnDetail("counts") /\ Fill([form EXCEPT !.done = done])

TypeSkipped(skipped) ==
    OnDetail("attachments") /\ Fill([form EXCEPT !.skipped = skipped])

PickDocument ==
    /\ OnDetail("attachments") /\ form.files < MaxFiles
    /\ Fill([form EXCEPT !.files = @ + 1])

RemoveAttachment ==
    /\ OnDetail("attachments") /\ form.files > 0
    /\ Fill([form EXCEPT !.files = @ - 1])

\* A button that starts a chain of requests; isSaving disables none of them.
Press(f, flow) ==
    /\ Free(f)
    /\ Move
    /\ flows' = [flows EXCEPT ![f] = flow]
    /\ UNCHANGED <<api, phone>>

\* The form of the new-submission screen may be filled in for any day; its other
\* fields reach neither the counts nor the status of a record.
Entered == IF ~crashed /\ ~showActionModal /\ screen = "new" THEN Days ELSE {}

handleSaveAsOngoing(f, d) ==
    /\ d \in Entered
    /\ Press(f, [Loading EXCEPT !.kind = "start", !.id = <<d, "clock">>, !.at = "start"])

Patching(kind) == [Loading EXCEPT !.kind = kind, !.id = opened, !.at = "patch",
                                  !.done = form.done, !.seen = Shown]

handleSave(f) ==
    /\ OnDetail("save")
    /\ Press(f, Patching(mode))

handleSaveAttachments(f) ==
    /\ OnDetail("complete") /\ form.files > 0 /\ form.skipped # None
    /\ Press(f, [Patching("complete") EXCEPT !.skipped = form.skipped,
                                             !.files = form.files, !.left = form.files])

-----------------------------------------------------------------------------
(* What the app does with an answer. *)

Answered(f, at) == ~crashed /\ flows[f] # None /\ flows[f].at = at /\ flows[f].got # None

Got(f) == flows[f].got

Stop(f) == flows' = [flows EXCEPT ![f] = None]

\* Every chain shows an error in its screen when a request of it has failed,
\* and leaves the records as they were.
ChainFailed(f) ==
    /\ ~crashed /\ flows[f] # None /\ Got(f) = Failed
    /\ Stop(f)
    /\ UNCHANGED <<api, phone, moves>>

Overtaking ==
    [f \in Slots |-> IF flows[f] # None /\ flows[f].kind = "list"
                     THEN [flows[f] EXCEPT !.overtaken = TRUE] ELSE flows[f]]

ListAnswered(f) ==
    /\ Answered(f, "list") /\ Got(f) # Failed
    /\ flows' = [Overtaking EXCEPT ![f] = None]
    /\ Render(screen, opened, Listed(Got(f).rows))
    /\ UNCHANGED <<api, moves>>

Continue(f, flow) ==
    /\ flows' = [flows EXCEPT ![f] = [flow EXCEPT !.got = None]]
    /\ UNCHANGED <<api, phone, moves>>

\* The records are written and the list comes up, loading if it was not in focus.
Finish(f, rs) ==
    /\ flows' = [flows EXCEPT ![f] = IF screen = "list" THEN None ELSE Loading]
    /\ Render("list", opened, rs)
    /\ UNCHANGED <<api, moves>>

StartAnswered(f) ==
    /\ Answered(f, "start") /\ Got(f) # Failed
    /\ Finish(f, Added(flows[f].id[1], Got(f)))

\* Mutant: the app counts the versions itself.
SaveAnsweredCounting(f) ==
    LET id == flows[f].id IN
    /\ Answered(f, "patch") /\ Got(f) # Failed /\ flows[f].kind = "grid-update"
    /\ Finish(f, Updated(id, [records[id] EXCEPT !.version = flows[f].seen.version + 1,
                                                 !.done = Got(f).done], Got(f)))

\* A save writes neither the status nor the other counts: the record keeps those it
\* has, even where a late list answer has brought back older ones.
SaveAnswered(f) ==
    LET id == flows[f].id IN
    /\ Answered(f, "patch") /\ Got(f) # Failed /\ flows[f].kind = "grid-update"
    /\ Finish(f, Updated(id, [records[id] EXCEPT !.version = Got(f).version,
                                                 !.done = Got(f).done], Got(f)))

\* The next request of a chain is made for its id, without a version.
PatchAnswered(f) ==
    /\ Answered(f, "patch") /\ Got(f) # Failed
    /\ \/ /\ flows[f].kind = "end-workorder"
          /\ Continue(f, [flows[f] EXCEPT !.at = "end", !.done = Got(f).done, !.seen = None])
       \/ /\ flows[f].kind = "complete"
          /\ Continue(f, [flows[f] EXCEPT !.at = "upload", !.done = None,
                                          !.skipped = None, !.seen = None])

\* The completed count is the PATCH's, the version is end-drive's; the other counts
\* are not written.
EndDriveAnswered(f) ==
    LET id == flows[f].id IN
    /\ Answered(f, "end") /\ Got(f) # Failed
    /\ Finish(f, Updated(id, [records[id] EXCEPT
                                  !.version = Got(f).version, !.done = flows[f].done,
                                  !.status = "ATTACHMENTS", !.ended = TRUE], Got(f)))

UploadAnswered(f) ==
    /\ Answered(f, "upload") /\ Got(f) # Failed
    /\ Continue(f, [flows[f] EXCEPT !.at = IF flows[f].left = 1 THEN "complete" ELSE "upload",
                                    !.left = @ - 1])

CompleteAnswered(f) ==
    LET id == flows[f].id IN
    /\ Answered(f, "complete") /\ Got(f) # Failed
    /\ Finish(f, Updated(id, [records[id] EXCEPT
                                  !.version = Got(f).version, !.done = Got(f).done,
                                  !.skipped = Got(f).skipped, !.status = "COMPLETED",
                                  !.files = flows[f].files], Got(f)))

Unfilled == [done |-> 0, skipped |-> None, files |-> 0]

\* The app is opened again, after a crash or a kill; the API goes on with its calls.
Restart ==
    /\ screen # "home"
    /\ records' = [id \in Id |-> None]
    /\ screen' = "home" /\ opened' = None /\ form' = Unfilled
    /\ mode' = None /\ crashed' = FALSE
    /\ flows' = [f \in Slots |-> None]
    /\ UNCHANGED <<api, moves>>

\* What an earlier use of the app may have left of a day: nothing, or a day just
\* started, ended (perhaps with its file) or completed.
Earlier ==
    {None, Fresh} \cup
    {[Fresh EXCEPT !.status = "CHECKED_OUT", !.version = 2, !.file = file] : file \in BOOLEAN} \cup
    {[Fresh EXCEPT !.status = "COMPLETED", !.version = 3, !.file = TRUE]}

Init ==
    /\ days \in [Days -> Earlier]
    /\ beyond = {} /\ raced = {} /\ calls = [c \in Callers |-> None]
    /\ records = [id \in Id |-> None]
    /\ screen = "home" /\ opened = None /\ form = Unfilled
    /\ mode = None /\ crashed = FALSE
    /\ flows = [f \in Slots |-> None]
    /\ moves = 0

Api(f) == \/ ServeList(f) \/ ServeStart(f) \/ ReceivePatch(f) \/ ReceiveEndDrive(f)
          \/ ServeUpload(f) \/ ReceiveComplete(f)

Continuation(f) == \/ ChainFailed(f) \/ ListAnswered(f) \/ StartAnswered(f) \/ SaveAnswered(f)
                   \/ PatchAnswered(f) \/ EndDriveAnswered(f) \/ UploadAnswered(f)
                   \/ CompleteAnswered(f)

Button(f) == \/ OpenList(f) \/ handleSave(f) \/ handleSaveAttachments(f)
             \/ \E d \in Days : handleSaveAsOngoing(f, d)

Next ==
    \/ \E f \in Slots : Api(f) \/ Lose(f) \/ Continuation(f) \/ Button(f)
    \/ \E c \in Callers : Commit(c)
    \/ \E d \in Days : \/ AdminReopens(d) \/ Repage(d)
                      \/ \E counts \in Corrections : AdminEdits(d, counts)
    \/ OpenNew \/ PickDocument \/ RemoveAttachment \/ Restart
    \/ \E id \in Id : OpenDetail(id)
    \/ \E action \in {"grid-update", "end-workorder"} : Choose(action)
    \/ \E grids \in Grids : TypeCompleted(grids) \/ TypeSkipped(grids)

Spec == Init /\ [][Next]_vars

-----------------------------------------------------------------------------
\* Every variable has its type.
TypeOK ==
    /\ days \in [Days -> Day \cup {None}]
    /\ beyond \subseteq Days /\ raced \subseteq Days
    /\ calls \in [Callers -> Call \cup {None}]
    /\ records \in [Id -> Record \cup {None}]
    /\ screen \in {"home", "list", "new", "detail"}
    /\ opened \in Id \cup {None}
    /\ form \in [done : Grids, skipped : Grids \cup {None}, files : 0..MaxFiles]
    /\ mode \in {"grid-update", "end-workorder", None}
    /\ crashed \in BOOLEAN
    /\ flows \in [Slots -> Flow \cup {None}]
    /\ moves \in 0..MaxMoves

\* A record that carries the API's version of its day shows the API's counts
\* and status, whatever answers overtook each other on the way, unless two calls
\* that loaded the same row have given one version twice (submission_service.py:348,
\* 390).  Four gaps: the end of a workorder takes count and version from two answers,
\* neither it nor a save writes the skipped and force-tested counts
\* (dt-checkin-detail.tsx:289, 315), a save may bring its version to a record
\* completed before a reopening, and a checked out day that has its file is listed as
\* ongoing (SubmissionsProvider.tsx:65-73).
VersionTellsRecord ==
    \A id \in Id :
        LET row == days[id[1]]
            record == records[id]
        IN  record # None /\ id[1] \notin raced /\ record.version = row.version =>
            /\ record.done = row.done \/ "counts" \in record.mixed
            /\ record.skipped = row.skipped \/ "skips" \in record.mixed
            /\ \/ record.status = "COMPLETED" <=> row.status = "COMPLETED"
               \/ record.status = "COMPLETED" /\ "status" \in record.mixed
            /\ row.status = "IN_PROGRESS" => record.status = "ONGOING"
            /\ row.status = "CHECKED_OUT" => record.status = "ATTACHMENTS" \/ row.file

\* No save overwrites counts its tester has not seen, through retries, double
\* presses and admins' edits (version_number, API_SPEC.md:206): when a PATCH is
\* committed and answered, the API's counts are those of the record the button was
\* pressed on, unless the day has changed between the check of the version on the
\* loaded row and an UPDATE, which does not look at it again.
SavesOverwriteWhatWasSeen ==
    [][\A f \in Slots :
          Pending(f, "patch") /\ days' # days /\ flows'[f] # flows[f] =>
              \/ flows[f].id[1] \in raced'
              \/ /\ \/ flows[f].seen.done = Target(f).done
                    \/ "counts" \in flows[f].seen.mixed
                 /\ \/ flows[f].seen.skipped = Target(f).skipped
                    \/ "skips" \in flows[f].seen.mixed]_vars

\* The app crashes only when a list answer takes the record from under the detail
\* screen: one that addSubmission named after the clock, one the answer of an
\* overtaken load does not know yet, or one the first page has no room for
\* (routers/submissions.py:63; the app asks for no other).
OnlyLateListsCrash ==
    [][crashed' /\ ~crashed =>
          \/ opened[2] = "clock"
          \/ \E f \in Slots :
                /\ flows[f] # None /\ flows'[f] = None
                /\ flows[f].overtaken \/ opened[1] \in flows[f].got.cut]_vars
=============================================================================

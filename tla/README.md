# Verification of the field-work system

TLA+ models of this repository: the services of `apps/api` that open, edit,
close and reopen a driver's day under a workorder, its closeout file, and the
accounts of those who may do so; the mobile app's session, check-in, mileage
and expenses; the admin web's query cache, edit forms and lists. The modules are
checked with TLC on small instances, and every safety property the runs check,
with the refinement among them, is proved with TLAPS for every size of the
system. Paths below are relative to the repository.

## 1. The system

| Component | State it keeps | Operations | Interacts with |
|---|---|---|---|
| Tables (`apps/api/app/models`, `repositories`, `db`) | `workorders`, `submissions`, `submission_attachments`, `submission_audit_logs`; unique keys on the normalized code, on (workorder, date), on `client_generated_id` and on the active attachment of a day | SELECT, INSERT, UPDATE through one SQLAlchemy session per request | every service |
| Start drive (`services/workorder_service.py`) | none | `start_drive` | finds or inserts a workorder, inserts a submission; tried twice |
| Daily submissions (`services/submission_service.py`) | status and `version_number` of a day | `end_drive`, `update_submission`, `complete_submission`, `reopen_submission`, `update_admin_submission` | closes and reopens the parent workorder |
| Admin workorders (`services/workorder_service.py`) | code, region, total, status of a workorder | `update_workorder` | reads the aggregate over all its days |
| Attachments (`services/attachment_service.py`) | attachment rows; objects in the storage bucket | upload, delete | counts files for completion; a removal can reopen the parent |
| Accounts (`services/me_service.py`, `admin_users_service.py`) | `app_users`, `user_approval_audit` | bootstrap, approve, reject, suspend | decides who may call the others |
| Mileage, expenses (`services/mileage_service.py`, `expense_service.py`) | one mileage entry per tester and date; expense rows | `start_shift`, `end_shift`, `create_expense`, lists | called by the mobile app alone |
| Reporting, mobile home | none | reads | read the tables above |
| Authentication (`core/security.py`) | a cached JWKS | token verification | every request |
| Migrations and cutover guard | | run once | the tables |
| Mobile session (`apps/mobile/src/auth`, `app/_layout.tsx`, sign-in screens) | the user, the session snapshot the API client takes its token from, the stored Supabase session, the route | hydrate, the auth-state handler, sign in, sign up, sign out, refresh the approval | Supabase, `/me`, `/me/bootstrap`; decides which screens show |
| Mobile check-in (`src/submissions`, `dt-checkin*.tsx`) | the provider's copy of the tester's days; the detail screen's form | list, start, save, end, complete | chains of requests to Daily submissions and Attachments |
| Mobile mileage and expenses (`src/mileage`, `src/expenses`, their screens) | the entry of the day, the expense list, two forms | start and end a shift, save an expense | outlive a sign-out; call Mileage and Expenses |
| Admin web pages (`apps/admin-web/components/features`, `lib/hooks`) | React Query's cache, the open drawer or dialog | edit and reopen a day, edit a workorder, approve, reject, suspend | invalidate one another's queries |
| Admin web lists (`lib/filters`, the list pages) | filters, URL, the rows of each query key | edit a filter, page, reset, follow a link, search | the router; the API's lists |
| Admin guard (`components/auth/AdminGuard.tsx`) | a cached `/me` | sign in | wraps every page |
| API client package (`packages/api-client`) | none | requests with a token and a 30 s timeout | every mobile call |

What each part has to get right, and what makes it hard:

* **Concurrency.** Requests run as transactions at READ COMMITTED and nothing
  locks a row before it is read. Every check of a service is therefore made on
  a row as loaded, and may be stale when the UPDATE obtains the row lock. What
  stands firm is what the database enforces (unique keys, row locks, one commit
  per request) and the advisory lock of `bootstrap`.
* **Column-wise writes.** SQLAlchemy writes the columns that differ from the
  loaded row. Two requests that edit one row overwrite one another column by
  column, so a row can be a mixture of two edits.
* **Autoflush.** A query inside a service first flushes the pending edit, so
  that the query sees it and the constraints speak before the service does.
* **Retries and partial failure.** `start_drive` retries once on an
  IntegrityError; an upload writes to the bucket outside the transaction.
* **Two levels of status.** A day goes IN_PROGRESS, CHECKED_OUT, COMPLETED and
  back; its workorder closes and reopens along five different code paths.
* **Clients.** Mobile and web state is written when answers arrive, in any order,
  over state that changed meanwhile: another list, another user, another page.
* **Chains of requests.** The mobile app ends a workorder with two requests and
  completes one with three or more; each may fail or be answered too late.
* **Two copies of one fact.** A version number and the fields it stands for, a
  token and the user it belongs to, a URL and the filters it mirrors, a query key
  and the request behind it: the hazard is always that one moves without the
  other.

`PROJECT.json` lists every component with its status, and under `hazards` every
place where one of these bites, with the property that watches over it.

## 2. The modules

| Module | Models | Extends |
|---|---|---|
| `Store` | the tables, the session of each request in flight, flushes, locks, unique indexes, commit, rollback, crash | |
| `StartDrive` | `WorkorderService.start_drive` | `Store` |
| `DailySubmissions` | `SubmissionService`, five operations | `Store` |
| `AdminWorkorders` | `WorkorderService.update_workorder`, the UPDATE of a workorder | `Store` |
| `AttachmentFiles` | `AttachmentService` upload and delete, with the bucket | `Store` |
| `DayLifecycle` | the abstract specification of a day: its statuses, and the calls that have been let in to end its drive | |
| `FieldOps` | all requests interleaved over one store; deadlocks and their victims; the properties of every interleaving; the refinement of `DayLifecycle` | the four above |
| `FieldRules` | the rules the documents state, for requests one at a time, and those the code breaks | `FieldOps` |
| `FieldInvariant` | the inductive invariants of `FieldOps`: sessions, keys, versions, retries | `FieldOps` |
| `FieldOpsProofs` | the theorems about types, trails, rows and files | `FieldInvariant` |
| `FieldRulesProofs` | the theorems about keys, versions, deadlocks, errors, the life cycle, the aggregate and the rules | `FieldRules`, `FieldOpsProofs` |
| `Accounts` | bootstrap, approve, reject, suspend, with their inductive invariant | |
| `AccountsProofs` | the theorems of `Accounts` | `Accounts` |
| `MobileSession` | `AuthProvider`, the session snapshot, `RootNavigator` and the sign-in, registration, pending and settings screens | |
| `CheckIn` | `SubmissionsProvider` and the three check-in screens, with the API they call and the admins who call it too | |
| `Trips` | `MileageProvider`, `ExpensesProvider`, their screens, and the two services behind them | |
| `AdminConsole` | the admin web's pages, drawers, dialogs and mutations over the React Query cache | |
| `AdminLists` | the admin web's filters, URL and list queries | |
| `MobileSessionProofs`, `CheckInProofs`, `TripsProofs`, `AdminConsoleProofs`, `AdminListsProofs` | the inductive invariant and the theorems of each client module | the module each is named after |
| `MCFieldOps`, `MCAccounts`, `MCMobileSession`, `MCCheckIn`, `MCTrips`, `MCAdminConsole`, `MCAdminLists` | symmetry sets and constants for TLC | |

`FieldOps` implements `DayLifecycle` under a refinement mapping (`Lifecycle`): through
every overlap of requests, and not only when they are served one after the other,
the statuses of the rows and the `end_drive`s in flight run through
`DayLifecycle!Spec`. The abstract specification says what is really promised: an
`end_drive` is let in while the day is IN_PROGRESS and takes effect later, when the
day may have been completed (`LetIn`, `CheckOut`); every other change finds the
status it wants.

`CheckIn`, `Trips` and `AdminConsole` each compose a client with the part of the API
it calls. None of them serves a request at once: a call of `CheckIn` loads and checks
a row (`Receive`), others come in between, and `Commit` writes the columns it has
changed over whatever the row is by then; `AdmitMutation` and `CommitMutation` are the
same two steps in `AdminConsole`; `Trips` has the two between which the image is
uploaded.

### How state and actions correspond to the code

* `Slots` are the requests the server can have in flight. `pc[r]` names the
  next **statement** of request `r` (the SELECTs and flushes of its handler, in
  order); the Python between two statements runs with the statement before it.
  `Free` labels are answers: `ok` 2xx, `rejected` an `AppError`, `error` an
  exception nothing handles (500), `aborted` a lost process or connection.
* `tx[r]` is the session: the rows it works on, the submission as loaded
  (`day`) and as edited (`edit`), the workorder as loaded (`wo`) and edited
  (`wedit`), the request body (`req`), and whether `start_drive` is in its
  second attempt (`again`).
* `locks[r]` are the rows the transaction has written. `DaysSeenBy`,
  `ParentsSeenBy` and `FilesSeenBy` give what `r` sees: the committed rows, with
  its own flushes over the rows it has locked. A locked row cannot change under
  it, so that a flush can be evaluated when it is read (`FlushedDay` and
  `FlushedParent` write the changed columns only).
* A statement that needs a row or an index entry waits until no other
  transaction holds it (`HoldersOf`, `HoldersOfDay`, `HoldersOfCode`,
  `HoldersOfFile`). Then the constraint decides (`DayTaken`, `CodeTaken`).
  `DeadlockVictim` is PostgreSQL breaking a circle of waiters.
* `Commit` publishes the rows and the audit row at once; `Crash` and every
  error roll everything back but the bucket.
* `client` is the `client_generated_id` a client has chosen, `None` where the server
  makes up a UUID. `InsertDay` enters its index first: a violation of it is raised
  again and ends in a 500, one of (workorder, date) is a conflict.
* `grids` is `completed_grids + skipped_grids`: every rule reads the sum.
* `completed_at` is `null`, `set`, or `now` while a session stamps it: its value
  matters only as null or not, and as a change of column.

The client modules follow JavaScript: what runs between two `await`s is one
action, and every `await` is a place where other actions may come first.

* **Slots** (`flows`, `requests`, `mutations`) hold what awaits an answer. The API's
  part (`Serve...`, `Receive...` and `Commit`, `Admit...` and `Commit...`) and the
  continuation (`...Answered`) are separate actions, so that an answer can be old when
  it is applied. A lost request is served or not, perhaps after the client gave up.
* **`MobileSession`**: `stored` is Supabase's persisted session, `snapshot` the
  token requests carry, `user` and `screen` what React shows. `Redirected` is
  `RootNavigator`'s effect and part of every action that changes what it reads.
  `Reviewed` is an administrator's decision, which may take an APPROVED account to
  REJECTED as two racing reviews can in `Accounts`; `approved` are the accounts with
  an approval in their trail.
* **`CheckIn`**: `days` are the API's rows, `beyond` those that the first page of
  `GET /submissions` has no room for (20 rows by default; the app asks for no other
  page), `calls` the transactions between load and commit, of the phone and of the
  admins (`Desk`). `records` is the provider's copy under
  the ids the app gives them, `form` the fields of the detail screen, which stays
  mounted. `Render` is a render of that screen: its effect fills the form when one
  of its dependencies has changed, and its hooks come after an early return.
* **`Trips`**: `date` is fixed when the mileage screen mounts; `active` tells that
  the screen that sent a request is still there, `awaited` that its continuation
  will run. `SwitchUser` keeps the providers, `Restart` does not.
* **`AdminConsole`**: `Mounts` gives the query hooks of each page, `Invalidates`
  the keys each mutation hook names. `db.version` is the day's `version_number`,
  `db.changes` counts the writes of the day: the two part when two writes load the
  same version (`Raced`). `Written` is what the phone and other admins do, from a row
  loaded at any earlier version. `Mounted`, `Restarted` and `Uncut` are React
  Query's rules: fetch what is not fresh, restart a fetch a mounted page observes
  if it has data, let others go on.
* **`AdminLists`**: `nav` is the navigation under way, `late` tells that the URL has
  changed and the effect on it has not run. `parse...`, `build...`, the request
  and its `Key` are operators over records of the fields followed.

**History variables** (`overlap`, `approved`, `mixed`, `overtaken`, `raced`, `cut`, `lost`,
`doubted`, `uncut`, `refetched`, `seen`, `own`, `changes`, `asked`) record what happened for the properties to
name the exceptions; no guard and no other variable reads them.

Every definition that models code is listed under `map` with its lines.
Definitions whose comment begins with "Mutant:" or "A mutant of" are variants of the definition
next to them with a plausible bug; no action uses them. Each property is tested
against one: put in place of the original, it must violate the property.

### Left out of the model

`force_tested_grids` (in `CheckIn` it goes with the skipped count), shift, team and ticket,
which no rule relates to other state; timestamps other than
`workorders.completed_at`; the wording of errors and of audit details; the
share locks of foreign keys, since no referenced key is ever changed or
deleted; validation of file types and sizes and request parsing, which change
no state; the actor's account, read once as a request comes in (see the plan).
`create_submission` has no route. `maybe_auto_complete_workorder` has no caller.

Of the clients: wording, layout and styles; fields no rule reads; of the mobile
session, the Microsoft sign-in (`signInWithMicrosoft` is called by no screen,
`handleCallbackUrl` acts only on a `code` the e-mail link does not carry, and the
Microsoft screen only leads back) and the mock branches that run without
Supabase settings; of the check-in, parsing and the calendar of the date field
(the form may be filled in for any day that is not started) and the list's
filters; of the admin web, rendering, the CSV export and the mock data. Work
dates are opaque: that the phone takes the UTC day where the API takes the
region's is listed below, not modelled.

**Not modelled at all**: reporting and mobile home (read-only), authentication
(cryptography), the migrations and the cutover guard (run once, over SQL data),
and the admin guard, which caches one `GET /me` and holds no state that outlives
a reload; the API refuses what it lets through by mistake.

## 3. What the runs check

Each run is a module, a `.cfg` and the properties of that `.cfg`.

| Run | Instance | Question | Properties |
|---|---|---|---|
| `serial` | 1 request at a time, 2 days, 1 workorder, 1 file, grids 0..2, total 2, 7 audit rows | Do the documented business rules hold through every sequence of calls? | `CompletionRule`, `OnlyAdminEditsExceedTotal`, `CompletionClosesFullParent`, `LossReopensParent`, `NoDayUnderCompletedWorkorder`, `CompletedAtTellsStatus` |
| `races` | 2 requests, driver and admin, 1 day, its file, its workorder, 6 audit rows | What survives any two operations racing over one day, and does its status keep to `DayLifecycle`? | `TypeOK`, `TrailTellsStatus`, `VersionWithinTrail`, `OnlyKeySwapsDeadlock`, `ImplementsLifecycle` |
| `keys` | 2 requests, 2 codes, 2 dates, 2 days, 2 workorders, 4 audit rows | Do creations, moves and renames onto the same keys keep them unique? | `UniqueKeys`, `NoEmptyWorkorder` |
| `live` | 2 requests, 2 days swapping dates, a `client_generated_id` sent twice, 2 files, failing uploads, 3 audit rows, fair | Is every accepted request answered, what can end in a 500, and is there an object behind every row? | `Answered`, `OnlyUniqueViolationsEscape`, `FilesAreStored`, `UniqueKeys` |
| `accounts` | 2 requests, 3 identities, 2 sharing an email, 2 allowed emails, 3 stamped decisions | Can bootstrap and reviews race to a second administrator, to unreviewed rights or to a row its history contradicts? | `TypeOK`, `OneBootstrapAdmin`, `TrailTellsDecision`, `RightsAreReviewed` |
| `mobile` | 2 people on one phone, 3 answers outstanding, 2 buttons, 1 review | Whose account and token remain after sign-ins and sign-outs whose answers arrive in any order? | `TypeOK`, `TabsAreApproved`, `OnlyOverlapsMix`, `OnlyLateAnswersSignBackIn` |
| `mobile_live` | 1 person, 2 answers outstanding, 2 buttons, 2 failures, 1 restart, fair | Does an approved account get in? | `ApprovedReachesProjects` |
| `checkin` | 1 day, 2 chains in flight beside an admin's call, 1 file, 2 of: buttons, lost answers, admins' calls, changes of the list's page | What do late answers and racing commits do to records, form and counts? | `TypeOK`, `VersionTellsRecord`, `SavesOverwriteWhatWasSeen`, `OnlyLateListsCrash` |
| `trips` | 2 testers, 2 days, odometer 1..2, 1 expense form, 2 requests in flight, 3 buttons, 1 timeout, 1 switch, restart or midnight | Do shift, list and rows agree, and can a button write twice? | `TypeOK`, `EndedShiftsStay`, `ScreenTellsShift`, `OnlyLostAnswersDuplicate`, `ListTellsExpenses` |
| `console` | 5 pages and their 5 queries, 1 save, 3 of: visits, returns, failures, changes of others | Which pages hide a change of their own console, and which saves overwrite what nobody saw, with writes of others between their check and their commit? | `TypeOK`, `OnlyUncutReadsHideOwnChanges`, `OnlyRefetchedDrawersOverwrite` |
| `lists` | 4 lists and the dashboard, 4 filters, a shared link with a value nobody knows, 2 pages, 3 edits, 1 return | Do filters, URL and rows agree? | `OnlyOvertakenEditsAreLost`, `OnlyNoSubmissionPagesMisanswer` |

One more run, `cap`, violates its property: see the findings.

**Bounds.** `MaxTrail` is the only bound on behaviours of the field work: no
request is accepted once the audit trails together hold that many entries
(`Room`), a few more being added by requests already in flight. Seven entries in
`serial` are what the longest interesting history needs: create, admin edit,
end, upload, complete, reopen, complete again is the shortest in which a
completion finds a full and open parent. Two slots suffice for the races since
every check-then-write hazard is between two transactions; circles of three and
more are covered by a proof (`OnlyKeySwapsDeadlockHolds`). One region is used, `Future` is empty in all
runs (the guard on future dates is a plain refusal), and the owner in `serial`,
`keys` and `live` is also the admin, so that one user may call everything; `races`
has a driver without the role. Rows of each kind, files and requests
are interchangeable and are symmetry sets, except in `live`, whose property is a
liveness property. `ClientIds` is empty but in `live`, which asks what ends in a 500; the
server's own UUIDs are never sent twice. In `Accounts` `MaxStamps` bounds the reviews
decided: three stamps are one more than two racing decisions of one user need.

The client runs bound what their users do (buttons, edits, visits) and what goes
wrong (failures, restarts, switches): each hazard they are about takes at most
two buttons, one fault and one change by somebody else. `checkin` bounds all of these
together by `MaxMoves` (2), because its calls have two steps each: a race of a save with
an admin's edit, a page that loses its row and a retry of a lost save are two moves. A record
that mixes the counts or the skipped counts of two answers and is then saved from takes
three, which only the theorem covers. `Corrections` are the counts an admin may
write: one completed grid, or one skipped. `MaxReviews` is 1 in
`mobile`, since the accounts start in every status. `mobile` has no failures
and restarts, which `mobile_live` has; it has the third slot that a sign-in
during a running handler and a hydration needs. `checkin` has one day, since
every property is about one day at a time but for the form that leaks from one
day to the next, which is a hazard without a property. In `lists` no
`workorder_code` filter is followed, so that `handleSearch` is a side-bar link
there; one edit, the URL's change and a second edit are what it takes to lose one.
In `trips` two people and one switch are what a provider that outlives a
sign-out needs. The largest runs have 1.0 to 2.6 million distinct states.

**Deadlock** is checked in the runs of the API, where a state with no request in
flight has the explicit step `Idle` in `FieldOps`. The client runs do not check
it: with the bounds used up a user may simply stop, and a phone that has crashed
or is left alone is no deadlock.

**Fairness of the API** (`FairSpec` of `FieldOps`, used by `live`): strong fairness of `Step(r)` for
each request. A request the server has accepted runs on; the steps that wait
need strong fairness because the lock they wait for is taken and released by
others again and again, and PostgreSQL serves the waiters of a lock in a queue.
No fairness is assumed of arrivals or crashes. Without `DeadlockVictim`,
`Answered` fails on two days swapping their dates.

**Fairness of the phone** (`FairSpec` of `MobileSession`, used by `mobile_live`):
weak fairness of each flow's continuation, because the client aborts a request
after 30 s and JavaScript runs what has settled; of Supabase's first event; and of
token renewal, which `autoRefreshToken` repeats for as long as a session is
stored. None is assumed of buttons, administrators or restarts. Nothing makes the
API answer without fault: `Fail` stays possible up to its bound.

## 4. Findings

**`cap`** is a run that TLC refutes: `update_submission` refuses edits that fit.
The duplicate query flushes the edit, the aggregate read after it already contains
the new counts, and the check adds them a second time. Any edit by which a driver
would bring the workorder exactly to its total is refused, so drivers alone can
never fill one, and a completion finds a full parent only after an admin's edit
or a reopening.

Met while modelling the API, and not the subject of a run:

* moving a day to a date that is taken answers 500, since the same autoflush meets
  the constraint before the service looks (`submission_service.py:364-372`);
* a `client_generated_id` that a day already has, which a client that repeats its
  request would send, answers 500: `start_drive` raises that violation again
  (`workorder_service.py:264-287`, `OnlyUniqueViolationsEscape`);
* two edits of one version both commit (`:348`, `:620`), where `API_SPEC.md:206-207` asks
  for optimistic concurrency: the version is checked on a row nothing locks, and the
  UPDATE does not look at it again. The second overwrites columns of the first and
  gives the day the same version once more; on the phone and in the console this is a
  named exception (`raced` in `SavesOverwriteWhatWasSeen` and `VersionTellsRecord`,
  `Raced` in `OnlyRefetchedDrawersOverwrite`);
* two reviews of one pending user both commit, so that an approved account can turn
  REJECTED. The history is ordered by `created_at`, which is taken before the UPDATE
  waits for the row (`admin_users_service.py:124`, `:161`): the row can show one
  decision and the history end in the other (`overtaken` in `TrailTellsDecision`);
* an admin's edit may exceed the workorder's total, which `API_SPEC.md:310` and
  `BUSINESS_RULES.md:77` exclude;
* an `end_drive` that waited for the row lock takes a day completed meanwhile back
  to CHECKED_OUT (`BUSINESS_RULES.md:41` leaves that to admins): `CheckOut` of
  `DayLifecycle`, which has to allow it;
* the cap, the closing of the parent and "no day under a COMPLETED workorder"
  are kept one request at a time only: two transactions can each read an
  aggregate or a status without the other's write (write skew). The same is true
  of a removal of the last file that races the completion of its day;
* `status` and `completed_at` of a workorder can be left by two different
  transactions that raced;
* removing the file of a completed day leaves it COMPLETED, where
  `docs/USER_FLOWS.md:98` has it go back to CHECKED_OUT;
* `BUSINESS_RULES.md:126-127` excludes future dates; a PATCH does not check them.
  `BUSINESS_RULES.md:30` fixes the region, which an admin can edit;
* `suspend` leaves no audit row, and the last administrator can suspend itself;
* a second upload that loses the race leaves its object in the bucket; two
  removals of one file write two FILE_REMOVED entries;
* `bootstrap` with an email already in use answers 500, as does a `start_drive`
  that meets a second conflict after its retry, which needs a workorder to be
  renamed in between;
* `expense_service.py:121` names an error code that does not exist;
* the JWKS is never fetched again;
* the dashboard counts ongoing days as IN_PROGRESS (`reporting_service.py:107`), its
  link opens the list of CHECKED_OUT ones (`dashboard-page.tsx:85-96`).

Met while modelling the clients; the properties name most of them as the exact
exceptions to what holds:

* a late answer to `/me` after a sign-out puts user and token back
  (`OnlyLateAnswersSignBackIn`); the SIGNED_IN handler asks with the former token
  (`OnlyOverlapsMix`); the first `GET /me` of every start carries no token, and only
  the failure of an event's request sets it (`ApprovedReachesProjects`);
* a SUSPENDED account meets no branch of `RootNavigator` and stays where it is;
  a sign-out without a network keeps the stored session; an account that a racing
  review has REJECTED stays in the tabs until its status is asked for again
  (`TabsAreApproved`);
* a list answer that takes away the record on the detail screen makes React throw,
  because its hooks follow an early return (`OnlyLateListsCrash`); a day just started
  has the clock for an id until the next list, so that saving it fails; a day beyond
  the 20 rows of the list's first page (`routers/submissions.py:62-63`) is neither
  listed nor kept under an open detail screen;
* a CHECKED_OUT day that has its file is listed ONGOING
  (`SubmissionsProvider.tsx:65-73`), so that the screen offers no completion, which
  `UI_SCREENS.md` promises; two days with equal numbers share what was typed;
* the answer of a save writes its version, not its status, to a record that a late
  list has put back to COMPLETED, as it was before a reopening; an end of a
  workorder takes counts and version from two answers; neither writes the skipped and
  force-tested counts (`dt-checkin-detail.tsx:289-296`, `:315-320`), so that a record can carry
  the API's version beside counts an admin has changed since (`VersionTellsRecord`);
* the retry of an expense whose answer was lost is a second expense
  (`OnlyLostAnswersDuplicate`); an overlapping `end_shift` overwrites the first
  (`EndedShiftsStay`);
* days are UTC on the phone (`dt-checkin.tsx:73`, `mileage-tracker.tsx:22`) and the
  region's in the API;
* the audit timeline, the dashboard and a workorder after a day's edit are not
  invalidated by the console's own changes, and a first load that was under way is
  not restarted (`OnlyUncutReadsHideOwnChanges`); a failed background refetch
  replaces a detail page by its error;
* the drawer sends the version on screen with the fields of an older one, and what
  is written between the API's check and its UPDATE is overwritten as well
  (`OnlyRefetchedDrawersOverwrite`); an edit of a workorder carries no version at
  all; an emptied field is sent as no change;
* an edit between the URL's change and its effect is undone
  (`OnlyOvertakenEditsAreLost`); the second page of the no-submission list shows the
  first (`OnlyNoSubmissionPagesMisanswer`); the users' search is sent in no request;
* a sign-in in another tab swaps the shared Supabase session, while the guard's
  cached `/me` shows the former admin for five minutes.

## 5. What is proved

Every invariant, every action property and the refinement that a passing run
checks is also a theorem, for any number of requests, rows, users, codes, dates,
days, answers in flight, buttons and faults. The bounds of the runs occur in the
guards of the models but no proof depends on their values.

| Theorem | Says |
|---|---|
| **`FieldOpsProofs`** | *requests interleaved, statement by statement* |
| `InductiveHolds` | what each session knows at each of its statements, and what it has locked |
| `TypeOKHolds` | every table, trail and session keeps its type |
| `TrailTellsStatusHolds` | the last status entry of a day's trail is the status of its row |
| `NoEmptyWorkorderHolds` | no workorder without a day, no day without its workorder |
| `FilesAreStoredHolds` | every attachment row has its object |
| **`FieldRulesProofs`** | *the same requests* |
| `KeyedHolds` | who holds a key at each statement |
| `UniqueKeysHolds` | no race commits two rows under one key |
| `VersionWithinTrailHolds` | a version never runs ahead of its trail |
| `OnlyKeySwapsDeadlockHolds` | a circle of waiters, of any length, has a request in it that moves a day or a code |
| `OnlyUniqueViolationsEscapeHolds` | what can end in a 500, where no workorder is renamed: a move of a day, a second file, a `client_generated_id` that is taken, the deadlocks of others than `start_drive` |
| `ImplementsLifecycleHolds` | the days and the end_drives in flight keep to `DayLifecycle` through every overlap |
| | *the same requests, served one at a time* |
| `ServedHolds` | what a service has established at each of its statements |
| `CompletedAtTellsStatusHolds` | a workorder has a completion time exactly when it is COMPLETED |
| `CompletionRuleHolds` | no day is completed against the rule of completion |
| `CompletionClosesFullParentHolds` | the completion that fills the total completes the workorder |
| `LossReopensParentHolds` | a reopening, and the loss of a completed day's last file, leave its workorder ACTIVE |
| `NoDayUnderCompletedWorkorderHolds` | no day starts under a COMPLETED workorder |
| `OnlyAdminEditsExceedTotalHolds` | only an admin's edit exceeds a total |
| **`AccountsProofs`** | *bootstraps and reviews interleaved* |
| `TypeOKHolds` | the types of `Accounts` |
| `OneBootstrapAdminHolds` | at most one approved administrator was made by bootstrap |
| `TrailTellsDecisionHolds` | an account shows the newest decision of its trail or a suspension, or another decision of it where one was committed after one stamped later |
| `RightsAreReviewedHolds` | an approved account has an approval in its trail and the role it requested |
| **`MobileSessionProofs`** | `InductiveHolds`, `TypeOKHolds`, `TabsAreApprovedHolds`, `OnlyOverlapsMixHolds`, `OnlyLateAnswersSignBackInHolds` |
| **`CheckInProofs`** | `InductiveHolds`, `TypeOKHolds`, `VersionTellsRecordHolds`, `SavesOverwriteWhatWasSeenHolds`, `OnlyLateListsCrashHolds` |
| **`TripsProofs`** | `InductiveHolds`, `TypeOKHolds`, `EndedShiftsStayHolds`, `OnlyLostAnswersDuplicateHolds`, `ScreenTellsShiftHolds`, `ListTellsExpensesHolds` |
| **`AdminConsoleProofs`** | `InductiveHolds`, `TypeOKHolds`, `OnlyUncutReadsHideOwnChangesHolds`, `OnlyRefetchedDrawersOverwriteHolds` |
| **`AdminListsProofs`** | `InductiveHolds`, `OnlyOvertakenEditsAreLostHolds`, `OnlyNoSubmissionPagesMisanswerHolds` |

A theorem `XHolds` states the property `X` of section 3. Each module proves
`Init => Inductive`, `Inductive /\ [Next]_vars => Inductive'`, with a lemma per
action, and that `Inductive` implies the properties.

### Assumptions and hypotheses

The assumptions on constants are named and TLC evaluates each of them.

* `StoreAssumption`: admins are users, future dates are dates, grids are naturals
  and totals positive, the UUIDs of the three tables are disjoint, and `None` is
  none of them and no row.
* `AccountsAssumption`, `SessionAssumption`, `CheckInAssumption`,
  `TripsAssumption`, `EntriesAssumption`: `None` (and `Failed`, the answer of a
  failed request) is none of the values it stands beside; bootstrap is no review;
  a new day's count is a count; there is a day for the app to be opened on
  (`MaxDays >= 1`).
* `ConsoleAssumption`, `ListsAssumption`: the pages, keys and filters followed are
  among those the source has, the pages with a drawer or a dialog follow the query
  that fills it, and there is a last page.

Two kinds of theorem have a hypothesis of their own:

* `OnlyUniqueViolationsEscape` has `"update_workorder" \notin Ops`, as its run has. With a
  workorder renamed between the two attempts of a `start_drive` it is false (section 4).
* The rules hold of requests served one at a time: `\A q, r \in Slots : q = r`. With
  two they are false (write skew, section 4). They and the aggregate are about
  finitely many days, `IsFiniteSet(Submissions)`, of any number.

### The argument for the field work

`TrailTellsStatus` is not inductive: a commit writes the status column only if
the session's edit changed it, so one has to know what the session holds.
`Inductive` adds, per operation (`StartSession`, `DaySession`, `UploadSession`,
`DeleteSession`, `WorkorderSession`), what a session knows at each of its
statements: which rows it has loaded and that they still exist under the same
keys, that the edit of a status change differs in status from the loaded row and
carries the status its audit entry tells, that an edit of counts leaves the status
alone, that the row it will insert is not there yet, and exactly which rows it has
locked. `Apart` says that two sessions have locked no row in common and that
nobody else knows the UUID of a row to be inserted. `DaysHaveWorkorders` and
`FilesHaveDays` are the foreign keys.

Almost every step leaves the tables alone. `SessionStep` proves once that such a
step keeps `Inductive` if it keeps what its own session knows and keeps it
apart; `RollbackKeeps`, `ProceedKeeps`, `WriteKeeps` and `ArriveKeeps` are its
four forms, and each action has a lemma that applies one of them. `Commit` is the
one step that changes the tables: `WrittenDay`, `WrittenParent` and `WrittenFile`
tell what a transaction has locked at its end, `CommittedDays`,
`CommittedParents`, `CommittedFiles` and `CommittedTrails` what the commit makes
of it, and one lemma per conjunct follows.

* **Keys.** `UniqueKeys` speaks of rows only; what makes it stay true is what
  transactions that have not committed hold. `ClaimsDay`, `ClaimsCode` and `ClaimsFile` say
  from which statement on a session has put a row under a key; `Keyed` says that
  no committed row has a claimed key and that no two sessions claim one. A
  statement that takes a key waits for `HoldersOf...` and then asks `...Taken`,
  which is just what a new claim needs.
* **Versions.** `VersionsFollow`: the version a session is about to write is at most
  one more than the row entries of the trail, its own entry to come.
* **Deadlocks.** In a circle without a move or a rename, each member would wait at one of
  six statements (`WaitsFor`) and hold what one of the others waits for. Nobody waits for
  a workorder's row, because who has written one has only its commit left
  (`HoldersStand`); so none has written a day or a file, all of them are inserting
  a workorder, and none has a lock yet. The proof is about a set of slots, so
  that the length of the circle does not matter.
* **Errors.** A second attempt of `start_drive` finds the code it lost the race for
  (`SecondAttemptFinds`), because committed workorders stay and keep their codes
  when nobody renames one.
* **Life cycle.** A commit writes the status its session decided on from the row it
  had loaded. `PastProgress`: the day a session completes or reopens is past
  IN_PROGRESS and stays so, whatever commits meanwhile; a completion then turns
  CHECKED_OUT into COMPLETED or finds it done, a reopening the reverse, and only an
  `end_drive` can change a status it did not load.
* **Rules.** With one slot what a session has loaded is what is stored (`Current`). `Served` says at
  each statement what the checks before it have established: `Completing`,
  `Reopening`, `Capped`. Each rule is then about one `Commit`.
* **The aggregate.** `Progress` is a fold of the community modules. Its meaning is found
  without induction over data: the fold is a recursive function on the subsets of the
  workorder's days (`Adds`), which exists (`AddsExists`), and that it takes any one
  day first (`AddsTakesAny`) is shown on a smallest counterexample. `ProgressMoves` is all the rules need of it.

### The argument for the accounts

`OneBootstrapAdmin` needs that a bootstrap which approves, between its count and
its commit, holds the advisory lock and that no administrator made by bootstrap is
approved (`BootstrapSession`); a review can approve only a user it loaded as
pending, whose trail then held no self-approval (`ReviewSession`), because a
pending user has no trail (`UndecidedRows`). `TrailTellsDecision` is kept because a
review that commits is the newest entry unless one with a later stamp is there
already, and then it has made its target `overtaken`.

### The arguments for the clients

What a screen shows depends on answers still in flight, so that each invariant
says what every answer may carry when it arrives.

* **`MobileSession`.** `Reported` is what the API may have said of an account some
  reviews ago, `Settled` that `RootNavigator` has nothing left to do. While no
  session has begun or ended over another (`~overlap`), `OneSession`: the token, the
  user and every call awaited belong to the stored session.
* **`CheckIn`.** `Past(g, row)`: an answer is a former state of its row, and one of the same
  version differs from it by a file at most; that is so until the day is written over
  a row loaded before a change (`raced`), after which only `Was` and `Told` without it
  remain. `Tells` carries `VersionTellsRecord` over to the records that requests
  were made from; `Chain` ties each request of a chain to the ones before it;
  `CallsFit` says what a transaction between load and commit holds: the row it loaded
  and the one it will write (`Leads`), and for which request (`Serves`). `Lists` says what
  the answer of a load that was not overtaken cannot miss but for the rows it has `cut`.
  `SavesOverwriteWhatWasSeen` then follows at `Commit`: either the row is the one
  the version was checked on, or the commit makes the day `raced`.
* **`Trips`.** A request is `Watched` as long as the app will hear of it and its screen
  is there; what is not watched has its write among the `lost`. `EndsOnce` and
  `SavedOnce` say that of two ends or two saves one is lost; `MileageTold` and
  `ListTold` describe screen, answer under way and table as one quantity
  (rows shown, plus one if the answer of a save is coming, are the rows stored).
* **`AdminConsole`.** `Renewed`: an entry that the console's own change has made stale is
  marked for, or under, a fetch, or a fetch begun before the change was let go
  on. `Drawn` and `Carried` follow the change a drawer was filled from, from the page to
  the drawer to the request. `Counted` ties changes to versions: until two writes
  have raced, each entry and each answer that has the version has the changes too, and
  an edit admitted on an old version races when it commits.
* **`AdminLists`.** `parse` undoes `build` on the filters of a page, up to what `Same`
  leaves apart (`RoundTrip`). `Told` says which of filters, URL and the navigation under way say what the
  user has asked for, and when; `Rows`, that rows lie under a key that shares with
  their request all but the pages of the no-submission list.

### What the attempts showed

* The circle of a deadlock let in sets in which one request only waits for the
  others. With three requests the model could then fail a `start_drive` that waits,
  which PostgreSQL does not, and `OnlyUniqueViolationsEscape` was false; two slots, as in
  the runs, do not show it. `Deadlocked` now asks that every part of the circle
  waits for the rest.
* `VersionTellsRecord` had two gaps. A third takes four buttons, which is more than the run has: the
  answer of a save brings its version to a record completed and reopened in the
  meantime.
* `Trips` did not keep its types without a day to open the app on, and
  `AdminConsole` not where a page is followed without the query that fills its drawer.

### Model-checked only

The two liveness properties, `Answered` and `ApprovedReachesProjects`: liveness under
fairness and ENABLED are out of the prover's reach. `RefusesOnlyOverTotal` of the run
`cap` is refuted. Induction over data is out of reach too, but nothing above needs
it.

## 6. Plan

Done: the API's core (`Store` to `FieldOps`), the documented rules, `Accounts`, the
clients (`MobileSession`, `CheckIn`, `Trips`, `AdminConsole`, `AdminLists`); the
theorems of all of them. What is left:

1. What `OnlyUniqueViolationsEscape` becomes when workorders are renamed: that a
   500 of a `start_drive` needs a rename committed between its two attempts.
2. Which of the rules outlive two requests at a time when these are about different
   workorders, as a theorem with that hypothesis in place of one slot.
3. `Accounts` composed with `FieldOps` (authority read once per request); a
   second day in `CheckIn`'s run, for the form that leaks from one day to the next.

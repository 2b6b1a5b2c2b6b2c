--------------------------- MODULE AdminConsoleProofs ---------------------------
(***************************************************************************)
(* AdminConsole for any pages, keys, mutations and bounds: Inductive holds *)
(* initially and is kept by every step.  It tells, for each cache key, how *)
(* an entry or an answer older than a change of the console's own comes to *)
(* be replaced, and, as long as no two writes of the day have raced, that  *)
(* versions count its changes, so that the version a drawer sends names    *)
(* the change its fields were filled from, or one fetched under it.        *)
(***************************************************************************)
EXTENDS AdminConsole, TLAPS

-----------------------------------------------------------------------------
(* The inductive invariant. *)

\* The entry of a key that the console's own change has made stale is fetched again
\* before a page rests on it, unless that change let an older fetch go on.
Renewed(k, owned, entry, read, observed) ==
    owned # None /\ k \in Invalidates[owned.kind] =>
        /\ entry.data # None /\ entry.data.at < owned.at /\ ~entry.uncut =>
               /\ ~entry.fresh
               /\ observed => entry.error \/ read.state # "idle"
        /\ read.state = "back" /\ read.found.at < owned.at => read.uncut

\* What is known of a change has been committed; what came back holds data.
Committed ==
    /\ \A k \in Keys : own[k] # None => own[k].at <= db.at
    /\ \A m \in Slots : mutations[m] # None /\ mutations[m].state = "ok" =>
                            mutations[m].at <= db.at
    /\ \A k \in Keys : reads[k].state = "back" => reads[k].found # None

AllRenewed ==
    \A k \in Keys : Renewed(k, own[k], cache[k], reads[k], k \in Observes[page])

\* Versions fall behind the changes and stay behind: until they do, every answer's
\* version counts its changes.  A request in the API has loaded one of the versions.
Counts(d) == d # None => d.version = d.changes + 1

Counted ==
    /\ db.version <= db.changes + 1
    /\ ~Raced => \A k \in Keys : Counts(cache[k].data) /\ Counts(reads[k].found)
    /\ \A m \in Slots :
          mutations[m] # None /\ mutations[m].state = "admitted" =>
              /\ mutations[m].loaded <= db.changes + 1
              /\ Raced => mutations[m].loaded <= db.changes
              /\ mutations[m].kind = "edit_submission" =>
                     mutations[m].version = mutations[m].loaded

\* The drawer of a day is open on the day's page, and a change other than the one
\* it was filled from has reached the page since it was opened.
Drawn ==
    modal # None /\ modal.kind = "edit_submission" =>
        /\ page = "submission"
        /\ cache["daily-submission"].data # None
        /\ cache["daily-submission"].data.changes # modal.seen => modal.refetched

\* An edit carries the version of the change its drawer was filled from, or of one
\* fetched since, unless writes have raced.
Carried ==
    \A m \in Slots :
        /\ mutations[m] # None /\ mutations[m].kind = "edit_submission"
        /\ mutations[m].version # mutations[m].seen + 1
        => mutations[m].refetched \/ Raced

Inductive == TypeOK /\ Committed /\ AllRenewed /\ Drawn /\ Carried /\ Counted

-----------------------------------------------------------------------------
(* Lemmas about the values. *)

\* None is no data, modal, request or record of an own change.
LEMMA Apart ==
    /\ None \notin Data /\ None \notin Modal /\ None \notin Request
    /\ None \notin [at : Nat, kind : Mutation]
BY EntriesAssumption

\* The keys a page observes are followed.
LEMMA ObservedKeys ==
    ASSUME NEW p \in Pages
    PROVE  Observes[p] \subseteq Keys
BY DEF Observes

\* The values a fetch starts from.
LEMMA StartedRead ==
    /\ idle \in Read /\ started \in Read
    /\ idle.state = "idle" /\ started.state = "out"
    /\ idle.found = None /\ started.found = None
BY DEF idle, started, Read

\* The fetches of a page that mounts its hooks: each goes on, or it was idle and starts.
LEMMA MountedReads ==
    ASSUME TypeOK, NEW p \in Pages, NEW entries \in [Keys -> Entry]
    PROVE  /\ Mounted(p, entries) \in [Keys -> Read]
           /\ \A k \in Keys :
                 /\ Mounted(p, entries)[k] \in {reads[k], started}
                 /\ k \in Observes[p] /\ ~entries[k].fresh =>
                        Mounted(p, entries)[k].state # "idle"
<1>1. Mounted(p, entries) \in [Keys -> Read]
  BY StartedRead DEF Mounted, TypeOK
<1>2. QED
  BY <1>1, StartedRead DEF Mounted

\* As long as the data stays, the counts stay what they are: an answer holds the
\* data of now, an entry what was answered.
LEMMA CountsStay ==
    ASSUME Inductive, UNCHANGED db,
           \A k \in Keys : /\ cache'[k].data \in {cache[k].data, reads[k].found}
                           /\ reads'[k].found \in {reads[k].found, None, db},
           \A m \in Slots :
               mutations'[m] # None /\ mutations'[m].state = "admitted" =>
                   /\ mutations[m] # None /\ mutations[m].state = "admitted"
                   /\ mutations'[m].kind = mutations[m].kind
                   /\ mutations'[m].version = mutations[m].version
                   /\ mutations'[m].loaded = mutations[m].loaded
    PROVE  Counted'
<1>1. ASSUME ~Raced, NEW k \in Keys
      PROVE  Counts(cache'[k].data) /\ Counts(reads'[k].found)
  BY <1>1 DEF Inductive, Counted, Counts, Raced
<1>2. Raced' <=> Raced
  BY DEF Raced
<1>3. QED
  BY <1>1, <1>2 DEF Inductive, Counted, Counts

-----------------------------------------------------------------------------
(* The steps. *)

\* A page is opened: what is stale on it is fetched.
LEMMA VisitKeeps ==
    ASSUME Inductive, NEW p \in Pages, Visit(p)
    PROVE  Inductive'
<1>1. /\ page' = p /\ modal' = None /\ reads' = Mounted(p, cache)
      /\ UNCHANGED <<db, cache, own, saves>>
  BY DEF Visit
<1>2. events' \in 0..MaxEvents
  BY ConsoleAssumption DEF Visit, Event, Inductive, TypeOK
<1>3. /\ mutations' \in [Slots -> Request \cup {None}]
      /\ \A m \in Slots : mutations'[m] # None =>
             /\ mutations[m] # None /\ mutations'[m].kind = mutations[m].kind
             /\ mutations'[m].state = mutations[m].state /\ mutations'[m].at = mutations[m].at
             /\ mutations'[m].version = mutations[m].version
             /\ mutations'[m].seen = mutations[m].seen
             /\ mutations'[m].refetched = mutations[m].refetched
             /\ mutations'[m].loaded = mutations[m].loaded
  <2>1. ASSUME NEW m \in Slots, mutations[m] # None
        PROVE  /\ [mutations[m] EXCEPT !.here = FALSE] \in Request
               /\ mutations'[m] = [mutations[m] EXCEPT !.here = FALSE]
               /\ mutations[m] \in Request
    BY <2>1 DEF Visit, Inductive, TypeOK, Request
  <2>2. ASSUME NEW m \in Slots, mutations[m] = None
        PROVE  mutations'[m] = None
    BY <2>2 DEF Visit
  <2>3. mutations' \in [Slots -> Request \cup {None}]
    BY <2>1 DEF Visit
  <2>4. QED
    BY <2>1, <2>2, <2>3 DEF Request
<1>4. TypeOK'
  BY <1>1, <1>2, <1>3, MountedReads DEF Inductive, TypeOK
<1>5. Committed' /\ Carried'
  BY <1>1, <1>3, MountedReads, StartedRead DEF Inductive, Committed, Carried, Raced, TypeOK
<1>6. ASSUME NEW k \in Keys
      PROVE  Renewed(k, own'[k], cache'[k], reads'[k], k \in Observes[page'])
  BY <1>1, MountedReads, StartedRead DEF Inductive, AllRenewed, Renewed, TypeOK
<1>7. Drawn'
  BY <1>1 DEF Drawn
<1>8. Counted'
  BY <1>1, <1>3, MountedReads, StartedRead, CountsStay DEF Inductive, TypeOK
<1>9. QED
  BY <1>4, <1>5, <1>6, <1>7, <1>8 DEF Inductive, AllRenewed

\* The window gets the focus back.
LEMMA ReturnKeeps ==
    ASSUME Inductive, Return
    PROVE  Inductive'
<1>1. PICK late \in BOOLEAN :
         /\ cache' = [k \in Keys |-> [cache[k] EXCEPT !.fresh = @ /\ ~late]]
         /\ reads' = Mounted(page, cache')
  BY DEF Return
<1>2. UNCHANGED <<db, page, modal, mutations, own, saves>>
  BY DEF Return
<1>3. events' \in 0..MaxEvents
  BY ConsoleAssumption DEF Return, Event, Inductive, TypeOK
<1>4. /\ cache' \in [Keys -> Entry]
      /\ \A k \in Keys : /\ cache'[k].data = cache[k].data /\ cache'[k].uncut = cache[k].uncut
                         /\ cache'[k].error = cache[k].error
                         /\ cache'[k].fresh => cache[k].fresh
  <2>1. ASSUME NEW k \in Keys
        PROVE  /\ cache[k] \in Entry /\ [cache[k] EXCEPT !.fresh = @ /\ ~late] \in Entry
               /\ cache'[k] = [cache[k] EXCEPT !.fresh = @ /\ ~late]
    BY <1>1 DEF Inductive, TypeOK, Entry
  <2>2. cache' \in [Keys -> Entry]
    BY <1>1, <2>1
  <2>3. QED
    BY <2>1, <2>2 DEF Entry
<1>5. TypeOK'
  BY <1>1, <1>2, <1>3, <1>4, MountedReads DEF Inductive, TypeOK
<1>6. Committed' /\ Carried'
  BY <1>1, <1>2, <1>4, MountedReads, StartedRead
  DEF Inductive, Committed, Carried, Raced, TypeOK
<1>7. ASSUME NEW k \in Keys
      PROVE  Renewed(k, own'[k], cache'[k], reads'[k], k \in Observes[page'])
  <2>1. /\ reads'[k] \in {reads[k], started}
        /\ k \in Observes[page] /\ ~cache'[k].fresh => reads'[k].state # "idle"
    <3>1. TypeOK /\ page \in Pages /\ cache' \in [Keys -> Entry]
      BY <1>4 DEF Inductive, TypeOK
    <3>2. QED
      BY <1>1, <3>1, MountedReads
  <2>2. Renewed(k, own[k], cache[k], reads[k], k \in Observes[page])
    BY DEF Inductive, AllRenewed
  <2>3. QED
    BY <1>2, <1>4, <2>1, <2>2, StartedRead DEF Renewed
<1>8. Drawn'
  BY <1>2, <1>4, EntriesAssumption DEF Inductive, Drawn, TypeOK
<1>9. Counted'
  <2>1. ASSUME NEW k \in Keys
        PROVE  reads'[k].found \in {reads[k].found, None, db}
    BY <1>1, <1>4, MountedReads, StartedRead DEF Inductive, TypeOK
  <2>2. QED
    BY <1>2, <1>4, <2>1, CountsStay
<1>10. QED
  BY <1>5, <1>6, <1>7, <1>8, <1>9 DEF Inductive, AllRenewed

\* A fetch is served: the answer holds every change committed by then.
LEMMA ServeReadKeeps ==
    ASSUME Inductive, NEW k \in Keys, ServeRead(k)
    PROVE  Inductive'
<1> DEFINE r == [reads[k] EXCEPT !.state = "back", !.found = db]
<1>1. /\ reads' = [reads EXCEPT ![k] = r] /\ reads[k] \in Read
      /\ UNCHANGED <<db, page, cache, modal, mutations, own, bounds>>
  BY DEF ServeRead, Inductive, TypeOK
<1>2. r \in Read /\ r.state = "back" /\ r.found = db /\ db \in Data
  BY <1>1 DEF Read, Inductive, TypeOK
<1> HIDE DEF r
<1>3. TypeOK'
  BY <1>1, <1>2 DEF Inductive, TypeOK, bounds
<1>4. Committed' /\ Carried' /\ Drawn'
  BY <1>1, <1>2, Apart DEF Inductive, TypeOK, Committed, Carried, Raced, Drawn
<1>5. ASSUME NEW h \in Keys
      PROVE  Renewed(h, own[h], cache[h], reads'[h], h \in Observes[page])
  <2>1. Renewed(h, own[h], cache[h], reads[h], h \in Observes[page])
    BY DEF Inductive, AllRenewed
  <2>2. CASE h = k
    <3>1. own[k] # None => own[k].at <= db.at /\ own[k].at \in Nat /\ db.at \in Nat
      BY DEF Inductive, Committed, TypeOK, Data
    <3>2. QED
      BY <1>1, <1>2, <2>1, <2>2, <3>1 DEF Renewed, Inductive, TypeOK
  <2>3. CASE h # k
    BY <1>1, <2>1, <2>3 DEF Inductive, TypeOK
  <2>4. QED
    BY <2>2, <2>3
<1>6. Counted'
  BY <1>1, <1>2, CountsStay DEF Inductive, TypeOK
<1>7. QED
  BY <1>1, <1>3, <1>4, <1>5, <1>6 DEF Inductive, AllRenewed

\* The last retry of a fetch fails.
LEMMA FailReadKeeps ==
    ASSUME Inductive, NEW k \in Keys, FailRead(k)
    PROVE  Inductive'
<1> DEFINE r == [reads[k] EXCEPT !.state = "failed"]
<1>1. /\ reads' = [reads EXCEPT ![k] = r] /\ reads[k] \in Read
      /\ UNCHANGED <<db, page, cache, modal, mutations, own, saves>>
  BY DEF FailRead, Inductive, TypeOK
<1>2. r \in Read /\ r.state = "failed" /\ r.found = reads[k].found
      /\ events' \in 0..MaxEvents
  BY <1>1, ConsoleAssumption DEF FailRead, Event, Read, Inductive, TypeOK
<1> HIDE DEF r
<1>3. TypeOK'
  BY <1>1, <1>2 DEF Inductive, TypeOK
<1>4. Committed' /\ Carried' /\ Drawn'
  BY <1>1, <1>2 DEF Inductive, TypeOK, Committed, Carried, Raced, Drawn
<1>5. ASSUME NEW h \in Keys
      PROVE  Renewed(h, own[h], cache[h], reads'[h], h \in Observes[page])
  BY <1>1, <1>2 DEF Inductive, AllRenewed, Renewed, TypeOK
<1>6. Counted'
  BY <1>1, <1>2, CountsStay DEF Inductive, TypeOK
<1>7. QED
  BY <1>1, <1>3, <1>4, <1>5, <1>6 DEF Inductive, AllRenewed

\* An answer to a fetch is stored, or the entry shows its failure.
LEMMA ReadAnsweredKeeps ==
    ASSUME Inductive, NEW k \in Keys, ReadAnswered(k)
    PROVE  Inductive'
<1> DEFINE d == reads[k].found
<1>1. /\ reads' = [reads EXCEPT ![k] = idle] /\ reads[k] \in Read /\ cache[k] \in Entry
      /\ UNCHANGED <<db, page, mutations, own, bounds>>
  BY DEF ReadAnswered, Inductive, TypeOK
<1>2. PICK e \in Entry :
         /\ cache' = [cache EXCEPT ![k] = e]
         /\ \/ /\ e.data = cache[k].data /\ e.fresh = cache[k].fresh /\ e.uncut = cache[k].uncut
               /\ e.error /\ UNCHANGED modal
            \/ /\ reads[k].state = "back" /\ d \in Data
               /\ e.data = d /\ e.uncut = reads[k].uncut
               /\ modal' = IF k = "daily-submission" /\ modal # None /\ d.changes # modal.seen
                           THEN [modal EXCEPT !.refetched = TRUE] ELSE modal
  <2>1. CASE reads[k].state = "failed"
    <3> DEFINE e == [cache[k] EXCEPT !.error = TRUE]
    <3>1. e \in Entry /\ e.data = cache[k].data /\ e.fresh = cache[k].fresh
          /\ e.uncut = cache[k].uncut /\ e.error
      BY <1>1 DEF Entry
    <3>2. cache' = [cache EXCEPT ![k] = e] /\ UNCHANGED modal
      BY <2>1 DEF ReadAnswered, Inductive, TypeOK
    <3> HIDE DEF e
    <3>3. QED
      BY <3>1, <3>2
  <2>2. CASE reads[k].state # "failed"
    <3> DEFINE e == [data |-> d, fresh |-> k \in Timed, error |-> FALSE,
                     uncut |-> reads[k].uncut]
    <3>1. reads[k].state = "back" /\ d \in Data
      BY <1>1, <2>2 DEF ReadAnswered, Inductive, Committed, Read
    <3>2. e \in Entry /\ e.data = d /\ e.uncut = reads[k].uncut
      BY <1>1, <3>1 DEF Entry, Read
    <3>3. /\ cache' = [cache EXCEPT ![k] = e]
          /\ modal' = IF k = "daily-submission" /\ modal # None /\ d.changes # modal.seen
                      THEN [modal EXCEPT !.refetched = TRUE] ELSE modal
      BY <2>2 DEF ReadAnswered
    <3> HIDE DEF e
    <3>4. QED
      BY <3>1, <3>2, <3>3
  <2>3. QED
    BY <2>1, <2>2
<1>3. /\ modal' \in Modal \cup {None} /\ (modal = None <=> modal' = None)
      /\ modal # None => /\ modal'.kind = modal.kind /\ modal'.seen = modal.seen
                         /\ modal.refetched => modal'.refetched
  <2>1. CASE UNCHANGED modal
    BY <2>1 DEF Inductive, TypeOK
  <2>2. CASE modal # None /\ modal' = [modal EXCEPT !.refetched = TRUE]
    BY <2>2, Apart DEF Modal, Inductive, TypeOK
  <2>3. QED
    BY <1>2, <2>1, <2>2
<1>4. TypeOK'
  BY <1>1, <1>2, <1>3, StartedRead DEF Inductive, TypeOK, bounds
<1>5. Committed' /\ Carried'
  BY <1>1, StartedRead DEF Inductive, TypeOK, Committed, Carried, Raced
<1>6. Drawn'
  <2>1. SUFFICES ASSUME modal' # None, modal'.kind = "edit_submission"
                 PROVE  /\ page = "submission"
                        /\ cache'["daily-submission"].data # None
                        /\ cache'["daily-submission"].data.changes # modal'.seen
                               => modal'.refetched
    BY <1>1 DEF Drawn
  <2>2. /\ page = "submission" /\ cache["daily-submission"].data # None
        /\ cache["daily-submission"].data.changes # modal.seen => modal.refetched
        /\ modal # None /\ modal'.seen = modal.seen /\ (modal.refetched => modal'.refetched)
    BY <1>3, <2>1 DEF Inductive, Drawn
  <2>3. "daily-submission" \in Keys
    BY <2>2, EntriesAssumption DEF Inductive, TypeOK
  <2>4. CASE k # "daily-submission"
    BY <1>2, <2>2, <2>3, <2>4 DEF Inductive, TypeOK
  <2>5. CASE k = "daily-submission"
    <3>1. cache'[k] = e
      BY <1>2 DEF Inductive, TypeOK
    <3>2. CASE e.data = cache[k].data
      BY <2>2, <2>5, <3>1, <3>2
    <3>3. CASE /\ d \in Data /\ e.data = d
               /\ modal' = IF d.changes # modal.seen
                           THEN [modal EXCEPT !.refetched = TRUE] ELSE modal
      <4>1. modal \in Modal
        BY <2>2 DEF Inductive, TypeOK
      <4>2. d.changes # modal.seen => modal'.refetched
        BY <3>3, <4>1 DEF Modal
      <4>3. QED
        BY <2>2, <2>5, <3>1, <3>3, <4>2, Apart
    <3>4. QED
      BY <1>2, <2>2, <2>5, <3>2, <3>3
  <2>6. QED
    BY <2>4, <2>5
<1>7. ASSUME NEW h \in Keys
      PROVE  Renewed(h, own[h], cache'[h], reads'[h], h \in Observes[page])
  <2>1. Renewed(h, own[h], cache[h], reads[h], h \in Observes[page])
    BY DEF Inductive, AllRenewed
  <2>2. CASE h # k
    BY <1>1, <1>2, <2>1, <2>2 DEF Inductive, TypeOK
  <2>3. CASE h = k
    <3>1. cache'[h] = e /\ reads'[h] = idle
      BY <1>1, <1>2, <2>3 DEF Inductive, TypeOK
    <3>2. QED
      BY <1>2, <2>1, <2>3, <3>1, StartedRead DEF Renewed
  <2>4. QED
    BY <2>2, <2>3
<1>8. Counted'
  BY <1>1, <1>2, StartedRead, CountsStay DEF Inductive, TypeOK
<1>9. QED
  BY <1>1, <1>4, <1>5, <1>6, <1>7, <1>8 DEF Inductive, AllRenewed

\* A drawer or a dialog is opened; a day's drawer takes its fields from the entry on
\* screen.
LEMMA OpenKeeps ==
    ASSUME Inductive, NEW kind \in Mutation, NEW seen \in Nat, Opened(kind, seen),
           kind = "edit_submission" =>
               /\ page = "submission" /\ cache["daily-submission"].data # None
               /\ seen = cache["daily-submission"].data.changes
    PROVE  Inductive'
<1>1. /\ modal' = [kind |-> kind, seen |-> seen, refetched |-> FALSE]
      /\ UNCHANGED <<db, page, cache, reads, mutations, own, bounds>>
  BY DEF Opened
<1>2. modal' \in Modal /\ modal'.kind = kind /\ modal'.seen = seen
  BY <1>1 DEF Modal
<1>3. TypeOK'
  BY <1>1, <1>2 DEF Inductive, TypeOK, bounds
<1>4. Committed' /\ Carried' /\ AllRenewed' /\ Counted'
  BY <1>1, CountsStay DEF Inductive, Committed, Carried, Raced, AllRenewed
<1>5. Drawn'
  BY <1>1, <1>2 DEF Drawn
<1>6. QED
  BY <1>3, <1>4, <1>5 DEF Inductive

\* Each of the buttons that open one.
LEMMA OpenButtonsKeep ==
    ASSUME Inductive,
           \/ \E kind \in Mutation : OpenSubmission(kind) \/ OpenPending(kind)
           \/ OpenWorkorder \/ OpenSuspend
    PROVE  Inductive'
<1>1. ASSUME NEW kind \in Mutation, OpenSubmission(kind)
      PROVE  Inductive'
  <2>1. /\ page = "submission" /\ cache["daily-submission"].data # None
        /\ Opened(kind, cache["daily-submission"].data.changes)
    BY <1>1 DEF OpenSubmission, Rendered
  <2>2. "daily-submission" \in Keys
    BY <2>1, EntriesAssumption DEF Inductive, TypeOK
  <2>3. cache["daily-submission"].data.changes \in Nat
    BY <2>1, <2>2 DEF Inductive, TypeOK, Entry, Data
  <2>4. QED
    BY <2>1, <2>3, OpenKeeps
<1>2. ASSUME NEW kind \in Mutation, OpenPending(kind)
      PROVE  Inductive'
  BY <1>2, OpenKeeps DEF OpenPending
<1>3. CASE OpenWorkorder
  BY <1>3, OpenKeeps DEF OpenWorkorder, Mutation, Invalidates
<1>4. CASE OpenSuspend
  BY <1>4, OpenKeeps DEF OpenSuspend, Mutation, Invalidates
<1>5. QED
  BY <1>1, <1>2, <1>3, <1>4

\* The drawer or dialog is closed.
LEMMA CloseKeeps ==
    ASSUME Inductive, Close
    PROVE  Inductive'
<1>1. modal' = None /\ UNCHANGED <<db, page, cache, reads, mutations, own, bounds>>
  BY DEF Close
<1>2. TypeOK'
  BY <1>1 DEF Inductive, TypeOK, bounds
<1>3. Counted'
  BY <1>1, CountsStay
<1>4. QED
  BY <1>1, <1>2, <1>3 DEF Inductive, Committed, Carried, Raced, AllRenewed, Drawn

\* A mutation goes out: an edit with the version of the entry on screen, which is the
\* one its drawer was filled from, or a refetched one.
LEMMA ConfirmKeeps ==
    ASSUME Inductive, NEW m \in Slots, Confirm(m)
    PROVE  Inductive'
<1> DEFINE r == [kind |-> modal.kind, version |-> VersionSent, seen |-> modal.seen,
                 refetched |-> modal.refetched, state |-> "out", loaded |-> 0, at |-> 0,
                 here |-> TRUE]
<1>1. /\ modal # None /\ mutations' = [mutations EXCEPT ![m] = r]
      /\ UNCHANGED <<db, page, cache, reads, modal, own, events>>
  BY DEF Confirm
<1>2. modal \in Modal /\ modal.kind \in Mutation /\ modal.seen \in Nat
      /\ modal.refetched \in BOOLEAN
  BY <1>1 DEF Inductive, TypeOK, Modal
<1>3. /\ VersionSent \in Nat
      /\ modal.kind = "edit_submission" /\ VersionSent # modal.seen + 1 =>
             modal.refetched \/ Raced
  <2>1. CASE modal.kind = "edit_submission"
    <3>1. /\ page = "submission" /\ cache["daily-submission"].data # None
          /\ cache["daily-submission"].data.changes # modal.seen => modal.refetched
      BY <1>1, <2>1 DEF Inductive, Drawn
    <3>2. "daily-submission" \in Keys
      BY <3>1, EntriesAssumption DEF Inductive, TypeOK
    <3>3. cache["daily-submission"].data.version \in Nat
      BY <3>1, <3>2 DEF Inductive, TypeOK, Entry, Data
    <3>4. ~Raced => cache["daily-submission"].data.version
                        = cache["daily-submission"].data.changes + 1
      BY <3>1, <3>2 DEF Inductive, Counted, Counts
    <3>5. QED
      BY <2>1, <3>1, <3>3, <3>4 DEF VersionSent
  <2>2. CASE modal.kind # "edit_submission"
    BY <2>2 DEF VersionSent
  <2>3. QED
    BY <2>1, <2>2
<1>4. /\ r \in Request /\ r.state = "out" /\ r.kind = modal.kind
      /\ r.version = VersionSent /\ r.seen = modal.seen /\ r.refetched = modal.refetched
  BY <1>2, <1>3 DEF Request
<1>5. saves' \in 0..MaxSaves
  BY ConsoleAssumption DEF Confirm, Inductive, TypeOK
<1> HIDE DEF r
<1>6. TypeOK'
  BY <1>1, <1>4, <1>5 DEF Inductive, TypeOK
<1>7. Committed' /\ Carried'
  BY <1>1, <1>3, <1>4 DEF Inductive, TypeOK, Committed, Carried, Raced
<1>8. AllRenewed' /\ Drawn'
  BY <1>1 DEF Inductive, AllRenewed, Drawn
<1>9. Counted'
  BY <1>1, <1>4, CountsStay DEF Inductive, TypeOK
<1>10. QED
  BY <1>6, <1>7, <1>8, <1>9 DEF Inductive

\* What a change makes of the data.
LEMMA ChangedData ==
    ASSUME TypeOK, NEW kind \in Mutation, NEW loaded \in Nat
    PROVE  /\ Changed(kind, loaded) \in Data /\ Changed(kind, loaded).at = db.at + 1
           /\ IF kind \in DaysChanges
              THEN /\ Changed(kind, loaded).version = loaded + 1
                   /\ Changed(kind, loaded).changes = db.changes + 1
              ELSE /\ Changed(kind, loaded).version = db.version
                   /\ Changed(kind, loaded).changes = db.changes
BY DEF TypeOK, Data, Changed

\* Versions that have fallen behind stay behind.
LEMMA ChangesRace ==
    ASSUME TypeOK, Counted, NEW kind \in Mutation, NEW loaded \in Nat,
           db' = Changed(kind, loaded), loaded <= db.changes + 1,
           Raced => loaded <= db.changes
    PROVE  /\ db'.version <= db'.changes + 1 /\ db.changes <= db'.changes
           /\ Raced => Raced'
           /\ ~Raced' /\ kind \in DaysChanges => loaded = db.changes + 1
           /\ ~Raced /\ Raced' => db.changes + 1 = db'.changes
<1>1. db.version \in Nat /\ db.changes \in Nat
  BY DEF TypeOK, Data
<1>2. QED
  BY <1>1, ChangedData DEF Counted, Raced

\* A change keeps the counts, and what requests carry and have loaded.
LEMMA ChangeCounted ==
    ASSUME Inductive, NEW kind \in Mutation, NEW loaded \in Nat,
           db' = Changed(kind, loaded), loaded <= db.changes + 1,
           Raced => loaded <= db.changes,
           UNCHANGED <<cache, reads>>,
           \A m \in Slots :
               mutations'[m] # None => /\ mutations[m] # None
                                       /\ mutations'[m].kind = mutations[m].kind
                                       /\ mutations'[m].version = mutations[m].version
                                       /\ mutations'[m].seen = mutations[m].seen
                                       /\ mutations'[m].refetched = mutations[m].refetched
                                       /\ mutations'[m].loaded = mutations[m].loaded
                                       /\ mutations'[m].state = "admitted" =>
                                              mutations[m].state = "admitted"
    PROVE  Counted' /\ Carried'
<1>1. /\ db'.version <= db'.changes + 1 /\ db.changes <= db'.changes
      /\ Raced => Raced'
      /\ ~Raced /\ Raced' => db.changes + 1 = db'.changes
  BY ChangesRace DEF Inductive
<1>2. Carried'
  BY <1>1 DEF Inductive, Carried
<1>3. ASSUME ~Raced', NEW k \in Keys
      PROVE  Counts(cache[k].data) /\ Counts(reads[k].found)
  BY <1>1, <1>3 DEF Inductive, Counted
<1>4. ASSUME NEW m \in Slots, mutations'[m] # None, mutations'[m].state = "admitted"
      PROVE  /\ mutations'[m].loaded <= db'.changes + 1
             /\ Raced' => mutations'[m].loaded <= db'.changes
             /\ mutations'[m].kind = "edit_submission" =>
                    mutations'[m].version = mutations'[m].loaded
  <2>1. /\ mutations[m] # None /\ mutations[m].state = "admitted"
        /\ mutations[m] \in Request /\ mutations'[m].loaded = mutations[m].loaded
    BY <1>4 DEF Inductive, TypeOK
  <2>2. /\ mutations[m].loaded \in Nat /\ mutations[m].loaded <= db.changes + 1
        /\ Raced => mutations[m].loaded <= db.changes
        /\ mutations[m].kind = "edit_submission" =>
               mutations[m].version = mutations[m].loaded
    BY <2>1 DEF Inductive, Counted, Request
  <2>3. db.changes \in Nat /\ db'.changes \in Nat
    BY ChangedData DEF Inductive, TypeOK, Data
  <2>4. QED
    BY <1>1, <1>4, <2>1, <2>2, <2>3
<1>5. QED
  BY <1>1, <1>2, <1>3, <1>4 DEF Counted, Counts

\* Mutation m goes on: its state, the version that was loaded, and the time of the
\* change.
Settles(m, state, loaded, at) ==
    mutations' = [mutations EXCEPT ![m] =
                     [mutations[m] EXCEPT !.state = state, !.loaded = loaded, !.at = at]]

\* Only the state of a mutation, what it has loaded, its time and perhaps the data
\* change.
LEMMA AnswerKeeps ==
    ASSUME Inductive, NEW m \in Slots, mutations[m] # None,
           NEW state \in {"admitted", "ok", "failed"}, NEW loaded \in Nat, NEW at \in Nat,
           Settles(m, state, loaded, at),
           db' \in Data, db'.at >= db.at, state = "ok" => at <= db'.at,
           UNCHANGED <<page, cache, reads, modal, own, saves>>,
           events' \in 0..MaxEvents
    PROVE  TypeOK' /\ Committed' /\ AllRenewed' /\ Drawn'
<1> DEFINE r == [mutations[m] EXCEPT !.state = state, !.loaded = loaded, !.at = at]
<1>1. mutations[m] \in Request /\ mutations' = [mutations EXCEPT ![m] = r]
  BY DEF Inductive, TypeOK, Settles
<1>2. r \in Request /\ r.state = state /\ r.at = at
  BY <1>1 DEF Request
<1> HIDE DEF r
<1>3. TypeOK'
  BY <1>1, <1>2 DEF Inductive, TypeOK
<1>4. Committed'
  <2>1. ASSUME NEW k \in Keys, own[k] # None
        PROVE  own[k].at <= db'.at
    BY <2>1 DEF Inductive, TypeOK, Committed, Data
  <2>2. ASSUME NEW h \in Slots, mutations'[h] # None, mutations'[h].state = "ok"
        PROVE  mutations'[h].at <= db'.at
    <3>1. CASE h = m
      BY <1>1, <1>2, <2>2, <3>1 DEF Inductive, TypeOK
    <3>2. CASE h # m
      <4>1. mutations'[h] = mutations[h] /\ mutations[h] \in Request
        BY <1>1, <2>2, <3>2 DEF Inductive, TypeOK
      <4>2. QED
        BY <2>2, <4>1 DEF Inductive, TypeOK, Committed, Data, Request
    <3>3. QED
      BY <3>1, <3>2
  <2>3. QED
    BY <2>1, <2>2 DEF Inductive, Committed
<1>5. AllRenewed' /\ Drawn'
  BY DEF Inductive, AllRenewed, Drawn
<1>6. QED
  BY <1>3, <1>4, <1>5

\* What a mutation that goes on keeps.
LEMMA SettledRequests ==
    ASSUME TypeOK, NEW m \in Slots, mutations[m] # None,
           NEW state \in {"admitted", "ok", "failed"}, NEW loaded \in Nat, NEW at \in Nat,
           Settles(m, state, loaded, at)
    PROVE  /\ mutations'[m] # None /\ mutations'[m].state = state
           /\ mutations'[m].loaded = loaded
           /\ \A h \in Slots : h # m => mutations'[h] = mutations[h]
           /\ \A h \in Slots :
                 mutations'[h] # None => /\ mutations[h] # None
                                         /\ mutations'[h].kind = mutations[h].kind
                                         /\ mutations'[h].version = mutations[h].version
                                         /\ mutations'[h].seen = mutations[h].seen
                                         /\ mutations'[h].refetched = mutations[h].refetched
<1> DEFINE r == [mutations[m] EXCEPT !.state = state, !.loaded = loaded, !.at = at]
<1>1. mutations[m] \in Request /\ mutations' = [mutations EXCEPT ![m] = r]
  BY DEF TypeOK, Settles
<1>2. /\ r \in Request /\ r.state = state /\ r.loaded = loaded /\ r.kind = mutations[m].kind
      /\ r.version = mutations[m].version /\ r.seen = mutations[m].seen
      /\ r.refetched = mutations[m].refetched
  BY <1>1 DEF Request
<1> HIDE DEF r
<1>3. QED
  BY <1>1, <1>2, Apart DEF TypeOK

\* A mutation fails: nothing else changes.
LEMMA FailureKeeps ==
    ASSUME Inductive, NEW m \in Slots, mutations[m] # None,
           mutations' = [mutations EXCEPT ![m].state = "failed"],
           UNCHANGED <<db, page, cache, reads, modal, own, saves>>,
           events' \in 0..MaxEvents
    PROVE  Inductive'
<1> DEFINE q == mutations[m]
<1>1. q \in Request /\ q.loaded \in Nat /\ q.at \in Nat /\ db \in Data /\ db.at \in Nat
  BY DEF Inductive, TypeOK, Request, Data
<1>2. Settles(m, "failed", q.loaded, q.at)
  <2>1. [q EXCEPT !.state = "failed"]
            = [q EXCEPT !.state = "failed", !.loaded = q.loaded, !.at = q.at]
    BY <1>1 DEF Request
  <2>2. QED
    BY <2>1 DEF Settles, Inductive, TypeOK
<1>3. TypeOK' /\ Committed' /\ AllRenewed' /\ Drawn'
  BY <1>1, <1>2, AnswerKeeps
<1>4. Carried' /\ Counted'
  BY <1>1, <1>2, SettledRequests, CountsStay DEF Inductive, Carried, Raced
<1>5. QED
  BY <1>3, <1>4 DEF Inductive

\* The API loads the row and admits a mutation, or refuses it.
LEMMA AdmitMutationKeeps ==
    ASSUME Inductive, NEW m \in Slots, AdmitMutation(m)
    PROVE  Inductive'
<1> DEFINE q == mutations[m]
<1>1. /\ q # None /\ q \in Request /\ q.at \in Nat /\ q.kind \in Mutation /\ db \in Data
      /\ db.at \in Nat /\ db.version \in Nat /\ db.changes \in Nat
      /\ UNCHANGED <<db, page, cache, reads, modal, own, saves>> /\ events' \in 0..MaxEvents
  BY DEF AdmitMutation, Inductive, TypeOK, Request, Data, bounds
<1>2. CASE Admits(q.kind, q.version)
           /\ mutations' = [mutations EXCEPT ![m].state = "admitted",
                                             ![m].loaded = db.version]
  <2>1. Settles(m, "admitted", db.version, q.at)
    <3>1. [q EXCEPT !.state = "admitted", !.loaded = db.version]
              = [q EXCEPT !.state = "admitted", !.loaded = db.version, !.at = q.at]
      BY <1>1 DEF Request
    <3>2. QED
      BY <1>1, <1>2, <3>1 DEF Settles, Inductive, TypeOK
  <2>2. TypeOK' /\ Committed' /\ AllRenewed' /\ Drawn'
    BY <1>1, <2>1, AnswerKeeps
  <2>3. Carried'
    BY <1>1, <2>1, SettledRequests DEF Inductive, Carried, Raced
  <2>4. q.kind = "edit_submission" => q.version = db.version
    BY <1>2 DEF Admits
  <2>5. Counted'
    <3>1. /\ db.version <= db.changes + 1 /\ (Raced' <=> Raced)
          /\ Raced => db.version <= db.changes
          /\ ~Raced => \A k \in Keys : Counts(cache[k].data) /\ Counts(reads[k].found)
      BY <1>1 DEF Inductive, Counted, Raced
    <3>2. ASSUME NEW h \in Slots, mutations'[h] # None, mutations'[h].state = "admitted"
          PROVE  /\ mutations'[h].loaded <= db.changes + 1
                 /\ Raced => mutations'[h].loaded <= db.changes
                 /\ mutations'[h].kind = "edit_submission" =>
                        mutations'[h].version = mutations'[h].loaded
      <4>1. CASE h = m
        BY <1>1, <2>1, <2>4, <3>1, <3>2, <4>1, SettledRequests DEF Inductive
      <4>2. CASE h # m
        <5>1. mutations'[h] = mutations[h]
          BY <1>1, <2>1, <4>2, SettledRequests DEF Inductive
        <5>2. QED
          BY <3>2, <5>1 DEF Inductive, Counted
      <4>3. QED
        BY <4>1, <4>2
    <3>3. QED
      BY <1>1, <3>1, <3>2 DEF Counted, Counts
  <2>6. QED
    BY <2>2, <2>3, <2>5 DEF Inductive
<1>3. CASE mutations' = [mutations EXCEPT ![m].state = "failed"]
  BY <1>1, <1>3, FailureKeeps
<1>4. QED
  BY <1>2, <1>3 DEF AdmitMutation

\* It writes over whatever the row has become.
LEMMA CommitMutationKeeps ==
    ASSUME Inductive, NEW m \in Slots, CommitMutation(m)
    PROVE  Inductive'
<1> DEFINE q == mutations[m]
<1>1. /\ q # None /\ q \in Request /\ q.kind \in Mutation /\ q.loaded \in Nat
      /\ q.state = "admitted" /\ db' = Changed(q.kind, q.loaded) /\ db.at \in Nat
      /\ UNCHANGED <<page, cache, reads, modal, own, saves>> /\ events' \in 0..MaxEvents
  BY DEF CommitMutation, Inductive, TypeOK, Request, Data, bounds
<1>2. /\ q.loaded <= db.changes + 1
      /\ Raced => q.loaded <= db.changes
  BY <1>1 DEF Inductive, Counted
<1>3. db' \in Data /\ db'.at = db.at + 1
  BY <1>1, ChangedData DEF Inductive
<1>4. Settles(m, "ok", q.loaded, db.at + 1)
  <2>1. [q EXCEPT !.state = "ok", !.at = db.at + 1]
            = [q EXCEPT !.state = "ok", !.loaded = q.loaded, !.at = db.at + 1]
    BY <1>1 DEF Request
  <2>2. QED
    BY <1>1, <2>1 DEF CommitMutation, Settles, Inductive, TypeOK
<1>5. db.at + 1 \in Nat /\ db'.at >= db.at /\ db.at + 1 <= db'.at
  BY <1>1, <1>3
<1>6. TypeOK' /\ Committed' /\ AllRenewed' /\ Drawn'
  BY <1>1, <1>3, <1>4, <1>5, AnswerKeeps
<1>7. \A h \in Slots :
         mutations'[h] # None => /\ mutations[h] # None
                                 /\ mutations'[h].kind = mutations[h].kind
                                 /\ mutations'[h].version = mutations[h].version
                                 /\ mutations'[h].seen = mutations[h].seen
                                 /\ mutations'[h].refetched = mutations[h].refetched
                                 /\ mutations'[h].loaded = mutations[h].loaded
                                 /\ mutations'[h].state = "admitted" =>
                                        mutations[h].state = "admitted"
  BY <1>1, <1>4, <1>5, SettledRequests DEF Inductive
<1>8. Counted' /\ Carried'
  BY <1>1, <1>2, <1>7, ChangeCounted
<1>9. QED
  BY <1>6, <1>8 DEF Inductive

\* A mutation, or its answer, does not get through.
LEMMA FailMutationKeeps ==
    ASSUME Inductive, NEW m \in Slots, FailMutation(m)
    PROVE  Inductive'
<1>1. events' \in 0..MaxEvents
  BY ConsoleAssumption DEF FailMutation, Event, Inductive, TypeOK
<1>2. QED
  BY <1>1, FailureKeeps DEF FailMutation

\* A mutation's success reaches the console: the keys its hook names become stale.
LEMMA MutationAnsweredKeeps ==
    ASSUME Inductive, NEW m \in Slots, MutationAnswered(m)
    PROVE  Inductive'
<1> DEFINE r == mutations[m]
           keys == Invalidates[r.kind]
<1>1. /\ r # None /\ r \in Request /\ r.state \in {"ok", "failed"}
      /\ mutations' = [mutations EXCEPT ![m] = None]
      /\ UNCHANGED <<db, page, bounds>>
  BY DEF MutationAnswered, Inductive, TypeOK
<1>2. r.kind \in Mutation /\ r.at \in Nat /\ (r.state = "ok" => r.at <= db.at)
  BY <1>1 DEF Request, Inductive, Committed
<1>3. mutations' \in [Slots -> Request \cup {None}]
      /\ saves' \in 0..MaxSaves /\ events' \in 0..MaxEvents /\ db' \in Data /\ page' \in Pages
  BY <1>1 DEF Inductive, TypeOK, bounds
<1>4. Carried'
  BY <1>1 DEF Inductive, TypeOK, Carried, Raced
<1>5. CASE UNCHANGED <<cache, reads, modal, own>>
  <2>1. TypeOK'
    BY <1>3, <1>5 DEF Inductive, TypeOK
  <2>2. Committed' /\ AllRenewed' /\ Drawn'
    BY <1>1, <1>5 DEF Inductive, TypeOK, Committed, AllRenewed, Drawn
  <2>3. Counted'
    BY <1>1, <1>5, CountsStay DEF Inductive, TypeOK
  <2>4. QED
    BY <1>4, <2>1, <2>2, <2>3 DEF Inductive
<1>6. CASE r.state = "ok"
  <2>1. /\ Invalidate(keys) /\ modal' \in {None, modal}
        /\ own' = [k \in Keys |-> IF k \in Touches[r.kind]
                                  THEN [at |-> r.at, kind |-> r.kind] ELSE own[k]]
    BY <1>6 DEF MutationAnswered
  <2> HIDE DEF keys
  <2>2. /\ cache' \in [Keys -> Entry]
        /\ \A k \in Keys :
              /\ cache'[k].data = cache[k].data /\ cache'[k].error = cache[k].error
              /\ cache'[k].uncut = cache[k].uncut
              /\ cache'[k].fresh => cache[k].fresh
              /\ k \in keys => ~cache'[k].fresh
    <3>1. ASSUME NEW k \in Keys
          PROVE  /\ cache[k] \in Entry /\ [cache[k] EXCEPT !.fresh = FALSE] \in Entry
                 /\ cache'[k] = IF k \in keys THEN [cache[k] EXCEPT !.fresh = FALSE]
                                ELSE cache[k]
      BY <2>1 DEF Invalidate, Inductive, TypeOK, Entry
    <3>2. cache' \in [Keys -> Entry]
      BY <2>1, <3>1 DEF Invalidate
    <3>3. QED
      BY <3>1, <3>2 DEF Entry
  <2>3. ASSUME NEW k \in Keys
        PROVE  /\ reads'[k] \in Read
               /\ reads'[k].found \in {reads[k].found, None}
               /\ reads'[k] # started =>
                      reads'[k].state = reads[k].state /\ reads'[k].found = reads[k].found
               /\ k \notin keys => reads'[k] = reads[k]
               /\ k \in keys /\ reads'[k] # started /\ reads'[k].state # "idle" =>
                      reads'[k].uncut
               /\ k \in keys /\ k \in Observes[page] => reads'[k].state # "idle"
    <3>1. reads[k] \in Read /\ Uncut(k) \in BOOLEAN
      BY DEF Inductive, TypeOK, Uncut
    <3>2. CASE k \notin keys
      BY <2>1, <3>1, <3>2 DEF Invalidate
    <3>3. CASE k \in keys /\ Restarted(k)
      <4>1. reads'[k] = started
        BY <2>1, <3>3 DEF Invalidate
      <4>2. QED
        BY <3>3, <4>1, StartedRead
    <3>4. CASE k \in keys /\ ~Restarted(k)
      <4>1. reads'[k] = [reads[k] EXCEPT !.uncut = Uncut(k)]
        BY <2>1, <3>4 DEF Invalidate
      <4>2. /\ reads'[k] \in Read /\ reads'[k].state = reads[k].state
            /\ reads'[k].found = reads[k].found /\ reads'[k].uncut = Uncut(k)
        BY <3>1, <4>1 DEF Read
      <4>3. QED
        BY <3>4, <4>2 DEF Restarted, Uncut
    <3>5. QED
      BY <3>2, <3>3, <3>4
  <2>4. reads' \in [Keys -> Read]
    BY <2>1, <2>3 DEF Invalidate
  <2>5. /\ own' \in [Keys -> [at : Nat, kind : Mutation] \cup {None}]
        /\ \A k \in Keys : own'[k] = own[k] \/ own'[k] = [at |-> r.at, kind |-> r.kind]
    BY <1>2, <2>1 DEF Inductive, TypeOK
  <2>6. TypeOK'
    BY <1>3, <2>1, <2>2, <2>4, <2>5 DEF Inductive, TypeOK
  <2>7. Committed'
    <3>1. ASSUME NEW k \in Keys, own'[k] # None
          PROVE  own'[k].at <= db.at
      BY <1>2, <1>6, <2>5, <3>1 DEF Inductive, Committed
    <3>2. ASSUME NEW k \in Keys, reads'[k].state = "back"
          PROVE  reads'[k].found # None
      BY <2>3, <3>2, StartedRead DEF Inductive, Committed
    <3>3. QED
      BY <1>1, <3>1, <3>2 DEF Inductive, TypeOK, Committed
  <2>8. ASSUME NEW k \in Keys
        PROVE  Renewed(k, own'[k], cache'[k], reads'[k], k \in Observes[page'])
    <3>1. Renewed(k, own[k], cache[k], reads[k], k \in Observes[page])
      BY DEF Inductive, AllRenewed
    <3>2. CASE k \in keys
      BY <1>1, <2>2, <2>3, <3>2, StartedRead DEF Renewed
    <3>3. CASE k \notin keys
      <4>1. CASE own'[k] = own[k]
        BY <1>1, <2>2, <2>3, <3>1, <3>3, <4>1 DEF Renewed
      <4>2. CASE own'[k] = [at |-> r.at, kind |-> r.kind]
        BY <3>3, <4>2 DEF Renewed, keys
      <4>3. QED
        BY <2>5, <4>1, <4>2
    <3>4. QED
      BY <3>2, <3>3
  <2>9. Drawn'
    <3>1. SUFFICES ASSUME modal # None, modal' = modal, modal.kind = "edit_submission"
                   PROVE  /\ page = "submission" /\ cache'["daily-submission"].data # None
                          /\ cache'["daily-submission"].data.changes # modal.seen
                                 => modal.refetched
      BY <1>1, <2>1 DEF Drawn
    <3>2. page = "submission" /\ "daily-submission" \in Keys
      BY <3>1, EntriesAssumption DEF Inductive, TypeOK, Drawn
    <3>3. QED
      BY <2>2, <3>1, <3>2 DEF Inductive, Drawn
  <2>10. Counted'
    BY <1>1, <2>2, <2>3, CountsStay DEF Inductive, TypeOK
  <2>11. QED
    BY <1>4, <2>6, <2>7, <2>8, <2>9, <2>10 DEF Inductive, AllRenewed
<1>7. QED
  BY <1>1, <1>5, <1>6 DEF MutationAnswered

\* Others change the day or the account.
LEMMA WrittenKeeps ==
    ASSUME Inductive, Written
    PROVE  Inductive'
<1>1. db.version \in Nat /\ db.changes \in Nat /\ db.at \in Nat
  BY DEF Data, Inductive, TypeOK
<1>2. PICK kind \in Mutation, loaded \in Nat :
         db' = Changed(kind, loaded) /\ loaded <= db.version
  BY <1>1 DEF Written, Mutation, Invalidates
<1>3. UNCHANGED <<page, cache, reads, modal, mutations, own, saves>>
  BY DEF Written
<1>4. db' \in Data /\ db'.at = db.at + 1
  BY <1>2, ChangedData DEF Inductive
<1>5. events' \in 0..MaxEvents
  BY ConsoleAssumption DEF Written, Event, Inductive, TypeOK
<1>6. TypeOK'
  BY <1>3, <1>4, <1>5 DEF Inductive, TypeOK
<1>7. Committed'
  <2>1. ASSUME NEW k \in Keys, own[k] # None
        PROVE  own[k].at <= db'.at
    BY <1>1, <1>4, <2>1 DEF Inductive, TypeOK, Committed
  <2>2. ASSUME NEW m \in Slots, mutations[m] # None, mutations[m].state = "ok"
        PROVE  mutations[m].at <= db'.at
    <3>1. mutations[m].at \in Nat
      BY <2>2 DEF Inductive, TypeOK, Request
    <3>2. QED
      BY <1>1, <1>4, <2>2, <3>1 DEF Inductive, Committed
  <2>3. QED
    BY <1>3, <2>1, <2>2 DEF Inductive, Committed
<1>8. AllRenewed' /\ Drawn'
  BY <1>3 DEF Inductive, AllRenewed, Drawn
<1>9. loaded <= db.changes + 1 /\ (Raced => loaded <= db.changes)
  BY <1>1, <1>2 DEF Inductive, Counted, Raced
<1>10. Counted' /\ Carried'
  BY <1>2, <1>3, <1>9, ChangeCounted
<1>11. QED
  BY <1>6, <1>7, <1>8, <1>10 DEF Inductive

-----------------------------------------------------------------------------
(* The invariant. *)

\* The console opens with an invariant that holds.
LEMMA InitInductive ==
    Init => Inductive
<1>1. SUFFICES ASSUME Init PROVE Inductive
  OBVIOUS
<1>2. /\ page \in Pages /\ cache = [k \in Keys |-> emptyEntry] /\ modal = None
      /\ reads = [k \in Keys |-> IF k \in Observes[page] THEN started ELSE idle]
      /\ mutations = [m \in Slots |-> None] /\ own = [k \in Keys |-> None]
      /\ saves = 0 /\ events = 0
  BY <1>1 DEF Init
<1>3. db \in Data
  BY <1>1 DEF Init, Data
<1>4. emptyEntry \in Entry
  BY DEF emptyEntry, Entry
<1>5. reads \in [Keys -> Read] /\ \A k \in Keys : reads[k].state # "back"
  BY <1>2, StartedRead
<1>6. saves \in 0..MaxSaves /\ events \in 0..MaxEvents
  BY <1>2, ConsoleAssumption
<1>7. TypeOK
  BY <1>2, <1>3, <1>4, <1>5, <1>6 DEF TypeOK
<1>8. Committed /\ AllRenewed /\ Drawn /\ Carried
  BY <1>2, <1>5 DEF Committed, AllRenewed, Renewed, Drawn, Carried
<1>9. Counted
  BY <1>1, <1>2, StartedRead DEF Init, Counted, Counts, Raced, emptyEntry
<1>10. QED
  BY <1>7, <1>8, <1>9 DEF Inductive

\* Every step keeps the invariant.
LEMMA StepInductive ==
    Inductive /\ [Next]_vars => Inductive'
<1>1. SUFFICES ASSUME Inductive, [Next]_vars PROVE Inductive'
  OBVIOUS
<1>2. CASE \E p \in Pages : Visit(p)
  BY <1>1, <1>2, VisitKeeps
<1>3. CASE Return
  BY <1>1, <1>3, ReturnKeeps
<1>4. CASE \E k \in Keys : ServeRead(k) \/ FailRead(k) \/ ReadAnswered(k)
  BY <1>1, <1>4, ServeReadKeeps, FailReadKeeps, ReadAnsweredKeeps
<1>5. CASE \/ \E kind \in Mutation : OpenSubmission(kind) \/ OpenPending(kind)
           \/ OpenWorkorder \/ OpenSuspend
  BY <1>1, <1>5, OpenButtonsKeep
<1>6. CASE Close
  BY <1>1, <1>6, CloseKeeps
<1>7. CASE \E m \in Slots : \/ Confirm(m) \/ AdmitMutation(m) \/ CommitMutation(m)
                            \/ FailMutation(m) \/ MutationAnswered(m)
  BY <1>1, <1>7, ConfirmKeeps, AdmitMutationKeeps, CommitMutationKeeps, FailMutationKeeps,
     MutationAnsweredKeeps
<1>8. CASE Written
  BY <1>1, <1>8, WrittenKeeps
<1>9. CASE UNCHANGED vars
  <2>1. TypeOK' /\ Committed'
    BY <1>1, <1>9 DEF vars, Inductive, TypeOK, Committed
  <2>2. AllRenewed' /\ Drawn' /\ Carried' /\ Counted'
    BY <1>1, <1>9, CountsStay DEF vars, Inductive, AllRenewed, Drawn, Carried, Raced
  <2>3. QED
    BY <2>1, <2>2 DEF Inductive
<1>10. QED
  BY <1>1, <1>2, <1>3, <1>4, <1>5, <1>6, <1>7, <1>8, <1>9 DEF Next

\* The invariant holds of every behaviour.
THEOREM InductiveHolds == Spec => []Inductive
BY InitInductive, StepInductive, PTL DEF Spec

-----------------------------------------------------------------------------
(* The properties. *)

\* Every variable of the console keeps its type, for any pages, keys and bounds.
THEOREM TypeOKHolds == Spec => []TypeOK
<1>1. Inductive => TypeOK
  BY DEF Inductive
<1>2. QED
  BY <1>1, InductiveHolds, PTL

\* A page at rest older than its own console's change shows a key that the change's
\* hook does not invalidate, or the answer of a fetch that was under way
\* (use-admin-mutations.ts): every other entry is stale and fetched again.
THEOREM OnlyUncutReadsHideOwnChangesHolds == Spec => []OnlyUncutReadsHideOwnChanges
<1>1. ASSUME Inductive, NEW k \in Observes[page],
             cache[k].data # None, ~cache[k].error, reads[k].state = "idle",
             own[k] # None, cache[k].data.at < own[k].at
      PROVE  k \notin Invalidates[own[k].kind] \/ cache[k].uncut
  <2>1. k \in Keys
    BY <1>1, ObservedKeys DEF Inductive, TypeOK
  <2>2. QED
    BY <1>1, <2>1 DEF Inductive, AllRenewed, Renewed
<1>2. Inductive => OnlyUncutReadsHideOwnChanges
  BY <1>1 DEF OnlyUncutReadsHideOwnChanges
<1>3. QED
  BY <1>2, InductiveHolds, PTL

\* An accepted edit overwrites a change its drawer was not filled from only when that
\* change was fetched under the open drawer, whose version the edit then carries
\* (daily-submission-detail-page.tsx), or when writes of the day have raced: the API
\* checks the version on a row it loads without a lock, and its UPDATE does not look
\* at it again (submission_service.py).
THEOREM OnlyRefetchedDrawersOverwriteHolds == Spec => OnlyRefetchedDrawersOverwrite
<1> DEFINE Overwrites(m) ==
        /\ mutations[m] # None /\ mutations[m].kind = "edit_submission"
        /\ mutations[m].state = "admitted" /\ mutations'[m] # None
        /\ mutations'[m].state = "ok" /\ mutations[m].seen # db.changes
<1>1. ASSUME Inductive, [Next]_vars
      PROVE  [\A m \in Slots : Overwrites(m) => mutations[m].refetched \/ Raced']_vars
  <2>1. SUFFICES ASSUME Next, NEW m \in Slots, Overwrites(m), ~Raced'
                 PROVE  mutations[m].refetched
    BY <1>1
  <2>2. mutations[m] \in Request /\ mutations[m].loaded \in Nat
    BY <1>1, <2>1 DEF Inductive, TypeOK, Request
  <2>3. CommitMutation(m)
    <3>1. CASE UNCHANGED mutations
      BY <2>1, <3>1
    <3>2. CASE \E p \in Pages : Visit(p)
      <4>1. mutations'[m] = [mutations[m] EXCEPT !.here = FALSE]
        BY <2>1, <3>2 DEF Visit
      <4>2. QED
        BY <2>1, <2>2, <4>1 DEF Request
    <3>3. ASSUME NEW h \in Slots, h # m,
                 \/ Confirm(h) \/ AdmitMutation(h) \/ CommitMutation(h) \/ FailMutation(h)
                 \/ MutationAnswered(h)
          PROVE  mutations'[m] = mutations[m]
      BY <1>1, <3>3 DEF Confirm, AdmitMutation, CommitMutation, FailMutation,
                        MutationAnswered, Inductive, TypeOK
    <3>4. ~Confirm(m) /\ ~AdmitMutation(m) /\ ~MutationAnswered(m)
      BY <2>1 DEF Confirm, AdmitMutation, MutationAnswered
    <3>5. ASSUME FailMutation(m)
          PROVE  FALSE
      BY <1>1, <2>1, <2>2, <3>5 DEF FailMutation, Inductive, TypeOK, Request
    <3>6. QED
      BY <2>1, <3>1, <3>2, <3>3, <3>4, <3>5
      DEF Next, Return, ServeRead, FailRead, ReadAnswered, OpenSubmission, OpenPending,
          OpenWorkorder, OpenSuspend, Opened, Close, Written
  <2>4. /\ db' = Changed("edit_submission", mutations[m].loaded)
        /\ mutations[m].loaded <= db.changes + 1
        /\ Raced => mutations[m].loaded <= db.changes
        /\ mutations[m].version = mutations[m].loaded
    BY <1>1, <2>1, <2>3 DEF CommitMutation, Inductive, Counted
  <2>5. ~Raced /\ mutations[m].loaded = db.changes + 1
    BY <1>1, <2>1, <2>2, <2>4, ChangesRace
    DEF Inductive, DaysChanges, Mutation, Invalidates
  <2>6. mutations[m].version # mutations[m].seen + 1
    BY <1>1, <2>1, <2>2, <2>4, <2>5 DEF Request, Inductive, TypeOK, Data
  <2>7. QED
    BY <1>1, <2>1, <2>5, <2>6 DEF Inductive, Carried
<1>2. QED
  BY <1>1, InductiveHolds, PTL DEF Spec, OnlyRefetchedDrawersOverwrite

=============================================================================

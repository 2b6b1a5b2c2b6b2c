---------------------------- MODULE AdminListsProofs ----------------------------
(***************************************************************************)
(* AdminLists for any pages, filters, links and bounds: Inductive holds    *)
(* initially and is kept by every step.  It tells how the filters, the URL *)
(* and the navigation under way stand to what the user has asked for, and  *)
(* what the rows under a key were requested with.                          *)
(***************************************************************************)
EXTENDS AdminLists, TLAPS

-----------------------------------------------------------------------------
(* The inductive invariant. *)

\* The filters of each page, and those its request carries.
Own(l) ==
    CASE l = "submissions" -> DailySubmissionsFilterState
      [] l = "workorders" -> WorkordersFilterState
      [] l = "users" -> UsersFilterState
      [] l = "no_submission_yet" -> {"work_date"}
      [] l = "dashboard" -> {"region"}
Carried(l) == IF l = "users" THEN {"role", "account_status"} ELSE Own(l)

\* The record of a filter state.
Record(fl) == fl \in [q : {fl.q}, page : {fl.page}, size : {fl.size}]

\* A filter state of page l: a select has one of its options.
FiltersOf(l, fl) ==
    /\ Record(fl)
    /\ fl.q = [f \in Own(l) \cap Fields |-> fl.q[f]]
    /\ \A f \in Own(l) \cap Fields :
          f \in DOMAIN Options => fl.q[f] \in Options[f] \cup {"ALL"}
    /\ fl.page # 0 /\ fl.size # 0

\* What a key and the request sent for it share.
Answers(k, request) ==
    /\ k.list = request.list /\ k.q = request.q
    /\ request.list # "no_submission_yet" => k.page = request.page /\ k.size = request.size

Typed ==
    /\ list \in Lists /\ FiltersOf(list, filters) /\ FiltersOf(list, asked)
    /\ late \in BOOLEAN /\ overtaken \in BOOLEAN

\* A page without a mirror has nothing under way.
Unmirrored == ~Mirrored(list) => nav = url /\ ~late

\* Unless edits and links have overtaken one another, the URL to come says what the
\* user has asked for; so do the filters, but while a link is under way or its URL has
\* not yet had its effect.
Told ==
    Mirrored(list) /\ ~overtaken =>
        /\ late => nav = url
        /\ Same(parse(list, nav), asked)
        /\ ~late /\ (nav = url \/ nav = build(list, filters)) => Same(filters, asked)

\* Rows lie under a key they were requested for.
Rows ==
    /\ \A r \in reads : Answers(r.key, r.request)
    /\ \A k \in DOMAIN cache : Answers(k, cache[k])

Inductive == Typed /\ Unmirrored /\ Told /\ Rows

-----------------------------------------------------------------------------
(* The filters and their search parameters. *)

\* The pages followed.
LEMMA ListsAre ==
    ASSUME NEW l \in Lists
    PROVE  l \in {"dashboard", "submissions", "workorders", "users", "no_submission_yet"}
BY ListsAssumption

\* Every page parses its own filters; two read no URL.
LEMMA ParseIs ==
    ASSUME NEW l \in Lists, NEW params
    PROVE  parse(l, params) = Parsed(Own(l), IF Mirrored(l) THEN params ELSE noParams)
BY ListsAre DEF parse, Own, Mirrored, parseDailySubmissionsFilters, parseWorkordersFilters,
      parseUsersFilters

\* A mirrored page builds its parameters from its own filters.
LEMMA BuildIs ==
    ASSUME NEW l \in Lists, Mirrored(l), NEW fl
    PROVE  build(l, fl) = Built(Own(l), fl)
BY ListsAre DEF build, Own, Mirrored, buildDailySubmissionsSearchParams,
      buildWorkordersSearchParams, buildUsersSearchParams

\* A page's request carries its filters but the users' search.
LEMMA RequestIs ==
    ASSUME NEW l \in Lists, NEW fl
    PROVE  Request(l, fl) = Sent(l, Carried(l), fl)
BY ListsAre DEF Request, Carried, Own, useAdminSubmissions, useAdminWorkorders, useAdminUsers,
      useNoSubmissionYet, useRecent

\* What is parsed is a filter state, whatever the parameters are.
LEMMA ParsedIsTyped ==
    ASSUME NEW l \in Lists, NEW params
    PROVE  FiltersOf(l, parse(l, params))
<1> DEFINE read == IF Mirrored(l) THEN params ELSE noParams
           fl == Parsed(Own(l), read)
<1>1. parse(l, params) = fl
  BY ParseIs
<1>2. \A f \in Own(l) \cap Fields : f \in DOMAIN Options => fl.q[f] \in Options[f] \cup {"ALL"}
  BY DEF Parsed, parseEnumValue, Default
<1>3. fl.page # 0 /\ fl.size # 0
  BY DEF Parsed, parsePositiveInt
<1>4. Record(fl) /\ fl.q = [f \in Own(l) \cap Fields |-> fl.q[f]]
  BY DEF Parsed, Record
<1>5. QED
  BY <1>1, <1>2, <1>3, <1>4 DEF FiltersOf

\* trim leaves nothing to trim.
LEMMA TrimTwice == \A v : trim(trim(v)) = trim(v)
BY DEF trim

\* No option, nor ALL, has anything to trim.
LEMMA TrimOption ==
    ASSUME NEW f \in DOMAIN Options, NEW v \in Options[f] \cup {"ALL"}
    PROVE  trim(v) = v
<1>1. f \in {"region", "shift", "submission_status", "file_submission_pending", "status",
             "role", "account_status"}
  BY DEF Options
<1>2. v \in {"NE_UP", "CENTRAL", "SOUTH_FLORIDA", "AM", "PM", "IN_PROGRESS", "CHECKED_OUT",
             "COMPLETED", "true", "false", "ACTIVE", "ADMIN", "DRIVE_TESTER",
             "PENDING_APPROVAL", "APPROVED", "REJECTED", "SUSPENDED", "ALL"}
  <2>1. CASE f = "region"
    BY <2>1 DEF Options
  <2>2. CASE f = "shift"
    BY <2>2 DEF Options
  <2>3. CASE f = "submission_status"
    BY <2>3 DEF Options
  <2>4. CASE f = "file_submission_pending"
    BY <2>4 DEF Options
  <2>5. CASE f = "status"
    BY <2>5 DEF Options
  <2>6. CASE f = "role"
    BY <2>6 DEF Options
  <2>7. CASE f = "account_status"
    BY <2>7 DEF Options
  <2>8. QED
    BY <1>1, <2>1, <2>2, <2>3, <2>4, <2>5, <2>6, <2>7
<1>3. QED
  BY <1>2 DEF trim

\* Sameness is an equivalence of filter states of one page.
LEMMA SameAgain ==
    ASSUME NEW l, NEW a, NEW b, NEW c, FiltersOf(l, a), FiltersOf(l, b), FiltersOf(l, c)
    PROVE  /\ Same(a, a)
           /\ Same(a, b) => Same(b, a)
           /\ Same(a, b) /\ Same(b, c) => Same(a, c)
<1>1. /\ DOMAIN a.q = Own(l) \cap Fields /\ DOMAIN b.q = Own(l) \cap Fields
      /\ DOMAIN c.q = Own(l) \cap Fields
  BY DEF FiltersOf
<1>2. QED
  BY <1>1 DEF Same

\* The search parameters of a filter state say the same filters.
LEMMA RoundTrip ==
    ASSUME NEW l \in Lists, Mirrored(l), NEW fl, FiltersOf(l, fl)
    PROVE  Same(parse(l, build(l, fl)), fl)
<1> DEFINE params == Built(Own(l), fl)
           back == Parsed(Own(l), params)
           set == {f \in Own(l) \cap Fields : trim(fl.q[f]) # Default(f)}
<1>1. parse(l, build(l, fl)) = back
  BY ParseIs, BuildIs
<1>2. /\ params.q = [f \in set |-> trim(fl.q[f])]
      /\ params.page = IF fl.page = 1 THEN 0 ELSE fl.page
      /\ params.size = IF fl.size = 20 THEN 0 ELSE fl.size
  BY DEF Built
<1>3. back.page = fl.page /\ back.size = fl.size
  BY <1>2 DEF Parsed, parsePositiveInt, FiltersOf
<1>4. ASSUME NEW f \in Own(l) \cap Fields
      PROVE  trim(back.q[f]) = trim(fl.q[f])
  <2>1. back.q[f] = IF f \in set THEN parseEnumValue(f, trim(fl.q[f])) ELSE Default(f)
    BY <1>2 DEF Parsed
  <2>2. CASE f \notin set
    <3>1. trim(fl.q[f]) = Default(f)
      BY <1>4, <2>2
    <3>2. QED
      BY <2>1, <2>2, <3>1, TrimTwice
  <2>3. CASE f \in set /\ f \in DOMAIN Options
    <3>1. fl.q[f] \in Options[f] \cup {"ALL"} /\ trim(fl.q[f]) = fl.q[f]
      BY <1>4, <2>3, TrimOption DEF FiltersOf
    <3>2. fl.q[f] # "ALL"
      BY <2>3, <3>1 DEF Default
    <3>3. QED
      BY <2>1, <2>3, <3>1, <3>2 DEF parseEnumValue
  <2>4. CASE f \in set /\ f \notin DOMAIN Options
    BY <2>1, <2>4, TrimTwice DEF parseEnumValue
  <2>5. QED
    BY <2>2, <2>3, <2>4
<1>5. DOMAIN back.q = Own(l) \cap Fields
  BY DEF Parsed
<1>6. QED
  BY <1>1, <1>3, <1>4, <1>5 DEF Same

-----------------------------------------------------------------------------
(* The rows. *)

\* The key of a page's filters is theirs but for the pages of noSubmissionYet.
LEMMA KeyTells ==
    ASSUME NEW l \in Lists, NEW fl
    PROVE  /\ Key(l, fl).list = l
           /\ Key(l, fl).q = [f \in {g \in Carried(l) \cap Fields : fl.q[g] # Default(g)} |->
                                 fl.q[f]]
           /\ l # "no_submission_yet" => Key(l, fl).page = fl.page /\ Key(l, fl).size = fl.size
           /\ Answers(Key(l, fl), Request(l, fl))
<1> DEFINE sent == {f \in Carried(l) \cap Fields : fl.q[f] # Default(f)}
           r == [list |-> l, q |-> [f \in sent |-> fl.q[f]], page |-> fl.page, size |-> fl.size]
<1>1. Request(l, fl) = r
  BY RequestIs DEF Sent
<1>2. Key(l, fl) = IF l = "no_submission_yet" THEN [r EXCEPT !.page = 0, !.size = 0] ELSE r
  BY <1>1 DEF Key
<1>3. QED
  BY <1>1, <1>2 DEF Answers

\* A fetch for the key of some filters carries their request.
LEMMA FetchKeepsRows ==
    ASSUME Rows, NEW l \in Lists, NEW fl, UNCHANGED cache,
           \/ reads' = reads
           \/ reads' = reads \cup {[key |-> Key(l, fl), request |-> Request(l, fl)]}
    PROVE  Rows'
<1> DEFINE key == Key(l, fl)
           request == Request(l, fl)
<1>1. Answers(key, request)
  BY KeyTells
<1> HIDE DEF key, request
<1>2. /\ [key |-> key, request |-> request].key = key
      /\ [key |-> key, request |-> request].request = request
  OBVIOUS
<1>3. ASSUME NEW r \in reads'
      PROVE  Answers(r.key, r.request)
  <2>1. r \in reads \/ r = [key |-> key, request |-> request]
    BY DEF key, request
  <2>2. QED
    BY <1>1, <1>2, <2>1 DEF Rows
<1>4. QED
  BY <1>3 DEF Rows

\* A render fetches for the key of its filters.
LEMMA ShowKeepsRows ==
    ASSUME Rows, NEW l \in Lists, NEW fl, Show(l, fl), UNCHANGED cache
    PROVE  Rows'
<1>1. reads' = reads \/ reads' = reads \cup {[key |-> Key(l, fl), request |-> Request(l, fl)]}
  BY DEF Show, Fetched
<1>2. QED
  BY <1>1, FetchKeepsRows

-----------------------------------------------------------------------------
(* The steps. *)

\* An edit that does to what was asked for what it does to the filters.
LEMMA EditKeeps ==
    ASSUME Inductive, NEW fl, NEW intended, syncFilters(fl, intended),
           FiltersOf(list, fl), FiltersOf(list, intended),
           Same(filters, asked) => Same(fl, intended)
    PROVE  Inductive'
<1>1. /\ list' = list /\ filters' = fl /\ asked' = intended
      /\ nav' = IF Mirrored(list) THEN build(list, fl) ELSE nav
      /\ overtaken' = (overtaken \/ late \/ (nav # url /\ nav # build(list, filters)))
      /\ UNCHANGED <<url, late, cache>> /\ Show(list, fl) /\ list \in Lists
  BY DEF syncFilters, Show, Inductive, Typed
<1>2. Typed'
  BY <1>1 DEF Inductive, Typed
<1>3. Unmirrored'
  BY <1>1 DEF Inductive, Unmirrored
<1>4. Told'
  <2>1. SUFFICES ASSUME Mirrored(list), ~overtaken' PROVE Told'
    BY <1>1 DEF Told
  <2>2. Same(fl, intended) /\ ~late /\ nav' = build(list, fl)
    BY <1>1, <2>1 DEF Inductive, Told
  <2>3. Same(parse(list, build(list, fl)), fl) /\ FiltersOf(list, parse(list, build(list, fl)))
    BY <1>1, <2>1, RoundTrip, ParsedIsTyped
  <2>4. Same(parse(list, build(list, fl)), intended)
    BY <2>2, <2>3, SameAgain
  <2>5. QED
    BY <1>1, <2>2, <2>4 DEF Told
<1>5. Rows'
  BY <1>1, ShowKeepsRows DEF Inductive
<1>6. QED
  BY <1>2, <1>3, <1>4, <1>5 DEF Inductive

\* The edits of the toolbar.
LEMMA ToolbarKeeps ==
    ASSUME Inductive,
           \/ \E f \in Own(list) \cap Fields : \E v \in Values(f) : updateFilter(f, v)
           \/ ResetFilters
           \/ \E p \in 1..LastPage : updatePage(p)
           \/ \E n \in {5, 20} : updatePageSize(n)
    PROVE  Inductive'
<1>1. /\ list \in Lists /\ FiltersOf(list, filters) /\ FiltersOf(list, asked)
      /\ LastPage \in Nat \ {0}
  BY ListsAssumption DEF Inductive, Typed
<1>2. ASSUME NEW f \in Own(list) \cap Fields, NEW v \in Values(f), updateFilter(f, v)
      PROVE  Inductive'
  <2> DEFINE Set(fl) == [fl EXCEPT !.q[f] = v, !.page = 1]
  <2>1. ASSUME NEW fl, FiltersOf(list, fl)
        PROVE  /\ FiltersOf(list, Set(fl)) /\ Set(fl).q = [fl.q EXCEPT ![f] = v]
               /\ Set(fl).page = 1 /\ Set(fl).size = fl.size
    <3>1. /\ Record(Set(fl)) /\ Set(fl).q = [fl.q EXCEPT ![f] = v]
          /\ Set(fl).page = 1 /\ Set(fl).size = fl.size
      <4>1. Record(fl)
        BY <2>1 DEF FiltersOf
      <4>2. QED
        BY <4>1 DEF Record
    <3>2. f \in DOMAIN Options => v \in Options[f] \cup {"ALL"}
      BY <1>2 DEF Values
    <3> DEFINE own == Own(list) \cap Fields
               new == Set(fl)
    <3>3. [fl.q EXCEPT ![f] = v] = [g \in own |-> IF g = f THEN v ELSE fl.q[g]]
      BY <2>1 DEF FiltersOf
    <3>4. /\ new.q = [g \in own |-> IF g = f THEN v ELSE fl.q[g]]
          /\ new.page = 1 /\ new.size = fl.size /\ Record(new)
      BY <3>1, <3>3
    <3>5. fl.size # 0 /\ \A g \in own : g \in DOMAIN Options => fl.q[g] \in Options[g] \cup {"ALL"}
      BY <2>1 DEF FiltersOf
    <3>6. new.q = [fl.q EXCEPT ![f] = v]
      BY <3>1
    <3> HIDE DEF new, own, Set
    <3>7. /\ new.q = [g \in own |-> new.q[g]]
          /\ \A g \in own : g \in DOMAIN Options => new.q[g] \in Options[g] \cup {"ALL"}
      BY <3>2, <3>4, <3>5
    <3>8. FiltersOf(list, new)
      BY <3>4, <3>5, <3>7 DEF FiltersOf, own
    <3>9. QED
      BY <3>4, <3>6, <3>8 DEF new
  <2>2. syncFilters(Set(filters), Set(asked))
    BY <1>2 DEF updateFilter
  <2>3. Same(filters, asked) => Same(Set(filters), Set(asked))
    <3>1. ASSUME Same(filters, asked), NEW g \in Own(list) \cap Fields
          PROVE  trim([filters.q EXCEPT ![f] = v][g]) = trim([asked.q EXCEPT ![f] = v][g])
      BY <1>1, <3>1 DEF FiltersOf, Same
    <3>2. DOMAIN Set(filters).q = Own(list) \cap Fields
      BY <1>1, <2>1 DEF FiltersOf
    <3> HIDE DEF Set
    <3>3. QED
      BY <1>1, <2>1, <3>1, <3>2 DEF Same
  <2> HIDE DEF Set
  <2>4. QED
    BY <1>1, <2>1, <2>2, <2>3, EditKeeps
<1>3. CASE ResetFilters
  <2>1. syncFilters(parse(list, noParams), parse(list, noParams))
    BY <1>3 DEF ResetFilters
  <2>2. FiltersOf(list, parse(list, noParams))
    BY <1>1, ParsedIsTyped
  <2>3. QED
    BY <2>1, <2>2, SameAgain, EditKeeps
<1>4. ASSUME NEW p, NEW n, p # 0, n # 0,
             \/ syncFilters([filters EXCEPT !.page = p], [asked EXCEPT !.page = p])
             \/ syncFilters([filters EXCEPT !.page = p, !.size = n],
                            [asked EXCEPT !.page = p, !.size = n])
      PROVE  Inductive'
  <2> DEFINE OnPage(fl) == [fl EXCEPT !.page = p]
             Sized(fl) == [fl EXCEPT !.page = p, !.size = n]
  <2>1. ASSUME NEW fl, FiltersOf(list, fl)
        PROVE  /\ FiltersOf(list, OnPage(fl)) /\ OnPage(fl).q = fl.q
               /\ OnPage(fl).page = p /\ OnPage(fl).size = fl.size
               /\ FiltersOf(list, Sized(fl)) /\ Sized(fl).q = fl.q
               /\ Sized(fl).page = p /\ Sized(fl).size = n
    <3>1. /\ Record(OnPage(fl)) /\ OnPage(fl).q = fl.q
          /\ OnPage(fl).page = p /\ OnPage(fl).size = fl.size
      <4>1. Record(fl)
        BY <2>1 DEF FiltersOf
      <4>2. QED
        BY <4>1 DEF Record
    <3>2. /\ Record(Sized(fl)) /\ Sized(fl).q = fl.q
          /\ Sized(fl).page = p /\ Sized(fl).size = n
      <4>1. Record(fl)
        BY <2>1 DEF FiltersOf
      <4>2. QED
        BY <4>1 DEF Record
    <3> HIDE DEF OnPage, Sized
    <3>3. QED
      BY <1>4, <2>1, <3>1, <3>2 DEF FiltersOf
  <2>2. \/ syncFilters(OnPage(filters), OnPage(asked))
        \/ syncFilters(Sized(filters), Sized(asked))
    BY <1>4
  <2> HIDE DEF OnPage, Sized
  <2>3. Same(filters, asked) => /\ Same(OnPage(filters), OnPage(asked))
                                /\ Same(Sized(filters), Sized(asked))
    BY <1>1, <2>1 DEF Same
  <2>4. QED
    BY <1>1, <2>1, <2>2, <2>3, EditKeeps
<1>5. ASSUME NEW p \in 1..LastPage, updatePage(p)
      PROVE  Inductive'
  <2>1. p # 0 /\ 1 # 0
    BY <1>1
  <2>2. QED
    BY <1>4, <1>5, <2>1 DEF updatePage
<1>6. ASSUME NEW n \in {5, 20}, updatePageSize(n)
      PROVE  Inductive'
  <2>1. n # 0 /\ 1 # 0
    BY <1>6
  <2>2. QED
    BY <1>4, <1>6, <2>1 DEF updatePageSize
<1>7. QED
  BY <1>2, <1>3, <1>5, <1>6

\* A link: to another page, mounted with the filters of its URL, or to another URL of
\* this one.
LEMMA GoKeeps ==
    ASSUME Inductive, NEW l \in Lists, NEW params, Go(l, params)
    PROVE  Inductive'
<1>1. /\ nav' = params /\ asked' = parse(l, params) /\ FiltersOf(l, parse(l, params))
      /\ UNCHANGED cache
  BY ParsedIsTyped DEF Go
<1>2. CASE l = list
  <2>1. /\ Mirrored(list) /\ UNCHANGED <<list, filters, url, late, reads>>
        /\ overtaken' = (overtaken \/ late \/ (nav # url /\ params = url))
    BY <1>2 DEF Go
  <2>2. Typed'
    BY <1>1, <1>2, <2>1 DEF Inductive, Typed
  <2>3. Told'
    <3>1. SUFFICES ASSUME ~overtaken' PROVE Told'
      BY DEF Told
    <3>2. ~overtaken /\ ~late /\ (params = url => nav = url)
      BY <2>1, <3>1 DEF Inductive, Typed
    <3>3. Same(parse(list, params), parse(list, params))
      BY <1>1, <1>2, SameAgain
    <3>4. ASSUME params = url
          PROVE  Same(filters, parse(list, params))
      <4>1. Same(filters, asked) /\ Same(parse(list, params), asked)
        BY <2>1, <3>2, <3>4 DEF Inductive, Told
      <4>2. QED
        BY <1>1, <1>2, <4>1, SameAgain DEF Inductive, Typed
    <3>5. ASSUME params = build(list, filters)
          PROVE  Same(filters, parse(list, params))
      BY <1>1, <1>2, <2>1, <3>5, RoundTrip, SameAgain DEF Inductive, Typed
    <3>6. QED
      BY <1>1, <1>2, <2>1, <3>2, <3>3, <3>4, <3>5 DEF Told
  <2>4. Unmirrored' /\ Rows'
    BY <1>1, <2>1 DEF Inductive, Unmirrored, Rows
  <2>5. QED
    BY <2>2, <2>3, <2>4 DEF Inductive
<1>3. CASE l # list
  <2>1. /\ Show(l, parse(l, params)) /\ url' = params /\ late' = FALSE /\ overtaken' = FALSE
        /\ list' = l /\ filters' = parse(l, params)
    BY <1>3 DEF Go, Show
  <2>2. Same(parse(l, params), parse(l, params))
    BY <1>1, SameAgain
  <2>3. Typed' /\ Unmirrored' /\ Told'
    BY <1>1, <2>1, <2>2 DEF Typed, Unmirrored, Told
  <2>4. Rows'
    BY <1>1, <2>1, ShowKeepsRows DEF Inductive
  <2>5. QED
    BY <2>3, <2>4 DEF Inductive
<1>4. QED
  BY <1>2, <1>3

\* The pages' edits and links.
LEMMA PagesKeep ==
    ASSUME Inductive,
           \/ DashboardPage \/ DailySubmissionsPage \/ WorkordersPage \/ UsersPage
           \/ NoSubmissionYetPage \/ Sidebar \/ handleSearch
    PROVE  Inductive'
<1>1. CASE DailySubmissionsPage \/ WorkordersPage \/ UsersPage
  <2>1. Toolbar(Own(list))
    BY <1>1 DEF DailySubmissionsPage, WorkordersPage, UsersPage, Own
  <2>2. QED
    BY <2>1, ToolbarKeeps DEF Toolbar
<1>2. CASE NoSubmissionYetPage
  <2>1. Own(list) = {"work_date"}
    BY <1>2 DEF NoSubmissionYetPage, Own
  <2>2. QED
    BY <1>2, <2>1, ToolbarKeeps DEF NoSubmissionYetPage
<1>3. CASE DashboardPage
  <2>1. Own(list) = {"region"}
    BY <1>3 DEF DashboardPage, Own
  <2>2. \/ \E f \in {"region"} \cap Fields : \E v \in Values(f) : updateFilter(f, v)
        \/ \E l \in Lists : \E params : Go(l, params)
    BY <1>3 DEF DashboardPage
  <2>3. QED
    BY <2>1, <2>2, ToolbarKeeps, GoKeeps
<1>4. CASE Sidebar
  BY <1>4, GoKeeps DEF Sidebar
<1>5. CASE handleSearch
  BY <1>5, GoKeeps DEF handleSearch
<1>6. QED
  BY <1>1, <1>2, <1>3, <1>4, <1>5

\* The URL changes, and then has its effect.
LEMMA UrlKeeps ==
    ASSUME Inductive, Committed \/ Synced
    PROVE  Inductive'
<1>1. CASE Committed
  <2>1. /\ nav # url /\ url' = nav /\ late' = TRUE
        /\ UNCHANGED <<list, filters, nav, cache, reads, asked, overtaken>>
    BY <1>1 DEF Committed
  <2>2. Mirrored(list)
    BY <2>1 DEF Inductive, Unmirrored
  <2>3. Typed' /\ Unmirrored' /\ Told' /\ Rows'
    BY <2>1, <2>2 DEF Inductive, Typed, Unmirrored, Told, Rows
  <2>4. QED
    BY <2>3 DEF Inductive
<1>2. CASE Synced
  <2>1. /\ late /\ late' = FALSE /\ Show(list, parse(list, url))
        /\ list' = list /\ filters' = parse(list, url)
        /\ UNCHANGED <<url, nav, cache, asked, overtaken>>
    BY <1>2 DEF Synced, Show
  <2>2. list \in Lists /\ FiltersOf(list, parse(list, url)) /\ Mirrored(list)
    BY <2>1, ParsedIsTyped DEF Inductive, Typed, Unmirrored
  <2>3. Typed' /\ Unmirrored' /\ Told'
    BY <2>1, <2>2 DEF Inductive, Typed, Unmirrored, Told
  <2>4. Rows'
    BY <2>1, <2>2, ShowKeepsRows DEF Inductive
  <2>5. QED
    BY <2>3, <2>4 DEF Inductive
<1>3. QED
  BY <1>1, <1>2

\* The answers are stored under the key they were sent for, and so are those of the
\* fetches of a window that is returned to.
LEMMA RowsKeep ==
    ASSUME Inductive, (\E r \in reads : Answered(r)) \/ Return
    PROVE  Inductive'
<1>1. UNCHANGED <<list, filters, url, nav, late, asked, overtaken>>
  BY DEF Answered, Return
<1>2. Typed' /\ Unmirrored' /\ Told'
  BY <1>1 DEF Inductive, Typed, Unmirrored, Told
<1>3. ASSUME NEW r \in reads, Answered(r)
      PROVE  Rows'
  <2>1. /\ reads' \subseteq reads /\ Answers(r.key, r.request)
        /\ cache' = [k \in DOMAIN cache \cup {r.key} |->
                        IF k = r.key THEN r.request ELSE cache[k]]
    BY <1>3 DEF Answered, Inductive, Rows
  <2>2. \A k \in DOMAIN cache' : Answers(k, cache'[k])
    BY <2>1 DEF Inductive, Rows
  <2>3. QED
    BY <2>1, <2>2 DEF Inductive, Rows
<1>4. CASE Return
  <2>1. /\ cache' = cache
        /\ reads' = reads \cup {[key |-> Key(list, filters), request |-> Request(list, filters)]}
    BY <1>4 DEF Return
  <2>2. Rows /\ list \in Lists
    BY DEF Inductive, Typed
  <2>3. Rows'
    BY <2>1, <2>2, FetchKeepsRows
  <2>4. QED
    BY <1>2, <2>3 DEF Inductive
<1>5. QED
  BY <1>2, <1>3, <1>4 DEF Inductive

-----------------------------------------------------------------------------
(* The theorems. *)

\* A page is opened with the filters of its URL.
LEMMA InitInductive == Init => Inductive
<1>1. SUFFICES ASSUME Init PROVE Inductive
  OBVIOUS
<1>2. /\ list \in Lists /\ filters = parse(list, url) /\ asked = filters
      /\ FiltersOf(list, filters)
  BY <1>1, ParsedIsTyped DEF Init
<1>3. Same(filters, asked)
  BY <1>2, SameAgain
<1>4. Typed /\ Unmirrored /\ Told
  BY <1>1, <1>2, <1>3 DEF Init, Typed, Unmirrored, Told
<1>5. Rows
  <2> DEFINE key == Key(list, filters)
             request == Request(list, filters)
  <2>1. Answers(key, request)
    BY <1>2, KeyTells
  <2>2. reads = {[key |-> key, request |-> request]} /\ DOMAIN cache = {}
    BY <1>1 DEF Init
  <2> HIDE DEF key, request
  <2>3. QED
    BY <2>1, <2>2 DEF Rows
<1>6. QED
  BY <1>4, <1>5 DEF Inductive

\* Every step keeps it.
LEMMA StepInductive == Inductive /\ [Next]_vars => Inductive'
<1>1. CASE UNCHANGED vars
  BY <1>1 DEF vars, Inductive, Typed, Unmirrored, Told, Rows
<1>2. QED
  BY <1>1, PagesKeep, UrlKeeps, RowsKeep DEF Next

\* The invariant holds of every behaviour.
THEOREM InductiveHolds == Spec => []Inductive
BY InitInductive, StepInductive, PTL DEF Spec

\* Once the URL has settled the filters on screen, and the ones the URL says, are what
\* the user has asked for, unless edits and links have overtaken one another
\* (daily-submissions-page.tsx: syncFilters and the effect on parsedFilters).
THEOREM OnlyOvertakenEditsAreLostHolds == Spec => []OnlyOvertakenEditsAreLost
<1>1. Inductive => OnlyOvertakenEditsAreLost
  BY DEF Inductive, Told, OnlyOvertakenEditsAreLost
<1>2. QED
  BY <1>1, InductiveHolds, PTL

\* The rows on screen were requested with the filters on screen, but for the pages of
\* noSubmissionYet, whose key lacks the page (use-no-submission-yet.ts).
THEOREM OnlyNoSubmissionPagesMisanswerHolds == Spec => []OnlyNoSubmissionPagesMisanswer
<1>1. ASSUME Inductive, Key(list, filters) \in DOMAIN cache
      PROVE  LET sent == cache[Key(list, filters)]
             IN  /\ sent.list = list
                 /\ \A f \in DOMAIN filters.q \ {"query"} :
                       IF f \in DOMAIN sent.q THEN sent.q[f] = filters.q[f]
                       ELSE filters.q[f] = Default(f)
                 /\ \/ list = "no_submission_yet"
                    \/ sent.page = filters.page /\ sent.size = filters.size
  <2> DEFINE sent == cache[Key(list, filters)]
             set == {f \in Carried(list) \cap Fields : filters.q[f] # Default(f)}
  <2>1. list \in Lists /\ Answers(Key(list, filters), sent)
    BY <1>1 DEF Inductive, Typed, Rows
  <2>2. Key(list, filters).q = [f \in set |-> filters.q[f]]
    BY <2>1, KeyTells
  <2>3. sent.list = list /\ sent.q = [f \in set |-> filters.q[f]]
    BY <2>1, <2>2, KeyTells DEF Answers
  <2>4. \/ list = "no_submission_yet"
        \/ sent.page = filters.page /\ sent.size = filters.size
    BY <2>1, <2>3, KeyTells DEF Answers
  <2>5. DOMAIN filters.q \ {"query"} \subseteq Carried(list) \cap Fields
    <3>1. DOMAIN filters.q = Own(list) \cap Fields
      BY <1>1 DEF Inductive, Typed, FiltersOf
    <3>2. Own(list) \ {"query"} \subseteq Carried(list)
      BY DEF Own, Carried, UsersFilterState
    <3>3. QED
      BY <3>1, <3>2
  <2> HIDE DEF sent
  <2>6. \A f \in DOMAIN filters.q \ {"query"} :
            IF f \in DOMAIN sent.q THEN sent.q[f] = filters.q[f]
            ELSE filters.q[f] = Default(f)
    BY <2>3, <2>5
  <2>7. QED
    BY <2>3, <2>4, <2>6 DEF sent
<1>2. Inductive => OnlyNoSubmissionPagesMisanswer
  BY <1>1 DEF OnlyNoSubmissionPagesMisanswer
<1>3. QED
  BY <1>2, InductiveHolds, PTL
=============================================================================

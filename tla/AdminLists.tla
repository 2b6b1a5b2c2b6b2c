------------------------------- MODULE AdminLists -------------------------------
(***************************************************************************)
(* The list pages of the admin web: their filters, the search parameters   *)
(* that mirror them, and the rows.  A filter edit sets the state at once   *)
(* and asks the router for the new URL; the URL changes later, and an      *)
(* effect then sets the filters again from it.  The rows are those cached  *)
(* under the key the page derives from its filters.                        *)
(***************************************************************************)
EXTENDS Naturals, TLC

CONSTANTS
    Lists,        \* the pages followed: those with a list, and the dashboard
    Fields,       \* the filters followed
    Shared,       \* the search parameters of the links a page is first opened with
    LastPage,     \* the API's total_pages
    MaxEdits,     \* bound on the edits, links and searches
    MaxReturns    \* bound on the returns to the window after the staleTime

VARIABLES
    list,         \* the page on screen
    filters,      \* its filter state
    url,          \* the search parameters of the current URL
    nav,          \* those of the navigation under way
    late,         \* the URL has changed and the effect on it has not run
    cache,        \* React Query: the request behind the rows of each key
    reads,        \* the requests under way
    asked,        \* history: the filters as the user has set them
    overtaken,    \* history: edits and links have overtaken one another
    edits, returns

vars == <<list, filters, url, nav, late, cache, reads, asked, overtaken, edits, returns>>

-----------------------------------------------------------------------------
(* Filters and search parameters *)

\* Each page's filters, under their parameters' names.
DailySubmissionsFilterState == {"work_date", "region", "shift", "submission_status",
                                "file_submission_pending", "workorder_code", "tester"}
WorkordersFilterState == {"workorder_code", "region", "status", "date_from", "date_to"}
UsersFilterState == {"role", "account_status", "query"}

\* The selects; "ALL" is no filter.  The others are texts and dates.
Options == [region |-> {"NE_UP", "CENTRAL", "SOUTH_FLORIDA"},
            shift |-> {"AM", "PM"},
            submission_status |-> {"IN_PROGRESS", "CHECKED_OUT", "COMPLETED"},
            file_submission_pending |-> {"true", "false"},
            status |-> {"ACTIVE", "COMPLETED"},
            role |-> {"ADMIN", "DRIVE_TESTER"},
            account_status |-> {"PENDING_APPROVAL", "APPROVED", "REJECTED", "SUSPENDED"}]
Searches == {"workorder_code", "tester", "query"}

Default(f) == IF f \in DOMAIN Options THEN "ALL" ELSE ""

\* What a filter can be set to: a date, a text with and without a space around it.
Values(f) == IF f \in DOMAIN Options THEN Options[f] \cup {"ALL"}
             ELSE IF f \in Searches THEN {"", " ", "x", "x "} ELSE {"", "d1"}

trim(v) == CASE v = " " -> "" [] v = "x " -> "x" [] OTHER -> v

\* Filter states and search parameters are records of q, page and size; a page or size
\* of 0 is absent or not a positive integer.
Params(q) == [q |-> q, page |-> 0, size |-> 0]
noParams == Params([f \in {} |-> ""])
Param(f, v) == Params([g \in {f} \cap Fields |-> v])

parsePositiveInt(n, fallback) == IF n = 0 THEN fallback ELSE n

parseEnumValue(f, v) == IF f \in DOMAIN Options /\ v \notin Options[f] THEN "ALL" ELSE v

Parsed(fields, params) ==
    [q    |-> [f \in fields \cap Fields |-> IF f \in DOMAIN params.q
                                             THEN parseEnumValue(f, params.q[f])
                                             ELSE Default(f)],
     page |-> parsePositiveInt(params.page, 1),
     size |-> parsePositiveInt(params.size, 20)]

parseDailySubmissionsFilters(params) == Parsed(DailySubmissionsFilterState, params)
parseWorkordersFilters(params) == Parsed(WorkordersFilterState, params)
parseUsersFilters(params) == Parsed(UsersFilterState, params)

\* The filters a page starts with; the dashboard and noSubmissionYet read no URL.
parse(l, params) ==
    CASE l = "submissions" -> parseDailySubmissionsFilters(params)
      [] l = "workorders" -> parseWorkordersFilters(params)
      [] l = "users" -> parseUsersFilters(params)
      [] l = "no_submission_yet" -> Parsed({"work_date"}, noParams)
      [] l = "dashboard" -> Parsed({"region"}, noParams)

\* The search parameters that mirror a filter state: what differs from the defaults.
Built(fields, fl) ==
    LET set == {f \in fields \cap Fields : trim(fl.q[f]) # Default(f)}
    IN  [q    |-> [f \in set |-> trim(fl.q[f])],
         page |-> IF fl.page = 1 THEN 0 ELSE fl.page,
         size |-> IF fl.size = 20 THEN 0 ELSE fl.size]

\* A mutant of buildDailySubmissionsSearchParams: the region is not mirrored.
buildWithoutRegion(fl) == Built(DailySubmissionsFilterState \ {"region"}, fl)

buildDailySubmissionsSearchParams(fl) == Built(DailySubmissionsFilterState, fl)
buildWorkordersSearchParams(fl) == Built(WorkordersFilterState, fl)
buildUsersSearchParams(fl) == Built(UsersFilterState, fl)

build(l, fl) ==
    CASE l = "submissions" -> buildDailySubmissionsSearchParams(fl)
      [] l = "workorders" -> buildWorkordersSearchParams(fl)
      [] l = "users" -> buildUsersSearchParams(fl)

hasActiveFilters(l, fl) == build(l, fl) # noParams

-----------------------------------------------------------------------------
(* Requests and their keys *)

\* The request for a page's rows carries the filters of fields that are set.
Sent(l, fields, fl) ==
    LET sent == {f \in fields \cap Fields : fl.q[f] # Default(f)}
    IN  [list |-> l, q |-> [f \in sent |-> fl.q[f]], page |-> fl.page, size |-> fl.size]

useAdminSubmissions(fl) == Sent("submissions", DailySubmissionsFilterState, fl)
useAdminWorkorders(fl) == Sent("workorders", WorkordersFilterState, fl)

\* The users' search goes into no request.
useAdminUsers(fl) == Sent("users", {"role", "account_status"}, fl)
useNoSubmissionYet(fl) == Sent("no_submission_yet", {"work_date"}, fl)

\* The dashboard's recent rows, first pages of their own size.
useRecent(fl) == Sent("dashboard", {"region"}, fl)

Request(l, fl) ==
    CASE l = "submissions" -> useAdminSubmissions(fl)
      [] l = "workorders" -> useAdminWorkorders(fl)
      [] l = "users" -> useAdminUsers(fl)
      [] l = "no_submission_yet" -> useNoSubmissionYet(fl)
      [] l = "dashboard" -> useRecent(fl)

\* A mutant of Key: no list's key has the page.
KeyWithoutPage(l, fl) == [Request(l, fl) EXCEPT !.page = 0]

\* The query key: all of the request, but for noSubmissionYet only the date.
Key(l, fl) ==
    IF l = "no_submission_yet" THEN [Request(l, fl) EXCEPT !.page = 0, !.size = 0]
    ELSE Request(l, fl)

\* A render with these filters: a key that is neither cached nor being fetched
\* is fetched.
Fetched(l, fl) ==
    LET k == Key(l, fl)
    IN  IF k \in DOMAIN cache \/ \E r \in reads : r.key = k THEN reads
        ELSE reads \cup {[key |-> k, request |-> Request(l, fl)]}

Show(l, fl) ==
    /\ list' = l /\ filters' = fl
    /\ reads' = Fetched(l, fl)

ASSUME ListsAssumption ==
    /\ Lists \subseteq {"dashboard", "submissions", "workorders", "users", "no_submission_yet"}
    /\ Fields \subseteq DailySubmissionsFilterState \cup WorkordersFilterState \cup UsersFilterState
    /\ LastPage \in Nat \ {0} /\ MaxEdits \in Nat /\ MaxReturns \in Nat

\* A page is opened with a shared link.
Init ==
    /\ list \in Lists
    /\ url \in {noParams} \cup Shared
    /\ filters = parse(list, url)
    /\ nav = url /\ late = FALSE
    /\ cache = [k \in {} |-> k]
    /\ reads = {[key |-> Key(list, filters), request |-> Request(list, filters)]}
    /\ asked = filters /\ overtaken = FALSE
    /\ edits = 0 /\ returns = 0

-----------------------------------------------------------------------------
(* Edits *)

Edit == edits < MaxEdits /\ edits' = edits + 1

\* noSubmissionYet and the dashboard keep their filters to themselves.
Mirrored(l) == l \notin {"no_submission_yet", "dashboard"}

\* syncFilters: setFilters and router.replace; it discards a navigation under way.
syncFilters(fl, intended) ==
    /\ Edit
    /\ Show(list, fl)
    /\ nav' = IF Mirrored(list) THEN build(list, fl) ELSE nav
    /\ asked' = intended
    /\ overtaken' = (overtaken \/ late \/ (nav # url /\ nav # build(list, filters)))
    /\ UNCHANGED <<url, late, cache, returns>>

\* A filter is changed; the list goes back to its first page.
updateFilter(f, v) ==
    /\ v \in Values(f) /\ v # filters.q[f]
    /\ syncFilters([filters EXCEPT !.q[f] = v, !.page = 1],
                   [asked EXCEPT !.q[f] = v, !.page = 1])

\* Previous and Next go on from the page of the answer on screen.
updatePage(p) ==
    /\ Key(list, filters) \in DOMAIN cache
    /\ LET shown == cache[Key(list, filters)].page
       IN  p \in {shown - 1, shown + 1} /\ p \in 1..LastPage
    /\ p # filters.page
    /\ syncFilters([filters EXCEPT !.page = p], [asked EXCEPT !.page = p])

\* The page size's select.
updatePageSize(n) ==
    /\ Key(list, filters) \in DOMAIN cache
    /\ n # filters.size
    /\ syncFilters([filters EXCEPT !.page = 1, !.size = n],
                   [asked EXCEPT !.page = 1, !.size = n])

\* Reset Filters, offered while a filter is active.
ResetFilters ==
    /\ hasActiveFilters(list, filters)
    /\ syncFilters(parse(list, noParams), parse(list, noParams))

\* Another page is mounted with the filters of its URL; on the same page only the
\* URL changes.
Go(l, params) ==
    /\ Edit
    /\ nav' = params
    /\ asked' = parse(l, params)
    /\ IF l = list
       THEN /\ Mirrored(l)
            /\ overtaken' = (overtaken \/ late \/ (nav # url /\ params = url))
            /\ UNCHANGED <<list, filters, url, late, reads>>
       ELSE /\ Show(l, parse(l, params))
            /\ url' = params /\ late' = FALSE /\ overtaken' = FALSE
    /\ UNCHANGED <<cache, returns>>

-----------------------------------------------------------------------------
(* The pages *)

\* The fields, the reset button and the pager of a list.
Toolbar(fields) ==
    \/ \E f \in fields \cap Fields : \E v \in Values(f) : updateFilter(f, v)
    \/ ResetFilters
    \/ \E p \in 1..LastPage : updatePage(p)
    \/ \E n \in {5, 20} : updatePageSize(n)

DailySubmissionsPage == list = "submissions" /\ Toolbar(DailySubmissionsFilterState)
WorkordersPage == list = "workorders" /\ Toolbar(WorkordersFilterState)
UsersPage == list = "users" /\ Toolbar(UsersFilterState)

\* A date and, with more than one page, a pager without sizes.
NoSubmissionYetPage ==
    /\ list = "no_submission_yet"
    /\ \/ \E f \in {"work_date"} \cap Fields : \E v \in Values(f) : updateFilter(f, v)
       \/ LastPage > 1 /\ \E p \in 1..LastPage : updatePage(p)

\* A link of the dashboard carries its region along.
WithRegion(params) ==
    IF "region" \notin DOMAIN filters.q \/ filters.q.region = "ALL" THEN params
    ELSE Params(params.q @@ ("region" :> filters.q.region))

getDailySubmissionsHref == <<"submissions", WithRegion(noParams)>>
getWorkordersHref == <<"workorders", WithRegion(noParams)>>
getFilePendingHref == <<"submissions", WithRegion(Param("file_submission_pending", "true"))>>
getCompletedSubmissionsHref == <<"submissions", WithRegion(Param("submission_status", "COMPLETED"))>>
getOngoingSubmissionsHref == <<"submissions", WithRegion(Param("submission_status", "CHECKED_OUT"))>>
activeWorkordersHref == <<"workorders", WithRegion(Param("status", "ACTIVE"))>>

DashboardPage ==
    /\ list = "dashboard"
    /\ \/ \E f \in {"region"} \cap Fields : \E v \in Values(f) : updateFilter(f, v)
       \/ \E link \in {getDailySubmissionsHref, getWorkordersHref, getFilePendingHref,
                       getCompletedSubmissionsHref, getOngoingSubmissionsHref,
                       activeWorkordersHref, <<"no_submission_yet", noParams>>} :
              link[1] \in Lists /\ Go(link[1], link[2])

Sidebar == \E l \in Lists : Go(l, noParams)

\* The top bar's search for a workorder code.
handleSearch ==
    /\ "workorders" \in Lists
    /\ \E v \in Values("workorder_code") :
          trim(v) # "" /\ Go("workorders", Param("workorder_code", trim(v)))

-----------------------------------------------------------------------------
\* The navigation under way becomes the URL.
Committed ==
    /\ nav # url
    /\ url' = nav
    /\ late' = TRUE
    /\ UNCHANGED <<list, filters, nav, cache, reads, asked, overtaken, edits, returns>>

\* The effect on parsedFilters: the filters are set from the URL.
Synced ==
    /\ late
    /\ late' = FALSE
    /\ Show(list, parse(list, url))
    /\ UNCHANGED <<url, nav, cache, asked, overtaken, edits, returns>>

\* The rows of a request are stored under the key it was sent for.
Answered(r) ==
    /\ reads' = reads \ {r}
    /\ cache' = [k \in DOMAIN cache \cup {r.key} |-> IF k = r.key THEN r.request ELSE cache[k]]
    /\ UNCHANGED <<list, filters, url, nav, late, asked, overtaken, edits, returns>>

\* The window gets the focus back after the staleTime: the key on screen is
\* fetched with the filters of now.
Return ==
    /\ returns < MaxReturns
    /\ returns' = returns + 1
    /\ LET k == Key(list, filters)
       IN  /\ ~\E r \in reads : r.key = k
           /\ reads' = reads \cup {[key |-> k, request |-> Request(list, filters)]}
    /\ UNCHANGED <<list, filters, url, nav, late, cache, asked, overtaken, edits>>

Next ==
    \/ DashboardPage \/ DailySubmissionsPage \/ WorkordersPage \/ UsersPage \/ NoSubmissionYetPage
    \/ Sidebar \/ handleSearch
    \/ Committed \/ Synced
    \/ \E r \in reads : Answered(r)
    \/ Return

Spec == Init /\ [][Next]_vars

-----------------------------------------------------------------------------
(* Properties *)

Same(fl, other) ==
    /\ \A f \in DOMAIN fl.q : trim(fl.q[f]) = trim(other.q[f])
    /\ fl.page = other.page /\ fl.size = other.size

\* Once the URL has settled the page's filters are what the user has asked for, and
\* the URL says the same to whoever opens it ("filters persisted in the URL for
\* shareable review links"), whatever navigations were discarded.  An edit is lost
\* only between a change of the URL and its effect, which puts back the filters of
\* the older URL, or while a link is under way; and a link to the present URL
\* discards the URL of the edit before it.
OnlyOvertakenEditsAreLost ==
    nav = url /\ ~late /\ Mirrored(list) /\ ~overtaken =>
        Same(filters, asked) /\ Same(parse(list, url), asked)

\* The rows on screen were requested with the filters on screen, except the
\* pages of noSubmissionYet, whose key lacks the page: its second page shows
\* the rows of the first until they are stale.
OnlyNoSubmissionPagesMisanswer ==
    LET k == Key(list, filters)
    IN  k \in DOMAIN cache =>
        LET sent == cache[k]
        IN  /\ sent.list = list
            /\ \A f \in DOMAIN filters.q \ {"query"} :
                  IF f \in DOMAIN sent.q THEN sent.q[f] = filters.q[f]
                  ELSE filters.q[f] = Default(f)
            /\ list = "no_submission_yet" \/ (sent.page = filters.page /\ sent.size = filters.size)

=============================================================================

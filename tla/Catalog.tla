------------------------------- MODULE Catalog -------------------------------
(***************************************************************************)
(* The catalog page of the dashboard: components/Catalog/Catalog.tsx, the  *)
(* search box, and fetchAvailablePackageSummaries of                       *)
(* actions/availablepackages.ts.  React runs effects after it rendered,    *)
(* and before the next event; the effects of one render are one step,      *)
(* Render, which sees the values that were rendered.  Answers and timers   *)
(* come later, in any order, and nothing cancels them.                     *)
(***************************************************************************)
EXTENDS Naturals, Sequences, FiniteSets

CONSTANTS NoDetail,
          Namespaces,
          Filters,    \* what the URL can ask of the server: repositories and a search
          NoFilter,   \* initialFilterState()
          Listing,    \* Listing[ns][f]: the pages the server has for a namespace and a filter
          MaxMoves,   \* bound: moves of the user, but for scrolling
          MaxCalls,   \* bound: requests in flight when the user does something
          MaxErrors   \* bound: requests that fail

VARIABLES
    store,  \* state.packages
    ui,     \* the browser: its URL and what the mounted component remembers
    calls,  \* requests in flight, and fetches that wait in timeout(1500)
    past    \* bounds and history

vars == <<store, ui, calls, past>>
P == INSTANCE AvailablePackages

FirstPage == P!FirstPage
Query == [ns |-> ui.ns, filter |-> ui.filter]
Pages(q) == Listing[q.ns][q.filter]
Packages == UNION {UNION {Listing[n][f][i] : i \in 1..Len(Listing[n][f])} :
                   n \in Namespaces, f \in Filters}

\* The server has a sequence of pages for every query.
ConstantsAssumption ==
    /\ NoFilter \in Filters
    /\ \A n \in Namespaces, f \in Filters : Listing[n][f] \in Seq(SUBSET Packages)

\* What the server answers, from any token.
Answer(q, token) ==
    [items |-> IF token < Len(Pages(q)) THEN Pages(q)[token + 1] ELSE {},
     next  |-> IF token + 1 < Len(Pages(q)) THEN token + 1 ELSE FirstPage]

\* What an effect depends on.  Its values at the last run are ui.seen.
Rendered == [query |-> Query, urlFilter |-> ui.urlFilter, isFetching |-> store.isFetching,
             finished |-> store.hasFinishedFetching, token |-> ui.token,
             requested |-> ui.requested]
NotRun == [query |-> "none"]
Mounted == ui.page = "catalog"
Idle    == ~Mounted \/ ui.seen = Rendered   \* no effect is due

\* The component as it is when it is mounted: with no filter, whatever the URL says.
Mount(page, ns, f) ==
    [page |-> page, ns |-> ns, urlFilter |-> f, filter |-> NoFilter, token |-> FirstPage,
     requested |-> FALSE, loaded |-> FALSE, fetchingRef |-> store.isFetching,
     typing |-> ui.typing, seen |-> NotRun]

Init ==
    /\ store = P!initialState
    /\ \E n \in Namespaces, f \in Filters :
          ui = [page |-> "catalog", ns |-> n, urlFilter |-> f, filter |-> NoFilter,
                token |-> FirstPage, requested |-> FALSE, loaded |-> FALSE,
                fetchingRef |-> FALSE, typing |-> NotRun, seen |-> NotRun]
    /\ calls = {}
    /\ past = [moves |-> 0, errors |-> 0, polluted |-> FALSE, failed |-> FALSE, skips |-> FALSE]

-----------------------------------------------------------------------------
(* fetchAvailablePackageSummaries *)

InFlight == {c \in calls : c.kind # "timer"}
FreeId   == CHOOSE i \in 1..(Cardinality(calls) + 1) : \A c \in calls : c.id # i
Call(kind, q, token) == [id |-> FreeId, kind |-> kind, query |-> q, token |-> token,
                         old |-> FALSE, gone |-> FALSE]

\* The list was reset; the component that asked was unmounted.
Age(cs)   == {[c EXCEPT !.old = TRUE] : c \in cs}
Leave(cs) == {[c EXCEPT !.old = TRUE, !.gone = TRUE] : c \in cs}

\* The effect on a store s that other dispatches of the same step may have changed.
Fetched(s) == IF s.isFetching THEN P!createErrorPackage(s)
                              ELSE P!requestAvailablePackageSummaries(s)
Requests(s, q, token) == IF s.isFetching THEN {} ELSE {Call("list", q, token)}

-----------------------------------------------------------------------------
(* The effects of a render *)

Render ==
    LET now      == Rendered
        first    == ui.seen = NotRun
        newQuery == ~first /\ now.query # ui.seen.query
        \* the clean-up of the first effect
        clean    == IF newQuery
                    THEN P!resetSelectedAvailablePackageDetail(P!resetAvailablePackageSummaries(store))
                    ELSE store
        aged     == IF newQuery THEN Age(calls) ELSE calls
        ref      == IF first \/ now.isFetching # ui.seen.isFetching THEN now.isFetching
                                                                    ELSE ui.fetchingRef
        asks     == /\ \/ first \/ newQuery
                       \/ now.finished # ui.seen.finished \/ now.token # ui.seen.token
                    /\ ~now.finished
    IN /\ Mounted /\ ~Idle
       /\ ui' = [ui EXCEPT
                   !.seen = now,
                   !.token = IF newQuery THEN FirstPage ELSE @,
                   !.filter = IF first \/ now.urlFilter # ui.seen.urlFilter THEN ui.urlFilter ELSE @,
                   !.fetchingRef = ref,
                   !.requested = @ \/ now.isFetching,
                   !.loaded = @ \/ (now.requested /\ ~now.isFetching)]
       /\ store' = IF asks /\ ~ref THEN Fetched(clean) ELSE clean
       /\ calls' = aged \cup (IF ~asks   THEN {}
                             ELSE IF ref THEN {Call("timer", now.query, now.token)}
                             ELSE Requests(clean, now.query, now.token))
       /\ past' = [past EXCEPT !.failed = (@ /\ ~newQuery) \/ (asks /\ ~ref /\ clean.isFetching),
                               !.polluted = @ /\ ~newQuery,
                               !.skips = IF newQuery THEN asks /\ now.token > 1 ELSE @]

\* The rest of isFetchingAwareFetching, with the values of the render it began in,
\* whether or not the component is still mounted.
TimeoutEnds(c) ==
    /\ Idle /\ c \in calls /\ c.kind = "timer"
    /\ ui' = [ui EXCEPT !.fetchingRef = IF c.gone THEN @ ELSE FALSE]
    /\ store' = Fetched(store)
    /\ calls' = (calls \ {c}) \cup (IF store.isFetching THEN {} ELSE {[c EXCEPT !.kind = "list"]})
    /\ past' = [past EXCEPT !.failed = @ \/ store.isFetching]

ListAnswered(c) ==
    /\ Idle /\ c \in calls /\ c.kind = "list"
    /\ calls' = calls \ {c}
    /\ store' = P!receiveAvailablePackageSummaries(store, Answer(c.query, c.token))
    /\ past' = [past EXCEPT !.polluted = @ \/ (c.old /\ store.isFetching)]
    /\ UNCHANGED ui

\* The page of a package asks for its details in the same slice.
DetailAnswered(c) ==
    /\ Idle /\ c \in calls /\ c.kind = "detail"
    /\ calls' = calls \ {c}
    /\ store' = [store EXCEPT !.isFetching = FALSE]
    /\ past' = [past EXCEPT !.polluted = @ \/ (Mounted /\ store.isFetching)]
    /\ UNCHANGED ui

CallFails(c) ==
    /\ Idle /\ c \in InFlight /\ past.errors < MaxErrors
    /\ calls' = calls \ {c}
    /\ store' = P!createErrorPackage(store)
    /\ past' = [past EXCEPT !.errors = @ + 1, !.failed = TRUE]
    /\ UNCHANGED ui

-----------------------------------------------------------------------------
(* What is rendered *)

Shown ==
    [items   |-> IF ui.loaded THEN store.items ELSE {},
     message |-> IF ~store.hasFinishedFetching \/ store.items # {} THEN ""
                 ELSE IF ui.filter = NoFilter THEN "The current catalog is empty."
                 ELSE IF ~ui.fetchingRef THEN "No application matches the current filter."
                 ELSE "",
     retry   |-> store.selected.error /\ ~store.hasFinishedFetching]

-----------------------------------------------------------------------------
(* The user *)

Move == Idle /\ past.moves < MaxMoves /\ Cardinality(calls) < MaxCalls

\* The border of the list comes into sight.
Scroll ==
    /\ Idle /\ Mounted /\ ui.loaded
    /\ ~store.isFetching /\ ~store.hasFinishedFetching /\ ~store.selected.error
    /\ ui.token # store.nextPageToken
    /\ ui' = [ui EXCEPT !.token = store.nextPageToken]
    /\ UNCHANGED <<store, calls, past>>

\* The button "Try again".
forceRetry ==
    /\ Move /\ Mounted /\ Shown.retry
    /\ store' = Fetched(P!clearErrorPackage(store))
    /\ calls' = calls \cup Requests(store, Query, ui.token)
    /\ past' = [past EXCEPT !.moves = @ + 1]
    /\ UNCHANGED ui

\* A filter of the list, or another namespace in the context selector.
pushFilters(n, f) ==
    /\ Move /\ Mounted /\ <<n, f>> # <<ui.ns, ui.urlFilter>>
    /\ n = ui.ns \/ f = NoFilter
    /\ f = NoFilter \/ ~store.isFetching  \* the filters are disabled meanwhile
    /\ ui' = [ui EXCEPT !.ns = n, !.urlFilter = f]
    /\ past' = [past EXCEPT !.moves = @ + 1]
    /\ UNCHANGED <<store, calls>>

Type(f) ==
    /\ Move /\ Mounted
    /\ ui.typing # NotRun => ~ui.typing.gone
    /\ ui' = [ui EXCEPT !.typing = [ns |-> ui.ns, filter |-> f, gone |-> FALSE]]
    /\ past' = [past EXCEPT !.moves = @ + 1]
    /\ UNCHANGED <<store, calls>>

\* 300 ms after the last key the search is pushed, from wherever the user is by then.
TypingEnds ==
    /\ Idle /\ ui.typing # NotRun
    /\ ui' = [(IF Mounted THEN [ui EXCEPT !.ns = ui.typing.ns, !.urlFilter = ui.typing.filter,
                                          !.filter = IF ui.typing.gone THEN @ ELSE ui.typing.filter]
                          ELSE Mount("catalog", ui.typing.ns, ui.typing.filter))
              EXCEPT !.typing = NotRun]
    /\ UNCHANGED <<store, calls, past>>

\* The catalog is unmounted; the page of the package fetches its details.
OpenPackage ==
    /\ Move /\ Mounted /\ store.items # {}
    /\ ui' = [ui EXCEPT !.page = "package",
                        !.typing = IF @ = NotRun THEN @ ELSE [@ EXCEPT !.gone = TRUE]]
    /\ store' = P!requestSelectedAvailablePackageDetail(
                   P!resetSelectedAvailablePackageDetail(P!resetAvailablePackageSummaries(store)))
    /\ calls' = Leave(calls) \cup {Call("detail", Query, FirstPage)}
    /\ past' = [past EXCEPT !.moves = @ + 1, !.failed = FALSE, !.polluted = FALSE,
                            !.skips = FALSE]

Back(f) ==
    /\ Move /\ ~Mounted
    /\ ui' = Mount("catalog", ui.ns, f)
    /\ past' = [past EXCEPT !.moves = @ + 1]
    /\ UNCHANGED <<store, calls>>

-----------------------------------------------------------------------------
User == \/ forceRetry \/ OpenPackage
        \/ \E f \in Filters : Type(f) \/ Back(f) \/ \E n \in Namespaces : pushFilters(n, f)

Answered == \E c \in calls : TimeoutEnds(c) \/ ListAnswered(c) \/ DetailAnswered(c)

Next == Render \/ Scroll \/ TypingEnds \/ User \/ Answered \/ \E c \in calls : CallFails(c)

\* The browser runs effects and timers, the server answers, the user scrolls on.
Fairness == WF_vars(Render) /\ WF_vars(Answered) /\ WF_vars(TypingEnds) /\ WF_vars(Scroll)
Spec     == Init /\ [][Next]_vars
FairSpec == Spec /\ Fairness

-----------------------------------------------------------------------------
(* Properties *)

All(q) == UNION {Pages(q)[i] : i \in 1..Len(Pages(q))}

\* Every variable keeps its type.
TypeOK ==
    /\ store.isFetching \in BOOLEAN /\ store.hasFinishedFetching \in BOOLEAN
    /\ store.items \subseteq Packages /\ store.nextPageToken \in Nat
    /\ store.hasFinishedFetching => store.nextPageToken = FirstPage
    /\ ui.page \in {"catalog", "package"} /\ ui.ns \in Namespaces
    /\ {ui.filter, ui.urlFilter} \subseteq Filters
    /\ ui.token \in Nat
    /\ IsFiniteSet(calls) /\ \A c \in calls : c.kind \in {"list", "timer", "detail"} /\ c.token \in Nat
    /\ \A c, d \in calls : c.id = d.id => c = d

\* The catalog lists what its namespace and filters ask for, but for the answers to
\* a request made before the list was reset (actions/availablepackages.ts:122).
ListsWhatIsAsked == Mounted /\ Idle /\ ~past.polluted => Shown.items \subseteq All(Query)

\* ... and for those, too: "Ensure that when this component is unmounted, we remove any
\* catalog state so that it is reloaded cleanly for the given inputs next time"
ReloadedCleanly == Mounted /\ Idle => Shown.items \subseteq All(Query)

\* The list of a new query began with the page where the list before had been left
\* (Catalog.tsx:167: localNextPageToken of the render before its reset), and not with one
\* of its first two.
Skipped == past.skips /\ Len(Pages(Query)) > 1

\* When the page says that there is no more, or nothing, this is so: hasFinishedFetching
\* is set by the answer for the last page, which need not come last.
FinishedIsComplete ==
    (Mounted /\ Idle /\ calls = {} /\ ~past.polluted /\ ~past.failed /\ ~Skipped) =>
        /\ store.hasFinishedFetching => store.items = All(Query)
        /\ Shown.message # "" => All(Query) = {}

\* The user who only scrolls sees the end of the list, or an error.
Loaded == ~Mounted \/ store.hasFinishedFetching \/ store.selected.error
          \/ past.polluted \/ past.failed
CatalogLoads == <>[]Loaded
=============================================================================

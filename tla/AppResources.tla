---------------------------- MODULE AppResources ----------------------------
(***************************************************************************)
(* The Kubernetes resources of an installed application, that its page     *)
(* gets and watches: the effects of components/AppView/AppView.tsx,        *)
(* getResources of actions/kube.tsx, reducers/kube.ts, and the status that *)
(* is refreshed after them (getInstalledPkgStatus).  A watch is a stream   *)
(* that the reducer opens, and that nothing closes.                        *)
(***************************************************************************)
EXTENDS Naturals, FiniteSets

CONSTANTS NoApp,
          Apps,        \* applications, each with one resource that is watched
          Bare,        \* those that have no resources
          MaxMoves,    \* bound: what the user does
          MaxChanges,  \* bound: changes of the resource of an application
          MaxBreaks    \* bound: applications with a stream that breaks

VARIABLES
    store,  \* state.kube.items, and the selected application with its status
    ui,     \* the page: its URL, and the state of AppView
    calls,  \* requests, and streams with their timers
    past    \* bounds, history, and the cluster

ConstantsAssumption == NoApp \notin Apps

vars == <<store, ui, calls, past>>
NoItems == [a \in Apps |-> 0]

Init ==
    /\ store = [items |-> NoItems, selected |-> NoApp, object |-> 0,
                status |-> [of |-> NoApp, version |-> 0]]
    /\ ui = [page |-> "other", app |-> NoApp, refsOf |-> NoApp, seen |-> <<0, NoApp>>]
    /\ calls = {}
    /\ past = [version |-> [a \in Apps |-> 1], moves |-> 0, breaks |-> {},
               stray |-> FALSE, overtaken |-> FALSE]

Of(kind) == {c \in calls : c.kind = kind}
Request(kind, a, v) == [kind |-> kind, app |-> a, version |-> v, mine |-> TRUE]
Forsake(cs) == {IF c.kind = "watch" THEN c ELSE [c EXCEPT !.mine = FALSE] : c \in cs}

-----------------------------------------------------------------------------
(* The page *)

\* appViewResourceRefs, and the identity of selectedInstalledPkg.installedPackageRef.
Depends == <<store.object, ui.refsOf>>
EffectDue == ui.page = "view" /\ ui.seen # Depends

\* Another location is a LOCATION_CHANGE for the page that stays mounted.  It keeps the
\* resources of the application before.
OpenApp(a) ==
    LET stays == ui.page = "view"
    IN /\ ~EffectDue /\ past.moves < MaxMoves /\ ui.app # a
       /\ ui' = [page |-> "view", app |-> a, refsOf |-> IF stays THEN ui.refsOf ELSE NoApp,
                 seen |-> <<0, IF stays THEN ui.refsOf ELSE NoApp>>]
       /\ store' = [store EXCEPT !.selected = NoApp, !.object = 0,
                                 !.items = IF stays THEN NoItems ELSE @]
       /\ calls' = Forsake(calls) \cup {Request("app", a, 0), Request("refs", a, 0)}
       /\ past' = [past EXCEPT !.moves = @ + 1, !.stray = FALSE]

\* The clean-up of the watch effect does nothing.
Leave ==
    /\ ~EffectDue /\ ui.page = "view" /\ past.moves < MaxMoves
    /\ ui' = [page |-> "other", app |-> NoApp, refsOf |-> NoApp, seen |-> <<0, NoApp>>]
    /\ calls' = Forsake(calls)
    /\ past' = [past EXCEPT !.moves = @ + 1]
    /\ UNCHANGED store

\* getInstalledPackage is dispatched again after a rollback.
Rollback ==
    /\ ~EffectDue /\ ui.page = "view" /\ store.selected # NoApp /\ past.moves < MaxMoves
    /\ store' = [store EXCEPT !.selected = NoApp, !.object = 0]
    /\ calls' = calls \cup {Request("app", ui.app, 0)}
    /\ past' = [past EXCEPT !.moves = @ + 1]
    /\ UNCHANGED ui

\* A new object, whoever asked for it.
AppAnswered(c) ==
    /\ ~EffectDue /\ c \in Of("app")
    /\ store' = [store EXCEPT !.selected = c.app, !.object = ui.seen[1] + 1,
                              !.status = [of |-> c.app, version |-> past.version[c.app]]]
    /\ calls' = calls \ {c}
    /\ past' = [past EXCEPT !.stray = @ \/ (~c.mine /\ c.app # ui.app)]
    /\ UNCHANGED ui

\* No resources leave those of before (AppView.tsx:230).
RefsAnswered(c) ==
    /\ ~EffectDue /\ c \in Of("refs")
    /\ ui' = IF c.mine /\ c.app \notin Bare THEN [ui EXCEPT !.refsOf = c.app] ELSE ui
    /\ calls' = calls \ {c}
    /\ UNCHANGED <<store, past>>

-----------------------------------------------------------------------------
(* getResources *)

\* A watch begins with what there is, and goes on; due is its debounced call.
NewStream(a) ==
    {[kind |-> "watch", app |-> a, version |-> past.version[a] - 1, open |-> TRUE, due |-> FALSE,
      id |-> CHOOSE i \in 1..(Cardinality(Of("watch")) + 1) : \A c \in Of("watch") : c.id # i]}

\* The effect on a new selected application or new references.  The server refuses the
\* resources of another application (plugins/resources).
Effect ==
    /\ EffectDue
    /\ ui' = [ui EXCEPT !.seen = Depends]
    /\ calls' = IF store.selected # NoApp /\ store.selected = ui.refsOf
                THEN calls \cup NewStream(ui.refsOf) ELSE calls
    /\ UNCHANGED <<store, past>>

\* (mutant) A response does not ask for the status.
NotDebounced(c) == c

\* 2 s after the last response of a stream the status is asked for.
debounced(c) == [c EXCEPT !.due = TRUE]

\* (mutant) A resource that is there already is kept.
receiveOnce(s, a, v) == IF s.items[a] # 0 THEN s ELSE [s EXCEPT !.items[a] = v]

\* The key of the resource takes its newest response.
receiveResource(s, a, v) == [s EXCEPT !.items[a] = v]

Deliver(c) ==
    /\ ~EffectDue /\ c \in Of("watch") /\ c.open /\ c.version < past.version[c.app]
    /\ store' = receiveResource(store, c.app, c.version + 1)
    /\ calls' = (calls \ {c}) \cup {debounced([c EXCEPT !.version = @ + 1])}
    /\ UNCHANGED <<ui, past>>

\* Nothing catches it (reducers/kube.ts:153), and nothing opens it again.
Break(c) ==
    /\ ~EffectDue /\ c \in Of("watch") /\ c.open /\ Cardinality(past.breaks) < MaxBreaks
    /\ calls' = (calls \ {c}) \cup (IF c.due THEN {[c EXCEPT !.open = FALSE]} ELSE {})
    /\ past' = [past EXCEPT !.breaks = @ \cup {c.app}]
    /\ UNCHANGED <<store, ui>>

TimerEnds(c) ==
    /\ ~EffectDue /\ c \in Of("watch") /\ c.due
    /\ calls' = (calls \ {c}) \cup (IF c.open THEN {[c EXCEPT !.due = FALSE]} ELSE {})
                    \cup {Request("status", c.app, past.version[c.app])}
    /\ UNCHANGED <<store, ui, past>>

\* It is the status of whoever is selected by now.
receiveInstalledPackageStatus(s, a, v) ==
    IF s.selected = NoApp THEN s ELSE [s EXCEPT !.status = [of |-> a, version |-> v]]

\* What the server saw at any time since.
StatusAnswered(c) ==
    /\ ~EffectDue /\ c \in Of("status")
    /\ \E v \in c.version..past.version[c.app] :
          /\ store' = receiveInstalledPackageStatus(store, c.app, v)
          /\ past' = [past EXCEPT !.stray = @ \/ c.app # ui.app,
                                  !.overtaken = @ \/ (store.status.of = c.app /\ v < store.status.version)]
    /\ calls' = calls \ {c}
    /\ UNCHANGED ui

-----------------------------------------------------------------------------
ResourceChanges(a) ==
    /\ a \notin Bare /\ past.version[a] < MaxChanges + 1
    /\ past' = [past EXCEPT !.version[a] = @ + 1]
    /\ UNCHANGED <<store, ui, calls>>

Next == \/ Effect \/ Leave \/ Rollback
        \/ \E a \in Apps : OpenApp(a) \/ ResourceChanges(a)
        \/ \E c \in calls : \/ AppAnswered(c) \/ RefsAnswered(c) \/ Deliver(c) \/ Break(c)
                            \/ TimerEnds(c) \/ StatusAnswered(c)

Spec == Init /\ [][Next]_vars

-----------------------------------------------------------------------------
(* Properties *)

\* Every variable keeps its type.
TypeOK ==
    /\ store.selected \in Apps \cup {NoApp} /\ store.status.of \in Apps \cup {NoApp}
    /\ \A a \in Apps : store.items[a] \in 0..past.version[a]
    /\ ui.page \in {"view", "other"} /\ {ui.app, ui.refsOf} \subseteq Apps \cup {NoApp}
    /\ \A c, d \in Of("watch") : c.id = d.id => c = d

\* The page, its application and its resources are there, and every stream has delivered.
Quiet == /\ ui.page = "view" /\ ~EffectDue /\ {store.selected, ui.refsOf} = {ui.app}
         /\ ui.app \notin past.breaks
         /\ \A c \in calls : c.kind = "watch" /\ c.version = past.version[c.app] /\ ~c.due

\* When every response of every stream came, in any order between the streams, those of
\* pages that were left included, the page shows the watched resources as they are, unless
\* a stream broke (getResources of actions/kube.tsx).
ShownIsCurrent == Quiet => store.items[ui.app] = past.version[ui.app]

\* ... and the status that its buttons depend on is that of the application, not older than
\* its resources, unless the watch of another page came in between, or an older answer
\* (getInstalledPkgStatus).
StatusIsFresh ==
    (Quiet /\ ~past.stray /\ ~past.overtaken) =>
        store.status = [of |-> ui.app, version |-> past.version[ui.app]]

\* "closes the watches when unmounted" (AppView.test.tsx:612)
WatchesClosed == ui.page = "other" => {c \in Of("watch") : c.open} = {}
=============================================================================

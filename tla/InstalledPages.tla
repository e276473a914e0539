--------------------------- MODULE InstalledPages ---------------------------
(***************************************************************************)
(* The pages of installed packages: their list (components/AppList), the   *)
(* page of one (AppView with the buttons of AppControls) and its upgrade   *)
(* (AppUpgrade with UpgradeForm), with actions/installedpackages.ts and    *)
(* reducers/installedpackages.ts.  The store has one selected application  *)
(* and one error, whoever asked.  A page that is mounted does not clear    *)
(* them; LOCATION_CHANGE does, and is only dispatched by a page that was   *)
(* mounted before the location changed (hooks/push.tsx).                   *)
(***************************************************************************)
EXTENDS Naturals, FiniteSets

CONSTANTS NoDetail,
          Apps,       \* applications that can be installed
          Here,       \* those of the current namespace
          Versions,   \* of the package each was installed from
          MaxMoves,   \* bound: what the user does
          MaxErrors,  \* bound: requests that fail
          MaxSame     \* bound: equal requests in flight

VARIABLES
    store,  \* state.apps and state.packages
    ui,     \* the browser: its URL, and what the mounted page remembers
    calls,  \* requests in flight
    past    \* bounds, history, and the cluster

vars == <<store, ui, calls, past>>
P == INSTANCE AvailablePackages

NoError == "none"
Detail(a, v) == [app |-> a, version |-> v, files |-> {}]

\* An application and a package that are there are not none, and a package has versions.
ConstantsAssumption ==
    /\ NoDetail \notin Apps
    /\ \A a \in Apps, v \in Versions \cup {NoDetail} : Detail(a, v) # NoDetail
    /\ Here \subseteq Apps /\ Versions # {}
    /\ MaxErrors \in Nat /\ MaxSame \in Nat \ {0}

Init ==
    /\ store = [isFetching |-> FALSE, error |-> NoError, selected |-> NoDetail,
                details |-> FALSE, list |-> {}, packages |-> P!initialState]
    /\ ui = [page |-> "other", app |-> NoDetail, allNS |-> FALSE, version |-> NoDetail,
             refs |-> "asked", fetchError |-> FALSE, form |-> FALSE, deploying |-> FALSE]
    /\ calls = {}
    /\ past = [moves |-> 0, errors |-> 0, installed |-> Apps, blocks |-> 0,
               late |-> FALSE, early |-> FALSE, left |-> FALSE, failed |-> FALSE]

-----------------------------------------------------------------------------
(* reducers/installedpackages.ts *)

\* (mutant) The application before stays selected while another is asked for.
requestKeepsSelected(s) == [s EXCEPT !.isFetching = TRUE]

requestInstalledPackage(s) == [s EXCEPT !.isFetching = TRUE, !.selected = NoDetail, !.details = FALSE]
errorInstalledPackage(s, e) == [s EXCEPT !.isFetching = FALSE, !.error = e]

\* (mutant) The spinner stays.
selectStillFetching(s, a, details) == [s EXCEPT !.selected = a, !.details = details]

selectInstalledPackage(s, a, details) ==
    [s EXCEPT !.isFetching = FALSE, !.selected = a, !.details = details]

LocationChange(s) == [s EXCEPT !.isFetching = FALSE, !.error = NoError, !.selected = NoDetail]

-----------------------------------------------------------------------------
(* Requests *)

Same(kind, a, v) == {c \in calls : c.kind = kind /\ c.app = a /\ c.version = v}
Request(kind, a, v) ==
    {[kind |-> kind, app |-> a, version |-> v, mine |-> TRUE,
      id |-> CHOOSE i \in 1..MaxSame : i = MaxSame \/ \A c \in Same(kind, a, v) : c.id # i]}
Forsake(cs) == {[c EXCEPT !.mine = FALSE] : c \in cs}

Mount(page, a, s) ==
    [page |-> page, app |-> a, allNS |-> FALSE, version |-> NoDetail, refs |-> "asked",
     fetchError |-> s.error = "FetchError", form |-> FALSE, deploying |-> FALSE]

\* The browser goes to the list, or to the page of an application, when the store is s,
\* the requests in flight cs, and the rest of the history p.
Visit(page, a, s, cs, p) ==
    LET same == ui.page = page  \* the component stays mounted
        s1   == IF same THEN LocationChange(s) ELSE s
        new  == ~same \/ ui.app # a
    IN /\ ui' = IF same THEN [ui EXCEPT !.app = a, !.allNS = FALSE, !.refs = IF new THEN "asked" ELSE @]
                        ELSE Mount(page, a, s)
       /\ past' = IF new THEN [p EXCEPT !.late = FALSE, !.failed = FALSE, !.left = FALSE] ELSE p
       /\ CASE page = "view" /\ new ->
                 /\ store' = requestInstalledPackage(s1)
                 /\ calls' = Forsake(cs) \cup Request("app", a, NoDetail) \cup Request("refs", a, NoDetail)
            [] page = "list" /\ (~same \/ ui.allNS) ->
                 /\ store' = [s1 EXCEPT !.isFetching = TRUE]
                 /\ calls' = Forsake(cs) \cup Request("list", NoDetail, FALSE)
            [] OTHER ->
                 /\ store' = s1
                 /\ calls' = cs

-----------------------------------------------------------------------------
(* UpgradeForm *)

\* AppUpgrade renders UpgradeForm, and no spinner or error.
FormMounted(s) == /\ s.error # "FetchError" /\ ~s.isFetching /\ ~s.packages.isFetching
                  /\ s.selected # NoDetail /\ s.details

\* The block of its first effect runs if there are no versions yet.
Populates(s) == FormMounted(s) /\ s.packages.selected.versions = {}
Populate(s, v) ==
    LET asked  == P!requestSelectedAvailablePackageVersions(s.packages)
        marked == P!receiveSelectedAvailablePackageDetail(asked, Detail(s.selected, NoDetail))
    IN [s EXCEPT !.packages = IF v = NoDetail THEN marked
                              ELSE P!requestSelectedAvailablePackageDetail(marked)]
PopulateCalls(s, v) ==
    Request("versions", s.selected, NoDetail)
        \cup (IF v = NoDetail THEN {} ELSE Request("detail", s.selected, v))

\* A render of AppUpgrade mounts UpgradeForm, or unmounts it.
RenderDue == ui.page = "upgrade" /\ ui.form # FormMounted(store)
Render ==
    /\ RenderDue
    /\ ui' = [ui EXCEPT !.form = ~@, !.deploying = FALSE]
    /\ IF Populates(store)
       THEN /\ store' = Populate(store, ui.version)
            /\ calls' = calls \cup PopulateCalls(store, ui.version)
            /\ past' = [past EXCEPT !.blocks = IF @ = 2 THEN @ ELSE @ + 1]
       ELSE UNCHANGED <<store, calls, past>>

-----------------------------------------------------------------------------
(* The user *)

Move  == ~RenderDue /\ past.moves < MaxMoves
Count == [past EXCEPT !.moves = @ + 1]

\* By a link, a bookmark, or the history of the browser.
Open(page, a) ==
    /\ Move /\ <<page, a>> # <<ui.page, ui.app>>
    /\ Visit(page, a, store, calls, Count)

OpenOther ==
    /\ Move /\ ui.page # "other"
    /\ ui' = Mount("other", NoDetail, store)
    /\ calls' = Forsake(calls)
    /\ past' = Count
    /\ UNCHANGED store

\* (mutant) The toggle asks with the value of the render.
toggleStale ==
    /\ Move /\ ui.page = "list"
    /\ ui' = [ui EXCEPT !.allNS = ~@]
    /\ store' = [LocationChange(store) EXCEPT !.isFetching = TRUE]
    /\ calls' = Forsake(calls) \cup Request("list", NoDetail, ui.allNS)
    /\ past' = [Count EXCEPT !.late = FALSE]

toggleListAllNS ==
    /\ Move /\ ui.page = "list"
    /\ ui' = [ui EXCEPT !.allNS = ~@]
    /\ store' = [LocationChange(store) EXCEPT !.isFetching = TRUE]
    /\ calls' = Forsake(calls) \cup Request("list", NoDetail, ~ui.allNS)
    /\ past' = [Count EXCEPT !.late = FALSE]

\* AppView shows the application, with its buttons.
AppShown == /\ ui.page = "view" /\ ~ui.fetchError
            /\ ~store.isFetching /\ store.selected # NoDetail

\* getButtons: all but the deletion are disabled while there is an error.
Enabled == AppShown /\ store.error = NoError

forceRetry ==
    /\ Move /\ ui.page = "view" /\ ui.fetchError
    /\ store' = requestInstalledPackage([store EXCEPT !.error = NoError])
    /\ calls' = calls \cup Request("app", ui.app, NoDetail)
    /\ past' = Count
    /\ UNCHANGED ui

\* What an operation on an application is sent for, and from which page.
Operation(kind, v) ==
    {[kind |-> kind, app |-> store.selected, version |-> v, mine |-> TRUE, id |-> 1,
      asked |-> ui.app, late |-> past.late]}

handleRollback ==
    /\ Move /\ Enabled
    /\ store' = [store EXCEPT !.isFetching = TRUE]
    /\ calls' = calls \cup Operation("rollback", NoDetail)
    /\ past' = Count
    /\ UNCHANGED ui

handleDeleteClick ==
    /\ Move /\ AppShown
    /\ store' = [store EXCEPT !.isFetching = TRUE]
    /\ calls' = calls \cup Operation("delete", NoDetail)
    /\ past' = Count
    /\ UNCHANGED ui

\* By "Upgrade" or "Update now" of the application, or by a URL or the history, from any page
\* but an upgrade.  The effects of a child run first: while an application is selected,
\* whichever it is, UpgradeForm is mounted and populated with that one's package, until
\* AppUpgrade resets the package and asks for the application of its URL.
OpenUpgrade(a, v) ==
    LET s == IF Populates(store) THEN Populate(store, v) ELSE store
    IN /\ Move /\ ui.page # "upgrade"
       /\ ui' = [Mount("upgrade", a, store) EXCEPT !.version = v]
       /\ store' = [requestInstalledPackage(s) EXCEPT
                      !.packages = P!resetSelectedAvailablePackageDetail(@)]
       /\ calls' = Forsake(calls) \cup Request("app", a, NoDetail)
                      \cup {[c EXCEPT !.mine = store.selected = a] :
                               c \in IF Populates(store) THEN PopulateCalls(store, v) ELSE {}}
       /\ past' = [Count EXCEPT !.late = FALSE, !.early = FALSE, !.failed = FALSE, !.left = FALSE,
                                !.blocks = IF Populates(store) THEN 1 ELSE 0]

\* UpgradeForm shows its selector and the values.
FormShown == /\ ui.form /\ ~ui.deploying /\ store.packages.selected.versions # {}
             /\ store.packages.selected.detail # NoDetail

selectVersion(v) ==
    /\ Move /\ FormShown
    /\ store' = [store EXCEPT !.packages = P!requestSelectedAvailablePackageDetail(@)]
    /\ calls' = calls \cup Request("detail", store.selected, v)
    /\ past' = Count
    /\ UNCHANGED ui

handleDeploy ==
    /\ Move /\ FormShown
    /\ ui' = [ui EXCEPT !.deploying = TRUE]
    /\ calls' = calls \cup Operation("update", store.packages.selected.detail)
    /\ past' = Count
    /\ UNCHANGED store

User == \/ OpenOther \/ toggleListAllNS \/ forceRetry \/ handleRollback \/ handleDeleteClick
        \/ handleDeploy \/ Open("list", NoDetail)
        \/ \E a \in Apps : Open("view", a)
        \/ \E v \in Versions : selectVersion(v)
        \/ \E a \in Apps, v \in Versions \cup {NoDetail} : OpenUpgrade(a, v)

-----------------------------------------------------------------------------
(* Answers *)

Answer(c, kind) == ~RenderDue /\ c \in calls /\ c.kind = kind
\* An answer for another page that writes over what this one asked for.
Late(c) == /\ ~c.mine
           /\ IF c.kind = "list" THEN ui.page = "list"
                                 ELSE ui.page \in {"view", "upgrade"} /\ c.app # ui.app
Listed(allNS) == past.installed \cap (IF allNS THEN Apps ELSE Here)

ListAnswered(c) ==
    /\ Answer(c, "list")
    /\ calls' = calls \ {c}
    /\ store' = [store EXCEPT !.isFetching = FALSE, !.list = Listed(c.version)]
    /\ past' = [past EXCEPT !.late = @ \/ Late(c)]
    /\ UNCHANGED ui

\* With its package, or without it, and a warning, when that cannot be found.
AppAnswered(c, found) ==
    /\ Answer(c, "app") /\ c.app \in past.installed /\ (found \/ past.errors < MaxErrors)
    /\ calls' = calls \ {c}
    /\ store' = selectInstalledPackage(IF found THEN store ELSE errorInstalledPackage(store, "FetchWarning"),
                                       c.app, found)
    /\ past' = [past EXCEPT !.late = @ \/ Late(c), !.errors = IF found THEN @ ELSE @ + 1]
    /\ UNCHANGED ui

\* The poll of AppView, until there are resources; nothing of it outlives the page.
RefsAnswered(c) ==
    /\ Answer(c, "refs")
    /\ calls' = calls \ {c}
    /\ ui' = IF c.mine THEN [ui EXCEPT !.refs = "got"] ELSE ui
    /\ UNCHANGED <<store, past>>

PackageAnswered(c) ==
    /\ Answer(c, c.kind) /\ c.kind \in {"versions", "detail"}
    /\ calls' = calls \ {c}
    /\ store' = [store EXCEPT !.packages =
                    IF c.kind = "versions" THEN P!receiveSelectedAvailablePackageVersions(@, Versions)
                    ELSE P!receiveSelectedAvailablePackageDetail(@, Detail(c.app, c.version))]
    /\ past' = [past EXCEPT !.late = @ \/ Late(c),
                            !.early = @ \/ (c.kind = "versions" /\ store.packages.selected.detail = NoDetail)]
    /\ UNCHANGED ui

\* The user is taken to the list, or to the application, from wherever he is by now.
Deleted(c) ==
    /\ Answer(c, "delete")
    /\ Visit("list", NoDetail, [store EXCEPT !.isFetching = FALSE], calls \ {c},
             [past EXCEPT !.installed = @ \ {c.app}, !.left = @ \/ ~c.mine])

Updated(c) ==
    /\ Answer(c, "update")
    /\ Visit("view", c.app, store, calls \ {c}, [past EXCEPT !.left = @ \/ ~c.mine])

RolledBack(c) ==
    /\ Answer(c, "rollback")
    /\ store' = requestInstalledPackage([store EXCEPT !.isFetching = FALSE])
    /\ calls' = (calls \ {c}) \cup {[r EXCEPT !.mine = c.mine] : r \in Request("app", c.app, NoDetail)}
    /\ past' = [past EXCEPT !.left = @ \/ ~c.mine]
    /\ UNCHANGED ui

ErrorOf(c) == CASE c.kind = "delete"   -> "DeleteError"
                [] c.kind = "update"   -> "UpgradeError"
                [] c.kind = "rollback" -> "RollbackError"
                [] OTHER               -> "FetchError"

\* An application that was deleted is not found.  The error of the references reaches
\* handleErrorAction without an action: what it returns is undefined, dispatch throws, and
\* setFetchError is never called (AppView.tsx:213).
CallFails(c) ==
    /\ c \in calls /\ ~RenderDue
    /\ past.errors < MaxErrors \/ (c.kind # "list" /\ c.app \notin past.installed)
    /\ calls' = calls \ {c}
    /\ store' = CASE c.kind = "refs" -> store
                  [] c.kind \in {"versions", "detail"} ->
                        [store EXCEPT !.packages = P!createErrorPackage(@)]
                  [] OTHER -> errorInstalledPackage(store, ErrorOf(c))
    /\ ui' = CASE c.kind = "refs"   -> IF c.mine THEN [ui EXCEPT !.refs = "failed"] ELSE ui
               [] c.kind = "update" -> [ui EXCEPT !.deploying = @ /\ ~c.mine]
               [] OTHER             -> ui
    /\ past' = [past EXCEPT !.failed = TRUE,
                            !.errors = IF c.kind # "list" /\ c.app \notin past.installed THEN @ ELSE @ + 1]

Answers(c) == \/ ListAnswered(c) \/ RefsAnswered(c) \/ PackageAnswered(c)
              \/ Deleted(c) \/ Updated(c) \/ RolledBack(c)
              \/ \E found \in BOOLEAN : AppAnswered(c, found)

Next     == Render \/ User \/ (\E c \in calls : Answers(c)) \/ (\E c \in calls : CallFails(c))
Spec     == Init /\ [][Next]_vars

-----------------------------------------------------------------------------
(* Properties *)

Errors == {NoError, "FetchError", "FetchWarning", "DeleteError", "UpgradeError", "RollbackError"}

\* Every variable keeps its type.
TypeOK ==
    /\ store.isFetching \in BOOLEAN /\ store.error \in Errors /\ store.list \subseteq Apps
    /\ store.selected \in Apps \cup {NoDetail}
    /\ ui.page \in {"other", "list", "view", "upgrade"} /\ ui.app \in Apps \cup {NoDetail}
    /\ past.errors <= MaxErrors

\* A deletion, a rollback or an upgrade is sent for the application of the URL, and the
\* upgrade for a version of its package, unless another application was answered late.
ActsOnUrlApp ==
    \A c \in calls : c.kind \in {"delete", "rollback", "update"} /\ ~c.late =>
        /\ c.app = c.asked
        /\ c.kind = "update" => c.version.app = c.asked

Settled == calls = {} /\ ~RenderDue /\ ~past.late /\ ~past.left /\ ~past.failed

\* The list agrees with the cluster when all is answered, unless the user left an
\* operation behind (its end finds him on the list, which is not asked for again), a late
\* answer came, or the request failed.
ListIsCurrent == Settled /\ ui.page = "list" => store.list = Listed(ui.allNS)

\* A page is never blank when all is answered, nor left with its spinner: but for the
\* same exceptions, and for versions that came when no package was selected (UpgradeForm.tsx:73).
PageSettles ==
    /\ Settled /\ ui.page = "view" =>
          ~store.isFetching /\ (store.selected = ui.app \/ ui.fetchError \/ store.error # NoError)
    /\ Settled /\ ui.page = "upgrade" /\ ~past.early =>
          FormShown \/ ui.deploying \/ store.error = "FetchError" \/ ~store.details

\* "This block just will be run once, given that populating the list of versions does
\* not depend on anything else" (UpgradeForm.tsx:71)
BlockRunsOnce == past.blocks < 2

\* "If we get any other error, we want the user to know about it" (AppView.tsx:212)
RefsErrorShown == ui.page = "view" /\ ui.refs = "failed" => ui.fetchError
=============================================================================

---------------------------- MODULE PackagePages ----------------------------
(***************************************************************************)
(* The page of a package (components/PackageHeader/PackageView.tsx) and    *)
(* the form that installs it (components/DeploymentForm), with the         *)
(* requests of actions/availablepackages.ts for its details and versions   *)
(* and installPackage of actions/installedpackages.ts.  Both pages show    *)
(* the one selected package of the store, whoever asked for it: answers    *)
(* carry no name, come in any order, and no request is ever cancelled.     *)
(***************************************************************************)
EXTENDS Naturals, FiniteSets

CONSTANTS NoDetail,
          Packages,
          Versions,  \* numbers from 1 on; the greatest is the latest
          Files,     \* additional files of default values
          MaxMoves,  \* bound: what the user does
          MaxErrors  \* bound: requests that fail

VARIABLES
    store,  \* state.packages and, of state.apps, isFetching and error
    ui,     \* the browser: its URL, and the state of the form
    calls,  \* requests in flight
    past    \* bounds and history

vars == <<store, ui, calls, past>>
P == INSTANCE AvailablePackages

Latest  == CHOOSE v \in Versions : \A w \in Versions : w <= v
Detail(pkg, v) == [pkg |-> pkg, version |-> IF v = 0 THEN Latest ELSE v, files |-> Files]
Details == {Detail(pkg, v) : pkg \in Packages, v \in Versions}

\* Versions are numbers, with a latest; a detail that is there is not none.
ConstantsAssumption ==
    /\ Versions \subseteq Nat \ {0} /\ \E v \in Versions : \A w \in Versions : w <= v
    /\ NoDetail \notin Details

Selected == store.packages.selected
Fetching == store.packages.isFetching

FreeId(kind) == CHOOSE i \in 1..(Cardinality(calls) + 1) :
                   \A c \in calls : c.kind = kind => c.id # i

\* appValues: the effect that copies the selected values runs as long as the user
\* has not modified them.
AppValues == IF ui.valuesModified THEN ui.appValues ELSE Selected.values

Init ==
    /\ store = [packages |-> P!initialState, isInstalling |-> FALSE, appsError |-> FALSE]
    /\ ui = [page |-> "catalog", pkg |-> NoDetail, version |-> 0, appValues |-> NoDetail,
             valuesModified |-> FALSE, isDeploying |-> FALSE]
    /\ calls = {}
    /\ past = [moves |-> 0, errors |-> 0, late |-> FALSE, failed |-> FALSE]

-----------------------------------------------------------------------------
(* The requests of a page, sent by its effects when it is mounted and when its
   URL gets another version.  A request is "mine" for the page that sent it. *)

Request(kind, pkg, v) ==
    [kind |-> kind, pkg |-> pkg, version |-> v, id |-> FreeId(kind), mine |-> TRUE]
Forsake(cs) == {IF c.kind = "install" THEN c ELSE [c EXCEPT !.mine = FALSE] : c \in cs}

Fetch(pkg, v, withVersions) ==
    calls' = Forsake(calls) \cup {Request("detail", pkg, v)}
                \cup {Request(k, pkg, 0) : k \in IF withVersions THEN {"versions"} ELSE {}}
Fetched == P!requestSelectedAvailablePackageDetail(store.packages)

Move == past.moves < MaxMoves
Moved == past' = [past EXCEPT !.moves = @ + 1]

-----------------------------------------------------------------------------
(* The user *)

\* A click on an item of the catalog, whose clean-up resets the selection.
OpenPackage(pkg) ==
    /\ Move /\ ui.page = "catalog"
    /\ Fetch(pkg, 0, TRUE)
    /\ store' = [store EXCEPT !.packages = P!resetSelectedAvailablePackageDetail(Fetched)]
    /\ ui' = [ui EXCEPT !.page = "package", !.pkg = pkg, !.version = 0]
    /\ past' = [past EXCEPT !.moves = @ + 1, !.late = FALSE, !.failed = FALSE]

\* PackageView shows a package, or an error, or a spinner.
PackageShown == /\ ui.page = "package" /\ ~Selected.error /\ ~Fetching
                /\ Selected.detail # NoDetail

\* The link "Deploy", or the redirection if skipAvailablePackageDetails: to the
\* form of the URL's package, at the version that is selected.
Deploy ==
    /\ Move /\ PackageShown
    /\ Fetch(ui.pkg, Selected.detail.version, TRUE)
    /\ store' = [store EXCEPT !.packages = Fetched]
    /\ ui' = [ui EXCEPT !.page = "deploy", !.version = Selected.detail.version,
                        !.valuesModified = FALSE, !.isDeploying = FALSE]
    /\ Moved

\* DeploymentForm shows its header and its selectors even while it fetches.
FormShown == ui.page = "deploy" /\ ~Selected.error /\ Selected.detail # NoDetail
\* DeploymentFormBody does not.
BodyShown == FormShown /\ ~ui.isDeploying /\ ~Fetching

\* The URL gets another version, and the page stays mounted: LOCATION_CHANGE.
selectVersion(v) ==
    /\ Move /\ (PackageShown \/ FormShown)
    /\ v \in Selected.versions /\ v # ui.version
    /\ Fetch(ui.pkg, v, ui.page = "deploy")
    /\ store' = [store EXCEPT !.packages = Fetched, !.isInstalling = FALSE, !.appsError = FALSE]
    /\ ui' = [ui EXCEPT !.version = v]
    /\ Moved

onChangeAdditionalDefaultValues(f) ==
    /\ Move /\ FormShown /\ Cardinality(Selected.detail.files) >= 2
    /\ store' = [store EXCEPT !.packages = P!setAvailablePackageDetailCustomDefaults(@, f)]
    /\ Moved
    /\ UNCHANGED <<ui, calls>>

\* An edit of the values, which from then on are those of the user.
handleValuesChange ==
    /\ Move /\ BodyShown /\ ~ui.valuesModified
    /\ ui' = [ui EXCEPT !.valuesModified = TRUE, !.appValues = AppValues]
    /\ Moved
    /\ UNCHANGED <<store, calls>>

handleDeploy ==
    /\ Move /\ BodyShown
    /\ ui' = [ui EXCEPT !.isDeploying = TRUE]
    /\ store' = [store EXCEPT !.isInstalling = TRUE]
    /\ calls' = calls \cup {[kind |-> "install", id |-> FreeId("install"), mine |-> TRUE,
                             asked |-> Detail(ui.pkg, ui.version),
                             sent |-> Selected.detail, values |-> AppValues,
                             pending |-> \E c \in calls : c.kind = "detail" /\ c.mine,
                             late |-> past.late, failed |-> past.failed]}
    /\ Moved

\* A click on another page.  What was asked for goes on.
ToCatalog ==
    /\ Move /\ ui.page # "catalog"
    /\ ui' = [ui EXCEPT !.page = "catalog", !.valuesModified = FALSE, !.isDeploying = FALSE]
    /\ calls' = {[c EXCEPT !.mine = FALSE] : c \in calls}
    /\ Moved
    /\ UNCHANGED store

-----------------------------------------------------------------------------
(* Answers *)

Late(c) == past' = [past EXCEPT !.late = @ \/ ~c.mine]

DetailAnswered(c) ==
    /\ c \in calls /\ c.kind = "detail"
    /\ calls' = calls \ {c}
    /\ store' = [store EXCEPT !.packages =
                    P!receiveSelectedAvailablePackageDetail(@, Detail(c.pkg, c.version))]
    /\ Late(c) /\ UNCHANGED ui

VersionsAnswered(c) ==
    /\ c \in calls /\ c.kind = "versions"
    /\ calls' = calls \ {c}
    /\ store' = [store EXCEPT !.packages =
                    P!receiveSelectedAvailablePackageVersions(@, Versions)]
    /\ UNCHANGED <<ui, past>>

\* A failed detail leaves the page with the one before, and the answer with the
\* versions takes the error away.
RequestFails(c) ==
    /\ c \in calls /\ c.kind # "install" /\ past.errors < MaxErrors
    /\ calls' = calls \ {c}
    /\ store' = [store EXCEPT !.packages = P!createErrorPackage(@)]
    /\ past' = [past EXCEPT !.errors = @ + 1, !.failed = @ \/ c.kind = "detail"]
    /\ UNCHANGED ui

\* The user is taken to the new application, from wherever he is by now.
Installed(c) ==
    /\ c \in calls /\ c.kind = "install"
    /\ calls' = {IF d.kind = "install" THEN d ELSE [d EXCEPT !.mine = FALSE] : d \in calls \ {c}}
    /\ store' = [store EXCEPT !.isInstalling = FALSE, !.appsError = FALSE]
    /\ ui' = [ui EXCEPT !.page = "app", !.isDeploying = FALSE, !.valuesModified = FALSE]
    /\ UNCHANGED past

InstallFails(c) ==
    /\ c \in calls /\ c.kind = "install" /\ past.errors < MaxErrors
    /\ calls' = calls \ {c}
    /\ store' = [store EXCEPT !.isInstalling = FALSE, !.appsError = TRUE]
    /\ ui' = IF c.mine THEN [ui EXCEPT !.isDeploying = FALSE] ELSE ui
    /\ past' = [past EXCEPT !.errors = @ + 1]

Answered == \E c \in calls : DetailAnswered(c) \/ VersionsAnswered(c) \/ Installed(c)
Failed   == \E c \in calls : RequestFails(c) \/ InstallFails(c)

User == \/ Deploy \/ handleValuesChange \/ handleDeploy \/ ToCatalog
        \/ \E pkg \in Packages : OpenPackage(pkg)
        \/ \E v \in Versions : selectVersion(v)
        \/ \E f \in Files : onChangeAdditionalDefaultValues(f)

Next     == User \/ Answered \/ Failed
Spec     == Init /\ [][Next]_vars
FairSpec == Spec /\ WF_vars(Answered \/ Failed)  \* each request is answered, or fails

-----------------------------------------------------------------------------
(* Properties *)

\* Every variable keeps its type.
TypeOK ==
    /\ store.packages.isFetching \in BOOLEAN
    /\ Selected.detail \in Details \cup {NoDetail}
    /\ Selected.versions \subseteq Versions
    /\ ui.page \in {"catalog", "package", "deploy", "app"}
    /\ ui.version \in Versions \cup {0}
    /\ \A c, d \in calls : c.id = d.id /\ c.kind = d.kind => c = d

\* What is installed is what the URL of the form names, at its version.  The exceptions:
\* an answer to another page's request came since the user left the catalog; and, as for
\* the version, its details failed, or are still to come: the form waits for isFetching,
\* that the answer with the versions clears (reducers/availablepackages.ts:118).
InstallsWhatUrlSays ==
    \A c \in calls : c.kind = "install" /\ ~c.late =>
        /\ c.sent.pkg = c.asked.pkg
        /\ c.sent.version # c.asked.version => c.pending \/ c.failed

\* When all is answered, the page shows the package and the version of its URL, and the
\* values of a form that was not modified are those of this version.
PageSettles ==
    (ui.page \in {"package", "deploy"} /\ calls = {} /\ ~past.late /\ ~past.failed) =>
        /\ Selected.detail = Detail(ui.pkg, ui.version)
        /\ ~ui.valuesModified => AppValues.of = Detail(ui.pkg, ui.version)

\* The page of a package, and the form, end with the package or with an error, unless the
\* details failed: the answer with the versions clears their error as well.
Loading == /\ ui.page \in {"package", "deploy"}
           /\ ~PackageShown /\ ~FormShown /\ ~Selected.error /\ ~past.failed
PageLoads == []<>~Loading
=============================================================================

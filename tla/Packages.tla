------------------------------ MODULE Packages ------------------------------
(***************************************************************************)
(* The pages of the dashboard about packages: the catalog, the pages of a  *)
(* package, the body of its form, and the installed applications.  Each    *)
(* behaviour is one of the part it starts with; the parts share the names  *)
(* of their variables, and nothing else.                                   *)
(***************************************************************************)
EXTENDS Naturals, Sequences

CONSTANTS
    None, Unset,                                          \* that stand for nothing
    Namespaces, Filters, NoFilter, Listing,               \* of the catalog
    Pkgs, PkgVersions, Files,                             \* what the pages of a package show
    Debounced, Immediate, ArrayParam, Values,             \* of the form
    FormVersions, Defaults, Deployed, Applied,
    Apps, Here, AppVersions,                              \* what is installed
    Max                                                   \* the bounds of each part

VARIABLES part, store, ui, calls, past

Cat == INSTANCE Catalog WITH NoDetail <- None, MaxMoves <- Max.catalog.moves,
         MaxCalls <- Max.catalog.calls, MaxErrors <- Max.catalog.errors

Pkg == INSTANCE PackagePages WITH NoDetail <- None, Packages <- Pkgs, Versions <- PkgVersions,
         MaxMoves <- Max.package.moves, MaxErrors <- Max.package.errors

Vals == INSTANCE ValuesForm WITH Nothing <- None, Versions <- FormVersions, Default <- Defaults,
          MaxMoves <- Max.values.moves

Ins == INSTANCE InstalledPages WITH NoDetail <- None, Versions <- AppVersions,
         MaxMoves <- Max.installed.moves, MaxErrors <- Max.installed.errors,
         MaxSame <- Max.installed.same

ConstantsAssumption ==
    /\ Cat!ConstantsAssumption /\ Pkg!ConstantsAssumption
    /\ Vals!ConstantsAssumption /\ Ins!ConstantsAssumption

vars == <<part, store, ui, calls, past>>
On(p) == part = p /\ UNCHANGED part

Init ==
    \/ part = "catalog"   /\ Cat!Init
    \/ part = "package"   /\ Pkg!Init
    \/ part = "values"    /\ Vals!Init
    \/ part = "installed" /\ Ins!Init

Next ==
    \/ On("catalog")   /\ Cat!Next
    \/ On("package")   /\ Pkg!Next
    \/ On("values")    /\ Vals!Next
    \/ On("installed") /\ Ins!Next

\* That of Catalog and of PackagePages.
Fairness ==
    /\ WF_vars(On("catalog") /\ Cat!Render) /\ WF_vars(On("catalog") /\ Cat!Answered)
    /\ WF_vars(On("catalog") /\ Cat!TypingEnds) /\ WF_vars(On("catalog") /\ Cat!Scroll)
    /\ WF_vars(On("package") /\ (Pkg!Answered \/ Pkg!Failed))
Spec     == Init /\ [][Next]_vars
FairSpec == Spec /\ Fairness

-----------------------------------------------------------------------------

\* Every variable keeps its type, on each page.
TypeOK ==
    /\ part = "catalog"   => Cat!TypeOK
    /\ part = "package"   => Pkg!TypeOK
    /\ part = "values"    => Vals!TypeOK
    /\ part = "installed" => Ins!TypeOK

\* The catalog lists what its namespace and filters ask for, and when it says that there is
\* no more, or nothing, this is so (actions/availablepackages.ts, the effects of Catalog.tsx).
CatalogIsRight == part = "catalog" => Cat!ListsWhatIsAsked /\ Cat!FinishedIsComplete

\* The catalog, the page of a package and the form of an installation end with what was
\* asked for, or with an error: the chain of effects that fetch a page each never stops.
PagesLoad ==
    /\ <>[](part = "catalog" => Cat!Loaded)
    /\ []<>(part = "package" => ~Pkg!Loading)

\* What is deployed has every edit, each of them as it was last made, and for the rest the
\* values of the version, or of the installed application (DeploymentFormBody).
FormsSend == part = "values" => Vals!SendsEdits /\ Vals!KeepsTheRest

\* Installations, upgrades, rollbacks and deletions are sent for the package, version and
\* application that the URL names, though the store has one selection for all pages.
ActsOnUrl ==
    /\ part = "package"   => Pkg!InstallsWhatUrlSays
    /\ part = "installed" => Ins!ActsOnUrlApp

\* When all is answered a page shows what its URL names, and no page is left loading.
PagesSettle ==
    /\ part = "package"   => Pkg!PageSettles
    /\ part = "installed" => Ins!PageSettles /\ Ins!ListIsCurrent

\* "If we get any other error, we want the user to know about it" (AppView.tsx:212): the
\* error of the request for the resource references of an application.
RefsErrorShown == part = "installed" => Ins!RefsErrorShown
=============================================================================

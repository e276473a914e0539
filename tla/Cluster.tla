------------------------------ MODULE Cluster -------------------------------
(***************************************************************************)
(* The pages of the dashboard about the cluster: the resources of an       *)
(* application, package repositories and their form, operators and their   *)
(* instances, and the session; and what serves an AppRepository: its       *)
(* controller and the Jobs that bring its charts.  Each behaviour is one   *)
(* of the part it starts with; the parts share the names of their          *)
(* variables, and nothing else.  Those with theorems are instances of      *)
(* their proofs' modules, so that the theorems are at hand.                *)
(***************************************************************************)
EXTENDS Naturals

CONSTANTS
    None, NoNS, Blank, All,                                  \* that stand for nothing, or for all
    Apps, RepoNames, Instances, Existing, Ops, Wide,         \* what the pages show
    Namespaces, Global,
    Accounts, Clusters, Default, First, Access, Home,        \* of the session
    Contents, Jobs, Indexes,                                 \* of an AppRepository
    Max                                                      \* the bounds of each part

VARIABLES part, store, ui, calls, procs, past

Res == INSTANCE AppResources WITH NoApp <- None, Bare <- {}, MaxMoves <- Max.resources.moves,
         MaxChanges <- Max.resources.changes, MaxBreaks <- Max.resources.breaks

Repos == INSTANCE Repositories WITH NoRepo <- None, Names <- RepoNames,
           MaxMoves <- Max.repositories.moves, MaxErrors <- Max.repositories.errors

Form == INSTANCE RepoForm WITH NoDetail <- None, MaxFeatures <- Max.form.features,
          MaxEdits <- Max.form.edits, MaxFixes <- Max.form.fixes

Inst == INSTANCE OperatorInstances WITH NoRes <- None, MaxMoves <- Max.instances.moves,
          MaxSends <- Max.instances.sends, MaxErrors <- Max.instances.errors

Op == INSTANCE OperatorPages WITH NoOp <- None, MaxMoves <- Max.operators.moves,
        MaxErrors <- Max.operators.errors

Ses == INSTANCE SessionProofs WITH Nobody <- None, Users <- Accounts,
          MaxMoves <- Max.session.moves, MaxTurns <- Max.session.turns

Ctl == INSTANCE ControllerProofs WITH Specs <- Contents, MaxOps <- Max.controller.ops,
         MaxBreaks <- Max.controller.breaks, MaxCrashes <- Max.controller.crashes,
         MaxFaults <- Max.controller.faults

Syn == INSTANCE AssetSyncer WITH Unknown <- Blank, MaxStarts <- Max.syncer.starts,
         MaxErrors <- Max.syncer.errors, MaxCleanUps <- Max.syncer.cleanups

ConstantsAssumption ==
    /\ Ses!ConstantsAssumption /\ Ctl!NoneAssumption /\ Syn!IndexesAssumption
    /\ Res!ConstantsAssumption /\ Repos!ConstantsAssumption /\ Form!ConstantsAssumption
    /\ Inst!ConstantsAssumption /\ Op!ConstantsAssumption

vars == <<part, store, ui, calls, procs, past>>
On(p) == part = p /\ UNCHANGED <<part, procs>>

Pages ==
    \/ part = "resources"    /\ Res!Init
    \/ part = "repositories" /\ Repos!Init
    \/ part = "form"         /\ Form!Init
    \/ part = "instances"    /\ Inst!Init
    \/ part = "operators"    /\ Op!Init
    \/ part = "session"      /\ Ses!Init

Init ==
    \/ Pages /\ procs = None
    \/ part = "controller" /\ Ctl!Init /\ ui = None /\ calls = None
    \/ part = "syncer" /\ Syn!Init /\ ui = None /\ calls = None

Next ==
    \/ On("resources")    /\ Res!Next
    \/ On("repositories") /\ Repos!Next
    \/ On("form")         /\ Form!Next
    \/ On("instances")    /\ Inst!Next
    \/ On("operators")    /\ Op!Next
    \/ On("session")      /\ Ses!Next
    \/ part = "controller" /\ Ctl!Next /\ UNCHANGED <<part, ui, calls>>
    \/ part = "syncer" /\ Syn!Next /\ UNCHANGED <<part, ui, calls>>

Spec == Init /\ [][Next]_vars

-----------------------------------------------------------------------------

\* Every variable keeps its type, on each page.
TypeOK ==
    /\ part = "resources"    => Res!TypeOK
    /\ part = "repositories" => Repos!TypeOK
    /\ part = "form"         => Form!TypeOK
    /\ part = "instances"    => Inst!TypeOK
    /\ part = "operators"    => Op!TypeOK
    /\ part = "session"      => Ses!TypeOK
    /\ part = "controller"   => Ctl!TypeOK
    /\ part = "syncer"       => Syn!TypeOK

\* The page of an application shows its resources as they are, and a status that is not
\* older than they are (getResources and getInstalledPkgStatus of the actions).
ResourcesAreCurrent == part = "resources" => Res!ShownIsCurrent /\ Res!StatusIsFresh

\* An update, a deletion or a subscription is sent for what the page was opened for, in any
\* order of pages and late answers; a subscription only where there is an operator group;
\* and a form keeps what was typed when its request fails.
RequestsMatchPages ==
    /\ part = "repositories" => Repos!UpdatesWhatWasOpened
    /\ part = "instances"    => Inst!ActsOnUrlInstance /\ Inst!EditsKept
    /\ part = "operators"    => Op!SubscribesAsShown /\ Op!GroupFirst

\* The form of a repository sends what it shows, something its plugin supports, and
\* whatever the user left alone as it was (install, buildAddOrUpdateRequest).
RepoFormSends == part = "form" => Form!KeepsUntouched /\ Form!SendsWhatIsShown /\ Form!SendsSupported

\* When all is answered the lists agree with the cluster and no page is left loading.
ListsSettle ==
    /\ part = "repositories" => Repos!ListIsCurrent
    /\ part = "instances"    => Inst!PageSettles
    /\ part = "operators"    => Op!PageSettles

\* The session is that of its token, its context one that its user has, and neither the
\* login nor the context is waited for in vain (shared/Auth.ts, reducers/cluster.ts).
SessionHolds == part = "session" => Ses!SessionHolds

\* When the controller is at rest each AppRepository has its CronJob and Job, and of one
\* that is gone nothing remains, but for what that module excuses.
ControllerConverges == part = "controller" => Ctl!ControllerConverges

\* When no Job runs the charts in the database are those of the stored checksum, but for
\* what that module excuses.
ChecksumTells == part = "syncer" => Syn!ChecksumTells

\* clearClusters "returns to the initial state" (cluster.test.ts:113), where the current
\* cluster is one of the clusters.
CurrentClusterKnown == part = "session" => Ses!CurrentClusterKnown
=============================================================================

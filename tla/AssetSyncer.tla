----------------------------- MODULE AssetSyncer -----------------------------
(***************************************************************************)
(* The asset-syncer: Jobs that bring the charts of a Helm repository, and  *)
(* the files of each of their versions, into the database, and one that    *)
(* takes them away.  Nothing keeps two Jobs of a repository apart; a Job   *)
(* that dies is started again.  The checksum of a repository's index is    *)
(* stored last, and tells the next Job whether there is anything to do.    *)
(*                                                                         *)
(* A chart is a number, in the order of the IDs.  An index gives the       *)
(* versions of each; the files of a version are the same in all.           *)
(***************************************************************************)
EXTENDS Naturals, Sequences

CONSTANTS None, Unknown,
          Jobs,
          Indexes,   \* what the repository has, one after the other
          MaxStarts, \* bound: Jobs started, again or for the first time
          MaxErrors, \* bound: files that cannot be had
          MaxCleanUps\* bound: deletions of the repository

VARIABLES
    store, \* the repository's index, and the tables of the database
    procs, \* the Jobs
    past   \* bounds, and whether something happened that nothing repairs

vars == <<store, procs, past>>

Charts   == DOMAIN Indexes[1]
Versions == UNION {Indexes[i][c] : i \in DOMAIN Indexes, c \in Charts}

NoCharts == [c \in Charts |-> {}]

\* Each index has charts, each chart a last version, and no index comes back; the two
\* values that are no checksum are no index.
IndexesAssumption ==
    /\ Indexes \in Seq([Charts -> SUBSET Nat]) /\ Indexes # <<>>
    /\ \A i, j \in DOMAIN Indexes : Indexes[i] = Indexes[j] => i = j
    /\ \A i \in DOMAIN Indexes :
          /\ Indexes[i] # NoCharts /\ Indexes[i] \notin {None, Unknown}
          /\ \A c \in Charts : Indexes[i][c] # {} =>
                \E v \in Indexes[i][c] : \A w \in Indexes[i][c] : w <= v
    /\ None # Unknown

Listed(charts)    == {c \in Charts : charts[c] # {}}
FilesOf(charts)   == {f \in Charts \X Versions : f[2] \in charts[f[1]]}

\* ChartsFromIndex; a shallow synchronization has the last version alone.
ChartsFromIndex(index, fetchLatestOnly) ==
    [c \in Charts |-> {v \in index[c] : fetchLatestOnly => \A w \in index[c] : w <= v}]

Ended == [pc |-> "ended", index |-> NoCharts, passes |-> <<>>, todo |-> {}, gone |-> {}, imports |-> {}]

Init ==
    /\ store = [index |-> Indexes[1], next |-> 2, checksum |-> None, charts |-> NoCharts, files |-> {}]
    /\ procs = [j \in Jobs |-> Ended]
    /\ past = [starts |-> 0, errors |-> 0, cleanups |-> 0, together |-> FALSE, excused |-> FALSE]

Running(j) == procs[j].pc # "ended"
Others(j)  == {k \in Jobs \ {j} : Running(k)}
Goes(j, pc)       == procs' = [procs EXCEPT ![j].pc = pc]
Excuse(h, gap)    == [h EXCEPT !.excused = @ \/ gap]

-----------------------------------------------------------------------------
Publish ==
    /\ store.next <= Len(Indexes)
    /\ store' = [store EXCEPT !.index = Indexes[store.next], !.next = @ + 1]
    /\ UNCHANGED <<procs, past>>

\* The index is fetched.
Start(j) ==
    /\ ~Running(j) \/ procs[j].pc = "dead"
    /\ past.starts < MaxStarts \/ procs[j].pc = "dead"
    /\ procs' = [procs EXCEPT ![j] = [Ended EXCEPT !.pc = "fetched", !.index = store.index]]
    /\ past' = Excuse([past EXCEPT !.starts = IF Running(j) THEN @ ELSE @ + 1,
                                   !.together = @ \/ Others(j) # {}],
                      \E k \in Others(j) : procs[k].pc = "dead" \/ procs[k].index # store.index)
    /\ UNCHANGED store

\* Its checksum is compared with the last: none, or one that EnsureRepoExists left empty,
\* makes for a shallow synchronization before the full one.
LastChecksum(j) ==
    /\ procs[j].pc = "fetched"
    /\ procs' = [procs EXCEPT ![j] =
                    IF store.checksum = @.index THEN Ended
                    ELSE [@ EXCEPT !.pc = "list",
                             !.passes = IF store.checksum \in {None, Unknown} THEN <<TRUE, FALSE>> ELSE <<FALSE>>]]
    /\ UNCHANGED <<store, past>>

\* (mutant) The checksum is stored before what it stands for.
ListAndCheck(j) ==
    /\ procs[j].pc = "list"
    /\ LET listed == Listed(procs[j].index) IN
       procs' = [procs EXCEPT ![j].pc = "sync", ![j].todo = listed,
                    ![j].gone = IF listed = {} THEN {} ELSE Listed(store.charts) \ listed]
    /\ store' = [store EXCEPT !.checksum = procs[j].index] /\ UNCHANGED past

\* What the database has and the index has not is to go.
ListCharts(j) ==
    /\ procs[j].pc = "list"
    /\ LET listed == Listed(procs[j].index) IN
       procs' = [procs EXCEPT ![j].pc = "sync", ![j].todo = listed,
                    ![j].gone = IF listed = {} THEN {} ELSE Listed(store.charts) \ listed]
    /\ UNCHANGED <<store, past>>

Pass(j) == ChartsFromIndex(procs[j].index, Head(procs[j].passes))

\* The charts come in the order of their IDs.
Sync(j) ==
    /\ procs[j].pc = "sync"
    /\ \E c \in procs[j].todo :
          /\ \A d \in procs[j].todo : c <= d
          /\ store' = [store EXCEPT !.charts[c] = Pass(j)[c],
                          !.checksum = IF @ = None THEN Unknown ELSE @]
          /\ procs' = [procs EXCEPT ![j].todo = @ \ {c}]
    /\ UNCHANGED past

\* The files are fetched once no more charts come, beside what follows.
AllSynced(j) ==
    /\ procs[j].pc = "sync" /\ procs[j].todo = {}
    /\ procs' = [procs EXCEPT ![j].pc = "remove", ![j].imports = FilesOf(Pass(j))]
    /\ UNCHANGED <<store, past>>

\* A file is kept only beside its chart; the checksum does not wait for one that failed.
ImportFiles(j) ==
    \E f \in procs[j].imports :
       /\ procs' = [procs EXCEPT ![j].imports = @ \ {f}]
       /\ \/ /\ store' = [store EXCEPT !.files = IF store.charts[f[1]] = {} THEN @ ELSE @ \cup {f}]
             /\ UNCHANGED past
          \/ /\ f \notin store.files /\ past.errors < MaxErrors
             /\ past' = Excuse([past EXCEPT !.errors = @ + 1], TRUE)
             /\ UNCHANGED store

\* With a chart go its files.
Without(gone) == [store EXCEPT
    !.charts = [c \in Charts |-> IF c \in gone THEN {} ELSE @[c]],
    !.files  = {f \in @ : f[1] \notin gone}]

RemoveMissingCharts(j) ==
    /\ procs[j].pc = "remove"
    /\ store' = Without(procs[j].gone) /\ Goes(j, "wait") /\ UNCHANGED past

FilesImported(j) ==
    /\ procs[j].pc = "wait" /\ procs[j].imports = {}
    /\ IF Len(procs[j].passes) > 1
       THEN procs' = [procs EXCEPT ![j].pc = "list", ![j].passes = Tail(@)]
       ELSE Goes(j, "check")
    /\ UNCHANGED <<store, past>>

UpdateLastCheck(j) ==
    /\ procs[j].pc = "check"
    /\ store' = [store EXCEPT !.checksum = procs[j].index]
    /\ procs' = [procs EXCEPT ![j] = Ended] /\ UNCHANGED past

\* By an error, or with its pod; it starts again with nothing but the database.
Die(j) ==
    /\ Running(j) /\ procs[j].pc # "dead" /\ past.starts < MaxStarts
    /\ procs' = [procs EXCEPT ![j] = [Ended EXCEPT !.pc = "dead"]]
    /\ past' = Excuse([past EXCEPT !.starts = @ + 1], past.together)
    /\ UNCHANGED store

\* The deletion of the repository's row takes all with it.
CleanUp ==
    /\ past.cleanups < MaxCleanUps
    /\ store' = [Without(Charts) EXCEPT !.checksum = None]
    /\ past' = Excuse([past EXCEPT !.cleanups = @ + 1], \E j \in Jobs : Running(j))
    /\ UNCHANGED procs

Next ==
    \/ Publish \/ CleanUp
    \/ \E j \in Jobs :
          \/ Start(j) \/ LastChecksum(j) \/ ListCharts(j) \/ Sync(j) \/ AllSynced(j) \/ ImportFiles(j)
          \/ RemoveMissingCharts(j) \/ FilesImported(j) \/ UpdateLastCheck(j) \/ Die(j)

Spec == Init /\ [][Next]_vars
-----------------------------------------------------------------------------
(* Properties *)

\* Every variable keeps its type.
TypeOK ==
    /\ store.checksum \in {None, Unknown} \cup {Indexes[i] : i \in DOMAIN Indexes}
    /\ store.charts \in [Charts -> SUBSET Versions] /\ store.files \subseteq Charts \X Versions
    /\ \A j \in Jobs :
          /\ procs[j].pc \in {"fetched", "list", "sync", "remove", "wait", "check", "dead", "ended"}
          /\ procs[j].index \in [Charts -> SUBSET Versions] /\ Len(procs[j].passes) <= 2
          /\ procs[j].todo \cup procs[j].gone \subseteq Charts
          /\ procs[j].imports \subseteq Charts \X Versions

\* When no Job runs, the database has what the checksum of the repository stands for: the
\* charts of that index and no other, all versions of them, and their files; wherever a Job
\* died, and whatever the repository became meanwhile (Sync of sync.go).  It
\* fails after what nothing repairs, which is excused:
\*   - files that could not be had: the checksum is stored without them;
\*   - Jobs that were at it together and fetched different indexes, or of which one died:
\*     the first checksum keeps the other, started again, from doing anything;
\*   - a deletion while a Job ran.
\* An index that becomes empty, or that is again as it was before, is in no instance.
ChecksumTells ==
    (\A j \in Jobs : ~Running(j)) /\ ~past.excused =>
        /\ store.checksum # Unknown
        /\ store.checksum # None =>
              store.charts = store.checksum /\ FilesOf(store.checksum) \subseteq store.files
=============================================================================

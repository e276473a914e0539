-------------------------- MODULE AppRepoController --------------------------
(***************************************************************************)
(* The apprepository-controller: from an AppRepository it makes a CronJob  *)
(* that synchronizes the repository, a Job for a first time, and, at the   *)
(* end, a Job that deletes its charts from the database.  The objects come *)
(* from informers, whose caches lag behind the API server; a queue, whose  *)
(* keys are never tried again, feeds the workers, of which one at a time   *)
(* is on a key; a deletion is handled by the informer's goroutine.         *)
(*                                                                         *)
(* There is one name, under which an AppRepository is created, changed and *)
(* deleted any number of times.  Each write makes a new version of the     *)
(* object; a number stands for a version, as resourceVersion does.  The    *)
(* copies in memory are shared, and changed in place.                      *)
(***************************************************************************)
EXTENDS Naturals, Sequences, FiniteSets

CONSTANTS None,
          Specs,     \* contents of an AppRepository's spec
          MaxOps,    \* bound: what users do
          MaxBreaks, \* bound: watches that break off, and list again
          MaxCrashes,\* bound: restarts of the controller
          MaxFaults  \* bound: calls of the API server that it refuses

VARIABLES
    store, \* the API server: versions of the object, and the CronJob
    procs, \* the controller: caches, queue, worker, and the informer's handler
    past   \* bounds and history

vars == <<store, procs, past>>

\* What stands for no object is none.
NoneAssumption ==
    None \notin [gen : Nat, spec : Specs, deleting : BOOLEAN, fin : BOOLEAN] \cup [gen : Nat, spec : Specs]

Version(gen, spec, deleting, fin) == [gen |-> gen, spec |-> spec, deleting |-> deleting, fin |-> fin]

Idle == [pc |-> "idle", obj |-> 1, found |-> FALSE]

Init ==
    /\ \E own \in BOOLEAN :   \* the AppRepository is in the namespace of Kubeapps
          store = [own |-> own, versions |-> <<None>>, cron |-> None]
    /\ procs = [cached |-> 1, notes |-> <<>>, touched |-> {}, cron |-> FALSE, cronNews |-> <<>>,
                lost |-> 0, delayed |-> FALSE, queued |-> FALSE, worker |-> Idle, handler |-> Idle]
    /\ past = [ops |-> 0, breaks |-> 0, crashes |-> 0, faults |-> 0, gens |-> 0, synced |-> {}, cleaned |-> {},
               excused |-> FALSE]

Latest     == Len(store.versions)
Current    == store.versions[Latest]
Write(v)   == store' = [store EXCEPT !.versions = Append(@, v)]

\* containsFinalizer of the copy in memory.
HasFinalizer(i) == store.versions[i].fin # (i \in procs.touched)

\* AddRateLimited
enqueueAppRepo(p) == [p EXCEPT !.delayed = TRUE]

-----------------------------------------------------------------------------
(* What happens in the cluster *)

Op == past.ops < MaxOps
Did(h) == past' = [h EXCEPT !.ops = @ + 1]

Create(s) ==
    /\ Op /\ Current = None
    /\ Write(Version(past.gens + 1, s, FALSE, FALSE))
    /\ Did([past EXCEPT !.gens = @ + 1]) /\ UNCHANGED procs

Change(s) ==
    /\ Op /\ Current # None /\ Current.spec # s
    /\ Write([Current EXCEPT !.spec = s])
    /\ Did(past) /\ UNCHANGED procs

\* An object without finalizers goes at once.
Delete ==
    /\ Op /\ Current # None /\ ~Current.deleting
    /\ IF Current.fin THEN Write([Current EXCEPT !.deleting = TRUE]) ELSE Write(None)
    /\ Did([past EXCEPT !.excused = @ \/ ~Current.fin]) /\ UNCHANGED procs

\* What the API server tells of the CronJob; only its end matters.
cronWritten(c) == store' = [store EXCEPT !.cron = c]
NewsOf(p, c)   == IF (store.cron = None) = (c = None) THEN p
                  ELSE [p EXCEPT !.cronNews = Append(@, c # None)]

DeleteCronJob ==
    /\ Op /\ store.cron # None
    /\ cronWritten(None) /\ procs' = NewsOf(procs, None)
    /\ Did([past EXCEPT !.excused = @ \/ ~store.own])

\* Garbage collection of what an object owned that is no more.
Owned    == Current # None /\ Current.gen = store.cron.gen
Orphaned == store.own /\ store.cron # None /\ ~Owned

Collect ==
    /\ Orphaned
    /\ cronWritten(None) /\ procs' = NewsOf(procs, None) /\ UNCHANGED past

-----------------------------------------------------------------------------
(* The informers *)

specDiffers(old, new) == old.spec # new.spec

\* What a break hides: it was changed and changed back, or deleted and created again.
LooksUnchanged(i, j) ==
    /\ store.versions[i] # None /\ store.versions[j] # None
    /\ ~specDiffers(store.versions[i], store.versions[j])

\* The next version, or after a break the last, goes to the cache and to the handler.
Deliver ==
    /\ procs.cached < Latest
    /\ \E i \in {procs.cached + 1} \cup (IF past.breaks < MaxBreaks THEN {Latest} ELSE {}) :
          /\ procs' = [procs EXCEPT !.cached = i, !.notes = Append(@, [old |-> procs.cached, new |-> i])]
          /\ past' = IF i = procs.cached + 1 THEN past
                     ELSE [past EXCEPT !.breaks = @ + 1, !.excused = @ \/ LooksUnchanged(procs.cached, i)]
    /\ UNCHANGED store

\* The controller starts again: what there is comes as new.
Restart ==
    /\ past.crashes < MaxCrashes /\ past' = [past EXCEPT !.crashes = @ + 1]
    /\ procs' = [procs EXCEPT
                    !.cached = Latest, !.touched = {}, !.cron = store.cron # None, !.cronNews = <<>>,
                    !.notes = IF Current = None THEN <<>> ELSE <<[old |-> 1, new |-> Latest]>>,
                    !.lost = 0, !.delayed = FALSE, !.queued = FALSE, !.worker = Idle, !.handler = Idle]
    /\ UNCHANGED store

\* AddFunc, UpdateFunc and DeleteFunc, as far as they do anything: an object comes
\* with its deletion when its finalizers are gone.
Notify ==
    /\ procs.handler.pc = "idle" /\ procs.notes # <<>>
    /\ LET note == Head(procs.notes)
           old  == store.versions[note.old]
           new  == store.versions[note.new]
           p    == [procs EXCEPT !.notes = Tail(@)]
       IN procs' = IF new = None THEN p
                   ELSE IF old = None \/ specDiffers(old, new) THEN enqueueAppRepo(p)
                   ELSE IF new.deleting /\ HasFinalizer(note.new)
                        THEN [p EXCEPT !.handler = [Idle EXCEPT !.pc = "clean", !.obj = note.new]]
                   ELSE p
    /\ UNCHANGED <<store, past>>

DeliverCronJob ==
    /\ procs.cronNews # <<>>
    /\ procs' = [procs EXCEPT !.cronNews = Tail(@), !.cron = Head(procs.cronNews),
                              !.lost = IF store.own /\ ~Head(procs.cronNews) THEN @ + 1 ELSE @]
    /\ UNCHANGED <<store, past>>

\* A CronJob in another namespace than its AppRepository has no owner.
handleAppRepoOwnedObject ==
    /\ procs.lost > 0
    /\ LET p    == [procs EXCEPT !.lost = @ - 1]
           repo == store.versions[procs.cached]
       IN procs' = IF repo # None /\ ~repo.deleting THEN enqueueAppRepo(p) ELSE p
    /\ UNCHANGED <<store, past>>

-----------------------------------------------------------------------------
(* The worker: processNextWorkItem and syncHandler.  An error ends the work on a      *)
(* key, and is logged: "requeue" it is what comments say.                              *)

DelayElapses ==
    /\ procs.delayed
    /\ procs' = [procs EXCEPT !.delayed = FALSE, !.queued = TRUE]
    /\ UNCHANGED <<store, past>>

\* Both listers are read; an AppRepository that is not there is done with.
GetKey ==
    /\ procs.worker.pc = "idle" /\ procs.queued
    /\ procs' = [procs EXCEPT !.queued = FALSE,
                    !.worker = IF store.versions[procs.cached] = None THEN Idle
                               ELSE [pc |-> "cronjob", obj |-> procs.cached, found |-> procs.cron]]
    /\ UNCHANGED <<store, past>>

At(who, pc)       == procs[who].pc = pc
Object(who)       == store.versions[procs[who].obj]
Goes(p, who, pc)  == [p EXCEPT ![who] = IF pc = "idle" THEN Idle ELSE [@ EXCEPT !.pc = pc]]

Refuses(who, at, next) ==
    /\ At(who, at) /\ past.faults < MaxFaults
    /\ procs' = [Goes(procs, who, next) EXCEPT
                    !.touched = IF at = "unfinalize" THEN @ \cup {procs[who].obj} ELSE @]
    /\ past' = [past EXCEPT !.faults = @ + 1, !.excused = TRUE]
    /\ UNCHANGED store

\* ensureCronJob creates what the lister did not have, and updates what it had.
WriteCronJob ==
    /\ At("worker", "cronjob")
    /\ LET repo == Object("worker")
           cron == [gen |-> repo.gen, spec |-> repo.spec]
       IN IF procs.worker.found = (store.cron # None)
          THEN cronWritten(cron) /\ procs' = Goes(NewsOf(procs, cron), "worker", "job")
          ELSE procs' = Goes(procs, "worker", "idle") /\ UNCHANGED store
    /\ past' = [past EXCEPT !.excused = @ \/ procs.worker.found # (store.cron # None)
                                          \/ Object("worker").gen \in past.cleaned]

\* The first, or one more, synchronization; then the finalizer is looked at.
CreateJob ==
    /\ At("worker", "job")
    /\ LET repo == Object("worker")
           i    == procs.worker.obj
           next == IF repo.deleting = HasFinalizer(i)
                   THEN IF repo.deleting THEN "clean" ELSE "finalize"
                   ELSE "idle"
       IN /\ procs' = [Goes(procs, "worker", next) EXCEPT
                          !.touched = IF next = "finalize" THEN @ \cup {i} ELSE @]
          /\ past' = [past EXCEPT !.synced = @ \cup {<<repo.gen, repo.spec>>},
                                  !.excused = @ \/ repo.gen \in past.cleaned]
    /\ UNCHANGED store

\* Only the latest version can be written over.
AddFinalizer ==
    /\ At("worker", "finalize")
    /\ IF procs.worker.obj = Latest THEN Write([Object("worker") EXCEPT !.fin = TRUE])
       ELSE UNCHANGED store
    /\ procs' = Goes(procs, "worker", "idle") /\ UNCHANGED past

-----------------------------------------------------------------------------
(* handleCleanupFinalizer, of the worker or of the informer's handler: a failed       *)
(* clean-up does not keep the finalizer.                                              *)

CreateCleanupJob(who) ==
    /\ At(who, "clean")
    /\ procs' = Goes(procs, who, "cron")
    /\ past' = [past EXCEPT !.cleaned = @ \cup {Object(who).gen}]
    /\ UNCHANGED store

\* (mutant) It is looked for where the AppRepository is; that there is none is no error.
CleanUpNextToIt(who) ==
    /\ At(who, "cron")
    /\ procs' = Goes(IF store.own THEN NewsOf(procs, None) ELSE procs, who, "unfinalize")
    /\ IF store.own THEN cronWritten(None) ELSE UNCHANGED store
    /\ UNCHANGED past

CleanUpCronJob(who) ==
    /\ At(who, "cron")
    /\ cronWritten(None) /\ procs' = Goes(NewsOf(procs, None), who, "unfinalize")
    /\ UNCHANGED past

\* Not if the other has removed it from the copy that both have; an object that is
\* being deleted goes with its last finalizer.
RemoveFinalizer(who) ==
    /\ At(who, "unfinalize")
    /\ LET i == procs[who].obj IN
       /\ IF HasFinalizer(i) /\ i = Latest THEN Write(None) ELSE UNCHANGED store
       /\ procs' = [Goes(procs, who, "idle") EXCEPT
                       !.touched = IF HasFinalizer(i) THEN @ \cup {i} ELSE @]
    /\ UNCHANGED past

-----------------------------------------------------------------------------
Users == (\E s \in Specs : Create(s) \/ Change(s)) \/ Delete \/ DeleteCronJob
Informers == Deliver \/ Restart \/ Notify \/ DeliverCronJob \/ handleAppRepoOwnedObject
Worker == DelayElapses \/ GetKey \/ WriteCronJob \/ CreateJob \/ AddFinalizer
Cleaner(who) == CreateCleanupJob(who) \/ CleanUpCronJob(who) \/ RemoveFinalizer(who)
Refusal ==
    \/ \E at \in {"cronjob", "job", "finalize"} : Refuses("worker", at, "idle")
    \/ \E who \in {"worker", "handler"} :
          Refuses(who, "clean", "unfinalize") \/ Refuses(who, "cron", "unfinalize")
          \/ Refuses(who, "unfinalize", "idle")

Next == Users \/ Collect \/ Informers \/ Worker \/ Cleaner("worker") \/ Cleaner("handler") \/ Refusal

Spec == Init /\ [][Next]_vars
-----------------------------------------------------------------------------
(* Properties *)

Threads == [pc : {"idle", "cronjob", "job", "finalize", "clean", "cron", "unfinalize"},
            obj : 1..Latest, found : BOOLEAN]

\* Every variable keeps its type.
TypeOK ==
    /\ store.own \in BOOLEAN
    /\ \A i \in 1..Latest : store.versions[i] = None \/
          store.versions[i] \in [gen : 1..past.gens, spec : Specs, deleting : BOOLEAN, fin : BOOLEAN]
    /\ store.cron = None \/ store.cron \in [gen : 1..past.gens, spec : Specs]
    /\ procs.cached \in 1..Latest /\ procs.touched \subseteq 1..Latest
    /\ procs.worker \in Threads /\ procs.handler \in Threads /\ procs.lost \in Nat
    /\ past.synced \subseteq (1..past.gens) \X Specs /\ past.cleaned \subseteq 1..past.gens

Quiet ==
    /\ procs.cached = Latest /\ procs.notes = <<>> /\ procs.cronNews = <<>> /\ procs.lost = 0
    /\ ~procs.delayed /\ ~procs.queued
    /\ procs.worker = Idle /\ procs.handler = Idle /\ ~Orphaned

\* When the controller has nothing left to do, an AppRepository has its finalizer, the
\* CronJob of its spec, and had a Job for that spec; and of one that is gone there is no
\* CronJob, and what was synchronized was cleaned up after it (syncHandler,
\* handleCleanupFinalizer).  It fails after what nothing repairs, which is excused:
\*   - a call that was refused, or for which the cached CronJobs were out of date: the key
\*     is not queued again (processNextWorkItem);
\*   - a deletion before the finalizer was there;
\*   - a CronJob that a user deletes, and that has no owner;
\*   - a worker on an AppRepository whose clean-up has begun: only workers take turns;
\*   - a change that the informer never saw.
ControllerConverges ==
    Quiet /\ ~past.excused =>
        IF Current = None
        THEN store.cron = None /\ \A s \in past.synced : s[1] \in past.cleaned
        ELSE /\ ~Current.deleting /\ Current.fin
             /\ store.cron = [gen |-> Current.gen, spec |-> Current.spec]
             /\ <<Current.gen, Current.spec>> \in past.synced
=============================================================================

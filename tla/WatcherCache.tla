----------------------------- MODULE WatcherCache -----------------------------
(***************************************************************************)
(* The flux plugin's cache of repositories (cache/watcher_cache.go with    *)
(* the repository hooks of repo.go and oci_repo.go).                       *)
(*                                                                         *)
(* A watch on the HelmRepository objects of the cluster feeds the work     *)
(* queue; one worker takes a key, reads the object and brings redis in     *)
(* line; readers take the read half of a lock, look in redis, and on a     *)
(* miss wait for the worker; when the watch breaks off, a resync takes the *)
(* write half, flushes redis, lists the cluster and has every key          *)
(* synchronized before it watches again.  A resync that fails twice        *)
(* panics, and the process restarts with the redis it left.                *)
(*                                                                         *)
(* A repository has one of a few contents, named by its digest.  That of   *)
(* an HTTP repository is in the object's status, so that a change of it is *)
(* an event; that of an OCI repository is in a registry that nobody        *)
(* watches, so that each read of it asks for a refresh.                    *)
(***************************************************************************)
EXTENDS Naturals, Sequences, FiniteSets

CONSTANTS Keys,        \* the repositories
          OciKeys,     \* those of OCI type
          Digests,     \* contents a repository can have
          NoKey, NoDigest,
          Worker,      \* the goroutine of runWorker
          Readers,     \* goroutines that serve requests
          MaxRetries,  \* maxWatcherCacheRetries
          MaxAttempts, \* maxWatcherCacheResyncBackoff
          MaxChanges,  \* bound: changes in the cluster or the registries
          MaxResyncs,  \* bound: watches that break off
          MaxFaults,   \* bound: failed calls to the cluster, redis, or the index
          MaxCrashes,  \* bound: crashes, beside panics
          MaxEvents    \* bound: all of these together

ASSUME KeysAssumption   == OciKeys \subseteq Keys /\ NoKey \notin Keys /\ NoDigest \notin Digests
ASSUME BoundsAssumption ==
    /\ {MaxRetries, MaxChanges, MaxResyncs, MaxFaults, MaxCrashes, MaxEvents} \subseteq Nat
    /\ MaxAttempts \in Nat \ {0}

\* The goroutine of populateWith that waits for a key is named by the key.
Threads == {Worker} \cup Readers \cup Keys
Q == INSTANCE RateLimitingQueue WITH Items <- Keys

VARIABLES
    cluster, \* each repository: its status and its digest
    events,  \* events[k]: how many events of k the watch has not delivered
    redis,   \* each repository's entry
    q,       \* the work queue
    lock,    \* the RWMutex: its readers, and how far its writer is
    pc, item, obj, old, \* the worker: where it is, its key, the object, the old entry
    rpc, rkey, rval,    \* each reader: where it is, its key, the value it has
    spc,     \* where the goroutine of syncAndStartWatchLoop is
    bootstrap, attempt, \* is this the first resync, and which of its attempts
    pop,     \* pop[k]: how far populateWith is with k
    changes, resyncs, faults, crashes, \* how much of the bounds is used
    (* History variables, read by no guard: *)
    excused, \* keys whose last synchronization a fault spoilt, or that were evicted
    put,     \* keys that the worker put in redis since it was last flushed
    tainted, \* keys, gone by the last list, that were put or that the worker had then
    unlucky, \* readers whose key, while they waited, was not ready or met a fault
    dropped, \* readers that were waiting when a resync emptied the queue
    past     \* past[k]: the contents k had before the present one

worker  == <<pc, item, obj, old>>
readers == <<rpc, rkey, rval>>
resync  == <<spc, bootstrap, attempt, pop, resyncs>>
world   == <<cluster, events, changes, past>>
history == <<excused, put, tainted, unlucky, dropped>>
vars == <<world, redis, q, lock, worker, readers, resync, faults, crashes, history>>

Objects == [status : {"absent", "pending", "ready"}, digest : Digests]
Entries == [checksum : Digests \cup {NoDigest}, charts : Digests \cup {NoDigest}]
NoEntry == [checksum |-> NoDigest, charts |-> NoDigest]
NoObject == [status |-> "absent", digest |-> NoDigest]

\* What a process starts with.
Boot ==
    [q    |-> Q!New,
     lock |-> [readers |-> {}, writer |-> "none"],
     rpc  |-> [r \in Readers |-> "idle"],
     rkey |-> [r \in Readers |-> NoKey],
     rval |-> [r \in Readers |-> NoEntry],
     pop  |-> [k \in Keys |-> "done"]]

Init ==
    /\ cluster \in [Keys -> Objects]
    /\ events = [k \in Keys |-> 0]
    /\ redis = [k \in Keys |-> NoEntry]
    /\ q = Boot.q /\ lock = Boot.lock
    /\ pc = "get" /\ item = NoKey /\ obj = NoObject /\ old = NoEntry
    /\ rpc = Boot.rpc /\ rkey = Boot.rkey /\ rval = Boot.rval
    /\ spc = "boot" /\ bootstrap = TRUE /\ attempt = 1 /\ pop = Boot.pop
    /\ changes = 0 /\ resyncs = 0 /\ faults = 0 /\ crashes = 0
    /\ excused = {} /\ put = {} /\ tainted = {} /\ unlucky = {} /\ dropped = {}
    /\ past = [k \in Keys |-> {}]

-----------------------------------------------------------------------------
InBounds == changes + resyncs + faults + crashes < MaxEvents
Fault == InBounds /\ faults < MaxFaults /\ faults' = faults + 1
NoFault == UNCHANGED faults
WorkerGoes(from, to)    == pc = from /\ pc' = to
ReaderGoes(r, from, to) == rpc[r] = from /\ rpc' = [rpc EXCEPT ![r] = to]
ResyncGoes(from, to)    == spc = from /\ spc' = to

Busy == {"force", "add", "wait", "poll", "fetch"}
Disappoint(k) == unlucky' = unlucky \cup {r \in Readers : rkey[r] = k /\ rpc[r] \in Busy}

-----------------------------------------------------------------------------
(* The cluster and the registries *)

Become(k, d) ==
    past' = IF d = cluster[k].digest THEN past
            ELSE [past EXCEPT ![k] = @ \cup {cluster[k].digest}]

\* A repository is created, becomes ready or is no longer so, is deleted.
StatusChanges(k, s, d) ==
    /\ InBounds /\ changes < MaxChanges /\ changes' = changes + 1
    /\ <<cluster[k].status, s>> \in
           {<<"absent", "pending">>, <<"pending", "ready">>, <<"ready", "pending">>,
            <<"pending", "absent">>, <<"ready", "absent">>}
    /\ s # "ready" => d = cluster[k].digest
    /\ cluster' = [cluster EXCEPT ![k] = [status |-> s, digest |-> d]]
    /\ Become(k, d)
    /\ events' = [events EXCEPT ![k] = @ + 1]
    /\ IF s = "ready" THEN UNCHANGED unlucky ELSE Disappoint(k)
    /\ UNCHANGED <<redis, q, lock, worker, readers, resync, faults, crashes,
                   excused, put, tainted, dropped>>

\* A ready repository gets other charts.
ContentChanges(k, d) ==
    /\ InBounds /\ changes < MaxChanges /\ changes' = changes + 1
    /\ cluster[k].status = "ready" /\ d # cluster[k].digest
    /\ cluster' = [cluster EXCEPT ![k].digest = d]
    /\ Become(k, d)
    /\ events' = IF k \in OciKeys THEN events ELSE [events EXCEPT ![k] = @ + 1]
    /\ UNCHANGED <<redis, q, lock, worker, readers, resync, faults, crashes, history>>

\* Redis may evict an entry when it is short of memory.
Evict(k) ==
    /\ Fault
    /\ redis[k] # NoEntry
    /\ redis' = [redis EXCEPT ![k] = NoEntry]
    /\ excused' = excused \cup {k}
    /\ Disappoint(k)
    /\ UNCHANGED <<world, q, lock, worker, readers, resync, crashes, put, tainted, dropped>>

-----------------------------------------------------------------------------
(* The watch: processOneEvent *)

\* (mutant) An event of a repository that the worker is on is taken for dealt with.
DeliverEventIfIdle(k) ==
    /\ spc = "watching" /\ events[k] > 0
    /\ events' = [events EXCEPT ![k] = @ - 1]
    /\ q' = IF Q!IsProcessing(q, k) THEN q ELSE Q!AddRateLimited(q, k)
    /\ UNCHANGED <<cluster, changes, past, redis, lock, worker, readers, resync, faults, crashes, history>>

DeliverEvent(k) ==
    /\ spc = "watching" /\ events[k] > 0
    /\ events' = [events EXCEPT ![k] = @ - 1]
    /\ q' = Q!AddRateLimited(q, k)
    /\ UNCHANGED <<cluster, changes, past, redis, lock, worker, readers, resync, faults, crashes, history>>

DelayElapses(k) ==
    /\ k \in q.delayed
    /\ q' = Q!DelayElapses(q, k)
    /\ UNCHANGED <<world, redis, lock, worker, readers, resync, faults, crashes, history>>

-----------------------------------------------------------------------------
(* The worker: processNextWorkItem and syncHandler.  It holds no lock. *)

GetParks ==
    /\ pc = "get" /\ Worker \notin q.waiting
    /\ Q!GetParks(q)
    /\ q' = Q!Wait(q, Worker)
    /\ UNCHANGED <<world, redis, lock, worker, readers, resync, faults, crashes, history>>

GetItem ==
    /\ Worker \notin q.waiting /\ q.queue # <<>>
    /\ WorkerGoes("get", "check")
    /\ item' = Head(q.queue)
    /\ q' = Q!Get(q)
    /\ UNCHANGED <<world, redis, lock, obj, old, readers, resync, faults, crashes, history>>

Leave == pc' = "get" /\ item' = NoKey /\ obj' = NoObject /\ old' = NoEntry

\* A key that a resync dropped from the queue in the meantime is left alone.
CheckProcessing ==
    /\ pc = "check"
    /\ IF Q!IsProcessing(q, item)
       THEN WorkerGoes("check", "read") /\ UNCHANGED <<item, obj, old>>
       ELSE Leave
    /\ UNCHANGED <<world, redis, q, lock, readers, resync, faults, crashes, history>>

Fails == Fault /\ pc' = "failed"

\* The object as it is now, whatever the event said.
ReadObject ==
    /\ pc = "read"
    /\ \/ /\ NoFault
          /\ obj' = cluster[item]
          /\ pc' = IF cluster[item].status = "absent" THEN "delete" ELSE "readOld"
       \/ Fails /\ UNCHANGED obj
    /\ UNCHANGED <<world, redis, q, lock, item, old, readers, resync, crashes,
                   excused, put, tainted, unlucky, dropped>>

\* onAddOrModify: the entry that is there decides between onAddRepo and
\* onModifyRepo.  Both skip a repository that is not ready, and the second an HTTP
\* repository whose checksum is the entry's.
Unchanged(e) == e # NoEntry /\ item \notin OciKeys /\ e.checksum = obj.digest
ReadOld ==
    /\ pc = "readOld"
    /\ \/ /\ NoFault
          /\ old' = redis[item]
          /\ pc' = IF obj.status # "ready" \/ Unchanged(redis[item]) THEN "forget" ELSE "index"
       \/ Fails /\ UNCHANGED old
    /\ UNCHANGED <<world, redis, q, lock, item, obj, readers, resync, crashes,
                   excused, put, tainted, unlucky, dropped>>

\* The index is fetched from the source controller, or the tags from the
\* registry, as they are by now; a registry's checksum is computed from its tags.
\* The new value is kept in obj.
IndexRepo ==
    /\ pc = "index"
    /\ \/ /\ NoFault
          /\ IF item \in OciKeys
             THEN /\ obj' = [obj EXCEPT !.digest = cluster[item].digest]
                  /\ old' = [old EXCEPT !.charts = cluster[item].digest]
                  /\ pc' = IF old.checksum = cluster[item].digest THEN "forget" ELSE "set"
             ELSE /\ old' = [old EXCEPT !.charts = cluster[item].digest]
                  /\ pc' = "set" /\ UNCHANGED obj
       \/ Fault /\ pc' = "drop" /\ UNCHANGED <<obj, old>>
    /\ UNCHANGED <<world, redis, q, lock, item, readers, resync, crashes, history>>

SetEntry ==
    /\ pc = "set"
    /\ \/ /\ NoFault /\ pc' = "forget"
          /\ redis' = [redis EXCEPT ![item] = [checksum |-> obj.digest, charts |-> old.charts]]
          /\ excused' = excused \ {item} /\ put' = put \cup {item}
       \/ Fails /\ UNCHANGED <<redis, excused, put>>
    /\ UNCHANGED <<world, q, lock, item, obj, old, readers, resync, crashes,
                   tainted, unlucky, dropped>>

\* A hook that fails costs the key its entry, and the error goes no further.
DropEntry ==
    /\ WorkerGoes("drop", "forget")
    /\ \/ NoFault /\ redis' = [redis EXCEPT ![item] = NoEntry]
       \/ Fault /\ UNCHANGED redis
    /\ excused' = excused \cup {item}
    /\ Disappoint(item)
    /\ UNCHANGED <<world, q, lock, item, obj, old, readers, resync, crashes,
                   put, tainted, dropped>>

\* onDelete: the charts of the repository are marked, then its entry deleted.
DeleteEntry ==
    /\ pc = "delete"
    /\ \/ /\ NoFault /\ pc' = "forget"
          /\ redis' = [redis EXCEPT ![item] = NoEntry]
          /\ excused' = excused \ {item}
       \/ Fails /\ UNCHANGED <<redis, excused>>
    /\ UNCHANGED <<world, q, lock, item, obj, old, readers, resync, crashes,
                   put, tainted, unlucky, dropped>>

Forget ==
    /\ WorkerGoes("forget", "done")
    /\ q' = Q!Forget(q, item)
    /\ UNCHANGED <<world, redis, lock, item, obj, old, readers, resync, faults, crashes,
                   excused, put, tainted, unlucky, dropped>>

Retry ==
    /\ WorkerGoes("failed", "done")
    /\ Q!NumRequeues(q, item) < MaxRetries
    /\ q' = Q!AddRateLimited(q, item)
    /\ UNCHANGED <<world, redis, lock, item, obj, old, readers, resync, faults, crashes, history>>

GiveUp ==
    /\ WorkerGoes("failed", "done")
    /\ Q!NumRequeues(q, item) >= MaxRetries
    /\ q' = Q!Forget(q, item)
    /\ excused' = excused \cup {item}
    /\ Disappoint(item)
    /\ UNCHANGED <<world, redis, lock, item, obj, old, readers, resync, faults, crashes,
                   put, tainted, dropped>>

Done ==
    /\ pc = "done"
    /\ q' = Q!Done(q, item)
    /\ Leave
    /\ UNCHANGED <<world, redis, lock, readers, resync, faults, crashes, history>>

WorkerStep ==
    \/ GetParks \/ GetItem \/ CheckProcessing \/ ReadObject \/ ReadOld \/ IndexRepo
    \/ SetEntry \/ DropEntry \/ DeleteEntry \/ Forget \/ Retry \/ GiveUp \/ Done

-----------------------------------------------------------------------------
(* A reader: Get, or one goroutine of GetMultiple, under the read lock; then, *)
(* for an OCI repository, repoCacheEntryFromUntyped's ForceAndFetch, under no *)
(* lock.                                                                      *)

\* A value from under the lock is on its way to the caller.
HaveValue(k, e) ==
    IF e = NoEntry THEN "returned" ELSE IF k \in OciKeys THEN "force" ELSE "returned"

GetFetches(r, k) ==
    /\ lock.writer = "none"
    /\ rkey' = [rkey EXCEPT ![r] = k]
    /\ rval' = [rval EXCEPT ![r] = redis[k]]
    /\ \/ /\ NoFault /\ redis[k] # NoEntry /\ ReaderGoes(r, "idle", HaveValue(k, redis[k]))
          /\ UNCHANGED lock
       \/ /\ NoFault /\ redis[k] = NoEntry /\ ReaderGoes(r, "idle", "add")
          /\ lock' = [lock EXCEPT !.readers = @ \cup {r}]
       \/ Fault /\ ReaderGoes(r, "idle", "error") /\ UNCHANGED lock
    /\ unlucky' = IF cluster[k].status = "ready" THEN unlucky ELSE unlucky \cup {r}
    /\ UNCHANGED <<world, redis, q, worker, resync, crashes, excused, put, tainted, dropped>>

ForceAdds(r) ==
    /\ ReaderGoes(r, "add", "wait")
    /\ q' = Q!Add(q, rkey[r])
    /\ UNCHANGED <<world, redis, lock, worker, rkey, rval, resync, faults, crashes, history>>

\* A refresh does not ask for more if the worker is at it.
RefreshAdds(r) ==
    /\ ReaderGoes(r, "force", "wait")
    /\ q' = Q!AddIfNotProcessing(q, rkey[r])
    /\ UNCHANGED <<world, redis, lock, worker, rkey, rval, resync, faults, crashes, history>>

WaitParks(r) ==
    /\ rpc[r] = "wait" /\ r \notin q.waiting
    /\ Q!Pending(q, rkey[r])
    /\ q' = Q!Wait(q, r)
    /\ UNCHANGED <<world, redis, lock, worker, readers, resync, faults, crashes, history>>

WaitEnds(r) ==
    /\ ReaderGoes(r, "wait", "poll")
    /\ r \notin q.waiting /\ ~Q!Pending(q, rkey[r])
    /\ UNCHANGED <<world, redis, q, lock, worker, rkey, rval, resync, faults, crashes, history>>

PollEnds(r) ==
    /\ ReaderGoes(r, "poll", "fetch")
    /\ Q!NumRequeues(q, rkey[r]) = 0
    /\ UNCHANGED <<world, redis, q, lock, worker, rkey, rval, resync, faults, crashes, history>>

\* A refresh that finds nothing leaves the reader the value it had.
FetchAgain(r) ==
    LET k == rkey[r] IN
    /\ rpc[r] = "fetch"
    /\ \/ /\ NoFault
          /\ rval' = [rval EXCEPT ![r] = IF redis[k] = NoEntry THEN @ ELSE redis[k]]
          /\ ReaderGoes(r, "fetch", IF r \in lock.readers
                                    THEN HaveValue(k, redis[k]) ELSE "returned")
       \/ Fault /\ ReaderGoes(r, "fetch", "error") /\ UNCHANGED rval
    /\ lock' = [lock EXCEPT !.readers = @ \ {r}]
    /\ UNCHANGED <<world, redis, q, worker, rkey, resync, crashes, history>>

ReaderStep(r) == \/ ForceAdds(r) \/ RefreshAdds(r) \/ WaitParks(r) \/ WaitEnds(r)
                 \/ PollEnds(r) \/ FetchAgain(r)

-----------------------------------------------------------------------------
(* syncAndStartWatchLoop: resyncAndNewRetryWatcher, resync, populateWith *)

WantLock ==
    /\ ResyncGoes("boot", "lock")
    /\ lock' = [lock EXCEPT !.writer = "waiting"]
    /\ UNCHANGED <<world, redis, q, worker, readers, bootstrap, attempt, pop, resyncs,
                   faults, crashes, history>>

\* The watch breaks off for good, with HTTP 410 for instance.
WatchEnds ==
    /\ InBounds /\ resyncs < MaxResyncs /\ resyncs' = resyncs + 1
    /\ ResyncGoes("watching", "lock")
    /\ bootstrap' = FALSE /\ attempt' = 1
    /\ lock' = [lock EXCEPT !.writer = "waiting"]
    /\ UNCHANGED <<world, redis, q, worker, readers, pop, faults, crashes, history>>

Begin == IF bootstrap THEN "flush" ELSE "queue"

\* (mutant) The write lock does not wait for the readers.
LockOverReaders ==
    /\ ResyncGoes("lock", Begin)
    /\ lock' = [lock EXCEPT !.writer = "held"]
    /\ UNCHANGED <<world, redis, q, worker, readers, bootstrap, attempt, pop, resyncs,
                   faults, crashes, history>>

LockForResync ==
    /\ lock.readers = {}
    /\ ResyncGoes("lock", Begin)
    /\ lock' = [lock EXCEPT !.writer = "held"]
    /\ UNCHANGED <<world, redis, q, worker, readers, bootstrap, attempt, pop, resyncs,
                   faults, crashes, history>>

ResetQueue ==
    /\ ResyncGoes("queue", "limiter")
    /\ q' = Q!ResetQueue(q)
    /\ dropped' = dropped \cup {r \in Readers : rpc[r] = "wait"}
    /\ UNCHANGED <<world, redis, lock, worker, readers, bootstrap, attempt, pop, resyncs,
                   faults, crashes, excused, put, tainted, unlucky>>

\* The OnResync hook, of the chart cache, follows; it never fails.
ResetRateLimiter ==
    /\ ResyncGoes("limiter", "flush")
    /\ q' = Q!ResetRateLimiter(q)
    /\ UNCHANGED <<world, redis, lock, worker, readers, bootstrap, attempt, pop, resyncs,
                   faults, crashes, history>>

FlushDB ==
    /\ \/ /\ NoFault /\ ResyncGoes("flush", "list")
          /\ redis' = [k \in Keys |-> NoEntry] /\ excused' = {} /\ put' = {}
       \/ Fault /\ ResyncGoes("flush", "retry") /\ UNCHANGED <<redis, excused, put>>
    /\ UNCHANGED <<world, q, lock, worker, readers, bootstrap, attempt, pop, resyncs,
                   crashes, tainted, unlucky, dropped>>

\* The next watch begins at the resource version of the list.
List ==
    /\ \/ /\ NoFault /\ ResyncGoes("list", "populate")
          /\ pop' = [k \in Keys |-> IF cluster[k].status = "absent" THEN "done" ELSE "add"]
          /\ events' = [k \in Keys |-> 0]
          /\ tainted' = {k \in Keys : /\ cluster[k].status = "absent"
                                      /\ k \in put \/ item = k}
       \/ Fault /\ ResyncGoes("list", "retry") /\ UNCHANGED <<pop, events, tainted>>
    /\ UNCHANGED <<cluster, changes, past, redis, q, lock, worker, readers, bootstrap, attempt,
                   resyncs, crashes, excused, put, unlucky, dropped>>

\* populateWith: forceKey of each key, in goroutines.
PopulatorGoes(k, from, to) == spc = "populate" /\ pop[k] = from /\ pop' = [pop EXCEPT ![k] = to]

\* (mutant) The keys are added, and not waited for.
PopulateAddsOnly(k) ==
    /\ PopulatorGoes(k, "add", "done")
    /\ q' = Q!Add(q, k)
    /\ UNCHANGED <<world, redis, lock, worker, readers, spc, bootstrap, attempt, resyncs,
                   faults, crashes, history>>

PopulateAdds(k) ==
    /\ PopulatorGoes(k, "add", "wait")
    /\ q' = Q!Add(q, k)
    /\ UNCHANGED <<world, redis, lock, worker, readers, spc, bootstrap, attempt, resyncs,
                   faults, crashes, history>>

PopulateParks(k) ==
    /\ pop[k] = "wait" /\ k \notin q.waiting
    /\ Q!Pending(q, k)
    /\ q' = Q!Wait(q, k)
    /\ UNCHANGED <<world, redis, lock, worker, readers, resync, faults, crashes, history>>

PopulateWaitEnds(k) ==
    /\ PopulatorGoes(k, "wait", "poll")
    /\ k \notin q.waiting /\ ~Q!Pending(q, k)
    /\ UNCHANGED <<world, redis, q, lock, worker, readers, spc, bootstrap, attempt, resyncs,
                   faults, crashes, history>>

PopulatePollEnds(k) ==
    /\ PopulatorGoes(k, "poll", "done")
    /\ Q!NumRequeues(q, k) = 0
    /\ UNCHANGED <<world, redis, q, lock, worker, readers, spc, bootstrap, attempt, resyncs,
                   faults, crashes, history>>

\* (mutant) The watch begins at the current resource version.
StartWatchFromNow ==
    /\ \A k \in Keys : pop[k] = "done"
    /\ ResyncGoes("populate", "watching")
    /\ lock' = [lock EXCEPT !.writer = "none"]
    /\ events' = [k \in Keys |-> 0]
    /\ UNCHANGED <<cluster, changes, past, redis, q, worker, readers, bootstrap, attempt, pop, resyncs,
                   faults, crashes, history>>

\* NewRetryWatcher fails only for a resource version that resync does not return.
StartWatch ==
    /\ \A k \in Keys : pop[k] = "done"
    /\ ResyncGoes("populate", "watching")
    /\ lock' = [lock EXCEPT !.writer = "none"]
    /\ UNCHANGED <<world, redis, q, worker, readers, bootstrap, attempt, pop, resyncs,
                   faults, crashes, history>>

AttemptAgain ==
    /\ attempt < MaxAttempts /\ attempt' = attempt + 1
    /\ ResyncGoes("retry", Begin)
    /\ UNCHANGED <<world, redis, q, lock, worker, readers, bootstrap, pop, resyncs,
                   faults, crashes, history>>

\* The process goes down, and starts again with an empty memory.
Restart ==
    /\ q' = Boot.q /\ lock' = Boot.lock
    /\ Leave
    /\ rpc' = Boot.rpc /\ rkey' = Boot.rkey /\ rval' = Boot.rval
    /\ spc' = "boot" /\ bootstrap' = TRUE /\ attempt' = 1 /\ pop' = Boot.pop
    /\ tainted' = {} /\ unlucky' = {} /\ dropped' = {}
    /\ UNCHANGED <<world, redis, resyncs, excused, put>>

Panic == spc = "retry" /\ attempt = MaxAttempts /\ Restart /\ UNCHANGED <<faults, crashes>>
Crash == InBounds /\ crashes < MaxCrashes /\ crashes' = crashes + 1 /\ Restart /\ UNCHANGED faults

ResyncStep ==
    \/ WantLock \/ LockForResync \/ ResetQueue \/ ResetRateLimiter \/ FlushDB \/ List
    \/ StartWatch \/ AttemptAgain \/ Panic
PopulateStep(k) == \/ PopulateAdds(k) \/ PopulateParks(k) \/ PopulateWaitEnds(k)
                   \/ PopulatePollEnds(k)

-----------------------------------------------------------------------------
Next ==
    \/ WorkerStep \/ ResyncStep \/ WatchEnds \/ Crash
    \/ \E r \in Readers : ReaderStep(r) \/ \E k \in Keys : GetFetches(r, k)
    \/ \E k \in Keys :
          \/ DeliverEvent(k) \/ DelayElapses(k) \/ PopulateStep(k) \/ Evict(k)
          \/ \E d \in Digests : ContentChanges(k, d) \/ \E s \in {"absent", "pending", "ready"} :
                StatusChanges(k, s, d)

Spec == Init /\ [][Next]_vars

\* Started goroutines run, an RWMutex starves nobody, timers fire, and the watch
\* delivers what happened.
Fairness ==
    /\ WF_vars(WorkerStep) /\ WF_vars(ResyncStep)
    /\ \A r \in Readers : WF_vars(ReaderStep(r))
    /\ \A k \in Keys : WF_vars(DeliverEvent(k)) /\ WF_vars(DelayElapses(k)) /\ WF_vars(PopulateStep(k))

FairSpec == Spec /\ Fairness

-----------------------------------------------------------------------------
(* Properties *)

\* Every variable keeps its type.
TypeOK ==
    /\ cluster \in [Keys -> Objects] /\ events \in [Keys -> Nat]
    /\ redis \in [Keys -> Entries]
    /\ q \in Q!QueueStates
    /\ lock \in [readers : SUBSET Readers, writer : {"none", "waiting", "held"}]
    /\ pc \in {"get", "check", "read", "readOld", "index", "set", "drop", "delete",
               "forget", "failed", "done"}
    /\ item \in Keys \cup {NoKey} /\ obj \in Objects \cup {NoObject} /\ old \in Entries
    /\ rpc \in [Readers -> Busy \cup {"idle", "returned", "error"}]
    /\ rkey \in [Readers -> Keys \cup {NoKey}] /\ rval \in [Readers -> Entries]
    /\ spc \in {"boot", "lock", "queue", "limiter", "flush", "list", "populate", "retry", "watching"}
    /\ bootstrap \in BOOLEAN /\ attempt \in 1..MaxAttempts
    /\ pop \in [Keys -> {"add", "wait", "poll", "done"}]
    /\ {changes, resyncs, faults, crashes} \subseteq Nat
    /\ excused \subseteq Keys /\ put \subseteq Keys /\ tainted \subseteq Keys
    /\ unlucky \subseteq Readers /\ dropped \subseteq Readers
    /\ past \in [Keys -> SUBSET Digests]

\* Everything that happened to k has reached the end of its way.
Settled(k) ==
    /\ spc = "watching" /\ events[k] = 0
    /\ k \notin q.delayed \cup q.dirty /\ item # k

\* The cache agrees with the cluster: once the events of a repository are dealt
\* with, it has no entry if the object is gone, and the entry of its current
\* checksum and charts if it is ready, whatever resyncs and restarts came in
\* between.  Not so a key whose synchronization failed, nor one that the worker put
\* back after the flush of a resync and that was gone by its list.  The charts are
\* fetched after the checksum was read, and so may be those of another checksum if
\* the repository goes back to a content it had.
CacheConverges ==
    \A k \in Keys \ (excused \cup tainted) : Settled(k) =>
        /\ cluster[k].status = "absent" => redis[k] = NoEntry
        /\ cluster[k].status = "ready" =>
              /\ redis[k] # NoEntry
              /\ k \notin OciKeys =>
                    /\ redis[k].checksum = cluster[k].digest
                    /\ cluster[k].digest \notin past[k] => redis[k].charts = cluster[k].digest

\* A watch starts on a cache that holds all that is ready, except for what has
\* changed since the list or failed.
ResyncPopulates ==
    spc = "populate" /\ (\A k \in Keys : pop[k] = "done") =>
        \A k \in Keys \ excused :
            cluster[k].status = "ready" /\ events[k] = 0 => redis[k] # NoEntry

\* "'GetMultiple' provides a guarantee that if a key exists, it's value will be
\* returned", and Get the same: unless something went wrong with the key, or the
\* repository was not ready, while the reader waited.
ReaderGetsValue ==
    \A r \in Readers : rpc[r] = "returned" => rval[r] # NoEntry \/ r \in unlucky

\* What happened to a repository is dealt with in the end, crashes or not.
EverythingSettles == \A k \in Keys : <>[]Settled(k)

\* A reader is answered, unless the process dies; or, for the refresh of an OCI
\* repository, that holds no lock, unless a resync drops its key.
ReadersReturn ==
    \A r \in Readers :
        rpc[r] \in {"add", "force"} ~> rpc[r] \in {"returned", "error", "idle"} \/ r \in dropped

\* (for a cache without OCI repositories) The read lock keeps a resync from
\* emptying the queue under a reader.
NoReaderDropped == OciKeys = {} => dropped = {}

-----------------------------------------------------------------------------
(* What comments in the source say *)

\* The events of a repository are processed in order, "otherwise the cache will
\* end up in invalid state (a entry in the cache for an object that doesn't exist)".
NoEntryForDeleted ==
    \A k \in Keys \ excused : Settled(k) /\ cluster[k].status = "absent" => redis[k] = NoEntry

\* "if a transient error occurs the item will be re-queued and retried after a
\* back-off period" (of the download of a repository's index)
IndexErrorsRetried ==
    \A k \in Keys : pc = "drop" /\ item = k ~> k \in q.delayed \/ redis[k] # NoEntry
=============================================================================

------------------------------ MODULE ChartCache ------------------------------
(***************************************************************************)
(* The flux plugin's cache of chart tarballs (cache/chart_cache.go).       *)
(*                                                                         *)
(* Producers (the hooks of the repository cache) leave, for each chart     *)
(* version, an entry in a transient store that says what to do with it and *)
(* put its key in the work queue; workers take the key, read the entry and *)
(* bring redis in line with it; readers ask for one chart and wait for the *)
(* workers on a miss; a resync empties the queue and the store under the   *)
(* write half of a lock whose read half the workers hold.                  *)
(*                                                                         *)
(* The keys are the chart versions of one repository: a producer never     *)
(* looks at those of another.  A chart version's tarball never changes, so *)
(* redis is the set of the keys it holds.                                  *)
(***************************************************************************)
EXTENDS Naturals, Sequences, FiniteSets

CONSTANTS Keys,       \* chart versions
          NoKey,      \* what a goroutine without a key holds
          Workers,    \* maxChartCacheWorkers goroutines
          Readers,    \* goroutines that call Get
          Producers,  \* goroutines that run the repository hooks
          MaxRetries, \* maxChartCacheRetries
          MaxOps,     \* bound: imports and deletions of the repository
          MaxResyncs, \* bound: resyncs
          MaxFaults,  \* bound: failed downloads and redis commands, evictions
          MaxEvents   \* bound: all of these together

ASSUME NoKeyAssumption  == NoKey \notin Keys
ASSUME BoundsAssumption == {MaxRetries, MaxOps, MaxResyncs, MaxFaults, MaxEvents} \subseteq Nat

Threads == Workers \cup Readers
Q == INSTANCE RateLimitingQueue WITH Items <- Keys

VARIABLES
    q,        \* the work queue
    store,    \* store[k]: the entry of k in the processing store, or "none"
    redis,    \* the keys redis holds
    lock,     \* the RWMutex: its readers, and how far its writer is
    pc, item, \* each worker: where it is and the key it got
    entry,    \* entry[w]: the store entry w read for its key
    rpc, rkey, rhit,           \* each reader: where it is, its key, its result
    ppc, pkey, todo, latest, keep, \* each producer: where it is, and its work left
    spc,      \* where the resync is
    ops, resyncs, faults,      \* how much of the bounds is used
    (* History variables, read by no guard: *)
    index,    \* the last operation on the repository that did not fail, and what it left
    asked,    \* asked[k]: what the last producer, or ("wanted") reader, asked for k
    excused,  \* keys whose entry a worker gave up, or redis failed to delete, evicted or lost
    tainted,  \* keys a worker had taken, and not yet looked at, when a resync began
    unlucky,  \* readers whose key, while they were waiting, was deleted, given up,
              \* evicted or dropped by a resync
    stranded  \* readers that were parked when a resync emptied the queue

workers   == <<pc, item, entry>>
readers   == <<rpc, rkey, rhit>>
producers == <<ppc, pkey, todo, latest, keep>>
resync    == <<spc, resyncs>>
history   == <<index, asked, excused, tainted, unlucky, stranded>>
vars == <<q, store, redis, lock, workers, readers, producers, resync, ops, faults, history>>

Entries == {"none", "url", "deleted"}

Init ==
    /\ q = Q!New
    /\ store = [k \in Keys |-> "none"]
    /\ redis = {}
    /\ lock = [readers |-> {}, writer |-> "none"]
    /\ pc = [w \in Workers |-> "get"]
    /\ item = [w \in Workers |-> NoKey]
    /\ entry = [w \in Workers |-> "none"]
    /\ rpc = [r \in Readers |-> "idle"]
    /\ rkey = [r \in Readers |-> NoKey]
    /\ rhit = [r \in Readers |-> FALSE]
    /\ ppc = [p \in Producers |-> "idle"]
    /\ pkey = [p \in Producers |-> NoKey]
    /\ todo = [p \in Producers |-> {}]
    /\ latest = [p \in Producers |-> {}]
    /\ keep = [p \in Producers |-> {}]
    /\ spc = "idle"
    /\ ops = 0 /\ resyncs = 0 /\ faults = 0
    /\ index = [op |-> "none", keys |-> {}]
    /\ asked = [k \in Keys |-> "none"]
    /\ excused = {} /\ tainted = {} /\ unlucky = {} /\ stranded = {}

-----------------------------------------------------------------------------
WorkerGoes(w, from, to)   == pc[w] = from /\ pc' = [pc EXCEPT ![w] = to]
ReaderGoes(r, from, to)   == rpc[r] = from /\ rpc' = [rpc EXCEPT ![r] = to]
ProducerGoes(p, from, to) == ppc[p] = from /\ ppc' = [ppc EXCEPT ![p] = to]
InBounds == ops + resyncs + faults < MaxEvents
Fault == InBounds /\ faults < MaxFaults /\ faults' = faults + 1
NoFault == UNCHANGED faults

WaitingFor(K) == {r \in Readers : rkey[r] \in K /\ rpc[r] \in {"store", "enqueue", "wait", "poll", "refetch"}}
Disappoint(K) == unlucky' = unlucky \cup WaitingFor(K)

\* (mutant) processing.Add keeps an older entry of the key.
PutEntryOnce(k, e, why) ==
    /\ store' = IF store[k] = "none" THEN [store EXCEPT ![k] = e] ELSE store
    /\ asked' = [asked EXCEPT ![k] = why]
    /\ excused' = excused \ {k}

\* processing.Add: the new entry replaces an older one of the key.
PutEntry(k, e, why) ==
    /\ store' = [store EXCEPT ![k] = e]
    /\ asked' = [asked EXCEPT ![k] = why]
    /\ excused' = excused \ {k}

-----------------------------------------------------------------------------
(* A worker: processNextWorkItem *)

GetParks(w) ==
    /\ pc[w] = "get" /\ w \notin q.waiting
    /\ Q!GetParks(q)
    /\ q' = Q!Wait(q, w)
    /\ UNCHANGED <<store, redis, lock, workers, readers, producers, resync, ops, faults, history>>

GetItem(w) ==
    /\ w \notin q.waiting /\ q.queue # <<>>
    /\ WorkerGoes(w, "get", "rlock")
    /\ item' = [item EXCEPT ![w] = Head(q.queue)]
    /\ q' = Q!Get(q)
    /\ UNCHANGED <<entry, store, redis, lock, readers, producers, resync, ops, faults, history>>

\* The read lock is taken after Get: a resync may come in between.  Go's RWMutex
\* lets no reader in once a writer waits.
RLock(w) ==
    /\ WorkerGoes(w, "rlock", "check")
    /\ lock.writer = "none"
    /\ lock' = [lock EXCEPT !.readers = @ \cup {w}]
    /\ UNCHANGED <<q, item, entry, store, redis, readers, producers, resync, ops, faults, history>>

Leave(w) ==
    /\ pc' = [pc EXCEPT ![w] = "get"]
    /\ item' = [item EXCEPT ![w] = NoKey]
    /\ entry' = [entry EXCEPT ![w] = "none"]
    /\ lock' = [lock EXCEPT !.readers = @ \ {w}]

\* A key that a resync dropped from the queue in the meantime is left alone.
CheckProcessing(w) ==
    /\ pc[w] = "check"
    /\ IF Q!IsProcessing(q, item[w])
       THEN WorkerGoes(w, "check", "read") /\ UNCHANGED <<item, entry, lock>>
       ELSE Leave(w)
    /\ UNCHANGED <<q, store, redis, readers, producers, resync, ops, faults, history>>

\* syncHandler: a key without an entry is an error.
ReadEntry(w) ==
    /\ pc[w] = "read"
    /\ pc' = [pc EXCEPT ![w] = IF store[item[w]] = "none" THEN "failed" ELSE "apply"]
    /\ entry' = [entry EXCEPT ![w] = store[item[w]]]
    /\ UNCHANGED <<q, item, store, redis, lock, readers, producers, resync, ops, faults, history>>

\* An entry marked deleted: an error of DEL is ignored.
Delete(w) ==
    /\ entry[w] = "deleted"
    /\ WorkerGoes(w, "apply", "forget")
    /\ \/ NoFault /\ redis' = redis \ {item[w]} /\ UNCHANGED excused
       \/ Fault /\ excused' = excused \cup {item[w]} /\ UNCHANGED redis
    /\ Disappoint({item[w]})
    /\ UNCHANGED <<q, item, entry, store, lock, readers, producers, resync, ops,
                   index, asked, tainted, stranded>>

\* EXISTS, then the download, which touches nothing that others see.
Download(w) ==
    /\ entry[w] = "url"
    /\ \/ item[w] \in redis /\ NoFault /\ WorkerGoes(w, "apply", "forget")
       \/ item[w] \notin redis /\ NoFault /\ WorkerGoes(w, "apply", "set")
       \/ Fault /\ WorkerGoes(w, "apply", "failed")
    /\ UNCHANGED <<q, item, entry, store, redis, lock, readers, producers, resync, ops, history>>

Set(w) ==
    /\ \/ NoFault /\ WorkerGoes(w, "set", "forget") /\ redis' = redis \cup {item[w]}
       \/ Fault /\ WorkerGoes(w, "set", "failed") /\ UNCHANGED redis
    /\ UNCHANGED <<q, item, entry, store, lock, readers, producers, resync, ops, history>>

Forget(w) ==
    /\ WorkerGoes(w, "forget", "clean")
    /\ q' = Q!Forget(q, item[w])
    /\ UNCHANGED <<item, entry, store, redis, lock, readers, producers, resync, ops, faults, history>>

\* (mutant) The entry is taken out of the store, whoever left it.
CleanAsMeant(w) ==
    /\ WorkerGoes(w, "clean", "done")
    /\ store' = [store EXCEPT ![item[w]] = "none"]
    /\ UNCHANGED <<q, item, entry, redis, lock, readers, producers, resync, ops, faults, history>>

\* processing.Delete(key) changes nothing: the store applies chartCacheKeyFunc to
\* what it is given, which takes an entry and refuses a string; the error that
\* Delete returns is not looked at.
Clean(w) ==
    /\ WorkerGoes(w, "clean", "done")
    /\ UNCHANGED <<q, item, entry, store, redis, lock, readers, producers, resync, ops, faults, history>>

\* The failure count is read and acted on in one step; WorkQueue has the two apart.
Retry(w) ==
    /\ WorkerGoes(w, "failed", "done")
    /\ Q!NumRequeues(q, item[w]) < MaxRetries
    /\ q' = Q!AddRateLimited(q, item[w])
    /\ UNCHANGED <<item, entry, store, redis, lock, readers, producers, resync, ops, faults, history>>

\* The counter is forgotten here, the entry removed by Clean, as on success.
GiveUp(w) ==
    /\ WorkerGoes(w, "failed", "clean")
    /\ Q!NumRequeues(q, item[w]) >= MaxRetries
    /\ q' = Q!Forget(q, item[w])
    /\ excused' = IF entry[w] = "none" THEN excused ELSE excused \cup {item[w]}
    /\ Disappoint({item[w]})
    /\ UNCHANGED <<item, entry, store, redis, lock, readers, producers, resync, ops, faults,
                   index, asked, tainted, stranded>>

\* The deferred calls, Done and then RUnlock: only a resync could tell them apart,
\* and it waits for the second.
Done(w) ==
    /\ pc[w] = "done"
    /\ q' = Q!Done(q, item[w])
    /\ Leave(w)
    /\ UNCHANGED <<store, redis, readers, producers, resync, ops, faults, history>>

WorkerStep(w) ==
    \/ GetParks(w) \/ GetItem(w) \/ RLock(w) \/ CheckProcessing(w) \/ ReadEntry(w)
    \/ Delete(w) \/ Download(w) \/ Set(w) \/ Forget(w) \/ Clean(w)
    \/ Retry(w) \/ GiveUp(w) \/ Done(w)

\* The delaying queue hands a key over when its time comes.
DelayElapses(k) ==
    /\ k \in q.delayed
    /\ q' = Q!DelayElapses(q, k)
    /\ UNCHANGED <<store, redis, lock, workers, readers, producers, resync, ops, faults, history>>

-----------------------------------------------------------------------------
(* A reader: Get, that is Fetch and on a miss the key's way through the       *)
(* queue and a second Fetch.  Fetch holds the read lock for one redis GET.    *)

Fetch(r, k) ==
    /\ lock.writer = "none"
    /\ \/ NoFault /\ ReaderGoes(r, "idle", IF k \in redis THEN "returned" ELSE "store")
       \/ Fault /\ ReaderGoes(r, "idle", "error")
    /\ rkey' = [rkey EXCEPT ![r] = k]
    /\ rhit' = [rhit EXCEPT ![r] = k \in redis]
    /\ UNCHANGED <<q, store, redis, lock, workers, producers, resync, ops, history>>

StoreEntry(r) ==
    /\ ReaderGoes(r, "store", "enqueue")
    /\ PutEntry(rkey[r], "url", "wanted")
    /\ UNCHANGED <<q, redis, lock, workers, rkey, rhit, producers, resync, ops, faults, index, tainted, unlucky, stranded>>

Enqueue(r) ==
    /\ ReaderGoes(r, "enqueue", "wait")
    /\ q' = Q!Add(q, rkey[r])
    /\ UNCHANGED <<store, redis, lock, workers, rkey, rhit, producers, resync, ops, faults, history>>

WaitParks(r) ==
    /\ rpc[r] = "wait" /\ r \notin q.waiting
    /\ Q!Pending(q, rkey[r])
    /\ q' = Q!Wait(q, r)
    /\ UNCHANGED <<store, redis, lock, workers, readers, producers, resync, ops, faults, history>>

WaitEnds(r) ==
    /\ ReaderGoes(r, "wait", "poll")
    /\ r \notin q.waiting /\ ~Q!Pending(q, rkey[r])
    /\ UNCHANGED <<q, store, redis, lock, workers, rkey, rhit, producers, resync, ops, faults, history>>

PollEnds(r) ==
    /\ ReaderGoes(r, "poll", "refetch")
    /\ Q!NumRequeues(q, rkey[r]) = 0
    /\ UNCHANGED <<q, store, redis, lock, workers, rkey, rhit, producers, resync, ops, faults, history>>

Refetch(r) ==
    /\ lock.writer = "none"
    /\ \/ NoFault /\ ReaderGoes(r, "refetch", "returned")
       \/ Fault /\ ReaderGoes(r, "refetch", "error")
    /\ rhit' = [rhit EXCEPT ![r] = rkey[r] \in redis]
    /\ UNCHANGED <<q, store, redis, lock, workers, rkey, producers, resync, ops, history>>

ReaderStep(r) == \/ StoreEntry(r) \/ Enqueue(r) \/ WaitParks(r) \/ WaitEnds(r)
                 \/ PollEnds(r) \/ Refetch(r)

-----------------------------------------------------------------------------
(* A producer: the import of an index (PurgeObsoleteChartVersions, then       *)
(* SyncCharts of each chart's latest version) and DeleteChartsForRepo.        *)

\* Purging goes by the repositories the charts name: an index without charts
\* names none.
StartImport(p, idx, newest) ==
    /\ InBounds /\ ops < MaxOps /\ ops' = ops + 1
    /\ ProducerGoes(p, "idle", IF idx = {} THEN "idle" ELSE "scan")
    /\ keep' = [keep EXCEPT ![p] = idx]
    /\ latest' = [latest EXCEPT ![p] = newest]
    /\ index' = [op |-> "import", keys |-> idx]
    /\ UNCHANGED <<q, store, redis, lock, workers, readers, pkey, todo, resync, faults,
                   asked, excused, tainted, unlucky, stranded>>

StartDelete(p) ==
    /\ InBounds /\ ops < MaxOps /\ ops' = ops + 1
    /\ ProducerGoes(p, "idle", "scan")
    /\ keep' = [keep EXCEPT ![p] = {}]
    /\ latest' = [latest EXCEPT ![p] = {}]
    /\ index' = [op |-> "delete", keys |-> {}]
    /\ UNCHANGED <<q, store, redis, lock, workers, readers, pkey, todo, resync, faults,
                   asked, excused, tainted, unlucky, stranded>>

\* deleteChartsHelper: the keys in redis, then those in the store.
Scan(p) ==
    /\ \/ /\ NoFault /\ ProducerGoes(p, "scan", "list")
          /\ todo' = [todo EXCEPT ![p] = redis]
          /\ UNCHANGED index
       \/ /\ Fault /\ ProducerGoes(p, "scan", "idle")
          /\ index' = [op |-> "none", keys |-> {}]
          /\ UNCHANGED todo
    /\ UNCHANGED <<q, store, redis, lock, workers, readers, pkey, latest, keep, resync, ops,
                   asked, excused, tainted, unlucky, stranded>>

ListKeys(p) ==
    /\ ProducerGoes(p, "list", "mark")
    /\ todo' = [todo EXCEPT ![p] = (@ \cup {k \in Keys : store[k] # "none"}) \ keep[p]]
    /\ UNCHANGED <<q, store, redis, lock, workers, readers, pkey, latest, keep, resync, ops, faults, history>>

MarkDeleted(p, k) ==
    /\ k \in todo[p]
    /\ ProducerGoes(p, "mark", "add")
    /\ pkey' = [pkey EXCEPT ![p] = k]
    /\ PutEntry(k, "deleted", "deleted")
    /\ UNCHANGED <<q, redis, lock, workers, readers, todo, latest, keep, resync, ops, faults, index, tainted, unlucky, stranded>>

AddMarked(p) ==
    /\ ProducerGoes(p, "add", "mark")
    /\ q' = Q!Add(q, pkey[p])
    /\ todo' = [todo EXCEPT ![p] = @ \ {pkey[p]}]
    /\ UNCHANGED <<store, redis, lock, workers, readers, pkey, latest, keep, resync, ops, faults, history>>

MarkingEnds(p) ==
    /\ todo[p] = {}
    /\ ProducerGoes(p, "mark", IF latest[p] = {} THEN "idle" ELSE "sync")
    /\ todo' = [todo EXCEPT ![p] = latest[p]]
    /\ UNCHANGED <<q, store, redis, lock, workers, readers, pkey, latest, keep, resync, ops, faults, history>>

\* SyncCharts, for each chart.
StoreChart(p, k) ==
    /\ k \in todo[p]
    /\ ProducerGoes(p, "sync", "addRateLimited")
    /\ pkey' = [pkey EXCEPT ![p] = k]
    /\ PutEntry(k, "url", "url")
    /\ UNCHANGED <<q, redis, lock, workers, readers, todo, latest, keep, resync, ops, faults, index, tainted, unlucky, stranded>>

AddChart(p) ==
    /\ ProducerGoes(p, "addRateLimited", IF todo[p] = {pkey[p]} THEN "idle" ELSE "sync")
    /\ q' = Q!AddRateLimited(q, pkey[p])
    /\ todo' = [todo EXCEPT ![p] = @ \ {pkey[p]}]
    /\ UNCHANGED <<store, redis, lock, workers, readers, pkey, latest, keep, resync, ops, faults, history>>

ProducerStep(p) ==
    \/ Scan(p) \/ ListKeys(p) \/ AddMarked(p) \/ MarkingEnds(p) \/ AddChart(p)
    \/ \E k \in Keys : MarkDeleted(p, k) \/ StoreChart(p, k)

-----------------------------------------------------------------------------
(* A resync: OnResync, then the FLUSHDB of the repository cache, which shares *)
(* redis.                                                                     *)

ResyncGoes(from, to) == spc = from /\ spc' = to

StartResync ==
    /\ InBounds /\ resyncs < MaxResyncs /\ resyncs' = resyncs + 1
    /\ ResyncGoes("idle", "lock")
    /\ lock' = [lock EXCEPT !.writer = "waiting"]
    /\ UNCHANGED <<q, store, redis, workers, readers, producers, ops, faults, history>>

\* (mutant) The write lock does not wait for the readers.
LockOverReaders ==
    /\ ResyncGoes("lock", "queue")
    /\ lock' = [lock EXCEPT !.writer = "held"]
    /\ UNCHANGED <<q, store, redis, workers, readers, producers, resyncs, ops, faults, history>>

LockForResync ==
    /\ lock.readers = {}
    /\ ResyncGoes("lock", "queue")
    /\ lock' = [lock EXCEPT !.writer = "held"]
    /\ UNCHANGED <<q, store, redis, workers, readers, producers, resyncs, ops, faults, history>>

ResetQueue ==
    /\ ResyncGoes("queue", "limiter")
    /\ q' = Q!ResetQueue(q)
    /\ tainted' = tainted \cup {item[w] : w \in {v \in Workers : pc[v] = "rlock"}}
    /\ stranded' = stranded \cup (q.waiting \cap Readers)
    /\ UNCHANGED <<store, redis, lock, workers, readers, producers, resyncs, ops, faults,
                   index, asked, excused, unlucky>>

ResetRateLimiter ==
    /\ ResyncGoes("limiter", "store")
    /\ q' = Q!ResetRateLimiter(q)
    /\ UNCHANGED <<store, redis, lock, workers, readers, producers, resyncs, ops, faults, history>>

ResetStore ==
    /\ ResyncGoes("store", "flush")
    /\ store' = [k \in Keys |-> "none"]
    /\ lock' = [lock EXCEPT !.writer = "none"]
    /\ asked' = [k \in Keys |-> "none"]
    /\ Disappoint(Keys)
    /\ UNCHANGED <<q, redis, workers, readers, producers, resyncs, ops, faults,
                   index, excused, tainted, stranded>>

FlushDB ==
    /\ ResyncGoes("flush", "idle")
    /\ redis' = {}
    /\ excused' = excused \cup redis
    /\ Disappoint(redis)
    /\ UNCHANGED <<q, store, lock, workers, readers, producers, resyncs, ops, faults,
                   index, asked, tainted, stranded>>

ResyncStep == LockForResync \/ ResetQueue \/ ResetRateLimiter \/ ResetStore \/ FlushDB

\* Redis may evict a key when it is short of memory.
Evict(k) ==
    /\ Fault
    /\ k \in redis
    /\ redis' = redis \ {k}
    /\ excused' = excused \cup {k}
    /\ Disappoint({k})
    /\ UNCHANGED <<q, store, lock, workers, readers, producers, resync, ops,
                   index, asked, tainted, stranded>>

-----------------------------------------------------------------------------
Next ==
    \/ \E w \in Workers : WorkerStep(w)
    \/ \E k \in Keys : DelayElapses(k) \/ Evict(k)
    \/ \E r \in Readers : ReaderStep(r) \/ \E k \in Keys : Fetch(r, k)
    \/ \E p \in Producers :
          \/ ProducerStep(p) \/ StartDelete(p)
          \/ \E idx \in SUBSET Keys : \E newest \in SUBSET idx : StartImport(p, idx, newest)
    \/ StartResync \/ ResyncStep

Spec == Init /\ [][Next]_vars

\* Started goroutines run, an RWMutex starves nobody, timers fire.
Fairness ==
    /\ \A w \in Workers : WF_vars(WorkerStep(w))
    /\ \A k \in Keys : WF_vars(DelayElapses(k))
    /\ \A r \in Readers : WF_vars(ReaderStep(r))
    /\ \A p \in Producers : WF_vars(ProducerStep(p))
    /\ WF_vars(ResyncStep)

FairSpec == Spec /\ Fairness

-----------------------------------------------------------------------------
(* Properties *)

WorkerStates   == {"get", "rlock", "check", "read", "apply", "set", "forget", "clean",
                   "failed", "done"}
ReaderStates   == {"idle", "store", "enqueue", "wait", "poll", "refetch",
                   "returned", "error"}
ProducerStates == {"idle", "scan", "list", "mark", "add", "sync", "addRateLimited"}

\* Every variable keeps its type.
TypeOK ==
    /\ q \in Q!QueueStates
    /\ store \in [Keys -> Entries] /\ redis \subseteq Keys
    /\ lock \in [readers : SUBSET Workers, writer : {"none", "waiting", "held"}]
    /\ pc \in [Workers -> WorkerStates]
    /\ item \in [Workers -> Keys \cup {NoKey}] /\ entry \in [Workers -> Entries]
    /\ rpc \in [Readers -> ReaderStates]
    /\ rkey \in [Readers -> Keys \cup {NoKey}] /\ rhit \in [Readers -> BOOLEAN]
    /\ ppc \in [Producers -> ProducerStates]
    /\ pkey \in [Producers -> Keys \cup {NoKey}]
    /\ {todo, latest, keep} \subseteq [Producers -> SUBSET Keys]
    /\ spc \in {"idle", "lock", "queue", "limiter", "store", "flush"}
    /\ {ops, resyncs, faults} \subseteq Nat
    /\ index \in [op : {"none", "import", "delete"}, keys : SUBSET Keys]
    /\ asked \in [Keys -> Entries \cup {"wanted"}]
    /\ excused \subseteq Keys /\ tainted \subseteq Keys
    /\ unlucky \subseteq Readers /\ stranded \subseteq Readers

OnTheWay(k) ==
    \/ \E r \in Readers : rkey[r] = k /\ rpc[r] = "enqueue"
    \/ \E p \in Producers : pkey[p] = k /\ ppc[p] \in {"add", "addRateLimited"}

\* Nothing is about to change k.
Settled(k) ==
    /\ k \notin q.delayed \cup q.dirty /\ lock.writer # "held"
    /\ \A w \in Workers : item[w] # k
    /\ ~OnTheWay(k)

\* A worker that comes to a key finds an entry for it, unless a resync has emptied
\* the store while the key was in the delaying queue.
WorkHasEntry ==
    resyncs = 0 => \A k \in Keys : k \in q.delayed \cup q.dirty => store[k] # "none"

\* When the work on a key is over, redis is as the last request for the key
\* wanted it, even if requests came while a worker was busy with an older one.
RequestsHonoured ==
    \A k \in Keys \ (excused \cup tainted) :
        Settled(k) => /\ asked[k] = "deleted" => k \notin redis
                      /\ asked[k] \in {"url", "wanted"} => k \in redis

\* deleteChartsHelper gets "a list of all charts/versions for this repo that are
\* either (a) already in the cache OR (b) being processed": what is in redis after a
\* deletion was marked, or asked for since by a reader, though the lists are not
\* taken together and workers go on with what they had before.
DeletionOverlooksNone ==
    /\ index.op = "delete" /\ spc # "flush"
    /\ \A p \in Producers : ppc[p] = "idle"
    => \A k \in redis : asked[k] \in {"deleted", "wanted"}

\* The resync's exclusion: no worker is inside syncHandler while the queue and
\* the store are replaced.
ResyncExcludesWorkers ==
    lock.writer = "held" =>
        \A w \in Workers : pc[w] \in {"get", "rlock"}

\* The promise of Get: the bytes are returned, unless the chart was deleted, was
\* given up or was evicted, or a resync came, while the reader waited.
ReaderGetsChart ==
    \A r \in Readers : rpc[r] = "returned" => rhit[r] \/ r \in unlucky \/ rkey[r] \in tainted

\* The work on every key comes to an end.  (Not so a key for which a resync left
\* two workers: each can go on forgetting the failures the other has counted.)
EverythingSettles == \A k \in Keys : <>[](Settled(k) \/ k \in tainted)

\* Get returns, also to the reader whose chart is meanwhile deleted, given up, evicted or
\* dropped by a resync.  Two never return: who was parked when a resync emptied the
\* queue, for Reset wakes nobody; and who polls the failures of a tainted key, where one
\* worker's Retry can come after the other's last Forget.
ReadersReturn ==
    \A r \in Readers :
        rpc[r] = "store" ~> \/ rpc[r] \in {"returned", "error"}
                            \/ r \in stranded \/ rkey[r] \in tainted

-----------------------------------------------------------------------------
(* What a comment in the source says *)

\* The store is "transient (temporary) [...] Upon successful processing of the
\* item, the corresponding store entry is deleted".
StoreIsTransient == \A k \in Keys : Settled(k) => store[k] = "none"
=============================================================================

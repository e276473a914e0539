------------------------------ MODULE WorkQueue ------------------------------
(***************************************************************************)
(* The rate limiting queue at work: producers add keys, workers run        *)
(* processNextWorkItem, callers wait in WaitUntilForgotten, and the queue  *)
(* is Reset by a resync or shut down.  What an item's synchronization does *)
(* is left open (it succeeds or fails); the modules of the two caches say. *)
(***************************************************************************)
EXTENDS Naturals, Sequences, FiniteSets

CONSTANTS Items,       \* keys
          NoItem,      \* what a goroutine without a key holds
          Workers,     \* goroutines in runWorker
          Waiters,     \* goroutines that add a key and wait until it is done
          MaxRetries,  \* maxWatcherCacheRetries, maxChartCacheRetries
          MaxAdds,     \* bound: calls made by producers
          MaxResets,   \* bound: calls of Reset
          MayShutDown  \* whether ShutDown is ever called

ASSUME NoItemAssumption   == NoItem \notin Items
ASSUME ThreadsAssumption  == Workers \cap Waiters = {}
ASSUME BoundsAssumption   == /\ MaxRetries \in Nat
                             /\ MaxAdds \in Nat
                             /\ MaxResets \in Nat
                             /\ MayShutDown \in BOOLEAN

Threads == Workers \cup Waiters
Q == INSTANCE RateLimitingQueue

VARIABLES
    q,         \* the queue
    pc,        \* pc[w]: where worker w is in processNextWorkItem
    item,      \* item[w]: the key w got from the queue
    wpc,       \* wpc[c]: where waiter c is
    witem,     \* witem[c]: the key c asked for
    resetting, \* Reset has emptied the queue and not yet replaced the limiter
    adds, resets,  \* how much of the bounds is used
    (* History variables, read by no guard: *)
    tainted,   \* keys some worker held at the moment of a Reset
    dropped,   \* waiters that were waiting at the moment of a Reset
    covers,    \* covers[w]: waiters whose request precedes w's current Get
    served     \* waiters whose key was synchronized, or given up, since they asked

worker  == <<pc, item>>
waiter  == <<wpc, witem>>
bounds  == <<resetting, adds, resets>>
history == <<tainted, dropped, covers, served>>
vars    == <<q, worker, waiter, bounds, history>>

WorkerStates == {"get", "check", "sync", "failed", "retry", "giveup", "done", "stopped"}
WaiterStates == {"idle", "wait", "poll", "returned"}

Init ==
    /\ q = Q!New
    /\ pc = [w \in Workers |-> "get"]
    /\ item = [w \in Workers |-> NoItem]
    /\ wpc = [c \in Waiters |-> "idle"]
    /\ witem = [c \in Waiters |-> NoItem]
    /\ resetting = FALSE /\ adds = 0 /\ resets = 0
    /\ tainted = {} /\ dropped = {} /\ served = {}
    /\ covers = [w \in Workers |-> {}]

-----------------------------------------------------------------------------
(* Producers *)

Produce(newq) ==
    /\ adds < MaxAdds
    /\ adds' = adds + 1
    /\ q' = newq
    /\ UNCHANGED <<worker, waiter, resetting, resets, history>>

Add(i)                == Produce(Q!Add(q, i))
AddRateLimited(i)     == Produce(Q!AddRateLimited(q, i))
AddIfNotProcessing(i) == Produce(Q!AddIfNotProcessing(q, i))
ExpectAdd(i)          == Produce(Q!ExpectAdd(q, i))

\* The delaying queue's own goroutine; it ends with the queue.
DelayElapses(i) ==
    /\ i \in q.delayed /\ ~q.shuttingDown
    /\ q' = Q!DelayElapses(q, i)
    /\ UNCHANGED <<worker, waiter, bounds, history>>

-----------------------------------------------------------------------------
(* A worker: processNextWorkItem *)

Moves(w, from, to) == pc[w] = from /\ pc' = [pc EXCEPT ![w] = to]

\* Get, before the first cond.Wait and after each Broadcast.
GetParks(w) ==
    /\ pc[w] = "get" /\ w \notin q.waiting
    /\ Q!GetParks(q)
    /\ q' = Q!Wait(q, w)
    /\ UNCHANGED <<worker, waiter, bounds, history>>

GetStops(w) ==
    /\ w \notin q.waiting /\ q.shuttingDown
    /\ Moves(w, "get", "stopped")
    /\ UNCHANGED <<q, item, waiter, bounds, history>>

Asking(i) == {c \in Waiters : witem[c] = i /\ wpc[c] \in {"wait", "poll"}}

GetItem(w) ==
    /\ w \notin q.waiting /\ ~q.shuttingDown /\ q.queue # <<>>
    /\ Moves(w, "get", "check")
    /\ q' = Q!Get(q)
    /\ item' = [item EXCEPT ![w] = Head(q.queue)]
    /\ covers' = [covers EXCEPT ![w] = Asking(Head(q.queue))]
    /\ UNCHANGED <<waiter, bounds, tainted, dropped, served>>

\* A key that is no longer being processed was dropped by a Reset: the worker
\* forgets it, without Done.
CheckProcessing(w) ==
    /\ \/ Q!IsProcessing(q, item[w]) /\ Moves(w, "check", "sync") /\ UNCHANGED item
       \/ /\ ~Q!IsProcessing(q, item[w])
          /\ Moves(w, "check", "get")
          /\ item' = [item EXCEPT ![w] = NoItem]
    /\ UNCHANGED <<q, waiter, bounds, history>>

SyncSucceeds(w) ==
    /\ Moves(w, "sync", "done")
    /\ q' = Q!Forget(q, item[w])
    /\ served' = served \cup covers[w]
    /\ UNCHANGED <<item, waiter, bounds, tainted, dropped, covers>>

SyncFails(w) ==
    /\ Moves(w, "sync", "failed")
    /\ UNCHANGED <<q, item, waiter, bounds, history>>

\* The count is read here and acted on in the next step.
ReadRequeues(w) ==
    /\ Moves(w, "failed", IF Q!NumRequeues(q, item[w]) < MaxRetries THEN "retry" ELSE "giveup")
    /\ UNCHANGED <<q, item, waiter, bounds, history>>

\* (mutant) The error path returns without the deferred Done.
RetryWithoutDone(w) ==
    /\ Moves(w, "retry", "get")
    /\ q' = Q!AddRateLimited(q, item[w])
    /\ item' = [item EXCEPT ![w] = NoItem]
    /\ UNCHANGED <<waiter, bounds, history>>

Retry(w) ==
    /\ Moves(w, "retry", "done")
    /\ q' = Q!AddRateLimited(q, item[w])
    /\ UNCHANGED <<item, waiter, bounds, history>>

\* (mutant) Giving up leaves the failure count as it is.
GiveUpWithoutForget(w) ==
    /\ Moves(w, "giveup", "done")
    /\ served' = served \cup covers[w]
    /\ UNCHANGED <<q, item, waiter, bounds, tainted, dropped, covers>>

GiveUp(w) ==
    /\ Moves(w, "giveup", "done")
    /\ q' = Q!Forget(q, item[w])
    /\ served' = served \cup covers[w]
    /\ UNCHANGED <<item, waiter, bounds, tainted, dropped, covers>>

\* The deferred Done.
Done(w) ==
    /\ Moves(w, "done", "get")
    /\ q' = Q!Done(q, item[w])
    /\ item' = [item EXCEPT ![w] = NoItem]
    /\ UNCHANGED <<waiter, bounds, history>>

-----------------------------------------------------------------------------
(* A caller that needs a key loaded: Add, then WaitUntilForgotten, as        *)
(* ChartCache.Get does.                                                      *)

Request(c, i) ==
    /\ wpc[c] = "idle"
    /\ wpc' = [wpc EXCEPT ![c] = "wait"]
    /\ witem' = [witem EXCEPT ![c] = i]
    /\ q' = Q!Add(q, i)
    /\ UNCHANGED <<worker, bounds, history>>

WaitParks(c) ==
    /\ wpc[c] = "wait" /\ c \notin q.waiting
    /\ Q!Pending(q, witem[c])
    /\ q' = Q!Wait(q, c)
    /\ UNCHANGED <<worker, waiter, bounds, history>>

WaitEnds(c) ==
    /\ wpc[c] = "wait" /\ c \notin q.waiting
    /\ ~Q!Pending(q, witem[c])
    /\ wpc' = [wpc EXCEPT ![c] = "poll"]
    /\ UNCHANGED <<q, worker, witem, bounds, history>>

PollEnds(c) ==
    /\ wpc[c] = "poll"
    /\ Q!NumRequeues(q, witem[c]) = 0
    /\ wpc' = [wpc EXCEPT ![c] = "returned"]
    /\ UNCHANGED <<q, worker, witem, bounds, history>>

-----------------------------------------------------------------------------
(* Reset and ShutDown *)

Held == {item[w] : w \in Workers} \ {NoItem}

ResetQueue ==
    /\ resets < MaxResets /\ ~resetting
    /\ resets' = resets + 1
    /\ resetting' = TRUE
    /\ q' = Q!ResetQueue(q)
    /\ tainted' = tainted \cup Held
    /\ dropped' = dropped \cup {c \in Waiters : wpc[c] \in {"wait", "poll"}}
    /\ UNCHANGED <<worker, waiter, adds, covers, served>>

ResetRateLimiter ==
    /\ resetting
    /\ resetting' = FALSE
    /\ q' = Q!ResetRateLimiter(q)
    /\ dropped' = dropped \cup {c \in Waiters : wpc[c] \in {"wait", "poll"}}
    /\ UNCHANGED <<worker, waiter, adds, resets, tainted, covers, served>>

ShutDown ==
    /\ MayShutDown /\ ~q.shuttingDown
    /\ q' = Q!ShutDown(q)
    /\ UNCHANGED <<worker, waiter, bounds, history>>

-----------------------------------------------------------------------------
WorkerStep(w) ==
    \/ GetParks(w) \/ GetStops(w) \/ GetItem(w) \/ CheckProcessing(w)
    \/ SyncSucceeds(w) \/ SyncFails(w) \/ ReadRequeues(w)
    \/ Retry(w) \/ GiveUp(w) \/ Done(w)

WaiterStep(c) == WaitParks(c) \/ WaitEnds(c) \/ PollEnds(c)

Next ==
    \/ \E i \in Items : \/ Add(i) \/ AddRateLimited(i)
                        \/ AddIfNotProcessing(i) \/ ExpectAdd(i)
                        \/ DelayElapses(i)
    \/ \E w \in Workers : WorkerStep(w)
    \/ \E c \in Waiters : WaiterStep(c) \/ \E i \in Items : Request(c, i)
    \/ ResetQueue \/ ResetRateLimiter \/ ShutDown

Spec == Init /\ [][Next]_vars

-----------------------------------------------------------------------------
(* Properties *)

\* Every variable keeps its type.
TypeOK ==
    /\ q \in Q!QueueStates
    /\ pc \in [Workers -> WorkerStates]
    /\ item \in [Workers -> Items \cup {NoItem}]
    /\ wpc \in [Waiters -> WaiterStates]
    /\ witem \in [Waiters -> Items \cup {NoItem}]
    /\ resetting \in BOOLEAN /\ adds \in Nat /\ resets \in Nat
    /\ tainted \subseteq Items
    /\ dropped \subseteq Waiters /\ served \subseteq Waiters
    /\ covers \in [Workers -> SUBSET Waiters]

Holding   == {"check", "sync", "failed", "retry", "giveup", "done"}
Holds(w, i) == pc[w] \in Holding /\ item[w] = i

\* The comment on Type.queue and Type.processing: an item waits in the queue,
\* once, exactly when it is dirty and no worker is on it.  Reset breaks this
\* only for keys that a worker held at that moment.
QueueShape == \A i \in Items \ tainted : Q!WellQueued(q, i)

\* "never processing the same item simultaneously in different workers"
\* (the comment on the queue of both caches), with the same exception.
OneWorkerPerItem ==
    \A i \in Items \ tainted : \A v, w \in Workers :
        Holds(v, i) /\ Holds(w, i) => v = w

\* No key that was marked dirty is ever lost by the queue, whatever Reset does
\* to it: either it is in the queue or a worker's Done will put it there.
NoItemLost == Q!NothingLost(q)

\* ... and that Done will come: a processing key has a worker (until ShutDown
\* makes workers drop keys without Done).
ProcessingHasWorker ==
    ~q.shuttingDown => \A i \in q.processing : \E w \in Workers : Holds(w, i)

\* A parked thread has a reason to be parked: no Broadcast was missed.  Reset
\* does not broadcast, so the waiters it finds are excepted.
NoMissedWakeup ==
    /\ \A w \in q.waiting \cap Workers : Q!GetParks(q)
    /\ \A c \in (q.waiting \cap Waiters) \ dropped : Q!Pending(q, witem[c])

\* A failure count above zero belongs to a key that will be synchronized again,
\* so WaitUntilForgotten does not poll it for ever.
CountedWillRetry ==
    ~q.shuttingDown /\ ~resetting =>
        \A i \in Items \ tainted :
            q.requeues[i] > 0 =>
                \/ i \in q.delayed \/ i \in q.dirty
                \/ \E w \in Workers : Holds(w, i)

\* WaitUntilForgotten returns only after a synchronization that began after
\* the caller's Add, or after the key was given up.
WaiterServed ==
    \A c \in Waiters :
        wpc[c] = "returned" => \/ c \in served \/ c \in dropped
                               \/ witem[c] \in tainted \/ q.shuttingDown

\* What the queue's lists stand for: a key is wanted while it waits in the queue, or
\* for the Done of the worker that is on it.
Wanted  == {i \in Items : Q!Occurs(q.queue, i) \/ (i \in q.dirty /\ i \in q.processing)}
Working == [w \in Workers |-> IF pc[w] \in Holding THEN item[w] ELSE NoItem]

Lifecycle == INSTANCE ItemLifecycle
               WITH wanted <- Wanted, working <- Working, loose <- tainted, down <- q.shuttingDown

\* The queue, with its workers, does what a user may count on: no request is lost or
\* handed to two workers, and one made while a worker is on the key is served after it.
ImplementsLifecycle == Lifecycle!Spec
=============================================================================

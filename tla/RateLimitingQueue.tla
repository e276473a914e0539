-------------------------- MODULE RateLimitingQueue --------------------------
(***************************************************************************)
(* The work queue of the flux plugin's two caches (cache/                  *)
(* rate_limiting_queue.go): client-go's work queue, re-implemented with    *)
(* Reset, IsProcessing and WaitUntilForgotten, wrapped in client-go's      *)
(* delaying queue and rate limiter.                                        *)
(*                                                                         *)
(* One record holds the whole queue, and each method that runs under the   *)
(* queue's mutex is one operator from the old record to the new one, so    *)
(* that every module that uses a queue applies the same definitions.  The  *)
(* condition variable is the set of the threads parked in cond.Wait: a     *)
(* parked thread does nothing until a Broadcast empties the set.           *)
(***************************************************************************)
EXTENDS Naturals, Sequences

CONSTANTS Items,    \* the keys that can be queued
          Threads   \* the goroutines that can park on the condition variable

QueueStates ==
    [queue        : Seq(Items),       \* the order in which items are handed out
     expected     : SUBSET Items,     \* announced by ExpectAdd, not yet added
     dirty        : SUBSET Items,     \* need processing
     processing   : SUBSET Items,     \* handed to a worker, not yet Done
     shuttingDown : BOOLEAN,
     waiting      : SUBSET Threads,   \* parked in cond.Wait()
     delayed      : SUBSET Items,     \* in the delaying queue's heap
     requeues     : [Items -> Nat]]   \* the rate limiter's failure counts

New == [queue |-> <<>>, expected |-> {}, dirty |-> {}, processing |-> {},
        shuttingDown |-> FALSE, waiting |-> {}, delayed |-> {},
        requeues |-> [i \in Items |-> 0]]

Broadcast(q) == [q EXCEPT !.waiting = {}]
Wait(q, t)   == [q EXCEPT !.waiting = @ \cup {t}]

Enqueue(q, i) == Broadcast([q EXCEPT !.queue = Append(@, i),
                                     !.dirty = @ \cup {i},
                                     !.expected = @ \ {i}])

\* (mutant) Add overlooks that a worker is on the item.
AddWhileProcessing(q, i) ==
    IF q.shuttingDown \/ i \in q.dirty THEN q ELSE Enqueue(q, i)

\* Add: an item being processed is only marked dirty, Done will queue it.
Add(q, i) ==
    IF q.shuttingDown THEN q
    ELSE IF i \in q.dirty \cup q.processing
         THEN [q EXCEPT !.dirty = @ \cup {i}, !.expected = @ \ {i}]
         ELSE Enqueue(q, i)

AddIfNotProcessing(q, i) == IF i \in q.processing THEN q ELSE Add(q, i)

ExpectAdd(q, i) ==
    IF q.shuttingDown THEN q ELSE [q EXCEPT !.expected = @ \cup {i}]

\* Get, once the lock is held: it parks, or takes the head, or reports shutdown.
GetParks(q) == q.queue = <<>> /\ ~q.shuttingDown
Get(q) == [q EXCEPT !.queue = Tail(@),
                    !.processing = @ \cup {Head(q.queue)},
                    !.dirty = @ \ {Head(q.queue)}]

IsProcessing(q, i) == ~q.shuttingDown /\ i \in q.processing

\* (mutant) Done overlooks that the item became dirty meanwhile.
DoneWithoutRequeue(q, i) ==
    IF q.shuttingDown THEN q ELSE Broadcast([q EXCEPT !.processing = @ \ {i}])

\* (mutant) Done wakes nobody.
DoneSilently(q, i) ==
    IF q.shuttingDown
    THEN q
    ELSE [q EXCEPT !.processing = @ \ {i},
                   !.queue = IF i \in q.dirty THEN Append(@, i) ELSE @]

Done(q, i) ==
    IF q.shuttingDown
    THEN q
    ELSE Broadcast([q EXCEPT !.processing = @ \ {i},
                             !.queue = IF i \in q.dirty THEN Append(@, i) ELSE @])

ShutDown(q) == Broadcast([q EXCEPT !.shuttingDown = TRUE])

\* (mutant) waitUntilDone looks at the queued items only.
PendingIfDirty(q, i) == i \in q.expected \/ i \in q.dirty

\* The condition in which waitUntilDone parks.
Pending(q, i) == i \in q.expected \/ i \in q.dirty \/ i \in q.processing

(***************************************************************************)
(* The rate limiter and client-go's delaying queue.  AddAfter keeps one    *)
(* entry per item in its heap and hands it to Add when its time comes; a   *)
(* queue that is shutting down accepts no new entry.                       *)
(***************************************************************************)
NumRequeues(q, i) == q.requeues[i]

\* (mutant) Forget takes one failure back.
ForgetOne(q, i) == [q EXCEPT !.requeues[i] = @ - 1]

Forget(q, i) == [q EXCEPT !.requeues[i] = 0]

AddRateLimited(q, i) ==
    [q EXCEPT !.requeues[i] = @ + 1,
              !.delayed = IF q.shuttingDown THEN @ ELSE @ \cup {i}]

DelayElapses(q, i) == Add([q EXCEPT !.delayed = @ \ {i}], i)

\* Reset is two steps: the queue is emptied under its mutex, then the rate
\* limiter is replaced.  Neither wakes a parked thread nor empties the
\* delaying queue, and the expected items stay.
ResetQueue(q) == [q EXCEPT !.queue = <<>>, !.dirty = {}, !.processing = {}]
ResetRateLimiter(q) == [q EXCEPT !.requeues = [i \in Items |-> 0]]

-----------------------------------------------------------------------------
(* What the comments on Type's fields say of a queue. *)

Occurs(s, i)     == \E k \in DOMAIN s : s[k] = i
OccursOnce(s, i) == \A j, k \in DOMAIN s : s[j] = i /\ s[k] = i => j = k

\* The item waits in the queue, once, exactly when it needs processing and no
\* worker is on it.
WellQueued(q, i) == /\ Occurs(q.queue, i) <=> (i \in q.dirty /\ i \notin q.processing)
                    /\ OccursOnce(q.queue, i)

\* Nothing that needs processing is forgotten: it is in the queue, or the Done
\* of the worker that is on it will put it there.
NothingLost(q) == \A i \in q.dirty : Occurs(q.queue, i) \/ i \in q.processing
=============================================================================

--------------------------- MODULE WorkQueueProofs ---------------------------
(***************************************************************************)
(* What the work queue guarantees for any number of keys, workers,         *)
(* waiters, retries and resets, and that it implements ItemLifecycle.      *)
(***************************************************************************)
EXTENDS WorkQueue, TLAPS

-----------------------------------------------------------------------------
(* The queue's methods keep the queue's type. *)

LEMMA NewType == Q!New \in Q!QueueStates
  BY DEF Q!New, Q!QueueStates

LEMMA QueueUpdate ==
  ASSUME NEW x \in Q!QueueStates, NEW s \in Seq(Items), NEW D \in SUBSET Items,
         NEW P \in SUBSET Items, NEW E \in SUBSET Items
  PROVE  /\ [x EXCEPT !.queue = s, !.dirty = D, !.expected = E] \in Q!QueueStates
         /\ [x EXCEPT !.queue = s, !.processing = P, !.dirty = D] \in Q!QueueStates
         /\ [x EXCEPT !.processing = P, !.queue = s] \in Q!QueueStates
         /\ Q!Broadcast(x) \in Q!QueueStates
  BY DEF Q!QueueStates, Q!Broadcast

LEMMA AddType ==
  ASSUME NEW x \in Q!QueueStates, NEW i \in Items
  PROVE  /\ Q!Add(x, i) \in Q!QueueStates
         /\ Q!AddIfNotProcessing(x, i) \in Q!QueueStates
         /\ Q!ExpectAdd(x, i) \in Q!QueueStates
         /\ Q!AddRateLimited(x, i) \in Q!QueueStates
         /\ Q!DelayElapses(x, i) \in Q!QueueStates
<1>1. ASSUME NEW y \in Q!QueueStates PROVE Q!Add(y, i) \in Q!QueueStates
  <2>1. y.queue \in Seq(Items) /\ y.dirty \in SUBSET Items /\ y.expected \in SUBSET Items
    BY DEF Q!QueueStates
  <2>2. Append(y.queue, i) \in Seq(Items)
    BY <2>1
  <2>3. Q!Enqueue(y, i) \in Q!QueueStates
    BY <2>1, <2>2, QueueUpdate, ZenonT(60) DEF Q!Enqueue
  <2>4. [y EXCEPT !.dirty = @ \cup {i}, !.expected = @ \ {i}] \in Q!QueueStates
    BY DEF Q!QueueStates
  <2> QED
    BY <2>3, <2>4 DEF Q!Add
<1>2. Q!AddIfNotProcessing(x, i) \in Q!QueueStates
  BY <1>1 DEF Q!AddIfNotProcessing, Q!QueueStates
<1>3. Q!ExpectAdd(x, i) \in Q!QueueStates /\ Q!AddRateLimited(x, i) \in Q!QueueStates
  <2>1. /\ x.requeues[i] + 1 \in Nat
        /\ (IF x.shuttingDown THEN x.delayed ELSE x.delayed \cup {i}) \in SUBSET Items
    BY DEF Q!QueueStates
  <2>2. ASSUME NEW n \in Nat, NEW D \in SUBSET Items
        PROVE  [x EXCEPT !.requeues[i] = n, !.delayed = D] \in Q!QueueStates
    BY DEF Q!QueueStates
  <2> QED
    BY <2>1, <2>2 DEF Q!ExpectAdd, Q!AddRateLimited, Q!QueueStates
<1>4. [x EXCEPT !.delayed = @ \ {i}] \in Q!QueueStates
  BY DEF Q!QueueStates
<1> QED
  BY <1>1, <1>2, <1>3, <1>4 DEF Q!DelayElapses

LEMMA WorkerOpsType ==
  ASSUME NEW x \in Q!QueueStates
  PROVE  /\ x.queue # <<>> => Head(x.queue) \in Items /\ Q!Get(x) \in Q!QueueStates
         /\ \A i \in Items : /\ Q!Forget(x, i) \in Q!QueueStates
                             /\ Q!Done(x, i) \in Q!QueueStates
<1>1. x.queue \in Seq(Items) /\ x.dirty \in SUBSET Items /\ x.processing \in SUBSET Items
  BY DEF Q!QueueStates
<1>2. x.queue # <<>> => Head(x.queue) \in Items /\ Tail(x.queue) \in Seq(Items)
  BY <1>1
<1>3. x.queue # <<>> => Q!Get(x) \in Q!QueueStates
  BY <1>1, <1>2, QueueUpdate, ZenonT(120) DEF Q!Get
<1>4. ASSUME NEW i \in Items PROVE Q!Forget(x, i) \in Q!QueueStates
  BY DEF Q!Forget, Q!QueueStates
<1>5. ASSUME NEW i \in Items PROVE Q!Done(x, i) \in Q!QueueStates
  <2>1. (IF i \in x.dirty THEN Append(x.queue, i) ELSE x.queue) \in Seq(Items)
    BY <1>1
  <2> QED
    BY <1>1, <2>1, QueueUpdate DEF Q!Done
<1> QED
  BY <1>2, <1>3, <1>4, <1>5

LEMMA OtherOpsType ==
  ASSUME NEW x \in Q!QueueStates
  PROVE  /\ \A t \in Threads : Q!Wait(x, t) \in Q!QueueStates
         /\ Q!ResetQueue(x) \in Q!QueueStates
         /\ Q!ResetRateLimiter(x) \in Q!QueueStates
         /\ Q!ShutDown(x) \in Q!QueueStates
<1>1. <<>> \in Seq(Items)
  OBVIOUS
<1>2. Q!ResetQueue(x) \in Q!QueueStates
  BY <1>1, QueueUpdate DEF Q!ResetQueue, Q!QueueStates
<1> QED
  BY <1>2 DEF Q!Wait, Q!ResetRateLimiter, Q!ShutDown, Q!Broadcast, Q!QueueStates

-----------------------------------------------------------------------------
(* Appending to a queue and taking its head. *)

LEMMA AppendOccurs ==
  ASSUME NEW s \in Seq(Items), NEW i \in Items, NEW j \in Items
  PROVE  /\ Q!Occurs(Append(s, i), j) <=> Q!Occurs(s, j) \/ j = i
         /\ Q!OccursOnce(s, j) /\ (j = i => ~Q!Occurs(s, j))
               => Q!OccursOnce(Append(s, i), j)
<1> DEFINE t == Append(s, i)
<1>1. /\ Len(t) = Len(s) + 1 /\ DOMAIN t = 1..Len(t) /\ DOMAIN s = 1..Len(s)
      /\ t[Len(s) + 1] = i /\ \A k \in 1..Len(s) : t[k] = s[k]
      /\ Len(s) \in Nat
  OBVIOUS
<1> HIDE DEF t
<1>2. Q!Occurs(t, j) <=> Q!Occurs(s, j) \/ j = i
  BY <1>1 DEF Q!Occurs
<1>3. Q!OccursOnce(s, j) /\ (j = i => ~Q!Occurs(s, j)) => Q!OccursOnce(t, j)
  BY <1>1 DEF Q!Occurs, Q!OccursOnce
<1> QED
  BY <1>2, <1>3 DEF t

LEMMA TailOccurs ==
  ASSUME NEW s \in Seq(Items), s # <<>>, NEW j \in Items
  PROVE  /\ Q!Occurs(s, j) <=> Q!Occurs(Tail(s), j) \/ j = Head(s)
         /\ Q!OccursOnce(s, j) => /\ Q!OccursOnce(Tail(s), j)
                                  /\ j = Head(s) => ~Q!Occurs(Tail(s), j)
<1> DEFINE t == Tail(s)
<1>1. /\ Len(s) \in Nat \ {0} /\ DOMAIN s = 1..Len(s) /\ Head(s) = s[1]
      /\ Len(t) = Len(s) - 1 /\ DOMAIN t = 1..Len(t)
      /\ \A k \in 1..Len(t) : t[k] = s[k + 1]
  OBVIOUS
<1> HIDE DEF t
<1>2. ASSUME Q!Occurs(s, j) PROVE Q!Occurs(t, j) \/ j = Head(s)
  <2>1. PICK k \in DOMAIN s : s[k] = j
    BY <1>2 DEF Q!Occurs
  <2>2. k = 1 \/ (k - 1 \in DOMAIN t /\ t[k - 1] = j)
    BY <1>1, <2>1
  <2> QED
    BY <1>1, <2>1, <2>2 DEF Q!Occurs
<1>3. Q!Occurs(t, j) \/ j = Head(s) => Q!Occurs(s, j)
  BY <1>1 DEF Q!Occurs
<1>4. ASSUME Q!OccursOnce(s, j) PROVE Q!OccursOnce(t, j)
  <2> SUFFICES ASSUME NEW k \in DOMAIN t, NEW l \in DOMAIN t, t[k] = j, t[l] = j
               PROVE  k = l
    BY DEF Q!OccursOnce
  <2>1. k + 1 \in DOMAIN s /\ l + 1 \in DOMAIN s /\ s[k + 1] = j /\ s[l + 1] = j
    BY <1>1
  <2> QED
    BY <1>1, <1>4, <2>1 DEF Q!OccursOnce
<1>5. ASSUME Q!OccursOnce(s, j), j = Head(s), NEW k \in DOMAIN t, t[k] = j PROVE FALSE
  <2>1. 1 \in DOMAIN s /\ k + 1 \in DOMAIN s /\ s[1] = j /\ s[k + 1] = j
    BY <1>1, <1>5
  <2> QED
    BY <1>1, <1>5, <2>1 DEF Q!OccursOnce
<1> QED
  BY <1>2, <1>3, <1>4, <1>5 DEF t, Q!Occurs

-----------------------------------------------------------------------------
(* What each method does to a well formed queue. *)

\* A method that leaves the queue, the dirty and the processing set alone.
SameQueue(x, y) ==
    y.queue = x.queue /\ y.dirty = x.dirty /\ y.processing = x.processing

LEMMA SameQueueKeeps ==
  ASSUME NEW x, NEW y, SameQueue(x, y)
  PROVE  /\ \A i : Q!WellQueued(x, i) => Q!WellQueued(y, i)
         /\ Q!NothingLost(x) => Q!NothingLost(y)
  BY DEF SameQueue, Q!WellQueued, Q!NothingLost

LEMMA BystanderOps ==
  ASSUME NEW x \in Q!QueueStates
  PROVE  /\ \A i \in Items : /\ SameQueue(x, Q!ExpectAdd(x, i))
                             /\ SameQueue(x, Q!AddRateLimited(x, i))
                             /\ SameQueue(x, Q!Forget(x, i))
         /\ \A t : SameQueue(x, Q!Wait(x, t))
         /\ SameQueue(x, Q!ResetRateLimiter(x)) /\ SameQueue(x, Q!ShutDown(x))
  BY DEF SameQueue, Q!ExpectAdd, Q!AddRateLimited, Q!Forget, Q!Wait,
         Q!ResetRateLimiter, Q!ShutDown, Q!Broadcast, Q!QueueStates

LEMMA AddKeeps ==
  ASSUME NEW x \in Q!QueueStates, NEW i \in Items
  PROVE  /\ Q!Add(x, i).processing = x.processing
         /\ \A j \in Items : Q!WellQueued(x, j) => Q!WellQueued(Q!Add(x, i), j)
         /\ Q!NothingLost(x) => Q!NothingLost(Q!Add(x, i))
<1> DEFINE y == Q!Add(x, i)
<1>1. x.queue \in Seq(Items) /\ x.dirty \in SUBSET Items
  BY DEF Q!QueueStates
<1>2. \/ SameQueue(x, y)
      \/ /\ y.queue = x.queue /\ y.dirty = x.dirty \cup {i}
         /\ y.processing = x.processing /\ (i \in x.dirty \/ i \in x.processing)
      \/ /\ y.queue = Append(x.queue, i) /\ y.dirty = x.dirty \cup {i}
         /\ y.processing = x.processing /\ i \notin x.dirty /\ i \notin x.processing
  BY DEF SameQueue, Q!Add, Q!Enqueue, Q!Broadcast, Q!QueueStates
<1> HIDE DEF y
<1>3. CASE SameQueue(x, y)
  BY <1>3, SameQueueKeeps DEF SameQueue, y
<1>4. CASE /\ y.queue = x.queue /\ y.dirty = x.dirty \cup {i}
           /\ y.processing = x.processing /\ (i \in x.dirty \/ i \in x.processing)
  BY <1>4 DEF Q!WellQueued, Q!NothingLost, y
<1>5. CASE /\ y.queue = Append(x.queue, i) /\ y.dirty = x.dirty \cup {i}
           /\ y.processing = x.processing /\ i \notin x.dirty /\ i \notin x.processing
  <2>1. ASSUME NEW j \in Items, Q!WellQueued(x, j) PROVE Q!WellQueued(y, j)
    BY <1>1, <1>5, <2>1, AppendOccurs DEF Q!WellQueued
  <2>2. ASSUME Q!NothingLost(x) PROVE Q!NothingLost(y)
    BY <1>1, <1>5, <2>2, AppendOccurs DEF Q!NothingLost
  <2> QED
    BY <1>5, <2>1, <2>2 DEF y
<1> QED
  BY <1>2, <1>3, <1>4, <1>5

LEMMA GetKeeps ==
  ASSUME NEW x \in Q!QueueStates, x.queue # <<>>
  PROVE  /\ \A j \in Items : Q!WellQueued(x, j) => Q!WellQueued(Q!Get(x), j)
         /\ Q!NothingLost(x) => Q!NothingLost(Q!Get(x))
<1> DEFINE y == Q!Get(x)
           h == Head(x.queue)
<1>1. x.queue \in Seq(Items) /\ x.dirty \in SUBSET Items
  BY DEF Q!QueueStates
<1>2. /\ y.queue = Tail(x.queue) /\ y.dirty = x.dirty \ {h}
      /\ y.processing = x.processing \cup {h}
  BY DEF Q!Get, Q!QueueStates
<1> HIDE DEF y, h
<1>3. ASSUME NEW j \in Items, Q!WellQueued(x, j) PROVE Q!WellQueued(y, j)
  BY <1>1, <1>2, <1>3, TailOccurs DEF Q!WellQueued, h
<1>4. ASSUME Q!NothingLost(x) PROVE Q!NothingLost(y)
  BY <1>1, <1>2, <1>4, TailOccurs DEF Q!NothingLost, h
<1> QED
  BY <1>3, <1>4 DEF y

\* Done needs its caller to be on the item: a Done that comes after a Reset can
\* queue the item a second time.
LEMMA DoneKeeps ==
  ASSUME NEW x \in Q!QueueStates, NEW i \in Items
  PROVE  /\ \A j \in Items : (j = i => i \in x.processing \/ x.shuttingDown)
               => (Q!WellQueued(x, j) => Q!WellQueued(Q!Done(x, i), j))
         /\ Q!NothingLost(x) => Q!NothingLost(Q!Done(x, i))
<1> DEFINE y == Q!Done(x, i)
<1>1. x.queue \in Seq(Items) /\ x.dirty \in SUBSET Items
  BY DEF Q!QueueStates
<1>2. \/ x.shuttingDown /\ SameQueue(x, y)
      \/ /\ ~x.shuttingDown /\ y.dirty = x.dirty /\ y.processing = x.processing \ {i}
         /\ y.queue = IF i \in x.dirty THEN Append(x.queue, i) ELSE x.queue
  BY DEF SameQueue, Q!Done, Q!Broadcast, Q!QueueStates
<1> HIDE DEF y
<1>3. CASE x.shuttingDown /\ SameQueue(x, y)
  BY <1>3, SameQueueKeeps DEF y
<1>4. CASE /\ ~x.shuttingDown /\ y.dirty = x.dirty /\ y.processing = x.processing \ {i}
           /\ y.queue = IF i \in x.dirty THEN Append(x.queue, i) ELSE x.queue
  <2>1. ASSUME NEW j \in Items, Q!WellQueued(x, j), j = i => i \in x.processing
        PROVE  Q!WellQueued(y, j)
    BY <1>1, <1>4, <2>1, AppendOccurs DEF Q!WellQueued
  <2>2. ASSUME Q!NothingLost(x) PROVE Q!NothingLost(y)
    BY <1>1, <1>4, <2>2, AppendOccurs DEF Q!NothingLost
  <2> QED
    BY <1>4, <2>1, <2>2 DEF y
<1> QED
  BY <1>2, <1>3, <1>4

LEMMA ResetKeeps ==
  ASSUME NEW x \in Q!QueueStates
  PROVE  /\ \A i : Q!WellQueued(Q!ResetQueue(x), i)
         /\ Q!NothingLost(Q!ResetQueue(x))
<1>1. /\ Q!ResetQueue(x).queue = <<>> /\ Q!ResetQueue(x).dirty = {}
  BY DEF Q!ResetQueue, Q!QueueStates
<1> QED
  BY <1>1 DEF Q!WellQueued, Q!NothingLost, Q!Occurs, Q!OccursOnce

-----------------------------------------------------------------------------
(* Type correctness *)

USE DEF worker, waiter, bounds, history, Moves

\* A worker past Get has a key.
HasItem  == \A w \in Workers : pc[w] \in Holding => item[w] \in Items
Typed    == TypeOK /\ HasItem

LEMMA TypedInit == Init => Typed
<1> SUFFICES ASSUME Init PROVE Typed
  OBVIOUS
<1>1. pc \in [Workers -> WorkerStates] /\ wpc \in [Waiters -> WaiterStates]
  BY DEF Init, WorkerStates, WaiterStates
<1>2. HasItem
  BY DEF Init, HasItem, Holding
<1> QED
  BY <1>1, <1>2, NewType DEF Init, Typed, TypeOK

LEMMA TypedNext == Typed /\ [Next]_vars => Typed'
<1> SUFFICES ASSUME Typed, [Next]_vars PROVE Typed'
  OBVIOUS
<1> USE DEF Typed, TypeOK, HasItem
<1>1. ASSUME NEW i \in Items,
             \/ Add(i) \/ AddRateLimited(i) \/ AddIfNotProcessing(i) \/ ExpectAdd(i)
             \/ DelayElapses(i)
      PROVE  Typed'
  BY <1>1, AddType DEF Add, AddRateLimited, AddIfNotProcessing, ExpectAdd,
                       DelayElapses, Produce
<1>2. ASSUME NEW w \in Workers, WorkerStep(w) PROVE Typed'
  <2>1. ASSUME GetParks(w) PROVE Typed'
    BY <2>1, OtherOpsType DEF GetParks, Threads
  <2>2. ASSUME GetStops(w) PROVE Typed'
    BY <2>2 DEF GetStops, WorkerStates, Holding
  <2>3. ASSUME GetItem(w) PROVE Typed'
    <3>1. Head(q.queue) \in Items /\ q' \in Q!QueueStates
      BY <2>3, WorkerOpsType DEF GetItem
    <3> QED
      BY <2>3, <3>1 DEF GetItem, WorkerStates, Holding, Asking
  <2>4. ASSUME CheckProcessing(w) PROVE Typed'
    BY <2>4 DEF CheckProcessing, WorkerStates, Holding
  <2>5. ASSUME SyncSucceeds(w) \/ GiveUp(w) PROVE Typed'
    <3>1. item[w] \in Items /\ q' \in Q!QueueStates
      BY <2>5, WorkerOpsType, ZenonT(60) DEF SyncSucceeds, GiveUp, Holding
    <3>2. served' \subseteq Waiters
      BY <2>5 DEF SyncSucceeds, GiveUp
    <3>3. pc' \in [Workers -> WorkerStates] /\ HasItem'
      BY <2>5 DEF SyncSucceeds, GiveUp, WorkerStates, Holding
    <3> QED
      BY <2>5, <3>1, <3>2, <3>3 DEF SyncSucceeds, GiveUp
  <2>6. ASSUME SyncFails(w) PROVE Typed'
    BY <2>6 DEF SyncFails, WorkerStates, Holding
  <2>7. ASSUME ReadRequeues(w) PROVE Typed'
    <3>1. (IF Q!NumRequeues(q, item[w]) < MaxRetries THEN "retry" ELSE "giveup")
             \in {"retry", "giveup"}
      OBVIOUS
    <3> QED
      BY <2>7, <3>1 DEF ReadRequeues, WorkerStates, Holding
  <2>8. ASSUME Retry(w) PROVE Typed'
    <3>1. item[w] \in Items /\ q' \in Q!QueueStates
      BY <2>8, AddType DEF Retry, Holding
    <3> QED
      BY <2>8, <3>1 DEF Retry, WorkerStates, Holding
  <2>9. ASSUME Done(w) PROVE Typed'
    <3>1. item[w] \in Items /\ q' \in Q!QueueStates
      BY <2>9, WorkerOpsType DEF Done, Holding
    <3> QED
      BY <2>9, <3>1 DEF Done, WorkerStates, Holding
  <2> QED
    BY <1>2, <2>1, <2>2, <2>3, <2>4, <2>5, <2>6, <2>7, <2>8, <2>9 DEF WorkerStep
<1>3. ASSUME NEW c \in Waiters, WaiterStep(c) \/ \E i \in Items : Request(c, i)
      PROVE  Typed'
  <2>1. ASSUME NEW i \in Items, Request(c, i) PROVE Typed'
    BY <2>1, AddType DEF Request, WaiterStates
  <2>2. ASSUME WaitParks(c) PROVE Typed'
    BY <2>2, OtherOpsType DEF WaitParks, Threads
  <2>3. ASSUME WaitEnds(c) \/ PollEnds(c) PROVE Typed'
    BY <2>3 DEF WaitEnds, PollEnds, WaiterStates
  <2> QED
    BY <1>3, <2>1, <2>2, <2>3 DEF WaiterStep
<1>4. ASSUME ResetQueue PROVE Typed'
  BY <1>4, OtherOpsType DEF ResetQueue, Held
<1>5. ASSUME ResetRateLimiter \/ ShutDown PROVE Typed'
  BY <1>5, OtherOpsType DEF ResetRateLimiter, ShutDown
<1>6. ASSUME UNCHANGED vars PROVE Typed'
  BY <1>6 DEF vars
<1> QED
  BY <1>1, <1>2, <1>3, <1>4, <1>5, <1>6 DEF Next

\* The type invariant, for all values of the constants.
THEOREM TypeCorrect == Spec => []TypeOK
<1>1. Typed => TypeOK
  BY DEF Typed
<1> QED
  BY <1>1, TypedInit, TypedNext, PTL DEF Spec

-----------------------------------------------------------------------------
(***************************************************************************)
(* The shape of the queue.  QueueShape and OneWorkerPerItem rest on each   *)
(* other: a key in the queue is not being processed, a key some worker     *)
(* holds is, and so a key that Get hands out has no other worker.  The     *)
(* link between the two is HeldIsProcessing.                               *)
(***************************************************************************)

HeldIsProcessing ==
    \A i \in Items \ tainted : \A w \in Workers : Holds(w, i) => i \in q.processing

ShapeInv == /\ Typed
            /\ QueueShape /\ NoItemLost
            /\ HeldIsProcessing /\ OneWorkerPerItem

LEMMA ShapeInit == Init => ShapeInv
<1> SUFFICES ASSUME Init PROVE ShapeInv
  OBVIOUS
<1>1. \A w \in Workers : pc[w] \notin Holding
  BY DEF Init, Holding
<1>2. q.queue = <<>> /\ q.dirty = {}
  BY DEF Init, Q!New
<1>3. QueueShape /\ NoItemLost
  BY <1>2 DEF QueueShape, NoItemLost, Q!WellQueued, Q!NothingLost, Q!Occurs, Q!OccursOnce
<1>4. HeldIsProcessing /\ OneWorkerPerItem
  BY <1>1 DEF HeldIsProcessing, OneWorkerPerItem, Holds
<1> QED
  BY <1>3, <1>4, TypedInit DEF ShapeInv

\* What a step has to show when it only passes the queue through a method
\* that keeps it well formed, and no worker gets a new key.
LEMMA ShapeKept ==
  ASSUME ShapeInv, Typed', tainted' = tainted,
         SameQueue(q, q'),
         \A w \in Workers : \A i \in Items : Holds(w, i)' => Holds(w, i)
  PROVE  ShapeInv'
<1>1. QueueShape' /\ NoItemLost'
  BY SameQueueKeeps DEF ShapeInv, QueueShape, NoItemLost
<1>2. HeldIsProcessing' /\ OneWorkerPerItem'
  BY DEF ShapeInv, HeldIsProcessing, OneWorkerPerItem, SameQueue
<1> QED
  BY <1>1, <1>2 DEF ShapeInv

LEMMA ShapeNext == ShapeInv /\ [Next]_vars => ShapeInv'
<1> SUFFICES ASSUME ShapeInv, [Next]_vars PROVE ShapeInv'
  OBVIOUS
<1> USE DEF Holds
<1>t. Typed /\ Typed' /\ q \in Q!QueueStates
  BY TypedNext DEF ShapeInv, Typed, TypeOK
<1>a. ASSUME NEW i \in Items, q' = Q!Add(q, i), UNCHANGED <<worker, tainted>>
      PROVE  ShapeInv'
  <2>1. QueueShape' /\ NoItemLost' /\ q'.processing = q.processing
    BY <1>a, <1>t, AddKeeps DEF ShapeInv, QueueShape, NoItemLost
  <2> QED
    BY <1>a, <1>t, <2>1 DEF ShapeInv, HeldIsProcessing, OneWorkerPerItem
<1>1. ASSUME NEW i \in Items, Add(i) PROVE ShapeInv'
  BY <1>1, <1>a DEF Add, Produce
<1>2. ASSUME NEW i \in Items, AddRateLimited(i) \/ ExpectAdd(i) PROVE ShapeInv'
  BY <1>2, <1>t, BystanderOps, ShapeKept DEF AddRateLimited, ExpectAdd, Produce
<1>3. ASSUME NEW i \in Items, AddIfNotProcessing(i) PROVE ShapeInv'
  <2>1. q' = q \/ q' = Q!Add(q, i)
    BY <1>3 DEF AddIfNotProcessing, Produce, Q!AddIfNotProcessing
  <2>2. CASE q' = q
    BY <1>3, <1>t, <2>2, ShapeKept DEF AddIfNotProcessing, Produce, SameQueue
  <2> QED
    BY <1>3, <1>a, <2>1, <2>2 DEF AddIfNotProcessing, Produce
<1>4. ASSUME NEW i \in Items, DelayElapses(i) PROVE ShapeInv'
  <2> DEFINE y == [q EXCEPT !.delayed = @ \ {i}]
  <2>1. y \in Q!QueueStates /\ SameQueue(q, y)
    BY <1>t DEF SameQueue, Q!QueueStates
  <2>2. q' = Q!Add(y, i) /\ UNCHANGED <<worker, tainted>>
    BY <1>4 DEF DelayElapses, Q!DelayElapses
  <2> HIDE DEF y
  <2>3. QueueShape' /\ NoItemLost' /\ q'.processing = q.processing
    BY <2>1, <2>2, AddKeeps, SameQueueKeeps DEF ShapeInv, QueueShape, NoItemLost, SameQueue
  <2> QED
    BY <1>t, <2>2, <2>3 DEF ShapeInv, HeldIsProcessing, OneWorkerPerItem
<1>5. ASSUME NEW w \in Workers, GetParks(w) PROVE ShapeInv'
  BY <1>5, <1>t, BystanderOps, ShapeKept DEF GetParks
<1>6. ASSUME NEW w \in Workers, GetStops(w) PROVE ShapeInv'
  BY <1>6, <1>t, ShapeKept DEF GetStops, SameQueue, Holding, TypeOK, Typed
<1>7. ASSUME NEW w \in Workers, GetItem(w) PROVE ShapeInv'
  <2> DEFINE h == Head(q.queue)
  <2>1. /\ q.queue # <<>> /\ q' = Q!Get(q) /\ tainted' = tainted
        /\ \A v \in Workers : v # w => pc'[v] = pc[v] /\ item'[v] = item[v]
        /\ item'[w] = h
    BY <1>7, <1>t DEF GetItem, Typed, TypeOK
  <2>2. QueueShape' /\ NoItemLost'
    BY <1>t, <2>1, GetKeeps DEF ShapeInv, QueueShape, NoItemLost
  <2>3. h \in Items /\ q'.processing = q.processing \cup {h}
    BY <1>t, <2>1, WorkerOpsType DEF Q!Get, Q!QueueStates
  <2>4. Q!Occurs(q.queue, h)
    BY <1>t, <2>1, <2>3, TailOccurs DEF Q!QueueStates
  <2>5. h \notin tainted => \A v \in Workers : ~Holds(v, h)
    BY <2>3, <2>4 DEF ShapeInv, QueueShape, Q!WellQueued, HeldIsProcessing
  <2> HIDE DEF h
  <2>6. HeldIsProcessing' /\ OneWorkerPerItem'
    BY <2>1, <2>3, <2>5 DEF ShapeInv, HeldIsProcessing, OneWorkerPerItem
  <2> QED
    BY <1>t, <2>2, <2>6 DEF ShapeInv
<1>8. ASSUME NEW w \in Workers, CheckProcessing(w) PROVE ShapeInv'
  <2>1. \A v \in Workers : \A i \in Items : Holds(v, i)' => Holds(v, i)
    BY <1>8, <1>t DEF CheckProcessing, Holding, Typed, TypeOK
  <2> QED
    BY <1>8, <1>t, <2>1, ShapeKept DEF CheckProcessing, SameQueue
<1>9. ASSUME NEW w \in Workers,
             \/ SyncSucceeds(w) \/ SyncFails(w) \/ ReadRequeues(w)
             \/ Retry(w) \/ GiveUp(w)
      PROVE  ShapeInv'
  <2>1. \A v \in Workers : \A i \in Items : Holds(v, i)' => Holds(v, i)
    BY <1>9, <1>t DEF SyncSucceeds, SyncFails, ReadRequeues, Retry, GiveUp,
                      Holding, Typed, TypeOK
  <2>2. item[w] \in Items /\ tainted' = tainted
    BY <1>9, <1>t DEF SyncSucceeds, SyncFails, ReadRequeues, Retry, GiveUp,
                      Holding, Typed, HasItem
  <2>3. SameQueue(q, q')
    BY <1>9, <1>t, <2>2, BystanderOps
       DEF SyncSucceeds, SyncFails, ReadRequeues, Retry, GiveUp, SameQueue
  <2> QED
    BY <1>t, <2>1, <2>2, <2>3, ShapeKept
<1>10. ASSUME NEW w \in Workers, Done(w) PROVE ShapeInv'
  <2> DEFINE i == item[w]
  <2>1. /\ Holds(w, i) /\ i \in Items /\ q' = Q!Done(q, i) /\ tainted' = tainted
        /\ pc'[w] = "get"
        /\ \A v \in Workers : v # w => pc'[v] = pc[v] /\ item'[v] = item[v]
    BY <1>10, <1>t DEF Done, Holding, Typed, TypeOK, HasItem
  <2> HIDE DEF i
  <2>2. i \notin tainted => i \in q.processing
    BY <2>1 DEF ShapeInv, HeldIsProcessing
  <2>3. QueueShape' /\ NoItemLost'
    BY <1>t, <2>1, <2>2, DoneKeeps DEF ShapeInv, QueueShape, NoItemLost
  <2>4. q'.processing = q.processing \/ q'.processing = q.processing \ {i}
    BY <1>t, <2>1 DEF Q!Done, Q!Broadcast, Q!QueueStates
  <2>5. \A v \in Workers : \A j \in Items : Holds(v, j)' => Holds(v, j) /\ v # w
    BY <2>1 DEF Holding
  <2>6. HeldIsProcessing' /\ OneWorkerPerItem'
    BY <2>1, <2>4, <2>5 DEF ShapeInv, HeldIsProcessing, OneWorkerPerItem
  <2> QED
    BY <1>t, <2>3, <2>6 DEF ShapeInv
<1>11. ASSUME NEW c \in Waiters, NEW i \in Items, Request(c, i) PROVE ShapeInv'
  BY <1>11, <1>a DEF Request
<1>12. ASSUME NEW c \in Waiters, WaiterStep(c) PROVE ShapeInv'
  <2>1. SameQueue(q, q') /\ UNCHANGED <<worker, tainted>>
    BY <1>12, <1>t, BystanderOps DEF WaiterStep, WaitParks, WaitEnds, PollEnds, SameQueue
  <2> QED
    BY <1>t, <2>1, ShapeKept
<1>13. ASSUME ResetQueue PROVE ShapeInv'
  <2>1. QueueShape' /\ NoItemLost'
    BY <1>13, <1>t, ResetKeeps DEF ResetQueue, QueueShape, NoItemLost
  <2>2. \A v \in Workers : \A i \in Items : Holds(v, i)' => i \in tainted'
    BY <1>13, NoItemAssumption DEF ResetQueue, Held
  <2> QED
    BY <1>t, <2>1, <2>2 DEF ShapeInv, HeldIsProcessing, OneWorkerPerItem
<1>14. ASSUME ResetRateLimiter \/ ShutDown PROVE ShapeInv'
  BY <1>14, <1>t, BystanderOps, ShapeKept DEF ResetRateLimiter, ShutDown
<1>15. ASSUME UNCHANGED vars PROVE ShapeInv'
  BY <1>15, <1>t, ShapeKept DEF vars, SameQueue
<1> QED
  BY <1>1, <1>2, <1>3, <1>4, <1>5, <1>6, <1>7, <1>8, <1>9, <1>10, <1>11, <1>12,
     <1>13, <1>14, <1>15 DEF Next, WorkerStep

\* The comments on Type.queue and Type.processing hold, for ever, of every key
\* that no worker held when the queue was Reset.
THEOREM QueueWellShaped == Spec => []QueueShape
<1>1. ShapeInv => QueueShape
  BY DEF ShapeInv
<1> QED
  BY <1>1, ShapeInit, ShapeNext, PTL DEF Spec

\* With the same exception, two workers are never on one key.
THEOREM WorkersExclusive == Spec => []OneWorkerPerItem
<1>1. ShapeInv => OneWorkerPerItem
  BY DEF ShapeInv
<1> QED
  BY <1>1, ShapeInit, ShapeNext, PTL DEF Spec

\* The queue loses no key that was marked dirty, Reset or not.
THEOREM NothingIsLost == Spec => []NoItemLost
<1>1. ShapeInv => NoItemLost
  BY DEF ShapeInv
<1> QED
  BY <1>1, ShapeInit, ShapeNext, PTL DEF Spec

-----------------------------------------------------------------------------
(***************************************************************************)
(* Every key in the processing set has a worker on it.  Only Get puts a    *)
(* key there, and only Done and Reset end it; a worker lets go of its key  *)
(* without Done when it finds it is no longer there.                       *)
(***************************************************************************)

\* What a step shows that takes no worker off a key in the processing set.
LEMMA WorkedKept ==
  ASSUME Typed, ProcessingHasWorker,
         ~q'.shuttingDown => ~q.shuttingDown,
         q'.processing \subseteq q.processing,
         \A w \in Workers : \A i \in q'.processing : Holds(w, i) => Holds(w, i)'
  PROVE  ProcessingHasWorker'
  BY DEF ProcessingHasWorker

LEMMA WorkedNext == Typed /\ ProcessingHasWorker /\ [Next]_vars => ProcessingHasWorker'
<1> SUFFICES ASSUME Typed, ProcessingHasWorker, [Next]_vars PROVE ProcessingHasWorker'
  OBVIOUS
<1>t. q \in Q!QueueStates /\ pc \in [Workers -> WorkerStates]
      /\ item \in [Workers -> Items \cup {NoItem}] /\ HasItem
  BY DEF Typed, TypeOK
<1>q. /\ \A i \in Items : /\ Q!Add(q, i).processing = q.processing
                           /\ Q!Add(q, i).shuttingDown = q.shuttingDown
                           /\ Q!AddRateLimited(q, i).processing = q.processing
                           /\ Q!AddRateLimited(q, i).shuttingDown = q.shuttingDown
                           /\ Q!ExpectAdd(q, i).processing = q.processing
                           /\ Q!ExpectAdd(q, i).shuttingDown = q.shuttingDown
                           /\ Q!Forget(q, i).processing = q.processing
                           /\ Q!Forget(q, i).shuttingDown = q.shuttingDown
                           /\ Q!DelayElapses(q, i).processing = q.processing
                           /\ Q!DelayElapses(q, i).shuttingDown = q.shuttingDown
      /\ \A t : /\ Q!Wait(q, t).processing = q.processing
                /\ Q!Wait(q, t).shuttingDown = q.shuttingDown
  BY <1>t DEF Q!Add, Q!Enqueue, Q!Broadcast, Q!AddRateLimited, Q!ExpectAdd, Q!Forget,
              Q!DelayElapses, Q!Wait, Q!QueueStates
<1>1. ASSUME NEW i \in Items,
             \/ Add(i) \/ AddRateLimited(i) \/ AddIfNotProcessing(i) \/ ExpectAdd(i)
             \/ DelayElapses(i)
      PROVE  ProcessingHasWorker'
  BY <1>1, <1>q, WorkedKept DEF Add, AddRateLimited, AddIfNotProcessing, ExpectAdd,
                                DelayElapses, Produce, Q!AddIfNotProcessing, Holds
<1>2. ASSUME NEW w \in Workers, GetParks(w) \/ GetStops(w) PROVE ProcessingHasWorker'
  <2>1. CASE GetParks(w)
    BY <2>1, <1>q, WorkedKept DEF GetParks, Holds
  <2>2. CASE GetStops(w)
    BY <2>2 DEF GetStops, ProcessingHasWorker
  <2> QED
    BY <1>2, <2>1, <2>2
<1>3. ASSUME NEW w \in Workers, GetItem(w) PROVE ProcessingHasWorker'
  <2> DEFINE h == Head(q.queue)
  <2>1. /\ q'.processing = q.processing \cup {h} /\ q'.shuttingDown = q.shuttingDown
        /\ pc[w] = "get" /\ pc'[w] = "check" /\ item'[w] = h
        /\ \A v \in Workers : v # w => pc'[v] = pc[v] /\ item'[v] = item[v]
    BY <1>3, <1>t DEF GetItem, Q!Get, Q!QueueStates
  <2> HIDE DEF h
  <2>2. ASSUME NEW i \in q.processing, NEW v \in Workers, Holds(v, i) PROVE Holds(v, i)'
    BY <2>1, <2>2 DEF Holds, Holding
  <2> QED
    BY <2>1, <2>2 DEF ProcessingHasWorker, Holds, Holding
<1>4. ASSUME NEW w \in Workers, CheckProcessing(w) PROVE ProcessingHasWorker'
  <2>1. q' = q /\ \A v \in Workers : v # w => pc'[v] = pc[v] /\ item'[v] = item[v]
    BY <1>4, <1>t DEF CheckProcessing
  <2>2. SUFFICES ASSUME ~q.shuttingDown, NEW i \in q.processing, Holds(w, i)
                 PROVE  Holds(w, i)'
    BY <2>1 DEF ProcessingHasWorker, Holds
  <2> QED
    BY <1>4, <1>t, <2>2 DEF CheckProcessing, Q!IsProcessing, Holds, Holding
<1>5. ASSUME NEW w \in Workers,
             \/ SyncSucceeds(w) \/ SyncFails(w) \/ ReadRequeues(w)
             \/ Retry(w) \/ GiveUp(w)
      PROVE  ProcessingHasWorker'
  <2>1. item[w] \in Items /\ item' = item
    BY <1>5, <1>t DEF SyncSucceeds, SyncFails, ReadRequeues, Retry, GiveUp, HasItem, Holding
  <2>2. q'.processing = q.processing /\ q'.shuttingDown = q.shuttingDown
    BY <1>5, <1>q, <2>1 DEF SyncSucceeds, SyncFails, ReadRequeues, Retry, GiveUp
  <2>3. \A v \in Workers : pc[v] \in Holding => pc'[v] \in Holding
    BY <1>5, <1>t DEF SyncSucceeds, SyncFails, ReadRequeues, Retry, GiveUp, Holding
  <2> QED
    BY <2>1, <2>2, <2>3, WorkedKept DEF Holds
<1>6. ASSUME NEW w \in Workers, Done(w) PROVE ProcessingHasWorker'
  <2> DEFINE i == item[w]
  <2>1. /\ i \in Items /\ q' = Q!Done(q, i)
        /\ \A v \in Workers : v # w => pc'[v] = pc[v] /\ item'[v] = item[v]
    BY <1>6, <1>t DEF Done, HasItem, Holding
  <2>2. \/ q'.shuttingDown
        \/ ~q.shuttingDown /\ q'.processing = q.processing \ {i}
    BY <1>t, <2>1 DEF Q!Done, Q!Broadcast, Q!QueueStates
  <2> QED
    BY <2>1, <2>2 DEF ProcessingHasWorker, Holds
<1>7. ASSUME NEW c \in Waiters, WaiterStep(c) \/ \E i \in Items : Request(c, i)
      PROVE  ProcessingHasWorker'
  BY <1>7, <1>q, WorkedKept DEF WaiterStep, WaitParks, WaitEnds, PollEnds, Request, Holds
<1>8. ASSUME ResetQueue PROVE ProcessingHasWorker'
  BY <1>8, <1>t DEF ResetQueue, Q!ResetQueue, Q!QueueStates, ProcessingHasWorker
<1>9. ASSUME ResetRateLimiter \/ ShutDown PROVE ProcessingHasWorker'
  <2>1. CASE ResetRateLimiter
    BY <2>1, <1>t, WorkedKept DEF ResetRateLimiter, Q!ResetRateLimiter, Q!QueueStates, Holds
  <2>2. CASE ShutDown
    BY <2>2, <1>t DEF ShutDown, Q!ShutDown, Q!Broadcast, Q!QueueStates, ProcessingHasWorker
  <2> QED
    BY <1>9, <2>1, <2>2
<1>10. ASSUME UNCHANGED vars PROVE ProcessingHasWorker'
  BY <1>10, WorkedKept DEF vars, Holds
<1> QED
  BY <1>1, <1>2, <1>3, <1>4, <1>5, <1>6, <1>7, <1>8, <1>9, <1>10 DEF Next, WorkerStep

\* A key that is being processed has a worker that will call Done, until ShutDown.
THEOREM ProcessingIsWorkedOn == Spec => []ProcessingHasWorker
<1>1. Init => ProcessingHasWorker
  BY DEF Init, Q!New, ProcessingHasWorker
<1>2. Typed /\ ProcessingHasWorker /\ [Next]_vars => (Typed /\ ProcessingHasWorker)'
  BY TypedNext, WorkedNext
<1> QED
  BY <1>1, <1>2, TypedInit, PTL DEF Spec

-----------------------------------------------------------------------------
(***************************************************************************)
(* Parked threads.  A thread parks only when its condition says so, and    *)
(* each method that could change the condition wakes all, but for Reset.   *)
(* That no thread parks outside of Get and waitUntilDone is ParkedWait.    *)
(***************************************************************************)

ParkedWait == /\ \A w \in q.waiting \cap Workers : pc[w] = "get"
              /\ \A c \in q.waiting \cap Waiters : wpc[c] = "wait"

WakeInv == Typed /\ ParkedWait /\ NoMissedWakeup

\* A method after which whoever is parked still has a reason to be.
StillParked(x, y) ==
    \/ y.waiting = {}
    \/ /\ y.waiting = x.waiting
       /\ Q!GetParks(x) => Q!GetParks(y)
       /\ \A i \in Items : Q!Pending(x, i) => Q!Pending(y, i)

LEMMA WakeKept ==
  ASSUME WakeInv, Typed', StillParked(q, q'), dropped \subseteq dropped',
         \A w \in Workers : w \in q.waiting => pc'[w] = pc[w],
         \A c \in Waiters : c \in q.waiting => wpc'[c] = wpc[c] /\ witem'[c] = witem[c],
         \A c \in q.waiting \cap Waiters : witem[c] \in Items
  PROVE  WakeInv'
  BY DEF WakeInv, ParkedWait, NoMissedWakeup, StillParked

\* Add wakes all when it queues the item, and otherwise marks it dirty.
LEMMA AddWakes ==
  ASSUME NEW x \in Q!QueueStates, NEW i \in Items
  PROVE  StillParked(x, Q!Add(x, i)) /\ StillParked(x, Q!AddIfNotProcessing(x, i))
<1>1. StillParked(x, x)
  BY DEF StillParked
<1>2. CASE x.shuttingDown
  BY <1>1, <1>2 DEF Q!Add, Q!AddIfNotProcessing
<1>3. CASE ~x.shuttingDown /\ i \in x.dirty \cup x.processing
  <2> DEFINE y == [x EXCEPT !.dirty = @ \cup {i}, !.expected = @ \ {i}]
  <2>1. /\ y.waiting = x.waiting /\ y.queue = x.queue /\ y.shuttingDown = x.shuttingDown
        /\ y.dirty = x.dirty \cup {i} /\ y.expected = x.expected \ {i}
        /\ y.processing = x.processing
    BY DEF Q!QueueStates
  <2>2. Q!Add(x, i) = y
    BY <1>3 DEF Q!Add
  <2> HIDE DEF y
  <2>3. StillParked(x, y)
    BY <2>1 DEF StillParked, Q!GetParks, Q!Pending
  <2> QED
    BY <1>1, <2>2, <2>3 DEF Q!AddIfNotProcessing
<1>4. CASE ~x.shuttingDown /\ i \notin x.dirty \cup x.processing
  <2>1. Q!Enqueue(x, i).waiting = {}
    BY DEF Q!Enqueue, Q!Broadcast, Q!QueueStates
  <2> QED
    BY <1>1, <1>4, <2>1 DEF Q!Add, Q!AddIfNotProcessing, StillParked
<1> QED
  BY <1>2, <1>3, <1>4

LEMMA OthersWake ==
  ASSUME NEW x \in Q!QueueStates
  PROVE  /\ \A i \in Items : /\ StillParked(x, Q!AddRateLimited(x, i))
                             /\ StillParked(x, Q!ExpectAdd(x, i))
                             /\ StillParked(x, Q!Forget(x, i))
                             /\ StillParked(x, Q!Done(x, i))
         /\ StillParked(x, Q!ResetRateLimiter(x)) /\ StillParked(x, Q!ShutDown(x))
<1>1. StillParked(x, x)
  BY DEF StillParked
<1>2. ASSUME NEW i \in Items
      PROVE  /\ StillParked(x, Q!AddRateLimited(x, i)) /\ StillParked(x, Q!ExpectAdd(x, i))
             /\ StillParked(x, Q!Forget(x, i))
  BY <1>1 DEF StillParked, Q!GetParks, Q!Pending, Q!AddRateLimited, Q!ExpectAdd, Q!Forget,
              Q!QueueStates
<1>3. ASSUME NEW i \in Items PROVE StillParked(x, Q!Done(x, i))
  <2>1. Q!Done(x, i) = x \/ Q!Done(x, i).waiting = {}
    BY DEF Q!Done, Q!Broadcast, Q!QueueStates
  <2> QED
    BY <1>1, <2>1 DEF StillParked
<1>4. StillParked(x, Q!ResetRateLimiter(x)) /\ StillParked(x, Q!ShutDown(x))
  BY DEF StillParked, Q!GetParks, Q!Pending, Q!ResetRateLimiter, Q!ShutDown, Q!Broadcast,
         Q!QueueStates
<1> QED
  BY <1>2, <1>3, <1>4

\* A waiter has the item it asked for.
HasWaitItem == \A c \in Waiters : wpc[c] \in {"wait", "poll"} => witem[c] \in Items

LEMMA WaitItemNext == Typed /\ HasWaitItem /\ [Next]_vars => HasWaitItem'
<1> SUFFICES ASSUME Typed, HasWaitItem, [Next]_vars PROVE HasWaitItem'
  OBVIOUS
<1>t. wpc \in [Waiters -> WaiterStates] /\ witem \in [Waiters -> Items \cup {NoItem}]
  BY DEF Typed, TypeOK
<1>1. ASSUME NEW c \in Waiters, NEW i \in Items, Request(c, i) PROVE HasWaitItem'
  BY <1>1, <1>t DEF Request, HasWaitItem
<1>2. ASSUME NEW c \in Waiters, WaiterStep(c) PROVE HasWaitItem'
  BY <1>2, <1>t DEF WaiterStep, WaitParks, WaitEnds, PollEnds, HasWaitItem
<1>3. ASSUME UNCHANGED waiter PROVE HasWaitItem'
  BY <1>3 DEF HasWaitItem
<1> QED
  BY <1>1, <1>2, <1>3
     DEF Next, WorkerStep, Add, AddRateLimited, AddIfNotProcessing, ExpectAdd, Produce,
         DelayElapses, GetParks, GetStops, GetItem, CheckProcessing, SyncSucceeds, SyncFails,
         ReadRequeues, Retry, GiveUp, Done, ResetQueue, ResetRateLimiter, ShutDown, vars

LEMMA WakeNext == HasWaitItem /\ WakeInv /\ [Next]_vars => WakeInv'
<1> SUFFICES ASSUME HasWaitItem, WakeInv, [Next]_vars PROVE WakeInv'
  OBVIOUS
<1>t. /\ Typed /\ Typed' /\ q \in Q!QueueStates /\ pc \in [Workers -> WorkerStates]
      /\ wpc \in [Waiters -> WaiterStates] /\ HasItem
      /\ witem \in [Waiters -> Items \cup {NoItem}]
  BY TypedNext DEF WakeInv, Typed, TypeOK
<1>p. /\ \A w \in q.waiting \cap Workers : pc[w] = "get"
      /\ \A c \in q.waiting \cap Waiters : wpc[c] = "wait" /\ witem[c] \in Items
  BY DEF WakeInv, ParkedWait, HasWaitItem
<1>1. ASSUME NEW i \in Items,
             \/ Add(i) \/ AddRateLimited(i) \/ AddIfNotProcessing(i) \/ ExpectAdd(i)
      PROVE  WakeInv'
  <2>1. StillParked(q, q') /\ UNCHANGED <<pc, wpc, witem, dropped>>
    BY <1>1, <1>t, AddWakes, OthersWake
       DEF Add, AddRateLimited, AddIfNotProcessing, ExpectAdd, Produce
  <2> QED
    BY <1>t, <1>p, <2>1, WakeKept
<1>2. ASSUME NEW i \in Items, DelayElapses(i) PROVE WakeInv'
  <2> DEFINE x == [q EXCEPT !.delayed = @ \ {i}]
  <2>1. /\ x \in Q!QueueStates /\ x.waiting = q.waiting
        /\ Q!GetParks(q) => Q!GetParks(x)
        /\ \A j \in Items : Q!Pending(q, j) => Q!Pending(x, j)
    BY <1>t DEF Q!QueueStates, Q!GetParks, Q!Pending
  <2>2. q' = Q!Add(x, i) /\ UNCHANGED <<pc, wpc, witem, dropped>>
    BY <1>2 DEF DelayElapses, Q!DelayElapses
  <2> HIDE DEF x
  <2>3. StillParked(q, q')
    BY <2>1, <2>2, AddWakes DEF StillParked
  <2> QED
    BY <1>t, <1>p, <2>2, <2>3, WakeKept
<1>3. ASSUME NEW w \in Workers, GetParks(w) PROVE WakeInv'
  <2>1. /\ q'.waiting = q.waiting \cup {w} /\ Q!GetParks(q) /\ Q!GetParks(q')
        /\ \A i \in Items : Q!Pending(q, i) => Q!Pending(q', i)
        /\ pc[w] = "get" /\ UNCHANGED <<pc, wpc, witem, dropped>>
    BY <1>3, <1>t DEF GetParks, Q!Wait, Q!GetParks, Q!Pending, Q!QueueStates
  <2> QED
    BY <1>t, <1>p, <2>1, ThreadsAssumption DEF WakeInv, ParkedWait, NoMissedWakeup
<1>4. ASSUME NEW w \in Workers, GetStops(w) PROVE WakeInv'
  <2>1. w \notin q.waiting /\ q' = q /\ UNCHANGED <<wpc, witem, dropped>>
        /\ \A v \in Workers : v # w => pc'[v] = pc[v]
    BY <1>4, <1>t DEF GetStops
  <2> QED
    BY <1>t, <1>p, <2>1, WakeKept DEF StillParked
<1>5. ASSUME NEW w \in Workers, GetItem(w) PROVE WakeInv'
  <2> DEFINE h == Head(q.queue)
  <2>1. /\ w \notin q.waiting /\ q.queue # <<>>
        /\ q'.waiting = q.waiting /\ q'.expected = q.expected
        /\ q'.dirty = q.dirty \ {h} /\ q'.processing = q.processing \cup {h}
        /\ UNCHANGED <<wpc, witem, dropped>>
        /\ \A v \in Workers : v # w => pc'[v] = pc[v]
    BY <1>5, <1>t DEF GetItem, Q!Get, Q!QueueStates
  <2> HIDE DEF h
  <2>2. StillParked(q, q')
    BY <2>1 DEF StillParked, Q!GetParks, Q!Pending
  <2> QED
    BY <1>t, <1>p, <2>1, <2>2, WakeKept
<1>6. ASSUME NEW w \in Workers,
             \/ CheckProcessing(w) \/ SyncSucceeds(w) \/ SyncFails(w) \/ ReadRequeues(w)
             \/ Retry(w) \/ GiveUp(w) \/ Done(w)
      PROVE  WakeInv'
  <2>1. pc[w] # "get" /\ item[w] \in Items
    BY <1>6, <1>t DEF CheckProcessing, SyncSucceeds, SyncFails, ReadRequeues, Retry, GiveUp,
                      Done, HasItem, Holding
  <2>2. StillParked(q, q')
    BY <1>6, <1>t, <2>1, OthersWake
       DEF CheckProcessing, SyncSucceeds, SyncFails, ReadRequeues, Retry, GiveUp, Done,
           StillParked
  <2>3. /\ UNCHANGED <<wpc, witem, dropped>>
        /\ \A v \in Workers : v # w => pc'[v] = pc[v]
    BY <1>6, <1>t DEF CheckProcessing, SyncSucceeds, SyncFails, ReadRequeues, Retry, GiveUp, Done
  <2> QED
    BY <1>t, <1>p, <2>1, <2>2, <2>3, WakeKept
<1>7. ASSUME NEW c \in Waiters, NEW i \in Items, Request(c, i) PROVE WakeInv'
  <2>1. StillParked(q, q') /\ UNCHANGED <<pc, dropped>> /\ wpc[c] = "idle"
        /\ \A d \in Waiters : d # c => wpc'[d] = wpc[d] /\ witem'[d] = witem[d]
    BY <1>7, <1>t, AddWakes DEF Request
  <2> QED
    BY <1>t, <1>p, <2>1, WakeKept
<1>8. ASSUME NEW c \in Waiters, WaitParks(c) PROVE WakeInv'
  <2>1. /\ q'.waiting = q.waiting \cup {c} /\ Q!Pending(q, witem[c]) /\ wpc[c] = "wait"
        /\ Q!GetParks(q) => Q!GetParks(q')
        /\ \A i : Q!Pending(q, i) => Q!Pending(q', i)
        /\ UNCHANGED <<pc, wpc, witem, dropped>>
    BY <1>8, <1>t DEF WaitParks, Q!Wait, Q!GetParks, Q!Pending, Q!QueueStates
  <2> QED
    BY <1>t, <1>p, <2>1, ThreadsAssumption DEF WakeInv, ParkedWait, NoMissedWakeup
<1>9. ASSUME NEW c \in Waiters, WaitEnds(c) \/ PollEnds(c) PROVE WakeInv'
  <2>1. q' = q /\ c \notin q.waiting /\ UNCHANGED <<pc, witem, dropped>>
        /\ \A d \in Waiters : d # c => wpc'[d] = wpc[d]
    BY <1>9, <1>t, <1>p DEF WaitEnds, PollEnds
  <2> QED
    BY <1>t, <1>p, <2>1, WakeKept DEF StillParked
<1>10. ASSUME ResetQueue PROVE WakeInv'
  <2>1. /\ q'.waiting = q.waiting /\ q'.queue = <<>> /\ q'.shuttingDown = q.shuttingDown
        /\ UNCHANGED <<pc, wpc, witem>> /\ dropped' = dropped \cup
               {c \in Waiters : wpc[c] \in {"wait", "poll"}}
    BY <1>10, <1>t DEF ResetQueue, Q!ResetQueue, Q!QueueStates
  <2>2. q.waiting \cap Waiters \subseteq dropped'
    BY <1>p, <2>1
  <2> QED
    BY <1>t, <1>p, <2>1, <2>2 DEF WakeInv, ParkedWait, NoMissedWakeup, Q!GetParks
<1>11. ASSUME ResetRateLimiter \/ ShutDown PROVE WakeInv'
  <2>1. StillParked(q, q') /\ UNCHANGED <<pc, wpc, witem>> /\ dropped \subseteq dropped'
    BY <1>11, <1>t, OthersWake DEF ResetRateLimiter, ShutDown
  <2> QED
    BY <1>t, <1>p, <2>1, WakeKept
<1>12. ASSUME UNCHANGED vars PROVE WakeInv'
  BY <1>12, <1>t, <1>p, WakeKept DEF vars, StillParked
<1> QED
  BY <1>1, <1>2, <1>3, <1>4, <1>5, <1>6, <1>7, <1>8, <1>9, <1>10, <1>11, <1>12
     DEF Next, WorkerStep, WaiterStep

\* No worker and no waiter stays parked when what it waits for has come, unless a
\* Reset found the waiter parked.
THEOREM NobodySleepsOn == Spec => []NoMissedWakeup
<1>1. Init => WakeInv /\ HasWaitItem
  BY TypedInit DEF Init, Q!New, WakeInv, ParkedWait, NoMissedWakeup, HasWaitItem
<1>2. WakeInv /\ HasWaitItem /\ [Next]_vars => (WakeInv /\ HasWaitItem)'
  BY WakeNext, WaitItemNext DEF WakeInv
<1>3. WakeInv => NoMissedWakeup
  BY DEF WakeInv
<1> QED
  BY <1>1, <1>2, <1>3, PTL DEF Spec

-----------------------------------------------------------------------------
(***************************************************************************)
(* Failure counts.  The worker that called AddRateLimited is done with the *)
(* key, so Done must not be what the count relies on: Back leaves it out.  *)
(***************************************************************************)

Decides(w, i) == pc[w] \in Holding \ {"done"} /\ item[w] = i
Back(i) == i \in q.delayed \/ i \in q.dirty \/ \E w \in Workers : Decides(w, i)

CountedComesBack ==
    ~q.shuttingDown /\ ~resetting =>
        \A i \in Items \ tainted : q.requeues[i] > 0 => Back(i)

LEMMA AddCounts ==
  ASSUME NEW x \in Q!QueueStates, NEW j \in Items,
         NEW y \in {Q!Add(x, j), Q!AddIfNotProcessing(x, j), Q!ExpectAdd(x, j)}
  PROVE  /\ y.shuttingDown = x.shuttingDown /\ y.requeues = x.requeues
         /\ y.delayed = x.delayed /\ x.dirty \subseteq y.dirty
<1>1. CASE y = x
  BY <1>1
<1>2. CASE y # x /\ y = Q!ExpectAdd(x, j)
  BY <1>2 DEF Q!ExpectAdd, Q!QueueStates
<1>3. CASE y # x /\ y = Q!Add(x, j)
  BY <1>3 DEF Q!Add, Q!Enqueue, Q!Broadcast, Q!QueueStates
<1> QED
  BY <1>1, <1>2, <1>3 DEF Q!AddIfNotProcessing

LEMMA WorkerCounts ==
  ASSUME NEW x \in Q!QueueStates, NEW j \in Items, NEW i \in Items,
         NEW y \in {Q!Forget(x, j), Q!AddRateLimited(x, j)}
  PROVE  /\ y.shuttingDown = x.shuttingDown /\ y.dirty = x.dirty
         /\ x.delayed \subseteq y.delayed
         /\ i # j => y.requeues[i] = x.requeues[i]
         /\ ~x.shuttingDown /\ y.requeues[j] > 0 => j \in y.delayed
<1>1. CASE y = Q!Forget(x, j)
  BY <1>1 DEF Q!Forget, Q!QueueStates
<1>2. CASE y = Q!AddRateLimited(x, j)
  BY <1>2 DEF Q!AddRateLimited, Q!QueueStates
<1> QED
  BY <1>1, <1>2

LEMMA CountNext == ShapeInv /\ CountedComesBack /\ [Next]_vars => CountedComesBack'
<1> SUFFICES ASSUME ShapeInv, CountedComesBack, [Next]_vars,
                    ~q'.shuttingDown, ~resetting',
                    NEW i \in Items \ tainted', q'.requeues[i] > 0
             PROVE  Back(i)'
  BY DEF CountedComesBack
<1>t. /\ q \in Q!QueueStates /\ pc \in [Workers -> WorkerStates]
      /\ item \in [Workers -> Items \cup {NoItem}] /\ HasItem
  BY DEF ShapeInv, Typed, TypeOK
\* It is enough that i came back before, and that the step leaves it so.
<1>k. ASSUME ~q.shuttingDown, ~resetting, i \notin tainted, q.requeues[i] > 0,
             Back(i) => Back(i)'
      PROVE  Back(i)'
  BY <1>k DEF CountedComesBack
<1>1. ASSUME NEW j \in Items, \/ Add(j) \/ AddIfNotProcessing(j) \/ ExpectAdd(j)
                              \/ \E c \in Waiters : Request(c, j)
      PROVE  Back(i)'
  <2>1. /\ q'.shuttingDown = q.shuttingDown /\ q'.requeues = q.requeues
        /\ q'.delayed = q.delayed /\ q.dirty \subseteq q'.dirty
        /\ UNCHANGED <<pc, item, tainted, resetting>>
    <3>1. /\ q' \in {Q!Add(q, j), Q!AddIfNotProcessing(q, j), Q!ExpectAdd(q, j)}
          /\ UNCHANGED <<pc, item, tainted, resetting>>
      BY <1>1 DEF Add, AddIfNotProcessing, ExpectAdd, Request, Produce
    <3> QED
      BY <1>t, <3>1, AddCounts
  <2> QED
    BY <1>k, <2>1 DEF Back, Decides
<1>2. ASSUME NEW j \in Items, AddRateLimited(j) PROVE Back(i)'
  <2>1. /\ q'.shuttingDown = q.shuttingDown /\ q'.dirty = q.dirty
        /\ q'.delayed = q.delayed \cup {j}
        /\ i # j => q'.requeues[i] = q.requeues[i]
        /\ UNCHANGED <<pc, item, tainted, resetting>>
    BY <1>2, <1>t DEF AddRateLimited, Produce, Q!AddRateLimited, Q!QueueStates
  <2> QED
    BY <1>k, <2>1 DEF Back, Decides
<1>3. ASSUME NEW j \in Items, DelayElapses(j) PROVE Back(i)'
  <2>1. /\ ~q.shuttingDown /\ q'.requeues = q.requeues
        /\ q'.delayed = q.delayed \ {j} /\ q'.dirty = q.dirty \cup {j}
        /\ UNCHANGED <<pc, item, tainted, resetting>>
    BY <1>3, <1>t DEF DelayElapses, Q!DelayElapses, Q!Add, Q!Enqueue, Q!Broadcast,
                      Q!QueueStates
  <2> QED
    BY <1>k, <2>1 DEF Back, Decides
<1>4. ASSUME NEW w \in Workers, GetParks(w) \/ GetStops(w) PROVE Back(i)'
  <2>1. /\ ~q.shuttingDown /\ q'.requeues = q.requeues
        /\ q'.delayed = q.delayed /\ q'.dirty = q.dirty
        /\ UNCHANGED <<pc, item, tainted, resetting>>
    BY <1>4, <1>t DEF GetParks, GetStops, Q!Wait, Q!QueueStates
  <2> QED
    BY <1>k, <2>1 DEF Back, Decides
<1>5. ASSUME NEW w \in Workers, GetItem(w) PROVE Back(i)'
  <2> DEFINE h == Head(q.queue)
  <2>1. /\ ~q.shuttingDown /\ q'.requeues = q.requeues
        /\ q'.delayed = q.delayed /\ q'.dirty = q.dirty \ {h}
        /\ pc[w] = "get" /\ pc'[w] = "check" /\ item'[w] = h
        /\ \A v \in Workers : v # w => pc'[v] = pc[v] /\ item'[v] = item[v]
        /\ UNCHANGED <<tainted, resetting>>
    BY <1>5, <1>t DEF GetItem, Q!Get, Q!QueueStates
  <2> HIDE DEF h
  <2>2. Back(i) => Back(i)'
    BY <2>1 DEF Back, Decides, Holding
  <2> QED
    BY <1>k, <2>1, <2>2
<1>6. ASSUME NEW w \in Workers, CheckProcessing(w) PROVE Back(i)'
  <2>1. /\ q' = q /\ UNCHANGED <<tainted, resetting>>
        /\ \A v \in Workers : v # w => pc'[v] = pc[v] /\ item'[v] = item[v]
    BY <1>6, <1>t DEF CheckProcessing
  <2>2. ASSUME Decides(w, i) PROVE Decides(w, i)'
    <3>1. Q!IsProcessing(q, i)
      BY <2>1, <2>2 DEF Decides, Holds, ShapeInv, HeldIsProcessing, Q!IsProcessing
    <3> QED
      BY <1>6, <1>t, <2>2, <3>1 DEF CheckProcessing, Decides, Holding
  <2> QED
    BY <1>k, <2>1, <2>2 DEF Back, Decides
<1>7. ASSUME NEW w \in Workers, SyncFails(w) \/ ReadRequeues(w) PROVE Back(i)'
  <2>1. /\ q' = q /\ item' = item /\ UNCHANGED <<tainted, resetting>>
        /\ \A v \in Workers : pc[v] \in Holding \ {"done"} => pc'[v] \in Holding \ {"done"}
    BY <1>7, <1>t DEF SyncFails, ReadRequeues, Holding
  <2> QED
    BY <1>k, <2>1 DEF Back, Decides
<1>8. ASSUME NEW w \in Workers, SyncSucceeds(w) \/ GiveUp(w) \/ Retry(w) PROVE Back(i)'
  <2>1. /\ item[w] \in Items /\ item' = item /\ UNCHANGED <<tainted, resetting>>
        /\ \A v \in Workers : v # w => pc'[v] = pc[v]
    BY <1>8, <1>t DEF SyncSucceeds, GiveUp, Retry, HasItem, Holding
  <2>2. q' \in {Q!Forget(q, item[w]), Q!AddRateLimited(q, item[w])}
    BY <1>8 DEF SyncSucceeds, GiveUp, Retry
  <2>3. /\ q'.shuttingDown = q.shuttingDown /\ q'.dirty = q.dirty
        /\ q.delayed \subseteq q'.delayed
        /\ i # item[w] => q'.requeues[i] = q.requeues[i]
        /\ i = item[w] => i \in q'.delayed
    BY <1>t, <2>1, <2>2, WorkerCounts
  <2> QED
    BY <1>k, <2>1, <2>3 DEF Back, Decides
<1>9. ASSUME NEW w \in Workers, Done(w) PROVE Back(i)'
  <2>1. /\ item[w] \in Items /\ pc[w] = "done" /\ UNCHANGED <<tainted, resetting>>
        /\ \A v \in Workers : v # w => pc'[v] = pc[v] /\ item'[v] = item[v]
    BY <1>9, <1>t DEF Done, HasItem, Holding
  <2>2. /\ q'.shuttingDown = q.shuttingDown /\ q'.requeues = q.requeues
        /\ q'.delayed = q.delayed /\ q'.dirty = q.dirty
    BY <1>9, <1>t, <2>1 DEF Done, Q!Done, Q!Broadcast, Q!QueueStates
  <2> QED
    BY <1>k, <2>1, <2>2 DEF Back, Decides
<1>10. ASSUME NEW c \in Waiters, WaiterStep(c) PROVE Back(i)'
  <2>1. /\ q'.shuttingDown = q.shuttingDown /\ q'.requeues = q.requeues
        /\ q'.delayed = q.delayed /\ q'.dirty = q.dirty
        /\ UNCHANGED <<pc, item, tainted, resetting>>
    BY <1>10, <1>t DEF WaiterStep, WaitParks, WaitEnds, PollEnds, Q!Wait, Q!QueueStates
  <2> QED
    BY <1>k, <2>1 DEF Back, Decides
<1>11. ASSUME ResetQueue \/ ShutDown PROVE FALSE
  BY <1>11, <1>t DEF ResetQueue, ShutDown, Q!ShutDown, Q!Broadcast, Q!QueueStates
<1>12. ASSUME ResetRateLimiter PROVE FALSE
  BY <1>12, <1>t DEF ResetRateLimiter, Q!ResetRateLimiter, Q!QueueStates
<1>13. ASSUME UNCHANGED vars PROVE Back(i)'
  BY <1>13, <1>k DEF vars, Back, Decides
<1> QED
  BY <1>1, <1>2, <1>3, <1>4, <1>5, <1>6, <1>7, <1>8, <1>9, <1>10, <1>11, <1>12, <1>13
     DEF Next, WorkerStep

\* A failure count above zero is that of a key that will be handled again, so that
\* nobody polls it for ever.
THEOREM CountedIsRetried == Spec => []CountedWillRetry
<1>1. Init => CountedComesBack
  BY DEF Init, Q!New, CountedComesBack
<1>2. ShapeInv /\ CountedComesBack /\ [Next]_vars => (ShapeInv /\ CountedComesBack)'
  BY ShapeNext, CountNext
<1>3. CountedComesBack => CountedWillRetry
  BY DEF CountedComesBack, CountedWillRetry, Back, Decides, Holds
<1> QED
  BY <1>1, <1>2, <1>3, ShapeInit, PTL DEF Spec

-----------------------------------------------------------------------------
(***************************************************************************)
(* Waiters.  Of a waiter that has not been served, the item is dirty, or   *)
(* it has a failure count, or a worker is about to decide on it; and any   *)
(* worker that will bring the count back to zero took the item after the   *)
(* waiter asked.  The item may be dirty only while the waiter waits for    *)
(* the queue: then it cannot end its wait.                                 *)
(***************************************************************************)

Covered(c) == \A w \in Workers : Decides(w, witem[c]) => c \in covers[w]

WaitGoesOn(c) ==
    \/ witem[c] \in q.dirty
    \/ Covered(c) /\ (q.requeues[witem[c]] > 0 \/ \E w \in Workers : Decides(w, witem[c]))

PollGoesOn(c) == Covered(c) /\ q.requeues[witem[c]] > 0

Unserved(c) == c \notin served /\ c \notin dropped /\ witem[c] \notin tainted

UnservedWaits ==
    ~q.shuttingDown =>
        \A c \in Waiters : Unserved(c) =>
            /\ wpc[c] = "wait" => WaitGoesOn(c)
            /\ wpc[c] = "poll" => PollGoesOn(c)
            /\ wpc[c] # "returned"

ServedInv == ShapeInv /\ HasWaitItem /\ UnservedWaits

\* What Unserved needs to last through a step of somebody else.
LEMMA WaitKept ==
  ASSUME ServedInv, ~q.shuttingDown, NEW c \in Waiters, Unserved(c),
         wpc'[c] = wpc[c], witem'[c] = witem[c],
         wpc[c] \in {"wait", "poll"} =>
            /\ witem[c] \in q.dirty => witem[c] \in q'.dirty
            /\ q.requeues[witem[c]] > 0 => q'.requeues[witem[c]] > 0,
         \A w \in Workers : /\ Decides(w, witem[c])' <=> Decides(w, witem[c])
                            /\ covers'[w] = covers[w]
  PROVE  /\ wpc'[c] = "wait" => WaitGoesOn(c)'
         /\ wpc'[c] = "poll" => PollGoesOn(c)'
         /\ wpc'[c] # "returned"
<1>1. /\ wpc[c] = "wait" => WaitGoesOn(c)
      /\ wpc[c] = "poll" => PollGoesOn(c)
      /\ wpc[c] # "returned"
  BY DEF ServedInv, UnservedWaits
<1>2. Covered(c) => Covered(c)'
  BY DEF Covered, Decides
<1>3. (\E w \in Workers : Decides(w, witem[c])) => (\E w \in Workers : Decides(w, witem[c])')
  OBVIOUS
<1> QED
  BY <1>1, <1>2, <1>3 DEF WaitGoesOn, PollGoesOn, Decides

LEMMA ServedNext == ServedInv /\ [Next]_vars => UnservedWaits'
<1> SUFFICES ASSUME ServedInv, [Next]_vars, ~q'.shuttingDown,
                    NEW c \in Waiters, Unserved(c)'
             PROVE  /\ wpc'[c] = "wait" => WaitGoesOn(c)'
                    /\ wpc'[c] = "poll" => PollGoesOn(c)'
                    /\ wpc'[c] # "returned"
  BY DEF UnservedWaits
<1> DEFINE Goal == /\ wpc'[c] = "wait" => WaitGoesOn(c)'
                   /\ wpc'[c] = "poll" => PollGoesOn(c)'
                   /\ wpc'[c] # "returned"
<1>t. /\ q \in Q!QueueStates /\ pc \in [Workers -> WorkerStates]
      /\ item \in [Workers -> Items \cup {NoItem}] /\ HasItem
      /\ wpc \in [Waiters -> WaiterStates] /\ witem \in [Waiters -> Items \cup {NoItem}]
      /\ covers \in [Workers -> SUBSET Waiters]
  BY DEF ServedInv, ShapeInv, Typed, TypeOK
<1>i. wpc[c] \in {"wait", "poll"} => witem[c] \in Items
  BY DEF ServedInv, HasWaitItem
\* The steps of producers and timers.
<1>k. ASSUME q'.shuttingDown = q.shuttingDown, q.dirty \subseteq q'.dirty,
             \A i \in Items : q.requeues[i] > 0 => q'.requeues[i] > 0,
             UNCHANGED <<pc, item, covers, served, dropped, tainted>>,
             wpc'[c] = wpc[c], witem'[c] = witem[c]
      PROVE  Goal
  BY <1>k, <1>i, WaitKept DEF Unserved, Decides
<1>1. ASSUME NEW j \in Items, Add(j) \/ AddIfNotProcessing(j) \/ ExpectAdd(j) PROVE Goal
  <2>1. /\ q' \in {Q!Add(q, j), Q!AddIfNotProcessing(q, j), Q!ExpectAdd(q, j)}
        /\ UNCHANGED <<worker, waiter, history>>
    BY <1>1 DEF Add, AddIfNotProcessing, ExpectAdd, Produce
  <2> QED
    BY <1>t, <1>k, <2>1, AddCounts
<1>2. ASSUME NEW j \in Items, AddRateLimited(j) PROVE Goal
  <2>1. /\ q'.shuttingDown = q.shuttingDown /\ q'.dirty = q.dirty
        /\ \A i \in Items : q.requeues[i] > 0 => q'.requeues[i] > 0
        /\ UNCHANGED <<worker, waiter, history>>
    BY <1>2, <1>t DEF AddRateLimited, Produce, Q!AddRateLimited, Q!QueueStates
  <2> QED
    BY <1>k, <2>1
<1>3. ASSUME NEW j \in Items, DelayElapses(j) PROVE Goal
  <2>1. /\ q'.shuttingDown = q.shuttingDown /\ q.dirty \subseteq q'.dirty
        /\ q'.requeues = q.requeues /\ UNCHANGED <<worker, waiter, history>>
    BY <1>3, <1>t DEF DelayElapses, Q!DelayElapses, Q!Add, Q!Enqueue, Q!Broadcast,
                      Q!QueueStates
  <2> QED
    BY <1>k, <2>1
<1>4. ASSUME NEW w \in Workers, GetParks(w) PROVE Goal
  <2>1. /\ q'.shuttingDown = q.shuttingDown /\ q'.dirty = q.dirty
        /\ q'.requeues = q.requeues /\ UNCHANGED <<worker, waiter, history>>
    BY <1>4, <1>t DEF GetParks, Q!Wait, Q!QueueStates
  <2> QED
    BY <1>k, <2>1
<1>5. ASSUME NEW w \in Workers, GetStops(w) PROVE Goal
  BY <1>5 DEF GetStops
<1>6. ASSUME NEW w \in Workers, GetItem(w) PROVE Goal
  <2> DEFINE h == Head(q.queue)
  <2>1. /\ ~q.shuttingDown /\ q.queue # <<>> /\ q'.requeues = q.requeues
        /\ q'.dirty = q.dirty \ {h}
        /\ pc[w] = "get" /\ pc'[w] = "check" /\ item'[w] = h /\ covers'[w] = Asking(h)
        /\ \A v \in Workers : v # w => /\ pc'[v] = pc[v] /\ item'[v] = item[v]
                                       /\ covers'[v] = covers[v]
        /\ UNCHANGED <<wpc, witem, served, dropped, tainted>>
    BY <1>6, <1>t DEF GetItem, Q!Get, Q!QueueStates
  <2>2. h \in Items /\ Q!Occurs(q.queue, h)
    BY <1>t, <2>1, WorkerOpsType, TailOccurs DEF Q!QueueStates
  <2> HIDE DEF h
  <2>3. h \notin tainted => \A v \in Workers : ~Holds(v, h)
    BY <2>2 DEF ServedInv, ShapeInv, QueueShape, Q!WellQueued, HeldIsProcessing
  <2>4. CASE wpc[c] \in {"wait", "poll"} /\ witem[c] = h
    <3>1. Covered(c)'
      BY <2>1, <2>3, <2>4 DEF Covered, Decides, Holds, Unserved, Asking
    <3>2. Decides(w, witem[c])'
      BY <2>1, <2>4 DEF Decides, Holding
    <3>3. wpc[c] = "poll" => q.requeues[h] > 0
      BY <2>1, <2>4 DEF ServedInv, UnservedWaits, PollGoesOn, Unserved
    <3> QED
      BY <2>1, <2>4, <3>1, <3>2, <3>3 DEF WaitGoesOn, PollGoesOn
  <2>5. CASE wpc[c] \in {"wait", "poll"} /\ witem[c] # h
    <3>1. ASSUME NEW v \in Workers
          PROVE  /\ Decides(v, witem[c])' <=> Decides(v, witem[c])
                 /\ Decides(v, witem[c]) => covers'[v] = covers[v]
      BY <2>1, <2>5 DEF Decides, Holding
    <3>2. ASSUME Covered(c) PROVE Covered(c)'
      <4>1. ASSUME NEW v \in Workers, Decides(v, witem[c])' PROVE c \in covers'[v]
        <5>1. Decides(v, witem[c]) /\ covers'[v] = covers[v]
          BY <3>1, <4>1
        <5> QED
          BY <3>2, <5>1 DEF Covered
      <4> QED
        BY <4>1 DEF Covered
    <3>3. /\ wpc[c] = "wait" => WaitGoesOn(c)
          /\ wpc[c] = "poll" => PollGoesOn(c)
      BY <2>1 DEF ServedInv, UnservedWaits, Unserved
    <3>4. ASSUME \E v \in Workers : Decides(v, witem[c])
          PROVE  \E v \in Workers : Decides(v, witem[c])'
      <4>1. PICK v \in Workers : Decides(v, witem[c])
        BY <3>4
      <4>2. Decides(v, witem[c])'
        BY <3>1, <4>1
      <4> QED
        BY <4>2
    <3> QED
      BY <2>1, <2>5, <3>2, <3>3, <3>4 DEF WaitGoesOn, PollGoesOn
  <2> QED
    BY <2>1, <2>4, <2>5 DEF ServedInv, UnservedWaits, Unserved
<1>7. ASSUME NEW w \in Workers, CheckProcessing(w) PROVE Goal
  <2>1. /\ q' = q /\ UNCHANGED <<wpc, witem, history>>
        /\ \A v \in Workers : v # w => pc'[v] = pc[v] /\ item'[v] = item[v]
    BY <1>7, <1>t DEF CheckProcessing
  <2>2. CASE wpc[c] \in {"wait", "poll"}
    <3>1. ASSUME Decides(w, witem[c]) PROVE Decides(w, witem[c])'
      <4>1. Q!IsProcessing(q, witem[c])
        BY <1>i, <2>1, <2>2, <3>1
           DEF Decides, Holds, ServedInv, ShapeInv, HeldIsProcessing, Q!IsProcessing, Unserved
      <4> QED
        BY <1>7, <1>t, <2>1, <3>1, <4>1 DEF CheckProcessing, Decides, Holding
    <3>2. ASSUME Decides(w, witem[c])' PROVE Decides(w, witem[c])
      BY <1>7, <1>t, <2>1, <3>2 DEF CheckProcessing, Decides, Holding
    <3>3. \A v \in Workers : Decides(v, witem[c])' <=> Decides(v, witem[c])
      BY <2>1, <3>1, <3>2 DEF Decides
    <3> QED
      BY <2>1, <2>2, <3>3, WaitKept DEF Unserved
  <2> QED
    BY <2>1, <2>2 DEF ServedInv, UnservedWaits, Unserved
<1>8. ASSUME NEW w \in Workers, SyncFails(w) \/ ReadRequeues(w) PROVE Goal
  <2>1. /\ q' = q /\ item' = item /\ UNCHANGED <<wpc, witem, history>>
        /\ \A v \in Workers : pc'[v] \in Holding \ {"done"} <=> pc[v] \in Holding \ {"done"}
    BY <1>8, <1>t DEF SyncFails, ReadRequeues, Holding
  <2> QED
    BY <2>1, WaitKept DEF Decides, Unserved
<1>9. ASSUME NEW w \in Workers, SyncSucceeds(w) \/ GiveUp(w) \/ Retry(w) PROVE Goal
  <2>1. /\ pc[w] \in Holding \ {"done"} /\ pc'[w] = "done" /\ item[w] \in Items
        /\ item' = item /\ UNCHANGED <<wpc, witem, dropped, tainted, covers>>
        /\ \A v \in Workers : v # w => pc'[v] = pc[v]
    BY <1>9, <1>t DEF SyncSucceeds, GiveUp, Retry, HasItem, Holding
  <2>2. q' \in {Q!Forget(q, item[w]), Q!AddRateLimited(q, item[w])} /\ served \subseteq served'
    BY <1>9 DEF SyncSucceeds, GiveUp, Retry
  <2>3. /\ q'.shuttingDown = q.shuttingDown /\ q'.dirty = q.dirty
        /\ \A i \in Items : i # item[w] => q'.requeues[i] = q.requeues[i]
    BY <1>t, <2>1, <2>2, WorkerCounts
  <2>4. /\ wpc[c] = "wait" => WaitGoesOn(c)
        /\ wpc[c] = "poll" => PollGoesOn(c)
        /\ wpc[c] # "returned"
    BY <2>1, <2>2, <2>3 DEF ServedInv, UnservedWaits, Unserved
  <2>5. CASE wpc[c] \in {"wait", "poll"} /\ witem[c] # item[w]
    <3>1. \A v \in Workers : Decides(v, witem[c])' <=> Decides(v, witem[c])
      BY <2>1, <2>5 DEF Decides
    <3> QED
      BY <1>i, <2>1, <2>2, <2>3, <2>5, <3>1, WaitKept DEF Unserved
  <2>6. CASE wpc[c] \in {"wait", "poll"} /\ witem[c] = item[w]
    <3>1. Decides(w, witem[c])
      BY <2>1, <2>6 DEF Decides
    <3>2. CASE SyncSucceeds(w) \/ GiveUp(w)
      <4>1. c \notin covers[w]
        BY <3>2 DEF SyncSucceeds, GiveUp, Unserved
      <4> QED
        BY <2>1, <2>3, <2>4, <2>6, <3>1, <4>1 DEF WaitGoesOn, PollGoesOn, Covered
    <3>3. CASE Retry(w)
      <4>1. q'.requeues[item[w]] > 0
        BY <1>t, <2>1, <3>3 DEF Retry, Q!AddRateLimited, Q!QueueStates
      <4>2. Covered(c) => Covered(c)'
        BY <2>1 DEF Covered, Decides
      <4> QED
        BY <2>1, <2>3, <2>4, <2>6, <4>1, <4>2 DEF WaitGoesOn, PollGoesOn
    <3> QED
      BY <1>9, <3>2, <3>3
  <2> QED
    BY <2>1, <2>4, <2>5, <2>6
<1>10. ASSUME NEW w \in Workers, Done(w) PROVE Goal
  <2>1. /\ pc[w] = "done" /\ pc'[w] = "get" /\ item[w] \in Items
        /\ UNCHANGED <<wpc, witem, history>>
        /\ \A v \in Workers : v # w => pc'[v] = pc[v] /\ item'[v] = item[v]
    BY <1>10, <1>t DEF Done, HasItem, Holding
  <2>2. /\ q'.shuttingDown = q.shuttingDown /\ q'.requeues = q.requeues /\ q'.dirty = q.dirty
    BY <1>10, <1>t, <2>1 DEF Done, Q!Done, Q!Broadcast, Q!QueueStates
  <2>3. \A v \in Workers : Decides(v, witem[c])' <=> Decides(v, witem[c])
    BY <2>1 DEF Decides, Holding
  <2> QED
    BY <2>1, <2>2, <2>3, WaitKept DEF Unserved
<1>11. ASSUME NEW d \in Waiters, NEW j \in Items, Request(d, j) PROVE Goal
  <2>1. /\ q'.shuttingDown = q.shuttingDown /\ q'.requeues = q.requeues
        /\ q.dirty \subseteq q'.dirty
    BY <1>11, <1>t, AddCounts DEF Request
  <2>2. CASE d = c
    <3>1. wpc'[c] = "wait" /\ witem'[c] = j /\ j \in q'.dirty
      BY <1>11, <1>t, <2>1, <2>2 DEF Request, Q!Add, Q!Enqueue, Q!Broadcast, Q!QueueStates
    <3> QED
      BY <3>1 DEF WaitGoesOn
  <2>3. CASE d # c
    BY <1>11, <1>t, <1>k, <2>1, <2>3 DEF Request
  <2> QED
    BY <2>2, <2>3
<1>12. ASSUME NEW d \in Waiters, WaitParks(d) PROVE Goal
  <2>1. /\ q'.shuttingDown = q.shuttingDown /\ q'.dirty = q.dirty
        /\ q'.requeues = q.requeues /\ UNCHANGED <<worker, waiter, history>>
    BY <1>12, <1>t DEF WaitParks, Q!Wait, Q!QueueStates
  <2> QED
    BY <1>k, <2>1
<1>13. ASSUME NEW d \in Waiters, WaitEnds(d) PROVE Goal
  <2>1. q' = q /\ UNCHANGED <<worker, witem, history>>
    BY <1>13 DEF WaitEnds
  <2>2. CASE d = c
    <3>1. wpc[c] = "wait" /\ wpc'[c] = "poll" /\ ~Q!Pending(q, witem[c])
      BY <1>13, <1>t, <2>2 DEF WaitEnds
    <3>2. WaitGoesOn(c)
      BY <2>1, <3>1 DEF ServedInv, UnservedWaits, Unserved
    <3>3. \A w \in Workers : ~Decides(w, witem[c])
      BY <1>i, <2>1, <3>1
         DEF Decides, Holds, ServedInv, ShapeInv, HeldIsProcessing, Q!Pending, Unserved
    <3>4. PollGoesOn(c)
      BY <3>1, <3>2, <3>3 DEF WaitGoesOn, PollGoesOn, Q!Pending
    <3> QED
      BY <2>1, <3>1, <3>4 DEF PollGoesOn, Covered, Decides
  <2>3. CASE d # c
    BY <1>13, <1>t, <1>k, <2>1, <2>3 DEF WaitEnds
  <2> QED
    BY <2>2, <2>3
<1>14. ASSUME NEW d \in Waiters, PollEnds(d) PROVE Goal
  <2>1. q' = q /\ UNCHANGED <<worker, witem, history>>
    BY <1>14 DEF PollEnds
  <2>2. CASE d = c
    <3>1. wpc[c] = "poll" /\ q.requeues[witem[c]] = 0
      BY <1>14, <2>2 DEF PollEnds, Q!NumRequeues
    <3>2. PollGoesOn(c)
      BY <2>1, <3>1 DEF ServedInv, UnservedWaits, Unserved
    <3> QED
      BY <3>1, <3>2 DEF PollGoesOn
  <2>3. CASE d # c
    BY <1>14, <1>t, <1>k, <2>1, <2>3 DEF PollEnds
  <2> QED
    BY <2>2, <2>3
\* A Reset drops whoever is waiting.
<1>15. ASSUME ResetQueue \/ ResetRateLimiter PROVE Goal
  <2>1. /\ q'.shuttingDown = q.shuttingDown /\ UNCHANGED <<wpc, witem, served>>
        /\ dropped' = dropped \cup {d \in Waiters : wpc[d] \in {"wait", "poll"}}
        /\ tainted \subseteq tainted'
    BY <1>15, <1>t DEF ResetQueue, ResetRateLimiter, Q!ResetQueue, Q!ResetRateLimiter,
                       Q!QueueStates
  <2>2. wpc[c] \notin {"wait", "poll"}
    BY <2>1 DEF Unserved
  <2> QED
    BY <2>1, <2>2 DEF ServedInv, UnservedWaits, Unserved
<1>16. ASSUME ShutDown PROVE FALSE
  BY <1>16, <1>t DEF ShutDown, Q!ShutDown, Q!Broadcast, Q!QueueStates
<1>17. ASSUME UNCHANGED vars PROVE Goal
  BY <1>17, <1>k DEF vars
<1> QED
  BY <1>1, <1>2, <1>3, <1>4, <1>5, <1>6, <1>7, <1>8, <1>9, <1>10, <1>11, <1>12, <1>13,
     <1>14, <1>15, <1>16, <1>17 DEF Next, WorkerStep, WaiterStep

\* WaitUntilForgotten returns only after a synchronization that began after its
\* caller's Add, or gave the key up; a Reset and a ShutDown excepted.
THEOREM WaitersAreServed == Spec => []WaiterServed
<1>1. Init => HasWaitItem /\ UnservedWaits
  BY DEF Init, HasWaitItem, UnservedWaits
<1>2. ServedInv /\ [Next]_vars => ServedInv'
  BY ShapeNext, WaitItemNext, ServedNext DEF ServedInv, ShapeInv
<1>3. ServedInv => WaiterServed
  BY DEF ServedInv, UnservedWaits, Unserved, WaiterServed
<1> QED
  BY <1>1, <1>2, <1>3, ShapeInit, PTL DEF Spec, ServedInv

-----------------------------------------------------------------------------
(* The work queue implements ItemLifecycle: every step of the queue and of   *)
(* the goroutines around it is a step of a key's life, or none.  What each   *)
(* method does to the keys that are wanted.                                  *)

Wants(x, i) == Q!Occurs(x.queue, i) \/ (i \in x.dirty /\ i \in x.processing)

LEMMA AddWants ==
  ASSUME NEW x \in Q!QueueStates, NEW i \in Items, Q!NothingLost(x)
  PROVE  /\ Q!Add(x, i).shuttingDown = x.shuttingDown
         /\ \A j \in Items : Wants(Q!Add(x, i), j) <=> Wants(x, j) \/ (j = i /\ ~x.shuttingDown)
<1> DEFINE y == Q!Add(x, i)
<1>1. x.queue \in Seq(Items)
  BY DEF Q!QueueStates
<1>2. /\ y.shuttingDown = x.shuttingDown
      /\ \/ x.shuttingDown /\ y = x
         \/ /\ ~x.shuttingDown
            /\ y.dirty = x.dirty \cup {i} /\ y.processing = x.processing
            /\ y.queue = IF i \in x.dirty \cup x.processing THEN x.queue ELSE Append(x.queue, i)
  BY DEF Q!Add, Q!Enqueue, Q!Broadcast, Q!QueueStates
<1> HIDE DEF y
<1>3. ASSUME NEW j \in Items PROVE Wants(y, j) <=> Wants(x, j) \/ (j = i /\ ~x.shuttingDown)
  <2>1. CASE x.shuttingDown
    BY <1>2, <2>1
  <2>2. CASE ~x.shuttingDown /\ i \in x.dirty \cup x.processing
    BY <1>2, <2>2 DEF Wants, Q!NothingLost
  <2>3. CASE ~x.shuttingDown /\ i \notin x.dirty \cup x.processing
    <3>0. y.queue = Append(x.queue, i)
      BY <1>2, <2>3
    <3>1. Q!Occurs(y.queue, j) <=> Q!Occurs(x.queue, j) \/ j = i
      BY <1>1, <3>0, AppendOccurs
    <3> QED
      BY <1>2, <2>3, <3>1 DEF Wants
  <2> QED
    BY <2>1, <2>2, <2>3
<1> QED
  BY <1>2, <1>3 DEF y

LEMMA GetWants ==
  ASSUME NEW x \in Q!QueueStates, x.queue # <<>>
  PROVE  /\ Q!Get(x).shuttingDown = x.shuttingDown
         /\ Head(x.queue) \in Items /\ Wants(x, Head(x.queue))
         /\ \A j \in Items \ {Head(x.queue)} : Wants(Q!Get(x), j) <=> Wants(x, j)
         /\ Q!OccursOnce(x.queue, Head(x.queue)) => ~Wants(Q!Get(x), Head(x.queue))
<1> DEFINE y == Q!Get(x)
           h == Head(x.queue)
<1>1. x.queue \in Seq(Items) /\ h \in Items
  BY DEF Q!QueueStates
<1>2. /\ y.queue = Tail(x.queue) /\ y.dirty = x.dirty \ {h} /\ y.shuttingDown = x.shuttingDown
      /\ y.processing = x.processing \cup {h}
  BY DEF Q!Get, Q!QueueStates
<1> HIDE DEF y, h
<1>3. Wants(x, h)
  BY <1>1, TailOccurs DEF Wants, h
<1>4. ASSUME NEW j \in Items, j # h PROVE Wants(y, j) <=> Wants(x, j)
  BY <1>1, <1>2, <1>4, TailOccurs DEF Wants, h
<1>5. Q!OccursOnce(x.queue, h) => ~Wants(y, h)
  BY <1>1, <1>2, TailOccurs DEF Wants, h
<1> QED
  BY <1>1, <1>2, <1>3, <1>4, <1>5 DEF y, h

LEMMA DoneWants ==
  ASSUME NEW x \in Q!QueueStates, NEW i \in Items, Q!NothingLost(x)
  PROVE  /\ Q!Done(x, i).shuttingDown = x.shuttingDown
         /\ \A j \in Items : Wants(Q!Done(x, i), j) <=> Wants(x, j)
<1> DEFINE y == Q!Done(x, i)
<1>1. x.queue \in Seq(Items)
  BY DEF Q!QueueStates
<1>2. /\ y.shuttingDown = x.shuttingDown
      /\ \/ y = x
         \/ /\ y.dirty = x.dirty /\ y.processing = x.processing \ {i}
            /\ y.queue = IF i \in x.dirty THEN Append(x.queue, i) ELSE x.queue
  BY DEF Q!Done, Q!Broadcast, Q!QueueStates
<1> HIDE DEF y
<1>3. ASSUME NEW j \in Items PROVE Wants(y, j) <=> Wants(x, j)
  <2>1. CASE y = x
    BY <2>1
  <2>2. CASE /\ y.dirty = x.dirty /\ y.processing = x.processing \ {i}
             /\ y.queue = Append(x.queue, i) /\ i \in x.dirty
    <3>1. Q!Occurs(y.queue, j) <=> Q!Occurs(x.queue, j) \/ j = i
      BY <1>1, <2>2, AppendOccurs
    <3> QED
      BY <2>2, <3>1 DEF Wants, Q!NothingLost
  <2>3. CASE /\ y.dirty = x.dirty /\ y.processing = x.processing \ {i}
             /\ y.queue = x.queue /\ i \notin x.dirty
    BY <2>3 DEF Wants
  <2> QED
    BY <1>2, <2>1, <2>2, <2>3
<1> QED
  BY <1>2, <1>3 DEF y

LEMMA OthersWant ==
  ASSUME NEW x \in Q!QueueStates
  PROVE  /\ \A i \in Items : /\ SameQueue(x, Q!ExpectAdd(x, i))
                             /\ SameQueue(x, Q!AddRateLimited(x, i))
                             /\ SameQueue(x, Q!Forget(x, i))
                             /\ Q!ExpectAdd(x, i).shuttingDown = x.shuttingDown
                             /\ Q!AddRateLimited(x, i).shuttingDown = x.shuttingDown
                             /\ Q!Forget(x, i).shuttingDown = x.shuttingDown
         /\ \A t : SameQueue(x, Q!Wait(x, t)) /\ Q!Wait(x, t).shuttingDown = x.shuttingDown
         /\ SameQueue(x, Q!ResetRateLimiter(x))
         /\ Q!ResetRateLimiter(x).shuttingDown = x.shuttingDown
  BY DEF SameQueue, Q!ExpectAdd, Q!AddRateLimited, Q!Forget, Q!Wait, Q!ResetRateLimiter, Q!QueueStates

LEMMA WantedIs == Wanted = {i \in Items : Wants(q, i)}
  BY DEF Wanted, Wants

LEMMA WantedBecomes == Wanted' = {i \in Items : Wants(q', i)}
  BY DEF Wanted, Wants

-----------------------------------------------------------------------------
(* The refinement *)

LEMMA InitLives == Init => Lifecycle!Init
<1> SUFFICES ASSUME Init PROVE Lifecycle!Init
  OBVIOUS
<1>1. q.queue = <<>> /\ q.dirty = {} /\ ~q.shuttingDown
  BY DEF Init, Q!New
<1>2. Wanted = {}
  BY <1>1 DEF Wanted, Q!Occurs
<1>3. Working = [w \in Workers |-> NoItem]
  BY DEF Init, Working, Holding
<1> QED
  BY <1>1, <1>2, <1>3 DEF Init, Lifecycle!Init

\* A step that neither wants, begins, ends nor resets anything.
LEMMA NothingHappens ==
  ASSUME SameQueue(q, q'), q'.shuttingDown = q.shuttingDown, Working' = Working, tainted' = tainted
  PROVE  UNCHANGED Lifecycle!vars
  BY DEF SameQueue, Wanted, Lifecycle!vars

\* A step that adds a key, at the most.
LEMMA AddIsRequest ==
  ASSUME Typed, NoItemLost, NEW i \in Items, q' = Q!Add(q, i), Working' = Working, tainted' = tainted
  PROVE  [Lifecycle!Next]_(Lifecycle!vars)
<1>1. /\ q'.shuttingDown = q.shuttingDown
      /\ \A j \in Items : Wants(q', j) <=> Wants(q, j) \/ (j = i /\ ~q.shuttingDown)
  BY AddWants DEF Typed, TypeOK, NoItemLost
<1>2. CASE q.shuttingDown
  <2>1. Wanted' = Wanted
    BY <1>1, <1>2, WantedIs, WantedBecomes
  <2> QED
    BY <1>1, <2>1 DEF Lifecycle!vars
<1>3. CASE ~q.shuttingDown
  <2>1. Wanted' = Wanted \cup {i}
    BY <1>1, <1>3, WantedIs, WantedBecomes
  <2>2. Lifecycle!Request(i)
    BY <1>1, <1>3, <2>1 DEF Lifecycle!Request
  <2> QED
    BY <2>2 DEF Lifecycle!Next
<1> QED
  BY <1>2, <1>3, Zenon DEF Typed, TypeOK, Q!QueueStates

\* A worker that is on no key has none.
IdleHasNone == \A w \in Workers : pc[w] \notin Holding => item[w] = NoItem

LEMMA IdleNext == Typed /\ IdleHasNone /\ [Next]_vars => IdleHasNone'
<1> SUFFICES ASSUME Typed, IdleHasNone, [Next]_vars PROVE IdleHasNone'
  OBVIOUS
<1> USE DEF worker, waiter, bounds, history, Moves, Produce, IdleHasNone, Holding
<1>t. pc \in [Workers -> WorkerStates] /\ item \in [Workers -> Items \cup {NoItem}]
  BY DEF Typed, TypeOK
<1>1. ASSUME NEW w \in Workers, WorkerStep(w) PROVE IdleHasNone'
  BY <1>1, <1>t DEF WorkerStep, GetParks, GetStops, GetItem, CheckProcessing, SyncSucceeds, SyncFails,
                    ReadRequeues, Retry, GiveUp, Done
<1>2. CASE UNCHANGED worker
  BY <1>2
<1> QED
  BY <1>1, <1>2 DEF Next, Add, AddRateLimited, AddIfNotProcessing, ExpectAdd, DelayElapses, Request,
                    WaiterStep, WaitParks, WaitEnds, PollEnds, ResetQueue, ResetRateLimiter, ShutDown, vars

LEMMA StepLives == ShapeInv /\ IdleHasNone /\ [Next]_vars => [Lifecycle!Next]_(Lifecycle!vars)
<1> SUFFICES ASSUME ShapeInv, IdleHasNone, [Next]_vars PROVE [Lifecycle!Next]_(Lifecycle!vars)
  OBVIOUS
<1> USE DEF worker, waiter, bounds, history, Moves, Produce
<1>t. /\ Typed /\ NoItemLost /\ q \in Q!QueueStates /\ q.shuttingDown \in BOOLEAN
      /\ pc \in [Workers -> WorkerStates] /\ item \in [Workers -> Items \cup {NoItem}]
  BY DEF ShapeInv, Typed, TypeOK, Q!QueueStates
<1>w. UNCHANGED worker => Working' = Working
  BY DEF Working
<1>1. ASSUME NEW i \in Items, Add(i) \/ AddIfNotProcessing(i) PROVE [Lifecycle!Next]_(Lifecycle!vars)
  <2>1. UNCHANGED <<worker, tainted>> /\ (q' = q \/ q' = Q!Add(q, i))
    BY <1>1 DEF Add, AddIfNotProcessing, Q!AddIfNotProcessing
  <2>2. CASE q' = q
    BY <1>w, <2>1, <2>2, NothingHappens DEF SameQueue
  <2>3. CASE q' = Q!Add(q, i)
    BY <1>t, <1>w, <2>1, <2>3, AddIsRequest
  <2> QED
    BY <2>1, <2>2, <2>3
<1>2. ASSUME NEW i \in Items, AddRateLimited(i) \/ ExpectAdd(i)
      PROVE  [Lifecycle!Next]_(Lifecycle!vars)
  BY <1>2, <1>t, <1>w, OthersWant, NothingHappens DEF AddRateLimited, ExpectAdd
<1>3. ASSUME NEW i \in Items, DelayElapses(i) PROVE [Lifecycle!Next]_(Lifecycle!vars)
  <2> DEFINE y == [q EXCEPT !.delayed = @ \ {i}]
  <2>1. y \in Q!QueueStates /\ SameQueue(q, y) /\ ~y.shuttingDown /\ ~q.shuttingDown
    BY <1>3, <1>t DEF DelayElapses, SameQueue, Q!QueueStates
  <2>2. q' = Q!Add(y, i) /\ UNCHANGED <<worker, tainted>>
    BY <1>3 DEF DelayElapses, Q!DelayElapses
  <2> HIDE DEF y
  <2>3. Q!NothingLost(y)
    BY <1>t, <2>1, SameQueueKeeps DEF NoItemLost
  <2>4. ~q'.shuttingDown /\ \A j \in Items : Wants(q', j) <=> Wants(y, j) \/ j = i
    BY <2>1, <2>2, <2>3, AddWants
  <2>5. Wanted' = Wanted \cup {i}
    BY <2>1, <2>4, WantedIs, WantedBecomes DEF SameQueue, Wants
  <2>6. q'.shuttingDown = q.shuttingDown
    BY <2>2, <2>1, <2>3, AddWants, <1>3, <1>t, ZenonT(60) DEF DelayElapses, Q!QueueStates
  <2>7. Lifecycle!Request(i)
    BY <1>w, <2>1, <2>2, <2>5, <2>6 DEF Lifecycle!Request
  <2> QED
    BY <2>7 DEF Lifecycle!Next
<1>4. ASSUME NEW w \in Workers, GetParks(w) \/ GetStops(w) PROVE [Lifecycle!Next]_(Lifecycle!vars)
  <2>1. SameQueue(q, q') /\ q'.shuttingDown = q.shuttingDown /\ tainted' = tainted
    BY <1>4, <1>t, OthersWant DEF GetParks, GetStops, SameQueue
  <2>2. Working' = Working
    BY <1>4, <1>t DEF GetParks, GetStops, Working, Holding
  <2> QED
    BY <2>1, <2>2, NothingHappens
<1>5. ASSUME NEW w \in Workers, GetItem(w) PROVE [Lifecycle!Next]_(Lifecycle!vars)
  <2> DEFINE h == Head(q.queue)
  <2>1. /\ ~q.shuttingDown /\ q.queue # <<>> /\ q' = Q!Get(q) /\ tainted' = tainted
        /\ pc[w] = "get" /\ pc' = [pc EXCEPT ![w] = "check"] /\ item' = [item EXCEPT ![w] = h]
    BY <1>5 DEF GetItem
  <2>2. /\ q'.shuttingDown = q.shuttingDown /\ h \in Items /\ Wants(q, h)
        /\ \A j \in Items \ {h} : Wants(q', j) <=> Wants(q, j)
        /\ Q!OccursOnce(q.queue, h) => ~Wants(q', h)
    BY <1>t, <2>1, GetWants
  <2>3. h \in Wanted /\ (Wanted' = Wanted \ {h} \/ (h \in tainted /\ Wanted' = Wanted))
    <3>1. h \notin tainted => Q!OccursOnce(q.queue, h)
      BY <2>2 DEF ShapeInv, QueueShape, Q!WellQueued
    <3> QED
      BY <2>2, <3>1, WantedIs, WantedBecomes
  <2>4. Q!Occurs(q.queue, h)
    BY <1>t, <2>1, <2>2, TailOccurs DEF Q!QueueStates
  <2>5. h \notin tainted => \A v \in Workers : ~Holds(v, h)
    BY <2>2, <2>4 DEF ShapeInv, QueueShape, Q!WellQueued, HeldIsProcessing
  <2> HIDE DEF h
  <2>6. /\ Working[w] = NoItem /\ Working' = [Working EXCEPT ![w] = h]
        /\ h \in Lifecycle!InHand => h \in tainted
    BY <1>t, <2>1, <2>2, <2>5, NoItemAssumption DEF Working, Holding, Holds, Lifecycle!InHand
  <2>7. Lifecycle!Begin(w, h)
    BY <2>1, <2>2, <2>3, <2>6 DEF Lifecycle!Begin
  <2> QED
    BY <2>2, <2>7 DEF Lifecycle!Next
<1>6. ASSUME NEW w \in Workers, CheckProcessing(w) PROVE [Lifecycle!Next]_(Lifecycle!vars)
  <2>1. Working' = Working \/ Working' = [Working EXCEPT ![w] = NoItem]
    BY <1>6, <1>t DEF CheckProcessing, Working, Holding
  <2>2. q' = q /\ tainted' = tainted /\ Wanted' = Wanted
    BY <1>6 DEF CheckProcessing, Wanted
  <2>3. CASE Working' = Working
    BY <2>2, <2>3 DEF Lifecycle!vars
  <2>4. CASE Working' = [Working EXCEPT ![w] = NoItem]
    BY <2>2, <2>4 DEF Lifecycle!End, Lifecycle!Next
  <2> QED
    BY <2>1, <2>3, <2>4
<1>7. ASSUME NEW w \in Workers,
             SyncSucceeds(w) \/ SyncFails(w) \/ ReadRequeues(w) \/ Retry(w) \/ GiveUp(w)
      PROVE  [Lifecycle!Next]_(Lifecycle!vars)
  <2>1. /\ item' = item /\ tainted' = tainted /\ item[w] \in Items
        /\ pc[w] \in Holding /\ \E s \in Holding : pc' = [pc EXCEPT ![w] = s]
    BY <1>7, <1>t DEF SyncSucceeds, SyncFails, ReadRequeues, Retry, GiveUp, Holding, Typed, HasItem
  <2>2. Working' = Working
    BY <1>t, <2>1 DEF Working
  <2>3. SameQueue(q, q') /\ q'.shuttingDown = q.shuttingDown
    BY <1>7, <1>t, <2>1, OthersWant DEF SyncSucceeds, SyncFails, ReadRequeues, Retry, GiveUp, SameQueue
  <2> QED
    BY <2>1, <2>2, <2>3, NothingHappens
<1>8. ASSUME NEW w \in Workers, Done(w) PROVE [Lifecycle!Next]_(Lifecycle!vars)
  <2>1. /\ item[w] \in Items /\ q' = Q!Done(q, item[w]) /\ tainted' = tainted
        /\ pc' = [pc EXCEPT ![w] = "get"] /\ item' = [item EXCEPT ![w] = NoItem]
    BY <1>8, <1>t DEF Done, Typed, HasItem, Holding
  <2>2. q'.shuttingDown = q.shuttingDown /\ \A j \in Items : Wants(q', j) <=> Wants(q, j)
    BY <1>t, <2>1, DoneWants DEF NoItemLost
  <2>3. Wanted' = Wanted
    BY <2>2, WantedIs, WantedBecomes
  <2>4. Working' = [Working EXCEPT ![w] = NoItem]
    BY <1>t, <2>1 DEF Working, Holding
  <2>5. Lifecycle!End(w)
    BY <2>1, <2>2, <2>3, <2>4 DEF Lifecycle!End
  <2> QED
    BY <2>5 DEF Lifecycle!Next
<1>9. ASSUME NEW c \in Waiters, NEW i \in Items, Request(c, i) PROVE [Lifecycle!Next]_(Lifecycle!vars)
  BY <1>9, <1>t, <1>w, AddIsRequest DEF Request
<1>10. ASSUME NEW c \in Waiters, WaiterStep(c) PROVE [Lifecycle!Next]_(Lifecycle!vars)
  <2>1. SameQueue(q, q') /\ q'.shuttingDown = q.shuttingDown /\ UNCHANGED <<worker, tainted>>
    BY <1>10, <1>t, OthersWant DEF WaiterStep, WaitParks, WaitEnds, PollEnds, SameQueue
  <2> QED
    BY <1>w, <2>1, NothingHappens
<1>11. CASE ResetQueue
  <2>1. q'.queue = <<>> /\ q'.dirty = {} /\ q'.shuttingDown = q.shuttingDown /\ UNCHANGED worker
    BY <1>11, <1>t DEF ResetQueue, Q!ResetQueue, Q!QueueStates
  <2>2. Wanted' = {}
    BY <2>1 DEF Wanted, Q!Occurs
  <2>3. tainted' = tainted \cup Lifecycle!InHand
    <3>1. \A w \in Workers : Working[w] = item[w]
      BY <1>t DEF Working, IdleHasNone
    <3> QED
      BY <1>11, <3>1 DEF ResetQueue, Held, Lifecycle!InHand
  <2> QED
    BY <1>w, <2>1, <2>2, <2>3 DEF Lifecycle!Reset, Lifecycle!Next
<1>12. CASE ResetRateLimiter
  BY <1>12, <1>t, <1>w, OthersWant, NothingHappens DEF ResetRateLimiter
<1>13. CASE ShutDown
  <2>1. SameQueue(q, q') /\ q'.shuttingDown = TRUE /\ UNCHANGED <<worker, tainted>>
    BY <1>13, <1>t DEF ShutDown, Q!ShutDown, Q!Broadcast, SameQueue, Q!QueueStates
  <2> QED
    BY <1>w, <2>1 DEF SameQueue, Wanted, Lifecycle!ShutDown, Lifecycle!Next
<1>14. CASE UNCHANGED vars
  BY <1>14, <1>w, NothingHappens DEF vars, SameQueue
<1> QED
  BY <1>1, <1>2, <1>3, <1>4, <1>5, <1>6, <1>7, <1>8, <1>9, <1>10, <1>11, <1>12, <1>13, <1>14
     DEF Next, WorkerStep

\* The queue with its workers implements the life of a key that its users count on: no request is
\* lost, no key is with two workers, and a request made while a worker is on the key is served
\* after it, but for what a Reset found in the workers' hands.
THEOREM QueueImplementsLifecycle == Spec => ImplementsLifecycle
<1>1. Spec => []ShapeInv
  BY ShapeInit, ShapeNext, PTL DEF Spec
<1>2. Init => IdleHasNone
  BY DEF Init, IdleHasNone
<1>3. ShapeInv => Typed
  BY DEF ShapeInv
<1>4. Spec => []IdleHasNone
  BY <1>1, <1>2, <1>3, IdleNext, PTL DEF Spec
<1> QED
  BY <1>1, <1>4, InitLives, StepLives, PTL DEF Spec, ImplementsLifecycle, Lifecycle!Spec
=============================================================================

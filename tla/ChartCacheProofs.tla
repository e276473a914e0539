--------------------------- MODULE ChartCacheProofs ---------------------------
(***************************************************************************)
(* What the chart cache guarantees for any number of charts, workers,      *)
(* readers and producers, and any number of resyncs and faults.            *)
(***************************************************************************)
EXTENDS ChartCache, TLAPS

-----------------------------------------------------------------------------
(* The queue's methods keep the queue's type, whatever key they are given    *)
(* but for those that store it.                                              *)

LEMMA NewType == Q!New \in Q!QueueStates
  BY DEF Q!New, Q!QueueStates

LEMMA AddType ==
  ASSUME NEW x \in Q!QueueStates, NEW k \in Keys
  PROVE  /\ Q!Add(x, k) \in Q!QueueStates
         /\ Q!AddRateLimited(x, k) \in Q!QueueStates
         /\ Q!DelayElapses(x, k) \in Q!QueueStates
<1>1. ASSUME NEW y \in Q!QueueStates PROVE Q!Add(y, k) \in Q!QueueStates
  <2>1. Append(y.queue, k) \in Seq(Keys)
    BY DEF Q!QueueStates
  <2>2. Q!Enqueue(y, k) \in Q!QueueStates
    BY <2>1 DEF Q!Enqueue, Q!Broadcast, Q!QueueStates
  <2>3. [y EXCEPT !.dirty = @ \cup {k}, !.expected = @ \ {k}] \in Q!QueueStates
    BY DEF Q!QueueStates
  <2> QED
    BY <2>2, <2>3 DEF Q!Add
<1>2. Q!AddRateLimited(x, k) \in Q!QueueStates
  <2>1. x.requeues[k] + 1 \in Nat
    BY DEF Q!QueueStates
  <2> QED
    BY <2>1 DEF Q!AddRateLimited, Q!QueueStates
<1>3. [x EXCEPT !.delayed = @ \ {k}] \in Q!QueueStates
  BY DEF Q!QueueStates
<1> QED
  BY <1>1, <1>2, <1>3 DEF Q!DelayElapses

LEMMA WorkerOpsType ==
  ASSUME NEW x \in Q!QueueStates
  PROVE  /\ x.queue # <<>> => Head(x.queue) \in Keys /\ Q!Get(x) \in Q!QueueStates
         /\ \A k \in Keys : Q!Forget(x, k) \in Q!QueueStates /\ Q!Done(x, k) \in Q!QueueStates
<1>1. x.queue \in Seq(Keys)
  BY DEF Q!QueueStates
<1>2. x.queue # <<>> => Head(x.queue) \in Keys /\ Tail(x.queue) \in Seq(Keys)
  BY <1>1
<1>3. x.queue # <<>> => Q!Get(x) \in Q!QueueStates
  BY <1>2 DEF Q!Get, Q!QueueStates
<1>4. ASSUME NEW k \in Keys PROVE Q!Forget(x, k) \in Q!QueueStates
  BY DEF Q!Forget, Q!QueueStates
<1>5. ASSUME NEW k \in Keys PROVE Q!Done(x, k) \in Q!QueueStates
  <2>1. (IF k \in x.dirty THEN Append(x.queue, k) ELSE x.queue) \in Seq(Keys)
    BY <1>1
  <2> QED
    BY <2>1 DEF Q!Done, Q!Broadcast, Q!QueueStates
<1> QED
  BY <1>2, <1>3, <1>4, <1>5

LEMMA OtherOpsType ==
  ASSUME NEW x \in Q!QueueStates
  PROVE  /\ \A t \in Threads : Q!Wait(x, t) \in Q!QueueStates
         /\ Q!ResetQueue(x) \in Q!QueueStates
         /\ Q!ResetRateLimiter(x) \in Q!QueueStates
<1>1. <<>> \in Seq(Keys)
  OBVIOUS
<1> QED
  BY <1>1 DEF Q!Wait, Q!ResetQueue, Q!ResetRateLimiter, Q!QueueStates

-----------------------------------------------------------------------------
(* Types.  A worker past get has a key, a reader that began has one, and so  *)
(* has a producer that is about to queue it.                                 *)

QueueTyped == q \in Q!QueueStates

WorkersTyped ==
    /\ pc \in [Workers -> WorkerStates]
    /\ item \in [Workers -> Keys \cup {NoKey}] /\ entry \in [Workers -> Entries]
    /\ \A w \in Workers : pc[w] # "get" => item[w] \in Keys

ReadersTyped ==
    /\ rpc \in [Readers -> ReaderStates]
    /\ rkey \in [Readers -> Keys \cup {NoKey}] /\ rhit \in [Readers -> BOOLEAN]
    /\ \A r \in Readers : rpc[r] # "idle" => rkey[r] \in Keys

ProducersTyped ==
    /\ ppc \in [Producers -> ProducerStates]
    /\ pkey \in [Producers -> Keys \cup {NoKey}]
    /\ todo \in [Producers -> SUBSET Keys] /\ latest \in [Producers -> SUBSET Keys]
    /\ keep \in [Producers -> SUBSET Keys]
    /\ \A p \in Producers : ppc[p] \in {"add", "addRateLimited"} => pkey[p] \in Keys

CachesTyped ==
    /\ store \in [Keys -> Entries] /\ redis \subseteq Keys
    /\ lock \in [readers : SUBSET Workers, writer : {"none", "waiting", "held"}]

ResyncTyped ==
    /\ spc \in {"idle", "lock", "queue", "limiter", "store", "flush"}
    /\ ops \in Nat /\ resyncs \in Nat /\ faults \in Nat

HistoryTyped ==
    /\ index \in [op : {"none", "import", "delete"}, keys : SUBSET Keys]
    /\ asked \in [Keys -> Entries \cup {"wanted"}]
    /\ excused \subseteq Keys /\ tainted \subseteq Keys
    /\ unlucky \subseteq Readers /\ stranded \subseteq Readers

Typed == /\ QueueTyped /\ WorkersTyped /\ ReadersTyped /\ ProducersTyped
         /\ CachesTyped /\ ResyncTyped /\ HistoryTyped

LEMMA TypedIsTypeOK == Typed => TypeOK
  BY DEF Typed, TypeOK, QueueTyped, WorkersTyped, ReadersTyped, ProducersTyped, CachesTyped,
         ResyncTyped, HistoryTyped

LEMMA InitTyped == Init => Typed
<1> SUFFICES ASSUME Init PROVE Typed
  OBVIOUS
<1>1. QueueTyped
  BY NewType DEF Init, QueueTyped
<1>2. WorkersTyped /\ ReadersTyped /\ ProducersTyped
  BY DEF Init, WorkersTyped, ReadersTyped, ProducersTyped, WorkerStates, ReaderStates,
         ProducerStates, Entries
<1>3. CachesTyped /\ ResyncTyped /\ HistoryTyped
  BY DEF Init, CachesTyped, ResyncTyped, HistoryTyped, Entries
<1> QED
  BY <1>1, <1>2, <1>3 DEF Typed

LEMMA WorkerKeepsTypes == ASSUME Typed, NEW w \in Workers, WorkerStep(w) PROVE Typed'
<1> USE DEF workers, readers, producers, resync, history, WorkerGoes, Fault, NoFault, Disappoint,
            Typed, QueueTyped, WorkersTyped, ReadersTyped, ProducersTyped, CachesTyped,
            ResyncTyped, HistoryTyped, WorkerStates, Entries
<1>1. CASE GetParks(w)
  BY <1>1, OtherOpsType DEF GetParks, Threads
<1>2. CASE GetItem(w)
  BY <1>2, WorkerOpsType DEF GetItem
<1>3. CASE RLock(w)
  BY <1>3 DEF RLock
<1>4. CASE CheckProcessing(w)
  BY <1>4 DEF CheckProcessing, Leave
<1>5. CASE ReadEntry(w)
  BY <1>5 DEF ReadEntry
<1>6. CASE Delete(w)
  BY <1>6 DEF Delete, WaitingFor
<1>7. CASE Download(w)
  BY <1>7 DEF Download
<1>8. CASE Set(w)
  BY <1>8 DEF Set
<1>9. CASE Forget(w)
  BY <1>9, WorkerOpsType, ZenonT(60) DEF Forget
<1>10. CASE Clean(w)
  BY <1>10 DEF Clean
<1>11. CASE Retry(w)
  BY <1>11, AddType DEF Retry
<1>12. CASE GiveUp(w)
  BY <1>12, WorkerOpsType, ZenonT(60) DEF GiveUp, WaitingFor
<1>13. CASE Done(w)
  BY <1>13, WorkerOpsType DEF Done, Leave
<1> QED
  BY <1>1, <1>2, <1>3, <1>4, <1>5, <1>6, <1>7, <1>8, <1>9, <1>10, <1>11, <1>12, <1>13 DEF WorkerStep

LEMMA ReaderKeepsTypes ==
  ASSUME Typed, NEW r \in Readers, ReaderStep(r) \/ \E k \in Keys : Fetch(r, k)
  PROVE  Typed'
<1> USE DEF workers, readers, producers, resync, history, ReaderGoes, Fault, NoFault, Disappoint,
            WaitingFor, Typed, QueueTyped, WorkersTyped, ReadersTyped, ProducersTyped, CachesTyped,
            ResyncTyped, HistoryTyped, ReaderStates, Entries
<1>1. CASE StoreEntry(r)
  BY <1>1 DEF StoreEntry, PutEntry
<1>2. CASE Enqueue(r)
  BY <1>2, AddType DEF Enqueue
<1>3. CASE WaitParks(r)
  BY <1>3, OtherOpsType DEF WaitParks, Threads
<1>4. CASE WaitEnds(r)
  BY <1>4 DEF WaitEnds
<1>5. CASE PollEnds(r)
  BY <1>5 DEF PollEnds
<1>6. CASE Refetch(r)
  BY <1>6 DEF Refetch
<1>7. ASSUME NEW k \in Keys, Fetch(r, k) PROVE Typed'
  BY <1>7 DEF Fetch
<1> QED
  BY <1>1, <1>2, <1>3, <1>4, <1>5, <1>6, <1>7 DEF ReaderStep

LEMMA ProducerKeepsTypes ==
  ASSUME Typed, NEW p \in Producers, ProducerStep(p) \/ StartDelete(p)
  PROVE  Typed'
<1> USE DEF workers, readers, producers, resync, history, ProducerGoes, Fault, NoFault, Disappoint,
            WaitingFor, Typed, QueueTyped, WorkersTyped, ReadersTyped, ProducersTyped, CachesTyped,
            ResyncTyped, HistoryTyped, ProducerStates, Entries
<1>1. CASE Scan(p)
  BY <1>1, SMTT(60) DEF Scan
<1>2. CASE ListKeys(p)
  BY <1>2 DEF ListKeys
<1>3. CASE AddMarked(p)
  BY <1>3, AddType DEF AddMarked
<1>4. CASE MarkingEnds(p)
  BY <1>4 DEF MarkingEnds
<1>5. CASE AddChart(p)
  BY <1>5, AddType, SMTT(60) DEF AddChart
<1>6. CASE StartDelete(p)
  BY <1>6 DEF StartDelete, InBounds
<1>7. ASSUME NEW k \in Keys, MarkDeleted(p, k) PROVE Typed'
  BY <1>7 DEF MarkDeleted, PutEntry
<1>8. ASSUME NEW k \in Keys, StoreChart(p, k) PROVE Typed'
  BY <1>8 DEF StoreChart, PutEntry
<1> QED
  BY <1>1, <1>2, <1>3, <1>4, <1>5, <1>6, <1>7, <1>8 DEF ProducerStep

LEMMA ImportKeepsTypes ==
  ASSUME Typed, NEW p \in Producers, NEW idx \in SUBSET Keys, NEW newest \in SUBSET idx,
         StartImport(p, idx, newest)
  PROVE  Typed'
  BY DEF StartImport, InBounds, workers, readers, resync, ProducerGoes, Typed, QueueTyped, WorkersTyped,
         ReadersTyped, ProducersTyped, CachesTyped, ResyncTyped, HistoryTyped, ProducerStates

LEMMA ResyncKeepsTypes ==
  ASSUME Typed, StartResync \/ ResyncStep
  PROVE  Typed'
<1> USE DEF workers, readers, producers, resync, history, ResyncGoes, Fault, NoFault, Disappoint,
            WaitingFor, Typed, QueueTyped, WorkersTyped, ReadersTyped, ProducersTyped, CachesTyped,
            ResyncTyped, HistoryTyped, Entries
<1>1. CASE StartResync
  BY <1>1 DEF StartResync, InBounds
<1>2. CASE LockForResync
  BY <1>2 DEF LockForResync
<1>3. CASE ResetQueue
  BY <1>3, OtherOpsType DEF ResetQueue
<1>4. CASE ResetRateLimiter
  BY <1>4, OtherOpsType DEF ResetRateLimiter
<1>5. CASE ResetStore
  BY <1>5 DEF ResetStore
<1>6. CASE FlushDB
  BY <1>6 DEF FlushDB
<1> QED
  BY <1>1, <1>2, <1>3, <1>4, <1>5, <1>6 DEF ResyncStep

LEMMA TimerKeepsTypes ==
  ASSUME Typed, NEW k \in Keys, DelayElapses(k) \/ Evict(k)
  PROVE  Typed'
<1> USE DEF workers, readers, producers, resync, history, Fault, Disappoint, WaitingFor, Typed,
            QueueTyped, WorkersTyped, ReadersTyped, ProducersTyped, CachesTyped, ResyncTyped,
            HistoryTyped
<1>1. CASE DelayElapses(k)
  BY <1>1, AddType DEF DelayElapses
<1>2. CASE Evict(k)
  BY <1>2, BoundsAssumption DEF Evict, InBounds
<1> QED
  BY <1>1, <1>2

LEMMA StutterKeepsTypes == ASSUME Typed, UNCHANGED vars PROVE Typed'
  BY DEF vars, workers, readers, producers, resync, history, Typed, QueueTyped, WorkersTyped,
         ReadersTyped, ProducersTyped, CachesTyped, ResyncTyped, HistoryTyped

LEMMA StepKeepsTypes == Typed /\ [Next]_vars => Typed'
<1> SUFFICES ASSUME Typed, [Next]_vars PROVE Typed'
  OBVIOUS
<1>1. CASE UNCHANGED vars
  BY <1>1, StutterKeepsTypes
<1>2. ASSUME NEW w \in Workers, WorkerStep(w) PROVE Typed'
  BY <1>2, WorkerKeepsTypes
<1>3. ASSUME NEW r \in Readers, ReaderStep(r) \/ \E k \in Keys : Fetch(r, k) PROVE Typed'
  BY <1>3, ReaderKeepsTypes
<1>4. ASSUME NEW p \in Producers, ProducerStep(p) \/ StartDelete(p) PROVE Typed'
  BY <1>4, ProducerKeepsTypes
<1>5. ASSUME NEW p \in Producers, NEW idx \in SUBSET Keys, NEW newest \in SUBSET idx,
             StartImport(p, idx, newest)
      PROVE  Typed'
  BY <1>5, ImportKeepsTypes
<1>6. CASE StartResync \/ ResyncStep
  BY <1>6, ResyncKeepsTypes
<1>7. ASSUME NEW k \in Keys, DelayElapses(k) \/ Evict(k) PROVE Typed'
  BY <1>7, TimerKeepsTypes
<1> QED
  BY <1>1, <1>2, <1>3, <1>4, <1>5, <1>6, <1>7 DEF Next

LEMMA AlwaysTyped == Spec => []Typed
<1> QED
  BY InitTyped, StepKeepsTypes, PTL DEF Spec

\* Every variable keeps its type, and every goroutine that works on a chart has one, for any
\* sets of charts and goroutines (chart_cache.go).
THEOREM TypeCorrect == Spec => []TypeOK
  BY AlwaysTyped, TypedIsTypeOK, PTL

-----------------------------------------------------------------------------
(* The resync's exclusion.                                                   *)

\* The readers of the RWMutex are the workers between RLock and RUnlock, and the write lock
\* is held with no reader.
LockInv ==
    /\ lock.readers = {w \in Workers : pc[w] \notin {"get", "rlock"}}
    /\ lock.writer = "held" => lock.readers = {}

LEMMA LockInvSuffices == Typed /\ LockInv => ResyncExcludesWorkers
  BY DEF LockInv, ResyncExcludesWorkers

LEMMA InitLock == Init => LockInv
  BY DEF Init, LockInv

LEMMA WorkerKeepsLock ==
  ASSUME Typed, LockInv, NEW w \in Workers, WorkerStep(w)
  PROVE  LockInv'
<1> USE DEF Typed, WorkersTyped, CachesTyped, LockInv, WorkerGoes, workers
<1>1. CASE GetParks(w) \/ GetItem(w)
  BY <1>1 DEF GetParks, GetItem
<1>2. CASE RLock(w)
  BY <1>2 DEF RLock
<1>3. CASE CheckProcessing(w)
  BY <1>3 DEF CheckProcessing, Leave
<1>4. CASE ReadEntry(w) \/ Delete(w) \/ Download(w) \/ Set(w)
  BY <1>4 DEF ReadEntry, Delete, Download, Set
<1>5. CASE Forget(w) \/ Clean(w) \/ Retry(w) \/ GiveUp(w)
  BY <1>5 DEF Forget, Clean, Retry, GiveUp
<1>6. CASE Done(w)
  BY <1>6 DEF Done, Leave
<1> QED
  BY <1>1, <1>2, <1>3, <1>4, <1>5, <1>6 DEF WorkerStep

LEMMA ResyncKeepsLock ==
  ASSUME Typed, LockInv, StartResync \/ ResyncStep
  PROVE  LockInv'
<1> USE DEF Typed, CachesTyped, LockInv, workers
<1>1. CASE StartResync
  BY <1>1 DEF StartResync
<1>2. CASE LockForResync
  BY <1>2 DEF LockForResync
<1>3. CASE ResetQueue \/ ResetRateLimiter \/ FlushDB
  BY <1>3 DEF ResetQueue, ResetRateLimiter, FlushDB
<1>4. CASE ResetStore
  BY <1>4 DEF ResetStore
<1> QED
  BY <1>1, <1>2, <1>3, <1>4 DEF ResyncStep

LEMMA StepKeepsLock == Typed /\ LockInv /\ [Next]_vars => LockInv'
<1> SUFFICES ASSUME Typed, LockInv, [Next]_vars PROVE LockInv'
  OBVIOUS
<1>1. ASSUME NEW w \in Workers, WorkerStep(w) PROVE LockInv'
  BY <1>1, WorkerKeepsLock
<1>2. CASE StartResync \/ ResyncStep
  BY <1>2, ResyncKeepsLock
<1>3. ASSUME UNCHANGED <<lock, pc>> PROVE LockInv'
  BY <1>3 DEF LockInv
<1>4. ASSUME NEW r \in Readers, ReaderStep(r) \/ \E k \in Keys : Fetch(r, k)
      PROVE  UNCHANGED <<lock, pc>>
  BY <1>4 DEF ReaderStep, StoreEntry, Enqueue, WaitParks, WaitEnds, PollEnds, Refetch, Fetch, workers
<1>5. ASSUME NEW p \in Producers, ProducerStep(p) \/ StartDelete(p)
      PROVE  UNCHANGED <<lock, pc>>
  BY <1>5 DEF ProducerStep, Scan, ListKeys, AddMarked, MarkingEnds, AddChart, MarkDeleted,
              StoreChart, StartDelete, workers
<1>6. ASSUME NEW p \in Producers, NEW idx \in SUBSET Keys, NEW newest \in SUBSET idx,
             StartImport(p, idx, newest)
      PROVE  UNCHANGED <<lock, pc>>
  BY <1>6 DEF StartImport, workers
<1>7. ASSUME NEW k \in Keys, DelayElapses(k) \/ Evict(k) PROVE UNCHANGED <<lock, pc>>
  BY <1>7 DEF DelayElapses, Evict, workers
<1>8. CASE UNCHANGED vars
  BY <1>3, <1>8 DEF vars, workers
<1> QED
  BY <1>1, <1>2, <1>3, <1>4, <1>5, <1>6, <1>7, <1>8 DEF Next

\* No worker is inside syncHandler while a resync replaces the queue and the store: the write
\* lock excludes every worker that looked at its key, whatever the number of workers.
THEOREM ResyncIsAlone == Spec => []ResyncExcludesWorkers
<1>1. Spec => [](Typed /\ LockInv)
  BY AlwaysTyped, InitLock, StepKeepsLock, PTL DEF Spec
<1> QED
  BY <1>1, LockInvSuffices, PTL

-----------------------------------------------------------------------------
(* The shape of the queue: a key is queued, once, exactly when it is dirty   *)
(* and no worker is on it.                                                   *)

LEMMA AppendOccurs ==
  ASSUME NEW s \in Seq(Keys), NEW i \in Keys, NEW j \in Keys
  PROVE  /\ Q!Occurs(Append(s, i), j) <=> Q!Occurs(s, j) \/ j = i
         /\ Q!OccursOnce(s, j) /\ (j = i => ~Q!Occurs(s, j))
               => Q!OccursOnce(Append(s, i), j)
<1> DEFINE t == Append(s, i)
<1>1. /\ Len(t) = Len(s) + 1 /\ DOMAIN t = 1..Len(t) /\ DOMAIN s = 1..Len(s)
      /\ t[Len(s) + 1] = i /\ \A k \in 1..Len(s) : t[k] = s[k]
      /\ Len(s) \in Nat
  OBVIOUS
<1> HIDE DEF t
<1>2. Q!Occurs(t, j) <=> Q!Occurs(s, j) \/ j = i
  BY <1>1 DEF Q!Occurs
<1>3. Q!OccursOnce(s, j) /\ (j = i => ~Q!Occurs(s, j)) => Q!OccursOnce(t, j)
  BY <1>1 DEF Q!Occurs, Q!OccursOnce
<1> QED
  BY <1>2, <1>3 DEF t

LEMMA TailOccurs ==
  ASSUME NEW s \in Seq(Keys), s # <<>>, NEW j \in Keys
  PROVE  /\ Q!Occurs(s, j) <=> Q!Occurs(Tail(s), j) \/ j = Head(s)
         /\ Q!OccursOnce(s, j) => /\ Q!OccursOnce(Tail(s), j)
                                  /\ j = Head(s) => ~Q!Occurs(Tail(s), j)
<1> DEFINE t == Tail(s)
<1>1. /\ Len(s) \in Nat \ {0} /\ DOMAIN s = 1..Len(s) /\ Head(s) = s[1]
      /\ Len(t) = Len(s) - 1 /\ DOMAIN t = 1..Len(t)
      /\ \A k \in 1..Len(t) : t[k] = s[k + 1]
  OBVIOUS
<1> HIDE DEF t
<1>2. ASSUME Q!Occurs(s, j) PROVE Q!Occurs(t, j) \/ j = Head(s)
  <2>1. PICK k \in DOMAIN s : s[k] = j
    BY <1>2 DEF Q!Occurs
  <2>2. k = 1 \/ (k - 1 \in DOMAIN t /\ t[k - 1] = j)
    BY <1>1, <2>1
  <2> QED
    BY <1>1, <2>1, <2>2 DEF Q!Occurs
<1>3. Q!Occurs(t, j) \/ j = Head(s) => Q!Occurs(s, j)
  BY <1>1 DEF Q!Occurs
<1>4. ASSUME Q!OccursOnce(s, j) PROVE Q!OccursOnce(t, j)
  <2> SUFFICES ASSUME NEW k \in DOMAIN t, NEW l \in DOMAIN t, t[k] = j, t[l] = j
               PROVE  k = l
    BY DEF Q!OccursOnce
  <2>1. k + 1 \in DOMAIN s /\ l + 1 \in DOMAIN s /\ s[k + 1] = j /\ s[l + 1] = j
    BY <1>1
  <2> QED
    BY <1>1, <1>4, <2>1 DEF Q!OccursOnce
<1>5. ASSUME Q!OccursOnce(s, j), j = Head(s), NEW k \in DOMAIN t, t[k] = j PROVE FALSE
  <2>1. 1 \in DOMAIN s /\ k + 1 \in DOMAIN s /\ s[1] = j /\ s[k + 1] = j
    BY <1>1, <1>5
  <2> QED
    BY <1>1, <1>5, <2>1 DEF Q!OccursOnce
<1> QED
  BY <1>2, <1>3, <1>4, <1>5 DEF t, Q!Occurs

\* The queue, the dirty and the processing set of y are these.
Parts(y, s, D, P) == y.queue = s /\ y.dirty = D /\ y.processing = P

LEMMA BystanderOps ==
  ASSUME NEW x \in Q!QueueStates
  PROVE  /\ \A k \in Keys :
               /\ Parts(Q!AddRateLimited(x, k), x.queue, x.dirty, x.processing)
               /\ Parts(Q!Forget(x, k), x.queue, x.dirty, x.processing)
               /\ Q!AddRateLimited(x, k).shuttingDown = x.shuttingDown
               /\ Q!Forget(x, k).shuttingDown = x.shuttingDown
               /\ Q!Forget(x, k).delayed = x.delayed
               /\ ~x.shuttingDown => Q!AddRateLimited(x, k).delayed = x.delayed \cup {k}
         /\ \A t : /\ Parts(Q!Wait(x, t), x.queue, x.dirty, x.processing)
                   /\ Q!Wait(x, t).shuttingDown = x.shuttingDown /\ Q!Wait(x, t).delayed = x.delayed
         /\ Parts(Q!ResetRateLimiter(x), x.queue, x.dirty, x.processing)
         /\ Q!ResetRateLimiter(x).shuttingDown = x.shuttingDown
         /\ Parts(Q!ResetQueue(x), <<>>, {}, {})
         /\ Q!ResetQueue(x).shuttingDown = x.shuttingDown
  BY DEF Parts, Q!AddRateLimited, Q!Forget, Q!Wait, Q!ResetRateLimiter, Q!ResetQueue, Q!QueueStates

LEMMA AddKeeps ==
  ASSUME NEW x \in Q!QueueStates, ~x.shuttingDown, NEW k \in Keys
  PROVE  /\ Q!Add(x, k).processing = x.processing /\ Q!Add(x, k).dirty = x.dirty \cup {k}
         /\ Q!Add(x, k).delayed = x.delayed /\ ~Q!Add(x, k).shuttingDown
         /\ \A j \in Keys : Q!WellQueued(x, j) => Q!WellQueued(Q!Add(x, k), j)
<1> DEFINE y == Q!Add(x, k)
<1>1. x.queue \in Seq(Keys) /\ x.dirty \in SUBSET Keys
  BY DEF Q!QueueStates
<1>2. /\ y.delayed = x.delayed /\ ~y.shuttingDown
      /\ y.dirty = x.dirty \cup {k} /\ y.processing = x.processing
      /\ y.queue = IF k \in x.dirty \cup x.processing THEN x.queue ELSE Append(x.queue, k)
  BY DEF Q!Add, Q!Enqueue, Q!Broadcast, Q!QueueStates
<1> HIDE DEF y
<1>3. ASSUME NEW j \in Keys, Q!WellQueued(x, j) PROVE Q!WellQueued(y, j)
  BY <1>1, <1>2, <1>3, AppendOccurs DEF Q!WellQueued
<1> QED
  BY <1>2, <1>3 DEF y

LEMMA GetKeeps ==
  ASSUME NEW x \in Q!QueueStates, x.queue # <<>>
  PROVE  /\ Parts(Q!Get(x), Tail(x.queue), x.dirty \ {Head(x.queue)},
                  x.processing \cup {Head(x.queue)})
         /\ Q!Get(x).delayed = x.delayed /\ Q!Get(x).shuttingDown = x.shuttingDown
         /\ \A j \in Keys : Q!WellQueued(x, j) => Q!WellQueued(Q!Get(x), j)
         /\ Q!WellQueued(x, Head(x.queue)) =>
               Head(x.queue) \in x.dirty /\ Head(x.queue) \notin x.processing
<1> DEFINE y == Q!Get(x)
           h == Head(x.queue)
<1>1. x.queue \in Seq(Keys) /\ h \in Keys
  BY DEF Q!QueueStates
<1>2. /\ Parts(y, Tail(x.queue), x.dirty \ {h}, x.processing \cup {h})
      /\ y.delayed = x.delayed /\ y.shuttingDown = x.shuttingDown
  BY DEF Parts, Q!Get, Q!QueueStates
<1> HIDE DEF y, h
<1>3. ASSUME NEW j \in Keys, Q!WellQueued(x, j) PROVE Q!WellQueued(y, j)
  BY <1>1, <1>2, <1>3, TailOccurs DEF Parts, Q!WellQueued, h
<1>4. Q!Occurs(x.queue, h)
  BY <1>1, TailOccurs DEF h
<1> QED
  BY <1>2, <1>3, <1>4 DEF y, h, Q!WellQueued

LEMMA DoneKeeps ==
  ASSUME NEW x \in Q!QueueStates, ~x.shuttingDown, NEW k \in Keys
  PROVE  /\ Q!Done(x, k).dirty = x.dirty /\ Q!Done(x, k).processing = x.processing \ {k}
         /\ Q!Done(x, k).delayed = x.delayed /\ ~Q!Done(x, k).shuttingDown
         /\ \A j \in Keys : (j = k => k \in x.processing) /\ Q!WellQueued(x, j)
                            => Q!WellQueued(Q!Done(x, k), j)
<1> DEFINE y == Q!Done(x, k)
<1>1. x.queue \in Seq(Keys)
  BY DEF Q!QueueStates
<1>2. /\ y.delayed = x.delayed /\ ~y.shuttingDown
      /\ Parts(y, IF k \in x.dirty THEN Append(x.queue, k) ELSE x.queue, x.dirty, x.processing \ {k})
  BY DEF Parts, Q!Done, Q!Broadcast, Q!QueueStates
<1> HIDE DEF y
<1>3. ASSUME NEW j \in Keys, Q!WellQueued(x, j), j = k => k \in x.processing
      PROVE  Q!WellQueued(y, j)
  BY <1>1, <1>2, <1>3, AppendOccurs DEF Parts, Q!WellQueued
<1> QED
  BY <1>2, <1>3 DEF y, Parts

LEMMA EmptyIsWellQueued == ASSUME NEW y, Parts(y, <<>>, {}, {}) PROVE \A k : Q!WellQueued(y, k)
  BY DEF Parts, Q!WellQueued, Q!Occurs, Q!OccursOnce

\* Of a key that no resync took from a worker: its queue is well formed, and whoever holds it
\* is alone with it, and known to be.
KeyShape(k) ==
    /\ Q!WellQueued(q, k)
    /\ \A w \in Workers : item[w] = k => k \in q.processing
    /\ \A v, w \in Workers : item[v] = k /\ item[w] = k => v = w

\* A worker at get holds none, and a resync is at the queue, the rate limiter or the store
\* exactly while it holds the write lock.
ShapeInv ==
    /\ ~q.shuttingDown
    /\ \A w \in Workers : pc[w] = "get" => item[w] = NoKey
    /\ lock.writer = "held" <=> spc \in {"queue", "limiter", "store"}
    /\ \A k \in Keys \ tainted : KeyShape(k)

LEMMA InitShape == Init => ShapeInv
<1> SUFFICES ASSUME Init PROVE ShapeInv
  OBVIOUS
<1>1. Parts(q, <<>>, {}, {}) /\ ~q.shuttingDown
  BY DEF Init, Q!New, Parts
<1>2. ASSUME NEW k \in Keys PROVE KeyShape(k)
  BY <1>1, EmptyIsWellQueued, NoKeyAssumption DEF KeyShape, Init
<1> QED
  BY <1>1, <1>2 DEF Init, ShapeInv

\* Steps that leave the workers, the resync, the tainted keys and what is being processed alone.
LEMMA OthersKeepShape ==
  ASSUME Typed, ShapeInv, UNCHANGED <<pc, item, lock, spc, tainted>>,
         ~q'.shuttingDown, q'.processing = q.processing,
         \A k \in Keys : Q!WellQueued(q, k) => Q!WellQueued(q', k)
  PROVE  ShapeInv'
  BY DEF ShapeInv, KeyShape

LEMMA WorkerKeepsShape ==
  ASSUME Typed, ShapeInv, NEW w \in Workers, WorkerStep(w)
  PROVE  ShapeInv'
<1> USE DEF Typed, WorkersTyped, QueueTyped, CachesTyped, workers, resync, history, WorkerGoes
<1>1. CASE GetParks(w)
  <2>1. Parts(q', q.queue, q.dirty, q.processing) /\ ~q'.shuttingDown
    BY <1>1, BystanderOps DEF GetParks, ShapeInv
  <2> QED
    BY <1>1, <2>1, OthersKeepShape DEF GetParks, Parts, Q!WellQueued
<1>2. CASE GetItem(w)
  <2> DEFINE h == Head(q.queue)
  <2>1. /\ q' = Q!Get(q) /\ q.queue # <<>> /\ pc[w] = "get" /\ pc' = [pc EXCEPT ![w] = "rlock"]
        /\ item' = [item EXCEPT ![w] = h] /\ UNCHANGED <<lock, spc, tainted>>
    BY <1>2 DEF GetItem
  <2>2. h \in Keys /\ q'.processing = q.processing \cup {h} /\ ~q'.shuttingDown
    BY <2>1, GetKeeps, WorkerOpsType DEF Parts, ShapeInv
  <2>3. ASSUME NEW k \in Keys \ tainted PROVE KeyShape(k)'
    <3>1. KeyShape(k) /\ Q!WellQueued(q', k)
      BY <2>1, GetKeeps DEF ShapeInv, KeyShape
    <3>2. k = h => \A v \in Workers : item[v] # k
      BY <2>1, <3>1, GetKeeps DEF KeyShape
    <3> QED
      BY <2>1, <2>2, <3>1, <3>2 DEF KeyShape
  <2>4. \A v \in Workers : pc'[v] = "get" => item'[v] = NoKey
    BY <2>1 DEF ShapeInv
  <2> QED
    BY <2>1, <2>2, <2>3, <2>4 DEF ShapeInv
<1>3. CASE RLock(w) \/ CheckProcessing(w)
  BY <1>3, NoKeyAssumption DEF RLock, CheckProcessing, Leave, ShapeInv, KeyShape
<1>4. CASE ReadEntry(w) \/ Delete(w) \/ Download(w) \/ Set(w) \/ Clean(w)
  BY <1>4 DEF ReadEntry, Delete, Download, Set, Clean, ShapeInv, KeyShape
<1>5. CASE Forget(w) \/ Retry(w) \/ GiveUp(w)
  <2>1. item[w] \in Keys /\ (q' = Q!Forget(q, item[w]) \/ q' = Q!AddRateLimited(q, item[w]))
    BY <1>5 DEF Forget, Retry, GiveUp
  <2>2. Parts(q', q.queue, q.dirty, q.processing) /\ q'.shuttingDown = q.shuttingDown
    <3>1. q \in Q!QueueStates
      OBVIOUS
    <3>2. CASE q' = Q!Forget(q, item[w])
      BY <2>1, <3>1, <3>2, BystanderOps
    <3>3. CASE q' = Q!AddRateLimited(q, item[w])
      BY <2>1, <3>1, <3>3, BystanderOps
    <3> QED
      BY <2>1, <3>2, <3>3
  <2>3. \A k \in Keys : Q!WellQueued(q, k) => Q!WellQueued(q', k)
    BY <2>2 DEF Parts, Q!WellQueued
  <2>4. UNCHANGED <<item, lock, spc, tainted>> /\ \A v \in Workers : pc'[v] = "get" => pc[v] = "get"
    BY <1>5 DEF Forget, Retry, GiveUp
  <2> QED
    BY <2>2, <2>3, <2>4 DEF Parts, ShapeInv, KeyShape
<1>6. CASE Done(w)
  <2>1. /\ q' = Q!Done(q, item[w]) /\ item[w] \in Keys /\ pc' = [pc EXCEPT ![w] = "get"]
        /\ item' = [item EXCEPT ![w] = NoKey] /\ UNCHANGED <<spc, tainted>>
        /\ lock'.writer = lock.writer
    BY <1>6 DEF Done, Leave
  <2>2. q'.processing = q.processing \ {item[w]} /\ ~q'.shuttingDown
    BY <2>1, DoneKeeps DEF ShapeInv
  <2>3. ASSUME NEW k \in Keys \ tainted PROVE KeyShape(k)'
    <3>1. KeyShape(k)
      BY DEF ShapeInv
    <3>2. Q!WellQueued(q', k)
      BY <2>1, <3>1, DoneKeeps DEF ShapeInv, KeyShape
    <3> QED
      BY <2>1, <2>2, <3>1, <3>2, NoKeyAssumption DEF KeyShape
  <2> QED
    BY <2>1, <2>2, <2>3 DEF ShapeInv
<1> QED
  BY <1>1, <1>2, <1>3, <1>4, <1>5, <1>6 DEF WorkerStep

LEMMA ResyncKeepsShape ==
  ASSUME Typed, LockInv, ShapeInv, StartResync \/ ResyncStep
  PROVE  ShapeInv'
<1> USE DEF Typed, WorkersTyped, QueueTyped, CachesTyped, ResyncTyped, workers, resync, history, ResyncGoes
<1>1. CASE StartResync \/ LockForResync \/ ResetStore \/ FlushDB
  BY <1>1 DEF StartResync, LockForResync, ResetStore, FlushDB, ShapeInv, KeyShape
<1>2. CASE ResetQueue
  <2>1. Parts(q', <<>>, {}, {}) /\ ~q'.shuttingDown
    BY <1>2, BystanderOps DEF ResetQueue, ShapeInv
  <2>2. ASSUME NEW k \in Keys \ tainted', NEW w \in Workers, item[w] = k PROVE FALSE
    <3>1. pc[w] # "get" /\ pc[w] # "rlock"
      BY <1>2, <2>2, NoKeyAssumption DEF ResetQueue, ShapeInv
    <3> QED
      BY <1>2, <3>1 DEF ResetQueue, LockInv, ShapeInv
  <2>3. ASSUME NEW k \in Keys \ tainted' PROVE KeyShape(k)'
    BY <1>2, <2>1, <2>2, EmptyIsWellQueued DEF KeyShape, ResetQueue
  <2> QED
    BY <1>2, <2>1, <2>3 DEF ResetQueue, ShapeInv
<1>3. CASE ResetRateLimiter
  <2>1. Parts(q', q.queue, q.dirty, q.processing) /\ ~q'.shuttingDown
    BY <1>3, BystanderOps DEF ResetRateLimiter, ShapeInv
  <2>2. \A k \in Keys : Q!WellQueued(q, k) => Q!WellQueued(q', k)
    BY <2>1 DEF Parts, Q!WellQueued
  <2> QED
    BY <1>3, <2>1, <2>2 DEF ResetRateLimiter, Parts, ShapeInv, KeyShape
<1> QED
  BY <1>1, <1>2, <1>3 DEF ResyncStep

LEMMA DelayKeeps ==
  ASSUME NEW x \in Q!QueueStates, ~x.shuttingDown, NEW k \in Keys
  PROVE  /\ Q!DelayElapses(x, k).processing = x.processing
         /\ Q!DelayElapses(x, k).dirty = x.dirty \cup {k}
         /\ Q!DelayElapses(x, k).delayed = x.delayed \ {k} /\ ~Q!DelayElapses(x, k).shuttingDown
         /\ \A j \in Keys : Q!WellQueued(x, j) => Q!WellQueued(Q!DelayElapses(x, k), j)
<1> DEFINE y == [x EXCEPT !.delayed = @ \ {k}]
<1>1. /\ y \in Q!QueueStates /\ ~y.shuttingDown /\ y.delayed = x.delayed \ {k}
      /\ Parts(y, x.queue, x.dirty, x.processing)
  BY DEF Q!QueueStates, Parts
<1>2. Q!DelayElapses(x, k) = Q!Add(y, k)
  BY DEF Q!DelayElapses
<1> HIDE DEF y
<1>3. \A j \in Keys : Q!WellQueued(x, j) => Q!WellQueued(y, j)
  BY <1>1 DEF Parts, Q!WellQueued
<1> QED
  BY <1>1, <1>2, <1>3, AddKeeps DEF Parts

LEMMA StepKeepsShape == Typed /\ LockInv /\ ShapeInv /\ [Next]_vars => ShapeInv'
<1> SUFFICES ASSUME Typed, LockInv, ShapeInv, [Next]_vars PROVE ShapeInv'
  OBVIOUS
<1> USE DEF Typed, QueueTyped, ReadersTyped, ProducersTyped
<1>1. ASSUME NEW w \in Workers, WorkerStep(w) PROVE ShapeInv'
  BY <1>1, WorkerKeepsShape
<1>2. CASE StartResync \/ ResyncStep
  BY <1>2, ResyncKeepsShape
<1>3. ASSUME UNCHANGED <<q, pc, item, lock, spc, tainted>> PROVE ShapeInv'
  BY <1>3 DEF ShapeInv, KeyShape
<1>4. ASSUME NEW k \in Keys, q' = Q!Add(q, k) \/ q' = Q!AddRateLimited(q, k) \/ q' = Q!DelayElapses(q, k),
             UNCHANGED <<pc, item, lock, spc, tainted>>
      PROVE  ShapeInv'
  <2>1. q \in Q!QueueStates /\ ~q.shuttingDown
    BY DEF ShapeInv
  <2>2. CASE q' = Q!Add(q, k)
    BY <1>4, <2>1, <2>2, AddKeeps, OthersKeepShape
  <2>3. CASE q' = Q!AddRateLimited(q, k)
    <3>1. /\ Parts(Q!AddRateLimited(q, k), q.queue, q.dirty, q.processing)
          /\ Q!AddRateLimited(q, k).shuttingDown = q.shuttingDown
      BY <2>1, BystanderOps
    <3> QED
      BY <1>4, <2>1, <2>3, <3>1, OthersKeepShape DEF Parts, Q!WellQueued
  <2>4. CASE q' = Q!DelayElapses(q, k)
    BY <1>4, <2>1, <2>4, DelayKeeps, OthersKeepShape
  <2> QED
    BY <1>4, <2>2, <2>3, <2>4
<1>5. ASSUME NEW r \in Readers, ReaderStep(r) \/ \E k \in Keys : Fetch(r, k) PROVE ShapeInv'
  <2>1. CASE Enqueue(r)
    <3>1. rkey[r] \in Keys
      BY <2>1 DEF Enqueue, ReaderGoes
    <3> QED
      BY <2>1, <3>1, <1>4 DEF Enqueue, workers, resync, history
  <2>2. CASE WaitParks(r)
    <3>1. Parts(q', q.queue, q.dirty, q.processing) /\ ~q'.shuttingDown
      BY <2>2, BystanderOps DEF WaitParks, ShapeInv
    <3> QED
      BY <2>2, <3>1, OthersKeepShape DEF WaitParks, Parts, Q!WellQueued, workers, resync, history
  <2>3. CASE StoreEntry(r) \/ WaitEnds(r) \/ PollEnds(r) \/ Refetch(r) \/ \E k \in Keys : Fetch(r, k)
    BY <2>3, <1>3 DEF StoreEntry, WaitEnds, PollEnds, Refetch, Fetch, workers, resync, history
  <2> QED
    BY <1>5, <2>1, <2>2, <2>3 DEF ReaderStep
<1>6. ASSUME NEW p \in Producers,
             \/ ProducerStep(p) \/ StartDelete(p)
             \/ \E idx \in SUBSET Keys : \E newest \in SUBSET idx : StartImport(p, idx, newest)
      PROVE  ShapeInv'
  <2>1. CASE AddMarked(p) \/ AddChart(p)
    <3>1. pkey[p] \in Keys
      BY <2>1 DEF AddMarked, AddChart, ProducerGoes
    <3> QED
      BY <2>1, <3>1, <1>4 DEF AddMarked, AddChart, workers, resync, history
  <2>2. CASE \/ Scan(p) \/ ListKeys(p) \/ MarkingEnds(p) \/ StartDelete(p)
             \/ \E idx \in SUBSET Keys : \E newest \in SUBSET idx : StartImport(p, idx, newest)
    BY <2>2, <1>3 DEF Scan, ListKeys, MarkingEnds, StartDelete, StartImport, workers, resync, history
  <2>3. ASSUME NEW k \in Keys, MarkDeleted(p, k) \/ StoreChart(p, k) PROVE ShapeInv'
    BY <2>3, <1>3 DEF MarkDeleted, StoreChart, workers, resync
  <2> QED
    BY <1>6, <2>1, <2>2, <2>3 DEF ProducerStep
<1>7. ASSUME NEW k \in Keys, DelayElapses(k) \/ Evict(k) PROVE ShapeInv'
  BY <1>7, <1>3, <1>4 DEF DelayElapses, Evict, workers, resync, history
<1>8. CASE UNCHANGED vars
  BY <1>3, <1>8 DEF vars, workers, resync, history
<1> QED
  BY <1>1, <1>2, <1>5, <1>6, <1>7, <1>8 DEF Next

-----------------------------------------------------------------------------
(* What redis ends with.                                                     *)

\* The worker has the key's entry before it, or read the one that is still there.
Serves(w) ==
    \/ pc[w] \in {"rlock", "check", "read"}
    \/ pc[w] \in {"apply", "set", "failed"} /\ entry[w] = store[item[w]]

AsAsked(k)   == asked[k] = "deleted" <=> k \notin redis
ComesBack(k) == k \in q.delayed \/ k \in q.dirty \/ OnTheWay(k)

\* The store has what was asked for last, and either somebody will see to it, or it is done
\* and nobody undoes it.
Honour(k) ==
    asked[k] # "none" =>
        /\ store[k] = IF asked[k] = "deleted" THEN "deleted" ELSE "url"
        /\ \/ ComesBack(k)
           \/ \E w \in Workers : item[w] = k /\ Serves(w)
           \/ AsAsked(k) /\ \A w \in Workers : item[w] = k => pc[w] \in {"forget", "clean", "done"}

\* Between the reset of the queue and that of the store the requests are about to be dropped.
HonourInv ==
    /\ \A w \in Workers : pc[w] = "set" => entry[w] = "url"
    /\ spc \notin {"limiter", "store"} => \A k \in Keys \ (excused \cup tainted) : Honour(k)

LEMMA HonourSuffices == Typed /\ ShapeInv /\ HonourInv => RequestsHonoured
<1> SUFFICES ASSUME Typed, ShapeInv, HonourInv, NEW k \in Keys \ (excused \cup tainted), Settled(k),
                    asked[k] # "none"
             PROVE  AsAsked(k)
  BY DEF RequestsHonoured, AsAsked
<1>1. spc \notin {"limiter", "store"} /\ ~ComesBack(k) /\ \A w \in Workers : item[w] # k
  BY DEF Settled, ShapeInv, ComesBack
<1> QED
  BY <1>1 DEF HonourInv, Honour

LEMMA InitHonour == Init => HonourInv
  BY DEF Init, HonourInv, Honour

LEMMA OthersHonour ==
  ASSUME NEW k \in Keys, Honour(k), UNCHANGED workers, asked'[k] = asked[k], store'[k] = store[k],
         k \in redis' <=> k \in redis, ComesBack(k) => ComesBack(k)'
  PROVE  Honour(k)'
  BY DEF Honour, AsAsked, Serves, workers

LEMMA RequestHonoured ==
  ASSUME NEW k \in Keys, OnTheWay(k)', asked'[k] # "none",
         store'[k] = IF asked'[k] = "deleted" THEN "deleted" ELSE "url"
  PROVE  Honour(k)'
  BY DEF Honour, ComesBack

LEMMA WorkerHonours ==
  ASSUME Typed, ShapeInv, HonourInv, NEW w \in Workers, WorkerStep(w)
  PROVE  HonourInv'
<1> USE DEF Typed, WorkersTyped, QueueTyped, CachesTyped, HistoryTyped, workers, readers, producers,
            resync, history, WorkerGoes
<1>1. \A v \in Workers : pc'[v] = "set" => entry'[v] = "url"
  BY DEF WorkerStep, HonourInv, GetParks, GetItem, RLock, CheckProcessing, Leave, ReadEntry, Delete,
         Download, Set, Forget, Clean, Retry, GiveUp, Done
<1> SUFFICES ASSUME NEW k \in Keys \ (excused \cup tainted), Honour(k), KeyShape(k),
                    k \notin excused'
             PROVE  Honour(k)'
  <2>1. spc' = spc /\ tainted' = tainted /\ excused \subseteq excused'
    BY DEF WorkerStep, GetParks, GetItem, RLock, CheckProcessing, Leave, ReadEntry, Delete,
           Download, Set, Forget, Clean, Retry, GiveUp, Done
  <2> QED
    BY <1>1, <2>1 DEF HonourInv, ShapeInv
<1>3. OnTheWay(k)' = OnTheWay(k)
  BY DEF OnTheWay, WorkerStep, GetParks, GetItem, RLock, CheckProcessing, ReadEntry, Delete,
         Download, Set, Forget, Clean, Retry, GiveUp, Done
<1>4. CASE GetParks(w)
  <2>1. q'.dirty = q.dirty /\ q'.delayed = q.delayed
    BY <1>4, BystanderOps DEF GetParks, Parts
  <2> QED
    BY <1>3, <1>4, <2>1, OthersHonour DEF GetParks, ComesBack
<1>5. CASE GetItem(w)
  <2>1. /\ q'.dirty = q.dirty \ {Head(q.queue)} /\ q'.delayed = q.delayed /\ Head(q.queue) \in Keys
    BY <1>5, GetKeeps, WorkerOpsType DEF GetItem, Parts
  <2>2. item[w] = NoKey
    BY <1>5 DEF GetItem, ShapeInv
  <2>3. CASE k = Head(q.queue)
    BY <1>5, <2>3 DEF GetItem, Honour, Serves
  <2>4. CASE k # Head(q.queue)
    BY <1>3, <1>5, <2>1, <2>2, <2>4, NoKeyAssumption DEF GetItem, Honour, Serves, ComesBack, AsAsked
  <2> QED
    BY <2>3, <2>4
<1>6. CASE RLock(w)
  BY <1>3, <1>6 DEF RLock, Honour, Serves, ComesBack, AsAsked
<1>7. CASE CheckProcessing(w)
  <2>1. item[w] = k => Q!IsProcessing(q, item[w])
    BY DEF KeyShape, ShapeInv, Q!IsProcessing
  <2> QED
    BY <1>3, <1>7, <2>1, NoKeyAssumption DEF CheckProcessing, Leave, Honour, Serves, ComesBack, AsAsked
<1>8. CASE ReadEntry(w)
  BY <1>3, <1>8 DEF ReadEntry, Honour, Serves, ComesBack, AsAsked
<1>9. CASE Delete(w)
  BY <1>3, <1>9 DEF Delete, Honour, Serves, ComesBack, AsAsked, KeyShape
<1>10. CASE Download(w)
  BY <1>3, <1>10 DEF Download, Honour, Serves, ComesBack, AsAsked, KeyShape
<1>11. CASE Set(w)
  BY <1>3, <1>11 DEF Set, Honour, Serves, ComesBack, AsAsked, KeyShape, HonourInv
<1>12. CASE Forget(w) \/ GiveUp(w)
  <2>1. q'.dirty = q.dirty /\ q'.delayed = q.delayed
    <3>1. q' = Q!Forget(q, item[w]) /\ item[w] \in Keys
      BY <1>12 DEF Forget, GiveUp
    <3> QED
      BY <3>1, BystanderOps DEF Parts
  <2> QED
    BY <1>3, <1>12, <2>1 DEF Forget, GiveUp, Honour, Serves, ComesBack, AsAsked, KeyShape
<1>13. CASE Clean(w)
  BY <1>3, <1>13 DEF Clean, Honour, Serves, ComesBack, AsAsked
<1>14. CASE Retry(w)
  <2>1. q'.dirty = q.dirty /\ q'.delayed = q.delayed \cup {item[w]}
    <3>1. q' = Q!AddRateLimited(q, item[w]) /\ item[w] \in Keys /\ ~q.shuttingDown
      BY <1>14 DEF Retry, ShapeInv
    <3>2. /\ Parts(Q!AddRateLimited(q, item[w]), q.queue, q.dirty, q.processing)
          /\ Q!AddRateLimited(q, item[w]).delayed = q.delayed \cup {item[w]}
      BY <3>1, BystanderOps
    <3> QED
      BY <3>1, <3>2 DEF Parts
  <2> QED
    BY <1>3, <1>14, <2>1 DEF Retry, Honour, Serves, ComesBack, AsAsked
<1>15. CASE Done(w)
  <2>1. q'.dirty = q.dirty /\ q'.delayed = q.delayed
    BY <1>15, DoneKeeps DEF Done, ShapeInv
  <2> QED
    BY <1>3, <1>15, <2>1, NoKeyAssumption DEF Done, Leave, Honour, Serves, ComesBack, AsAsked
<1> QED
  BY <1>4, <1>5, <1>6, <1>7, <1>8, <1>9, <1>10, <1>11, <1>12, <1>13, <1>14, <1>15 DEF WorkerStep

\* The other steps: a request is on its way from the moment it is stored, and is then dirty or
\* delayed until a worker takes it.
LEMMA ReaderHonours ==
  ASSUME Typed, ShapeInv, HonourInv, NEW r \in Readers, ReaderStep(r) \/ \E k \in Keys : Fetch(r, k)
  PROVE  HonourInv'
<1> USE DEF Typed, ReadersTyped, QueueTyped, CachesTyped, HistoryTyped, workers, readers, producers,
            resync, history, ReaderGoes
<1>1. /\ UNCHANGED <<workers, spc, tainted, redis, ppc, pkey>>
      /\ \A v \in Workers : pc'[v] = "set" => entry'[v] = "url"
  BY DEF ReaderStep, StoreEntry, Enqueue, WaitParks, WaitEnds, PollEnds, Refetch, Fetch, HonourInv
<1>2. CASE StoreEntry(r)
  <2>1. rkey[r] \in Keys /\ OnTheWay(rkey[r])' /\ asked' = [asked EXCEPT ![rkey[r]] = "wanted"]
        /\ store' = [store EXCEPT ![rkey[r]] = "url"] /\ excused' = excused \ {rkey[r]} /\ q' = q
    BY <1>2 DEF StoreEntry, PutEntry, OnTheWay
  <2>2. Honour(rkey[r])'
    <3>1. OnTheWay(rkey[r])' /\ asked'[rkey[r]] = "wanted" /\ store'[rkey[r]] = "url"
      BY <2>1
    <3>2. rkey' = rkey
      BY <1>2 DEF StoreEntry
    <3> QED
      BY <3>1, <3>2 DEF Honour, ComesBack
  <2>3. ASSUME NEW k \in Keys, k # rkey[r], Honour(k) PROVE Honour(k)'
    <3>1. OnTheWay(k) => OnTheWay(k)'
      BY <1>1, <1>2, <2>3 DEF OnTheWay, StoreEntry
    <3> QED
      BY <1>1, <2>1, <2>3, <3>1, OthersHonour DEF ComesBack
  <2> QED
    BY <1>1, <1>2, <2>1, <2>2, <2>3 DEF HonourInv, StoreEntry
<1>3. CASE Enqueue(r)
  <2>1. q'.dirty = q.dirty \cup {rkey[r]} /\ q'.delayed = q.delayed
    BY <1>3, AddKeeps DEF Enqueue, ShapeInv
  <2>2. ASSUME NEW k \in Keys, Honour(k) PROVE Honour(k)'
    <3>1. OnTheWay(k) => OnTheWay(k)' \/ k = rkey[r]
      BY <1>1, <1>3 DEF OnTheWay, Enqueue
    <3> QED
      BY <1>1, <1>3, <2>1, <2>2, <3>1, OthersHonour DEF ComesBack, Enqueue
  <2> QED
    BY <1>1, <1>3, <2>2 DEF HonourInv, Enqueue
<1>4. CASE WaitParks(r) \/ WaitEnds(r) \/ PollEnds(r) \/ Refetch(r) \/ \E k \in Keys : Fetch(r, k)
  <2>1. q'.dirty = q.dirty /\ q'.delayed = q.delayed
    BY <1>4, BystanderOps DEF WaitParks, WaitEnds, PollEnds, Refetch, Fetch, Parts
  <2>2. UNCHANGED <<store, asked, excused>>
    BY <1>4 DEF WaitParks, WaitEnds, PollEnds, Refetch, Fetch
  <2>3. ASSUME NEW k \in Keys, Honour(k) PROVE Honour(k)'
    <3>1. OnTheWay(k) => OnTheWay(k)'
      BY <1>1, <1>4 DEF OnTheWay, WaitParks, WaitEnds, PollEnds, Refetch, Fetch
    <3> QED
      BY <1>1, <2>1, <2>2, <2>3, <3>1, OthersHonour DEF ComesBack
  <2> QED
    BY <1>1, <2>2, <2>3 DEF HonourInv
<1> QED
  BY <1>2, <1>3, <1>4 DEF ReaderStep

LEMMA ProducerHonours ==
  ASSUME Typed, ShapeInv, HonourInv, NEW p \in Producers,
         \/ ProducerStep(p) \/ StartDelete(p)
         \/ \E idx \in SUBSET Keys : \E newest \in SUBSET idx : StartImport(p, idx, newest)
  PROVE  HonourInv'
<1> USE DEF Typed, ProducersTyped, QueueTyped, CachesTyped, HistoryTyped, workers, readers, producers,
            resync, history, ProducerGoes
<1>1. /\ UNCHANGED <<workers, spc, tainted, redis, rpc, rkey>>
      /\ \A v \in Workers : pc'[v] = "set" => entry'[v] = "url"
  BY DEF ProducerStep, Scan, ListKeys, AddMarked, MarkingEnds, AddChart, MarkDeleted, StoreChart,
         StartDelete, StartImport, HonourInv
<1>2. ASSUME NEW k \in Keys, MarkDeleted(p, k) \/ StoreChart(p, k) PROVE HonourInv'
  <2>1. PICK e \in {"url", "deleted"} :
           /\ asked' = [asked EXCEPT ![k] = e] /\ store' = [store EXCEPT ![k] = e]
           /\ excused' = excused \ {k} /\ q' = q
    BY <1>2 DEF MarkDeleted, StoreChart, PutEntry
  <2>2. Honour(k)'
    <3>1. OnTheWay(k)'
      BY <1>2 DEF OnTheWay, MarkDeleted, StoreChart
    <3>2. asked'[k] = e /\ store'[k] = e
      BY <2>1
    <3> QED
      BY <3>1, <3>2 DEF Honour, ComesBack
  <2>3. ASSUME NEW j \in Keys, j # k, Honour(j) PROVE Honour(j)'
    <3>1. OnTheWay(j) => OnTheWay(j)'
      BY <1>1, <1>2, <2>3 DEF OnTheWay, MarkDeleted, StoreChart
    <3> QED
      BY <1>1, <2>1, <2>3, <3>1, OthersHonour DEF ComesBack
  <2> QED
    BY <1>1, <2>1, <2>2, <2>3 DEF HonourInv
<1>3. CASE AddMarked(p)
  <2>1. q'.dirty = q.dirty \cup {pkey[p]} /\ q'.delayed = q.delayed
    BY <1>3, AddKeeps DEF AddMarked, ShapeInv
  <2>2. ASSUME NEW k \in Keys, Honour(k) PROVE Honour(k)'
    <3>1. OnTheWay(k) => OnTheWay(k)' \/ k = pkey[p]
      BY <1>1, <1>3 DEF OnTheWay, AddMarked
    <3> QED
      BY <1>1, <1>3, <2>1, <2>2, <3>1, OthersHonour DEF ComesBack, AddMarked
  <2> QED
    BY <1>1, <1>3, <2>2 DEF HonourInv, AddMarked
<1>4. CASE AddChart(p)
  <2>1. q'.dirty = q.dirty /\ q'.delayed = q.delayed \cup {pkey[p]}
    <3>1. q' = Q!AddRateLimited(q, pkey[p]) /\ pkey[p] \in Keys /\ ~q.shuttingDown
      BY <1>4 DEF AddChart, ShapeInv
    <3>2. /\ Parts(Q!AddRateLimited(q, pkey[p]), q.queue, q.dirty, q.processing)
          /\ Q!AddRateLimited(q, pkey[p]).delayed = q.delayed \cup {pkey[p]}
      BY <3>1, BystanderOps
    <3> QED
      BY <3>1, <3>2 DEF Parts
  <2>2. ASSUME NEW k \in Keys, Honour(k) PROVE Honour(k)'
    <3>1. OnTheWay(k) => OnTheWay(k)' \/ k = pkey[p]
      BY <1>1, <1>4 DEF OnTheWay, AddChart
    <3> QED
      BY <1>1, <1>4, <2>1, <2>2, <3>1, OthersHonour DEF ComesBack, AddChart
  <2> QED
    BY <1>1, <1>4, <2>2 DEF HonourInv, AddChart
<1>5. CASE \/ Scan(p) \/ ListKeys(p) \/ MarkingEnds(p) \/ StartDelete(p)
           \/ \E idx \in SUBSET Keys : \E newest \in SUBSET idx : StartImport(p, idx, newest)
  <2>1. UNCHANGED <<q, store, asked, excused>>
    BY <1>5 DEF Scan, ListKeys, MarkingEnds, StartDelete, StartImport
  <2>2. ASSUME NEW k \in Keys, Honour(k) PROVE Honour(k)'
    <3>1. OnTheWay(k) => OnTheWay(k)'
      BY <1>1, <1>5 DEF OnTheWay, Scan, ListKeys, MarkingEnds, StartDelete, StartImport
    <3> QED
      BY <1>1, <2>1, <2>2, <3>1, OthersHonour DEF ComesBack
  <2> QED
    BY <1>1, <2>1, <2>2 DEF HonourInv
<1> QED
  BY <1>2, <1>3, <1>4, <1>5 DEF ProducerStep

LEMMA ResyncHonours ==
  ASSUME Typed, ShapeInv, HonourInv, StartResync \/ ResyncStep
  PROVE  HonourInv'
<1> USE DEF Typed, QueueTyped, CachesTyped, HistoryTyped, ResyncTyped, workers, readers, producers,
            resync, history, ResyncGoes
<1>1. /\ UNCHANGED <<workers, rpc, rkey, ppc, pkey>>
      /\ \A v \in Workers : pc'[v] = "set" => entry'[v] = "url"
  BY DEF ResyncStep, StartResync, LockForResync, ResetQueue, ResetRateLimiter, ResetStore, FlushDB,
         HonourInv
<1>2. CASE StartResync \/ LockForResync
  BY <1>1, <1>2, OthersHonour DEF StartResync, LockForResync, HonourInv, ComesBack, OnTheWay
<1>3. CASE ResetQueue \/ ResetRateLimiter
  BY <1>1, <1>3 DEF ResetQueue, ResetRateLimiter, HonourInv
<1>4. CASE ResetStore
  BY <1>1, <1>4 DEF ResetStore, HonourInv, Honour
<1>5. CASE FlushDB
  <2>1. /\ redis' = {} /\ excused' = excused \cup redis
        /\ UNCHANGED <<q, store, asked, tainted>> /\ spc = "flush"
    BY <1>5 DEF FlushDB
  <2>2. ASSUME NEW k \in Keys, k \notin redis, Honour(k) PROVE Honour(k)'
    BY <1>1, <2>1, <2>2, OthersHonour DEF ComesBack, OnTheWay
  <2> QED
    BY <1>1, <2>1, <2>2 DEF HonourInv
<1> QED
  BY <1>2, <1>3, <1>4, <1>5 DEF ResyncStep

LEMMA TimerHonours ==
  ASSUME Typed, ShapeInv, HonourInv, NEW k \in Keys, DelayElapses(k) \/ Evict(k)
  PROVE  HonourInv'
<1> USE DEF Typed, QueueTyped, CachesTyped, HistoryTyped, workers, readers, producers, resync, history
<1>1. CASE DelayElapses(k)
  <2>1. q'.dirty = q.dirty \cup {k} /\ q'.delayed = q.delayed \ {k}
    BY <1>1, DelayKeeps DEF DelayElapses, ShapeInv
  <2>2. ASSUME NEW j \in Keys, Honour(j) PROVE Honour(j)'
    BY <1>1, <2>1, <2>2, OthersHonour DEF DelayElapses, ComesBack, OnTheWay
  <2> QED
    BY <1>1, <2>2 DEF HonourInv, DelayElapses
<1>2. CASE Evict(k)
  <2>1. ASSUME NEW j \in Keys, j # k, Honour(j) PROVE Honour(j)'
    BY <1>2, <2>1, OthersHonour DEF Evict, ComesBack, OnTheWay
  <2> QED
    BY <1>2, <2>1 DEF HonourInv, Evict
<1> QED
  BY <1>1, <1>2

LEMMA StepHonours == Typed /\ ShapeInv /\ HonourInv /\ [Next]_vars => HonourInv'
<1> SUFFICES ASSUME Typed, ShapeInv, HonourInv, [Next]_vars PROVE HonourInv'
  OBVIOUS
<1>1. ASSUME NEW w \in Workers, WorkerStep(w) PROVE HonourInv'
  BY <1>1, WorkerHonours
<1>2. ASSUME NEW r \in Readers, ReaderStep(r) \/ \E k \in Keys : Fetch(r, k) PROVE HonourInv'
  BY <1>2, ReaderHonours
<1>3. ASSUME NEW p \in Producers,
             \/ ProducerStep(p) \/ StartDelete(p)
             \/ \E idx \in SUBSET Keys : \E newest \in SUBSET idx : StartImport(p, idx, newest)
      PROVE  HonourInv'
  BY <1>3, ProducerHonours
<1>4. CASE StartResync \/ ResyncStep
  BY <1>4, ResyncHonours
<1>5. ASSUME NEW k \in Keys, DelayElapses(k) \/ Evict(k) PROVE HonourInv'
  BY <1>5, TimerHonours
<1>6. CASE UNCHANGED vars
  BY <1>6 DEF vars, workers, readers, producers, resync, history, HonourInv, Honour, Serves, AsAsked,
              ComesBack, OnTheWay
<1> QED
  BY <1>1, <1>2, <1>3, <1>4, <1>5, <1>6 DEF Next

\* When the work on a chart is over redis is as the last request for it wanted, for any number
\* of workers, readers and producers that replace each other's entries: but for charts that a
\* resync took from a worker, or that were given up, evicted or lost.
THEOREM RequestsAreHonoured == Spec => []RequestsHonoured
<1>1. Spec => [](Typed /\ LockInv)
  BY AlwaysTyped, InitLock, StepKeepsLock, PTL DEF Spec
<1>2. Spec => [](Typed /\ ShapeInv)
  BY <1>1, InitShape, StepKeepsShape, PTL DEF Spec
<1>3. Spec => [](Typed /\ ShapeInv /\ HonourInv)
  BY <1>2, InitHonour, StepHonours, PTL DEF Spec
<1> QED
  BY <1>3, HonourSuffices, PTL

-----------------------------------------------------------------------------
(* What a reader gets.                                                       *)

\* A worker is on the key and has its outcome before it.
InHand(k) == \E w \in Workers : /\ item[w] = k
                               /\ pc[w] \in {"rlock", "check", "read", "apply", "set", "failed"}

\* The key failed, and nobody who holds it is about to forget that.
Counted(k) ==
    /\ q.requeues[k] > 0
    /\ \A w \in Workers : item[w] = k => pc[w] \in {"rlock", "check", "read", "apply", "set", "failed", "done"}

Came(k)  == k \in redis \/ Counted(k)
Comes(k) == Came(k) \/ k \in q.dirty \/ InHand(k)

\* What a reader may count on, where nothing took its chart away.
Promised(r) ==
    /\ rpc[r] = "wait"    => Comes(rkey[r])
    /\ rpc[r] = "poll"    => Came(rkey[r])
    /\ rpc[r] = "refetch" => rkey[r] \in redis

ReadInv ==
    /\ ReaderGetsChart
    /\ spc \notin {"limiter", "store"} =>
          \A r \in Readers \ unlucky : rkey[r] \notin tainted => Promised(r)

LEMMA InitReads == Init => ReadInv
  BY DEF Init, ReadInv, ReaderGetsChart, Promised

\* Steps of others: a key keeps what was promised of it, or its readers are unlucky.
LEMMA OthersKeepReads ==
  ASSUME Typed, ReadInv, UNCHANGED <<rpc, rkey, rhit>>,
         unlucky \subseteq unlucky', tainted \subseteq tainted',
         spc' \notin {"limiter", "store"} => spc \notin {"limiter", "store"},
         \A k \in Keys \ tainted' :
            \/ WaitingFor({k}) \subseteq unlucky'
            \/ (k \in redis => k \in redis') /\ (Came(k) => Came(k)') /\ (Comes(k) => Comes(k)')
  PROVE  ReadInv'
<1>1. ReaderGetsChart'
  BY DEF ReadInv, ReaderGetsChart
<1>2. ASSUME spc' \notin {"limiter", "store"}, NEW r \in Readers \ unlucky', rkey'[r] \notin tainted',
             rpc[r] \in {"wait", "poll", "refetch"}
      PROVE  Promised(r)'
  <2>1. rkey[r] \in Keys \ tainted' /\ r \in WaitingFor({rkey[r]})
    BY <1>2 DEF Typed, ReadersTyped, WaitingFor
  <2>2. Promised(r)
    BY <1>2 DEF ReadInv
  <2>3. /\ rkey[r] \in redis => rkey[r] \in redis'
        /\ Came(rkey[r]) => Came(rkey[r])'
        /\ Comes(rkey[r]) => Comes(rkey[r])'
    BY <1>2, <2>1
  <2>4. rkey'[r] = rkey[r] /\ rpc'[r] = rpc[r]
    OBVIOUS
  <2> QED
    BY <2>2, <2>3, <2>4 DEF Promised, Came, Comes, Counted, InHand
<1> QED
  BY <1>1, <1>2 DEF ReadInv, Promised

LEMMA WorkerKeepsReads ==
  ASSUME Typed, ShapeInv, ReadInv, NEW w \in Workers, WorkerStep(w)
  PROVE  ReadInv'
<1> USE DEF Typed, WorkersTyped, QueueTyped, CachesTyped, HistoryTyped, workers, readers, producers,
            resync, history, WorkerGoes, Disappoint
<1>1. UNCHANGED <<rpc, rkey, rhit, spc, tainted>> /\ unlucky \subseteq unlucky'
  BY DEF WorkerStep, GetParks, GetItem, RLock, CheckProcessing, ReadEntry, Delete, Download, Set,
         Forget, Clean, Retry, GiveUp, Done
<1> SUFFICES ASSUME NEW k \in Keys \ tainted, ~(WaitingFor({k}) \subseteq unlucky'), KeyShape(k)
             PROVE  (k \in redis => k \in redis') /\ (Came(k) => Came(k)') /\ (Comes(k) => Comes(k)')
  BY <1>1, OthersKeepReads DEF ShapeInv
<1>2. CASE GetParks(w)
  <2>1. q'.dirty = q.dirty /\ q'.requeues = q.requeues
    BY <1>2 DEF GetParks, Q!Wait, Q!QueueStates
  <2> QED
    BY <1>2, <2>1 DEF GetParks, Came, Comes, Counted, InHand
<1>3. CASE GetItem(w)
  <2>1. /\ q'.dirty = q.dirty \ {Head(q.queue)} /\ q'.requeues = q.requeues
        /\ item[w] = NoKey /\ Head(q.queue) \in Keys
    BY <1>3, GetKeeps, WorkerOpsType, ZenonT(60) DEF GetItem, Parts, Q!Get, Q!QueueStates, ShapeInv
  <2> QED
    BY <1>3, <2>1, NoKeyAssumption DEF GetItem, Came, Comes, Counted, InHand
<1>4. CASE RLock(w) \/ ReadEntry(w) \/ Download(w) \/ Set(w)
  BY <1>4 DEF RLock, ReadEntry, Download, Set, Came, Comes, Counted, InHand, KeyShape
<1>5. CASE CheckProcessing(w)
  <2>1. item[w] = k => Q!IsProcessing(q, item[w])
    BY DEF KeyShape, ShapeInv, Q!IsProcessing
  <2> QED
    BY <1>5, <2>1, NoKeyAssumption DEF CheckProcessing, Leave, Came, Comes, Counted, InHand
<1>6. CASE Delete(w)
  <2>1. item[w] # k
    BY <1>6 DEF Delete
  <2> QED
    BY <1>6, <2>1 DEF Delete, Came, Comes, Counted, InHand
<1>7. CASE Forget(w)
  <2>1. /\ q'.dirty = q.dirty /\ item[w] \in Keys
        /\ q'.requeues = [q.requeues EXCEPT ![item[w]] = 0]
    BY <1>7 DEF Forget, Q!Forget, Q!QueueStates
  <2>2. CASE item[w] = k
    <3>1. ~Counted(k) /\ ~InHand(k)
      BY <1>7, <2>2 DEF Forget, Counted, InHand, KeyShape
    <3> QED
      BY <1>7, <2>1, <3>1 DEF Forget, Came, Comes
  <2>3. CASE item[w] # k
    <3>1. q'.requeues[k] = q.requeues[k]
      BY <2>1, <2>3 DEF Q!QueueStates
    <3>2. (Counted(k) => Counted(k)') /\ (InHand(k) => InHand(k)')
      BY <1>7, <2>3, <3>1 DEF Forget, Counted, InHand
    <3> QED
      BY <1>7, <2>1, <3>2 DEF Forget, Came, Comes
  <2> QED
    BY <2>2, <2>3
<1>8. CASE Clean(w)
  BY <1>8 DEF Clean, Came, Comes, Counted, InHand
<1>9. CASE Retry(w)
  <2>1. /\ q'.dirty = q.dirty /\ item[w] \in Keys
        /\ q'.requeues = [q.requeues EXCEPT ![item[w]] = @ + 1]
    BY <1>9 DEF Retry, Q!AddRateLimited, Q!QueueStates
  <2>2. q.requeues[k] \in Nat /\ q.requeues[item[w]] + 1 > 0
    BY <2>1 DEF Q!QueueStates
  <2> QED
    BY <1>9, <2>1, <2>2 DEF Retry, Came, Comes, Counted, InHand, KeyShape, Q!QueueStates
<1>10. CASE GiveUp(w)
  <2>1. item[w] # k
    BY <1>10 DEF GiveUp
  <2>2. /\ q'.dirty = q.dirty /\ item[w] \in Keys
        /\ q'.requeues = [q.requeues EXCEPT ![item[w]] = 0]
    BY <1>10 DEF GiveUp, Q!Forget, Q!QueueStates
  <2> QED
    BY <1>10, <2>1, <2>2 DEF GiveUp, Came, Comes, Counted, InHand, Q!QueueStates
<1>11. CASE Done(w)
  <2>1. q'.dirty = q.dirty /\ q'.requeues = q.requeues
    BY <1>11 DEF Done, Q!Done, Q!Broadcast, Q!QueueStates
  <2> QED
    BY <1>11, <2>1, NoKeyAssumption DEF Done, Leave, Came, Comes, Counted, InHand
<1> QED
  BY <1>2, <1>3, <1>4, <1>5, <1>6, <1>7, <1>8, <1>9, <1>10, <1>11 DEF WorkerStep

\* Steps of a reader: the others keep their promises, and it gets its own.
LEMMA OneReaderMoves ==
  ASSUME Typed, ReadInv, NEW r \in Readers, UNCHANGED <<redis, workers, spc, tainted, unlucky>>,
         q'.requeues = q.requeues, q.dirty \subseteq q'.dirty,
         \A s \in Readers \ {r} : rpc'[s] = rpc[s] /\ rkey'[s] = rkey[s] /\ rhit'[s] = rhit[s],
         rpc'[r] = "returned" => rhit'[r] \/ r \in unlucky \/ rkey'[r] \in tainted,
         spc \notin {"limiter", "store"} /\ r \notin unlucky /\ rkey'[r] \notin tainted => Promised(r)'
  PROVE  ReadInv'
<1> USE DEF workers
<1>1. ReaderGetsChart'
  BY DEF ReadInv, ReaderGetsChart
<1>2. ASSUME spc \notin {"limiter", "store"}, NEW s \in Readers \ unlucky, s # r, rkey[s] \notin tainted
      PROVE  Promised(s)'
  <2>1. Promised(s)
    BY <1>2 DEF ReadInv
  <2> QED
    BY <1>2, <2>1 DEF Promised, Came, Comes, Counted, InHand
<1> QED
  BY <1>1, <1>2 DEF ReadInv

LEMMA ReaderKeepsReads ==
  ASSUME Typed, ShapeInv, ReadInv, NEW r \in Readers, ReaderStep(r) \/ \E k \in Keys : Fetch(r, k)
  PROVE  ReadInv'
<1> USE DEF Typed, QueueTyped, ReadersTyped, workers, readers, producers, resync, history, ReaderGoes
<1>1. UNCHANGED <<redis, workers, spc, tainted, unlucky>>
  BY DEF ReaderStep, StoreEntry, Enqueue, WaitParks, WaitEnds, PollEnds, Refetch, Fetch
<1>2. \A s \in Readers \ {r} : rpc'[s] = rpc[s] /\ rkey'[s] = rkey[s] /\ rhit'[s] = rhit[s]
  BY DEF ReaderStep, StoreEntry, Enqueue, WaitParks, WaitEnds, PollEnds, Refetch, Fetch
<1>3. CASE StoreEntry(r) \/ \E k \in Keys : Fetch(r, k)
  <2>1. /\ q' = q /\ rpc'[r] \notin {"wait", "poll", "refetch"}
        /\ rpc'[r] = "returned" => rhit'[r]
    BY <1>3, ZenonT(60) DEF StoreEntry, Fetch
  <2> QED
    BY <1>1, <1>2, <2>1, OneReaderMoves DEF Promised
<1>4. CASE Enqueue(r)
  <2>1. rkey[r] \in Keys /\ q' = Q!Add(q, rkey[r]) /\ ~q.shuttingDown /\ rpc'[r] = "wait" /\ rkey' = rkey
    BY <1>4 DEF Enqueue, ShapeInv
  <2>2. q'.dirty = q.dirty \cup {rkey[r]} /\ q'.requeues = q.requeues
    BY <2>1 DEF Q!Add, Q!Enqueue, Q!Broadcast, Q!QueueStates
  <2> QED
    BY <1>1, <1>2, <2>1, <2>2, OneReaderMoves DEF Promised, Comes
<1>5. CASE WaitParks(r)
  <2>1. q'.dirty = q.dirty /\ q'.requeues = q.requeues /\ UNCHANGED <<rpc, rkey, rhit>> /\ rpc[r] = "wait"
    BY <1>5 DEF WaitParks, Q!Wait, Q!QueueStates
  <2>2. spc \notin {"limiter", "store"} /\ r \notin unlucky /\ rkey'[r] \notin tainted => Comes(rkey[r])
    BY <2>1 DEF ReadInv, Promised
  <2>3. spc \notin {"limiter", "store"} /\ r \notin unlucky /\ rkey'[r] \notin tainted => Promised(r)'
    BY <1>1, <2>1, <2>2 DEF Promised, Comes, Came, Counted, InHand
  <2> QED
    BY <1>1, <1>2, <2>1, <2>3, OneReaderMoves
<1>6. CASE WaitEnds(r)
  <2>1. /\ q' = q /\ rkey' = rkey /\ rkey[r] \in Keys /\ rpc[r] = "wait" /\ rpc'[r] = "poll"
        /\ rkey[r] \notin q.dirty /\ rkey[r] \notin q.processing
    BY <1>6 DEF WaitEnds, Q!Pending
  <2>2. ASSUME spc \notin {"limiter", "store"}, r \notin unlucky, rkey[r] \notin tainted
        PROVE  Promised(r)'
    <3>1. Comes(rkey[r]) /\ KeyShape(rkey[r])
      BY <2>1, <2>2 DEF ReadInv, Promised, ShapeInv
    <3>2. Came(rkey[r])
      BY <2>1, <3>1 DEF Comes, InHand, KeyShape
    <3> QED
      BY <1>1, <2>1, <3>2 DEF Promised, Came, Counted
  <2> QED
    BY <1>1, <1>2, <2>1, <2>2, OneReaderMoves
<1>7. CASE PollEnds(r)
  <2>1. /\ q' = q /\ rkey' = rkey /\ rkey[r] \in Keys /\ rpc[r] = "poll" /\ rpc'[r] = "refetch"
        /\ q.requeues[rkey[r]] = 0
    BY <1>7 DEF PollEnds, Q!NumRequeues
  <2>2. spc \notin {"limiter", "store"} /\ r \notin unlucky /\ rkey[r] \notin tainted => rkey[r] \in redis
    BY <2>1 DEF ReadInv, Promised, Came, Counted
  <2> QED
    BY <1>1, <1>2, <2>1, <2>2, OneReaderMoves DEF Promised
<1>8. CASE Refetch(r)
  <2>1. /\ q' = q /\ rkey' = rkey /\ rpc[r] = "refetch" /\ rpc'[r] \in {"returned", "error"}
        /\ rhit'[r] = (rkey[r] \in redis)
    BY <1>8 DEF Refetch
  <2>2. spc \notin {"limiter", "store"}
    BY <1>8 DEF Refetch, ShapeInv
  <2>3. r \notin unlucky /\ rkey[r] \notin tainted => rkey[r] \in redis
    BY <2>1, <2>2 DEF ReadInv, Promised
  <2> QED
    BY <1>1, <1>2, <2>1, <2>3, OneReaderMoves DEF Promised
<1> QED
  BY <1>3, <1>4, <1>5, <1>6, <1>7, <1>8 DEF ReaderStep

LEMMA ProducerKeepsReads ==
  ASSUME Typed, ShapeInv, ReadInv, NEW p \in Producers,
         \/ ProducerStep(p) \/ StartDelete(p)
         \/ \E idx \in SUBSET Keys : \E newest \in SUBSET idx : StartImport(p, idx, newest)
  PROVE  ReadInv'
<1> USE DEF Typed, QueueTyped, ProducersTyped, workers, readers, producers, resync, history, ProducerGoes
<1>1. UNCHANGED <<redis, workers, readers, spc, tainted, unlucky>>
  BY DEF ProducerStep, Scan, ListKeys, AddMarked, MarkingEnds, AddChart, MarkDeleted, StoreChart,
         StartDelete, StartImport
<1>2. q.dirty \subseteq q'.dirty /\ \A k \in Keys : q.requeues[k] > 0 => q'.requeues[k] > 0
  <2>1. CASE AddMarked(p)
    BY <2>1 DEF AddMarked, Q!Add, Q!Enqueue, Q!Broadcast, Q!QueueStates
  <2>2. CASE AddChart(p)
    <3>1. pkey[p] \in Keys /\ q' = Q!AddRateLimited(q, pkey[p])
      BY <2>2 DEF AddChart
    <3>2. q'.dirty = q.dirty /\ q'.requeues = [q.requeues EXCEPT ![pkey[p]] = @ + 1]
      BY <3>1 DEF Q!AddRateLimited, Q!QueueStates
    <3> QED
      BY <3>1, <3>2 DEF Q!QueueStates
  <2>3. CASE q' = q
    BY <2>3
  <2> QED
    BY <2>1, <2>2, <2>3 DEF ProducerStep, Scan, ListKeys, MarkingEnds, MarkDeleted, StoreChart,
                            StartDelete, StartImport
<1>3. \A k \in Keys : (Came(k) => Came(k)') /\ (Comes(k) => Comes(k)')
  BY <1>1, <1>2 DEF Came, Comes, Counted, InHand
<1> QED
  BY <1>1, <1>3, OthersKeepReads

LEMMA ResyncKeepsReads ==
  ASSUME Typed, ShapeInv, ReadInv, StartResync \/ ResyncStep
  PROVE  ReadInv'
<1> USE DEF Typed, QueueTyped, ReadersTyped, HistoryTyped, workers, readers, producers, resync, history,
            ResyncGoes, Disappoint
<1>1. UNCHANGED <<readers, workers>> /\ unlucky \subseteq unlucky' /\ tainted \subseteq tainted'
  BY DEF ResyncStep, StartResync, LockForResync, ResetQueue, ResetRateLimiter, ResetStore, FlushDB
<1>2. CASE StartResync \/ LockForResync
  <2>1. UNCHANGED <<q, redis, tainted, unlucky>> /\ spc \notin {"limiter", "store"}
    BY <1>2 DEF StartResync, LockForResync
  <2> QED
    BY <1>1, <2>1, OthersKeepReads DEF Came, Comes, Counted, InHand
<1>3. CASE ResetQueue \/ ResetRateLimiter
  BY <1>1, <1>3 DEF ResetQueue, ResetRateLimiter, ReadInv, ReaderGetsChart
<1>4. CASE ResetStore
  <2>1. \A r \in Readers : rpc[r] \in {"wait", "poll", "refetch"} => r \in unlucky'
    BY <1>4 DEF ResetStore, WaitingFor
  <2> QED
    BY <1>1, <2>1 DEF ReadInv, ReaderGetsChart, Promised
<1>5. CASE FlushDB
  <2>1. UNCHANGED <<q, tainted>> /\ unlucky' = unlucky \cup WaitingFor(redis) /\ spc = "flush"
    BY <1>5 DEF FlushDB
  <2>2. \A k \in redis : WaitingFor({k}) \subseteq unlucky'
    BY <2>1 DEF WaitingFor
  <2>3. \A k \in Keys \ redis : (Came(k) => Came(k)') /\ (Comes(k) => Comes(k)')
    BY <1>1, <2>1 DEF Came, Comes, Counted, InHand
  <2> QED
    BY <1>1, <2>1, <2>2, <2>3, OthersKeepReads
<1> QED
  BY <1>2, <1>3, <1>4, <1>5 DEF ResyncStep

LEMMA TimerKeepsReads ==
  ASSUME Typed, ShapeInv, ReadInv, NEW k \in Keys, DelayElapses(k) \/ Evict(k)
  PROVE  ReadInv'
<1> USE DEF Typed, QueueTyped, HistoryTyped, workers, readers, producers, resync, history, Disappoint
<1>1. UNCHANGED <<readers, workers, spc, tainted>> /\ unlucky \subseteq unlucky'
  BY DEF DelayElapses, Evict
<1>2. CASE DelayElapses(k)
  <2>1. q'.dirty = q.dirty \cup {k} /\ q'.requeues = q.requeues /\ redis' = redis
    BY <1>2 DEF DelayElapses, ShapeInv, Q!DelayElapses, Q!Add, Q!Enqueue, Q!Broadcast, Q!QueueStates
  <2> QED
    BY <1>1, <2>1, OthersKeepReads DEF Came, Comes, Counted, InHand
<1>3. CASE Evict(k)
  <2>1. q' = q /\ redis' = redis \ {k} /\ WaitingFor({k}) \subseteq unlucky'
    BY <1>3 DEF Evict
  <2>2. \A j \in Keys \ {k} : (Came(j) => Came(j)') /\ (Comes(j) => Comes(j)')
    BY <1>1, <2>1 DEF Came, Comes, Counted, InHand
  <2> QED
    BY <1>1, <2>1, <2>2, OthersKeepReads
<1> QED
  BY <1>2, <1>3

LEMMA StepKeepsReads == Typed /\ ShapeInv /\ ReadInv /\ [Next]_vars => ReadInv'
<1> SUFFICES ASSUME Typed, ShapeInv, ReadInv, [Next]_vars PROVE ReadInv'
  OBVIOUS
<1>1. ASSUME NEW w \in Workers, WorkerStep(w) PROVE ReadInv'
  BY <1>1, WorkerKeepsReads
<1>2. ASSUME NEW r \in Readers, ReaderStep(r) \/ \E k \in Keys : Fetch(r, k) PROVE ReadInv'
  BY <1>2, ReaderKeepsReads
<1>3. ASSUME NEW p \in Producers,
             \/ ProducerStep(p) \/ StartDelete(p)
             \/ \E idx \in SUBSET Keys : \E newest \in SUBSET idx : StartImport(p, idx, newest)
      PROVE  ReadInv'
  BY <1>3, ProducerKeepsReads
<1>4. CASE StartResync \/ ResyncStep
  BY <1>4, ResyncKeepsReads
<1>5. ASSUME NEW k \in Keys, DelayElapses(k) \/ Evict(k) PROVE ReadInv'
  BY <1>5, TimerKeepsReads
<1>6. CASE UNCHANGED vars
  BY <1>6 DEF vars, workers, readers, producers, resync, history, ReadInv, ReaderGetsChart, Promised,
              Came, Comes, Counted, InHand
<1> QED
  BY <1>1, <1>2, <1>3, <1>4, <1>5, <1>6 DEF Next

\* A reader that missed the cache and returns has its chart, for any number of readers that wait
\* for it and whatever workers fail and retry: unless, while it waited, the chart was deleted,
\* given up or evicted or a resync came.
THEOREM ReadersGetTheirChart == Spec => []ReaderGetsChart
<1>1. Spec => [](Typed /\ LockInv)
  BY AlwaysTyped, InitLock, StepKeepsLock, PTL DEF Spec
<1>2. Spec => [](Typed /\ ShapeInv)
  BY <1>1, InitShape, StepKeepsShape, PTL DEF Spec
<1>3. Spec => [](Typed /\ ShapeInv /\ ReadInv)
  BY <1>2, InitReads, StepKeepsReads, PTL DEF Spec
<1>4. ReadInv => ReaderGetsChart
  BY DEF ReadInv
<1> QED
  BY <1>3, <1>4, PTL

-----------------------------------------------------------------------------
(* A deletion overlooks no chart.  The hooks of the repository cache run in  *)
(* its one worker, so there is one producer.                                 *)

OneProducer == \A p, r \in Producers : p = r

\* What a worker is downloading has an entry, and a resync empties the store under its lock.
BusyInv ==
    /\ \A w \in Workers : pc[w] \in {"apply", "set"} /\ entry[w] = "url" => store[item[w]] # "none"
    /\ \A w \in Workers : pc[w] = "set" => entry[w] = "url"
    /\ spc \in {"queue", "limiter", "store"} => lock.writer = "held"

\* The producer has k in its lists, or has yet to take the list that has k.
Covers(p, k) ==
    \/ ppc[p] = "scan"
    \/ ppc[p] = "list" /\ (k \in todo[p] \/ store[k] # "none")
    \/ ppc[p] = "mark" /\ k \in todo[p]
    \/ ppc[p] = "add" /\ k \in todo[p] \ {pkey[p]}

\* The producers delete, if they do anything.
Deleting ==
    \A p \in Producers : /\ ppc[p] \in {"idle", "scan", "list", "mark", "add"}
                         /\ ppc[p] # "idle" => keep[p] = {} /\ latest[p] = {}

\* k was marked or asked for since, or will be marked, or is about to be flushed.
SeenTo(k) ==
    \/ asked[k] \in {"deleted", "wanted"}
    \/ \E p \in Producers : Covers(p, k)
    \/ spc = "flush" /\ store[k] = "none"

\* Redis, and the store from which workers bring charts to redis.
OverlookInv ==
    index.op = "delete" =>
        Deleting /\ \A k \in Keys : k \in redis \/ store[k] # "none" => SeenTo(k)

LEMMA OverlookSuffices == Typed /\ OverlookInv => DeletionOverlooksNone
  BY DEF Typed, CachesTyped, OverlookInv, SeenTo, Covers, DeletionOverlooksNone

LEMMA InitBusy == Init => BusyInv /\ OverlookInv
  BY DEF Init, BusyInv, OverlookInv

LEMMA WorkerKeepsBusy ==
  ASSUME Typed, BusyInv, NEW w \in Workers, WorkerStep(w) PROVE BusyInv'
<1> USE DEF Typed, WorkersTyped, CachesTyped, BusyInv, WorkerGoes, workers, resync
<1>1. CASE GetParks(w) \/ GetItem(w)
  BY <1>1 DEF GetParks, GetItem
<1>2. CASE RLock(w)
  BY <1>2 DEF RLock
<1>3. CASE CheckProcessing(w)
  BY <1>3 DEF CheckProcessing, Leave
<1>4. CASE ReadEntry(w)
  BY <1>4 DEF ReadEntry
<1>5. CASE Delete(w) \/ Download(w) \/ Set(w)
  BY <1>5 DEF Delete, Download, Set
<1>6. CASE Forget(w) \/ Clean(w) \/ Retry(w) \/ GiveUp(w)
  BY <1>6 DEF Forget, Clean, Retry, GiveUp
<1>7. CASE Done(w)
  BY <1>7 DEF Done, Leave
<1> QED
  BY <1>1, <1>2, <1>3, <1>4, <1>5, <1>6, <1>7 DEF WorkerStep

LEMMA ResyncKeepsBusy ==
  ASSUME Typed, LockInv, BusyInv, StartResync \/ ResyncStep PROVE BusyInv'
<1> USE DEF Typed, CachesTyped, BusyInv, ResyncGoes, workers
<1>1. CASE StartResync
  BY <1>1 DEF StartResync
<1>2. CASE LockForResync
  BY <1>2 DEF LockForResync
<1>3. CASE ResetQueue \/ ResetRateLimiter \/ FlushDB
  BY <1>3 DEF ResetQueue, ResetRateLimiter, FlushDB
<1>4. CASE ResetStore
  <2>1. \A w \in Workers : pc'[w] \in {"get", "rlock"}
    BY <1>4 DEF ResetStore, LockInv
  <2> QED
    BY <1>4, <2>1 DEF ResetStore
<1> QED
  BY <1>1, <1>2, <1>3, <1>4 DEF ResyncStep

\* An entry that is put is not "none", and replaces none that is.
LEMMA PuttingKeepsBusy ==
  ASSUME Typed, BusyInv, NEW k \in Keys, NEW e \in {"url", "deleted"},
         store' = [store EXCEPT ![k] = e], UNCHANGED <<workers, lock, spc>>
  PROVE  BusyInv'
  BY DEF Typed, CachesTyped, BusyInv, workers

LEMMA StepKeepsBusy == Typed /\ LockInv /\ BusyInv /\ [Next]_vars => BusyInv'
<1> SUFFICES ASSUME Typed, LockInv, BusyInv, [Next]_vars PROVE BusyInv'
  OBVIOUS
<1>1. ASSUME NEW w \in Workers, WorkerStep(w) PROVE BusyInv'
  BY <1>1, WorkerKeepsBusy
<1>2. CASE StartResync \/ ResyncStep
  BY <1>2, ResyncKeepsBusy
<1>3. ASSUME UNCHANGED <<store, workers, lock, spc>> PROVE BusyInv'
  BY <1>3 DEF BusyInv, workers
<1>4. ASSUME NEW r \in Readers, ReaderStep(r) \/ \E k \in Keys : Fetch(r, k) PROVE BusyInv'
  <2>1. CASE StoreEntry(r)
    BY <2>1, PuttingKeepsBusy DEF StoreEntry, PutEntry, ReaderGoes, Typed, ReadersTyped, resync
  <2>2. CASE ~StoreEntry(r)
    BY <1>3, <1>4, <2>2 DEF ReaderStep, Enqueue, WaitParks, WaitEnds, PollEnds, Refetch, Fetch, resync
  <2> QED
    BY <2>1, <2>2
<1>5. ASSUME NEW p \in Producers,
             \/ ProducerStep(p) \/ StartDelete(p)
             \/ \E idx \in SUBSET Keys : \E newest \in SUBSET idx : StartImport(p, idx, newest)
      PROVE  BusyInv'
  <2>1. ASSUME NEW k \in Keys, MarkDeleted(p, k) \/ StoreChart(p, k) PROVE BusyInv'
    BY <2>1, PuttingKeepsBusy DEF MarkDeleted, StoreChart, PutEntry, resync
  <2>2. CASE Scan(p) \/ ListKeys(p) \/ AddMarked(p) \/ MarkingEnds(p) \/ AddChart(p)
    BY <1>3, <2>2 DEF Scan, ListKeys, AddMarked, MarkingEnds, AddChart, resync
  <2>3. CASE StartDelete(p)
    BY <1>3, <2>3 DEF StartDelete, resync
  <2>4. ASSUME NEW idx \in SUBSET Keys, NEW newest \in SUBSET idx, StartImport(p, idx, newest)
        PROVE  BusyInv'
    BY <1>3, <2>4 DEF StartImport, resync
  <2> QED
    BY <1>5, <2>1, <2>2, <2>3, <2>4 DEF ProducerStep
<1>6. ASSUME NEW k \in Keys, DelayElapses(k) \/ Evict(k) PROVE BusyInv'
  BY <1>3, <1>6 DEF DelayElapses, Evict, resync
<1>7. CASE UNCHANGED vars
  BY <1>3, <1>7 DEF vars, resync
<1> QED
  BY <1>1, <1>2, <1>4, <1>5, <1>6, <1>7 DEF Next

\* Steps that leave the marking alone, and bring to redis only what has an entry.
LEMMA OthersOverlookNone ==
  ASSUME OverlookInv, UNCHANGED <<index, ppc, keep, latest, todo, pkey, store, asked, spc>>,
         \A k \in Keys : k \in redis' => k \in redis \/ store[k] # "none"
  PROVE  OverlookInv'
  BY DEF OverlookInv, Deleting, SeenTo, Covers

LEMMA WorkerOverlooksNone ==
  ASSUME Typed, BusyInv, OverlookInv, NEW w \in Workers, WorkerStep(w) PROVE OverlookInv'
<1> USE DEF WorkerGoes, producers, resync, history
<1>1. CASE ~Set(w)
  BY <1>1, OthersOverlookNone DEF WorkerStep, GetParks, GetItem, RLock, CheckProcessing, ReadEntry,
     Delete, Download, Forget, Clean, Retry, GiveUp, Done
<1>2. CASE Set(w)
  BY <1>2, OthersOverlookNone DEF Set, BusyInv
<1> QED
  BY <1>1, <1>2

LEMMA ReaderOverlooksNone ==
  ASSUME Typed, OverlookInv, NEW r \in Readers, ReaderStep(r) \/ \E k \in Keys : Fetch(r, k)
  PROVE  OverlookInv'
<1>1. CASE ~StoreEntry(r)
  BY <1>1, OthersOverlookNone
     DEF ReaderStep, Enqueue, WaitParks, WaitEnds, PollEnds, Refetch, Fetch, producers, resync, history
<1>2. CASE StoreEntry(r)
  <2> DEFINE i == rkey[r]
  <2>1. /\ UNCHANGED <<index, producers, spc, redis>>
        /\ asked' = [asked EXCEPT ![i] = "wanted"] /\ store' = [store EXCEPT ![i] = "url"]
    BY <1>2 DEF StoreEntry, PutEntry, resync
  <2> HIDE DEF i
  <2>2. Deleting => Deleting'
    BY <2>1 DEF Deleting, producers
  <2>3. ASSUME NEW k \in Keys, (k \in redis \/ store[k] # "none") => SeenTo(k)
        PROVE  (k \in redis' \/ store'[k] # "none") => SeenTo(k)'
    <3>1. CASE k = i
      BY <2>1, <3>1 DEF SeenTo, Typed, HistoryTyped
    <3>2. CASE k # i
      BY <2>1, <2>3, <3>2 DEF SeenTo, Covers, producers, Typed, HistoryTyped, CachesTyped
    <3> QED
      BY <3>1, <3>2
  <2> QED
    BY <2>1, <2>2, <2>3 DEF OverlookInv
<1> QED
  BY <1>1, <1>2

LEMMA ProducerOverlooksNone ==
  ASSUME OneProducer, Typed, OverlookInv, NEW p \in Producers,
         \/ ProducerStep(p) \/ StartDelete(p)
         \/ \E idx \in SUBSET Keys : \E newest \in SUBSET idx : StartImport(p, idx, newest)
  PROVE  OverlookInv'
<1> USE DEF OneProducer, Typed, ProducersTyped, CachesTyped, HistoryTyped, ProducerGoes, resync, history
<1>1. CASE StartDelete(p)
  <2>1. /\ \A r \in Producers : ppc'[r] = "scan" /\ keep'[r] = {} /\ latest'[r] = {}
    BY <1>1 DEF StartDelete
  <2> QED
    BY <2>1 DEF OverlookInv, Deleting, SeenTo, Covers
<1>2. ASSUME NEW idx \in SUBSET Keys, NEW newest \in SUBSET idx, StartImport(p, idx, newest)
      PROVE  OverlookInv'
  BY <1>2 DEF StartImport, OverlookInv
<1>3. CASE Scan(p)
  <2>1. CASE index'.op = "none"
    BY <2>1 DEF OverlookInv
  <2>2. CASE index'.op # "none"
    <3>1. /\ UNCHANGED <<index, keep, latest, pkey, store, asked, redis, spc>> /\ ppc[p] = "scan"
          /\ ppc' = [ppc EXCEPT ![p] = "list"] /\ todo' = [todo EXCEPT ![p] = redis]
      BY <1>3, <2>2 DEF Scan
    <3>2. Deleting => Deleting'
      BY <3>1 DEF Deleting
    <3>3. ASSUME NEW k \in Keys PROVE (k \in redis' \/ store'[k] # "none") => SeenTo(k)'
      BY <3>1 DEF SeenTo, Covers
    <3> QED
      BY <3>1, <3>2, <3>3 DEF OverlookInv
  <2> QED
    BY <2>1, <2>2
<1> SUFFICES ASSUME index.op = "delete", index' = index, Deleting,
                    \A k \in Keys : k \in redis \/ store[k] # "none" => SeenTo(k),
                    ProducerStep(p), ~Scan(p)
             PROVE  OverlookInv'
  BY <1>1, <1>2, <1>3
     DEF OverlookInv, ProducerStep, ListKeys, AddMarked, MarkingEnds, AddChart, MarkDeleted, StoreChart
<1>4. CASE ListKeys(p)
  <2>1. /\ UNCHANGED <<keep, latest, pkey, store, asked, redis, spc>> /\ ppc[p] = "list"
        /\ ppc' = [ppc EXCEPT ![p] = "mark"]
        /\ todo' = [todo EXCEPT ![p] = todo[p] \cup {k \in Keys : store[k] # "none"}]
    BY <1>4, ZenonT(60) DEF ListKeys, Deleting
  <2>2. Deleting'
    BY <2>1 DEF Deleting
  <2>3. ASSUME NEW k \in Keys, SeenTo(k) PROVE SeenTo(k)'
    BY <2>1, <2>3 DEF SeenTo, Covers
  <2> QED
    BY <2>1, <2>2, <2>3 DEF OverlookInv
<1>5. ASSUME NEW i \in Keys, MarkDeleted(p, i) PROVE OverlookInv'
  <2>1. /\ UNCHANGED <<keep, latest, todo, redis, spc>> /\ ppc[p] = "mark"
        /\ ppc' = [ppc EXCEPT ![p] = "add"] /\ pkey' = [pkey EXCEPT ![p] = i]
        /\ store' = [store EXCEPT ![i] = "deleted"] /\ asked' = [asked EXCEPT ![i] = "deleted"]
    BY <1>5 DEF MarkDeleted, PutEntry
  <2>2. Deleting'
    BY <2>1 DEF Deleting
  <2>3. ASSUME NEW k \in Keys, SeenTo(k) \/ k = i PROVE SeenTo(k)'
    BY <2>1, <2>3 DEF SeenTo, Covers
  <2>4. ASSUME NEW k \in Keys, k # i PROVE store'[k] = store[k]
    BY <2>1, <2>4
  <2> QED
    BY <2>1, <2>2, <2>3, <2>4 DEF OverlookInv
<1>6. CASE AddMarked(p)
  <2>1. /\ UNCHANGED <<keep, latest, pkey, store, asked, redis, spc>> /\ ppc[p] = "add"
        /\ ppc' = [ppc EXCEPT ![p] = "mark"] /\ todo' = [todo EXCEPT ![p] = @ \ {pkey[p]}]
    BY <1>6 DEF AddMarked
  <2>2. Deleting'
    BY <2>1 DEF Deleting
  <2>3. ASSUME NEW k \in Keys, SeenTo(k) PROVE SeenTo(k)'
    BY <2>1, <2>3 DEF SeenTo, Covers
  <2> QED
    BY <2>1, <2>2, <2>3 DEF OverlookInv
<1>7. CASE MarkingEnds(p)
  <2>1. /\ UNCHANGED <<keep, latest, pkey, store, asked, redis, spc>> /\ ppc[p] = "mark"
        /\ ppc' = [ppc EXCEPT ![p] = "idle"] /\ todo[p] = {}
        /\ todo' = [todo EXCEPT ![p] = {}]
    BY <1>7 DEF MarkingEnds, Deleting
  <2>2. Deleting'
    BY <2>1 DEF Deleting
  <2>3. ASSUME NEW k \in Keys, SeenTo(k) PROVE SeenTo(k)'
    BY <2>1, <2>3 DEF SeenTo, Covers
  <2> QED
    BY <2>1, <2>2, <2>3 DEF OverlookInv
<1>8. ASSUME AddChart(p) \/ \E i \in Keys : StoreChart(p, i) PROVE FALSE
  BY <1>8 DEF AddChart, StoreChart, Deleting
<1> QED
  BY <1>4, <1>5, <1>6, <1>7, <1>8 DEF ProducerStep

LEMMA ResyncOverlooksNone ==
  ASSUME Typed, OverlookInv, StartResync \/ ResyncStep PROVE OverlookInv'
<1> USE DEF Typed, CachesTyped, ResyncGoes, producers, history
<1>1. CASE StartResync \/ LockForResync \/ ResetQueue \/ ResetRateLimiter
  <2>1. /\ UNCHANGED <<index, producers, store, asked, redis>> /\ spc # "flush"
    BY <1>1 DEF StartResync, LockForResync, ResetQueue, ResetRateLimiter
  <2> QED
    BY <2>1 DEF OverlookInv, Deleting, SeenTo, Covers
<1>2. CASE ResetStore
  BY <1>2 DEF ResetStore, OverlookInv, Deleting, SeenTo
<1>3. CASE FlushDB
  <2>1. UNCHANGED <<index, producers, store, asked>> /\ redis' = {}
    BY <1>3 DEF FlushDB
  <2>2. Deleting => Deleting'
    BY <2>1 DEF Deleting
  <2>3. ASSUME NEW k \in Keys, store[k] # "none", SeenTo(k) PROVE SeenTo(k)'
    BY <2>1, <2>3 DEF SeenTo, Covers
  <2> QED
    BY <2>1, <2>2, <2>3 DEF OverlookInv
<1> QED
  BY <1>1, <1>2, <1>3 DEF ResyncStep

LEMMA StepOverlooksNone ==
  OneProducer /\ Typed /\ BusyInv /\ OverlookInv /\ [Next]_vars => OverlookInv'
<1> SUFFICES ASSUME OneProducer, Typed, BusyInv, OverlookInv, [Next]_vars PROVE OverlookInv'
  OBVIOUS
<1>1. ASSUME NEW w \in Workers, WorkerStep(w) PROVE OverlookInv'
  BY <1>1, WorkerOverlooksNone
<1>2. ASSUME NEW r \in Readers, ReaderStep(r) \/ \E k \in Keys : Fetch(r, k) PROVE OverlookInv'
  BY <1>2, ReaderOverlooksNone
<1>3. ASSUME NEW p \in Producers,
             \/ ProducerStep(p) \/ StartDelete(p)
             \/ \E idx \in SUBSET Keys : \E newest \in SUBSET idx : StartImport(p, idx, newest)
      PROVE  OverlookInv'
  BY <1>3, ProducerOverlooksNone
<1>4. CASE StartResync \/ ResyncStep
  BY <1>4, ResyncOverlooksNone
<1>5. ASSUME NEW k \in Keys, DelayElapses(k) \/ Evict(k) PROVE OverlookInv'
  BY <1>5, OthersOverlookNone DEF DelayElapses, Evict, producers, resync, history
<1>6. CASE UNCHANGED vars
  BY <1>6, OthersOverlookNone DEF vars, producers, resync, history
<1> QED
  BY <1>1, <1>2, <1>3, <1>4, <1>5, <1>6 DEF Next

\* After a deletion redis holds no chart of the repository that was not marked, or asked for
\* since by a reader, for any number of charts, workers and readers: deleteChartsHelper lists
\* redis first and the store after, and a chart a worker moves meanwhile keeps its entry.
THEOREM DeletionsOverlookNone == OneProducer => (Spec => []DeletionOverlooksNone)
<1>1. Spec => [](Typed /\ LockInv)
  BY AlwaysTyped, InitLock, StepKeepsLock, PTL DEF Spec
<1>2. Spec => [](Typed /\ BusyInv)
  BY <1>1, InitBusy, StepKeepsBusy, PTL DEF Spec
<1> SUFFICES ASSUME OneProducer PROVE Spec => []DeletionOverlooksNone
  OBVIOUS
<1>3. Typed /\ BusyInv /\ OverlookInv /\ [Next]_vars => OverlookInv'
  BY StepOverlooksNone
<1>4. Spec => [](Typed /\ OverlookInv)
  BY <1>2, <1>3, InitBusy, PTL DEF Spec
<1> QED
  BY <1>4, OverlookSuffices, PTL

=============================================================================

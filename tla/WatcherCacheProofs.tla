-------------------------- MODULE WatcherCacheProofs --------------------------
(***************************************************************************)
(* What the cache of repositories guarantees for any number of             *)
(* repositories, contents and readers, and any number of changes, lost     *)
(* watches, faults and crashes.                                            *)
(***************************************************************************)
EXTENDS WatcherCache, TLAPS

-----------------------------------------------------------------------------
(* The queue's methods keep the queue's type.                                *)


LEMMA NewType == Q!New \in Q!QueueStates
  BY DEF Q!New, Q!QueueStates

LEMMA AddType ==
  ASSUME NEW x \in Q!QueueStates, NEW k \in Keys
  PROVE  /\ Q!Add(x, k) \in Q!QueueStates
         /\ Q!AddRateLimited(x, k) \in Q!QueueStates
         /\ Q!DelayElapses(x, k) \in Q!QueueStates
<1>1. ASSUME NEW y \in Q!QueueStates PROVE Q!Add(y, k) \in Q!QueueStates
  <2>1. Append(y.queue, k) \in Seq(Keys)
    BY DEF Q!QueueStates
  <2>2. Q!Enqueue(y, k) \in Q!QueueStates
    BY <2>1 DEF Q!Enqueue, Q!Broadcast, Q!QueueStates
  <2>3. [y EXCEPT !.dirty = @ \cup {k}, !.expected = @ \ {k}] \in Q!QueueStates
    BY DEF Q!QueueStates
  <2> QED
    BY <2>2, <2>3 DEF Q!Add
<1>2. Q!AddRateLimited(x, k) \in Q!QueueStates
  <2>1. x.requeues[k] + 1 \in Nat
    BY DEF Q!QueueStates
  <2> QED
    BY <2>1 DEF Q!AddRateLimited, Q!QueueStates
<1>3. [x EXCEPT !.delayed = @ \ {k}] \in Q!QueueStates
  BY DEF Q!QueueStates
<1> QED
  BY <1>1, <1>2, <1>3 DEF Q!DelayElapses

LEMMA WorkerOpsType ==
  ASSUME NEW x \in Q!QueueStates
  PROVE  /\ x.queue # <<>> => Head(x.queue) \in Keys /\ Q!Get(x) \in Q!QueueStates
         /\ \A k \in Keys : Q!Forget(x, k) \in Q!QueueStates /\ Q!Done(x, k) \in Q!QueueStates
<1>1. x.queue \in Seq(Keys)
  BY DEF Q!QueueStates
<1>2. x.queue # <<>> => Head(x.queue) \in Keys /\ Tail(x.queue) \in Seq(Keys)
  BY <1>1
<1>3. x.queue # <<>> => Q!Get(x) \in Q!QueueStates
  BY <1>2 DEF Q!Get, Q!QueueStates
<1>4. ASSUME NEW k \in Keys PROVE Q!Forget(x, k) \in Q!QueueStates
  BY DEF Q!Forget, Q!QueueStates
<1>5. ASSUME NEW k \in Keys PROVE Q!Done(x, k) \in Q!QueueStates
  <2>1. (IF k \in x.dirty THEN Append(x.queue, k) ELSE x.queue) \in Seq(Keys)
    BY <1>1
  <2> QED
    BY <2>1 DEF Q!Done, Q!Broadcast, Q!QueueStates
<1> QED
  BY <1>2, <1>3, <1>4, <1>5

LEMMA OtherOpsType ==
  ASSUME NEW x \in Q!QueueStates
  PROVE  /\ \A t \in Threads : Q!Wait(x, t) \in Q!QueueStates
         /\ Q!ResetQueue(x) \in Q!QueueStates
         /\ Q!ResetRateLimiter(x) \in Q!QueueStates
<1>1. <<>> \in Seq(Keys)
  OBVIOUS
<1> QED
  BY <1>1 DEF Q!QueueStates, Q!Wait, Q!ResetQueue, Q!ResetRateLimiter

-----------------------------------------------------------------------------
(* Types.  A worker past get has a key, and so has a reader that began; the  *)
(* object the worker read has a content.                                     *)

WorldTyped ==
    /\ cluster \in [Keys -> Objects] /\ events \in [Keys -> Nat]
    /\ past \in [Keys -> SUBSET Digests]

QueueTyped == q \in Q!QueueStates /\ ~q.shuttingDown

RedisTyped ==
    /\ redis \in [Keys -> Entries]
    /\ lock \in [readers : SUBSET Readers, writer : {"none", "waiting", "held"}]

WorkerTyped ==
    /\ pc \in {"get", "check", "read", "readOld", "index", "set", "drop", "delete",
               "forget", "failed", "done"}
    /\ item \in Keys \cup {NoKey} /\ obj \in Objects \cup {NoObject} /\ old \in Entries
    /\ item = NoKey <=> pc = "get"
    /\ pc \in {"readOld", "index", "set", "delete"} => obj \in Objects

ReadersTyped ==
    /\ rpc \in [Readers -> Busy \cup {"idle", "returned", "error"}]
    /\ rkey \in [Readers -> Keys \cup {NoKey}] /\ rval \in [Readers -> Entries]
    /\ \A r \in Readers : rpc[r] # "idle" => rkey[r] \in Keys

ResyncTyped ==
    /\ spc \in {"boot", "lock", "queue", "limiter", "flush", "list", "populate", "retry", "watching"}
    /\ bootstrap \in BOOLEAN /\ attempt \in 1..MaxAttempts
    /\ pop \in [Keys -> {"add", "wait", "poll", "done"}]

CountsTyped == changes \in Nat /\ resyncs \in Nat /\ faults \in Nat /\ crashes \in Nat

HistoryTyped ==
    /\ excused \subseteq Keys /\ put \subseteq Keys /\ tainted \subseteq Keys
    /\ unlucky \subseteq Readers /\ dropped \subseteq Readers

Typed == /\ WorldTyped /\ QueueTyped /\ RedisTyped /\ WorkerTyped /\ ReadersTyped
         /\ ResyncTyped /\ CountsTyped /\ HistoryTyped

LEMMA TypedIsTypeOK == Typed => TypeOK
  BY DEF Typed, TypeOK, WorldTyped, QueueTyped, RedisTyped, WorkerTyped, ReadersTyped, ResyncTyped,
         CountsTyped, HistoryTyped

LEMMA NoEntryTyped == NoEntry \in Entries
  BY DEF NoEntry, Entries

LEMMA InitTyped == Init => Typed
<1> SUFFICES ASSUME Init PROVE Typed
  OBVIOUS
<1> USE NewType, NoEntryTyped DEF Init, Boot
<1>1. WorldTyped /\ CountsTyped /\ HistoryTyped
  BY DEF WorldTyped, CountsTyped, HistoryTyped
<1>2. QueueTyped /\ RedisTyped
  BY DEF QueueTyped, RedisTyped, Q!New
<1>3. WorkerTyped /\ ReadersTyped
  BY DEF WorkerTyped, ReadersTyped, Busy
<1>4. ResyncTyped
  BY BoundsAssumption DEF ResyncTyped
<1> QED
  BY <1>1, <1>2, <1>3, <1>4 DEF Typed

\* No method shuts the queue down.
LEMMA NeverDown ==
  ASSUME NEW x \in Q!QueueStates, ~x.shuttingDown
  PROVE  /\ \A k \in Keys : /\ ~Q!Add(x, k).shuttingDown /\ ~Q!AddRateLimited(x, k).shuttingDown
                            /\ ~Q!AddIfNotProcessing(x, k).shuttingDown
                            /\ ~Q!DelayElapses(x, k).shuttingDown /\ ~Q!Forget(x, k).shuttingDown
                            /\ ~Q!Done(x, k).shuttingDown
         /\ ~Q!Get(x).shuttingDown /\ ~Q!ResetQueue(x).shuttingDown
         /\ ~Q!ResetRateLimiter(x).shuttingDown
         /\ \A t \in Threads : ~Q!Wait(x, t).shuttingDown
  BY DEF Q!QueueStates, Q!Add, Q!Enqueue, Q!Broadcast, Q!AddRateLimited, Q!AddIfNotProcessing,
         Q!DelayElapses, Q!Forget, Q!Done, Q!Get, Q!ResetQueue, Q!ResetRateLimiter, Q!Wait

LEMMA WorkerKeepsTypes == ASSUME Typed, WorkerStep PROVE Typed'
<1> USE NoEntryTyped, KeysAssumption
    DEF world, worker, readers, resync, history, WorkerGoes, Fails, Fault, NoFault, Disappoint, Leave,
        Typed, WorldTyped, QueueTyped, RedisTyped, WorkerTyped, ReadersTyped, ResyncTyped, CountsTyped,
        HistoryTyped
<1>1. CASE GetParks
  BY <1>1, OtherOpsType, NeverDown DEF GetParks, Threads
<1>2. CASE GetItem
  <2>1. Head(q.queue) \in Keys /\ Q!Get(q) \in Q!QueueStates /\ ~Q!Get(q).shuttingDown
    BY <1>2, WorkerOpsType, NeverDown DEF GetItem
  <2> QED
    BY <1>2, <2>1 DEF GetItem
<1>3. CASE CheckProcessing
  BY <1>3 DEF CheckProcessing
<1>4. CASE ReadObject
  BY <1>4 DEF ReadObject
<1>5. CASE ReadOld
  BY <1>5 DEF ReadOld
<1>6. CASE IndexRepo
  <2>1. obj \in Objects /\ item \in Keys
    BY <1>6 DEF IndexRepo
  <2>2. cluster[item].digest \in Digests
    BY <2>1 DEF Objects
  <2>3. /\ [obj EXCEPT !.digest = cluster[item].digest] \in Objects
        /\ [old EXCEPT !.charts = cluster[item].digest] \in Entries
    BY <2>1, <2>2 DEF Objects, Entries
  <2> QED
    BY <1>6, <2>1, <2>3 DEF IndexRepo
<1>7. CASE SetEntry
  <2>1. obj \in Objects /\ item \in Keys
    BY <1>7 DEF SetEntry
  <2>2. [checksum |-> obj.digest, charts |-> old.charts] \in Entries
    BY <2>1 DEF Objects, Entries
  <2> QED
    BY <1>7, <2>1, <2>2 DEF SetEntry
<1>8. CASE DropEntry
  BY <1>8 DEF DropEntry
<1>9. CASE DeleteEntry
  BY <1>9 DEF DeleteEntry
<1>10. CASE Forget
  BY <1>10, WorkerOpsType, NeverDown DEF Forget
<1>11. CASE Retry
  BY <1>11, AddType, NeverDown DEF Retry
<1>12. CASE GiveUp
  BY <1>12, WorkerOpsType, NeverDown DEF GiveUp
<1>13. CASE Done
  BY <1>13, WorkerOpsType, NeverDown DEF Done
<1> QED
  BY <1>1, <1>2, <1>3, <1>4, <1>5, <1>6, <1>7, <1>8, <1>9, <1>10, <1>11, <1>12, <1>13 DEF WorkerStep

LEMMA ReaderKeepsTypes ==
  ASSUME Typed, NEW r \in Readers, ReaderStep(r) \/ \E k \in Keys : GetFetches(r, k)
  PROVE  Typed'
<1> USE DEF world, worker, readers, resync, history, ReaderGoes, Fault, NoFault, HaveValue, Busy,
            Typed, WorldTyped, QueueTyped, RedisTyped, WorkerTyped, ReadersTyped, ResyncTyped,
            CountsTyped, HistoryTyped
<1>1. ASSUME NEW k \in Keys, GetFetches(r, k) PROVE Typed'
  BY <1>1 DEF GetFetches
<1>2. CASE ForceAdds(r)
  BY <1>2, AddType, NeverDown, ZenonT(120) DEF ForceAdds
<1>3. CASE RefreshAdds(r)
  BY <1>3, AddType, NeverDown, ZenonT(120) DEF RefreshAdds, Q!AddIfNotProcessing
<1>4. CASE WaitParks(r)
  BY <1>4, OtherOpsType, NeverDown, ZenonT(120) DEF WaitParks, Threads
<1>5. CASE WaitEnds(r) \/ PollEnds(r)
  BY <1>5 DEF WaitEnds, PollEnds
<1>6. CASE FetchAgain(r)
  BY <1>6 DEF FetchAgain
<1> QED
  BY <1>1, <1>2, <1>3, <1>4, <1>5, <1>6 DEF ReaderStep

LEMMA RestartKeepsTypes == ASSUME Typed, Restart, faults' \in Nat, crashes' \in Nat PROVE Typed'
  BY NewType, NoEntryTyped, BoundsAssumption
     DEF Restart, Boot, Leave, world, Typed, WorldTyped, QueueTyped, RedisTyped, WorkerTyped,
         ReadersTyped, ResyncTyped, CountsTyped, HistoryTyped, Busy, Q!New

LEMMA ResyncKeepsTypes == ASSUME Typed, ResyncStep \/ WatchEnds \/ Crash PROVE Typed'
<1> USE NoEntryTyped, BoundsAssumption
    DEF world, worker, readers, resync, history, ResyncGoes, Fault, NoFault,
        Typed, WorldTyped, QueueTyped, RedisTyped, WorkerTyped, ReadersTyped, ResyncTyped, CountsTyped,
        HistoryTyped
<1>1. CASE WantLock \/ LockForResync \/ StartWatch \/ AttemptAgain \/ WatchEnds
  <2>1. AttemptAgain => attempt' \in 1..MaxAttempts
    BY DEF AttemptAgain
  <2>2. 1 \in 1..MaxAttempts
    OBVIOUS
  <2>3. CASE AttemptAgain
    BY <2>1, <2>3 DEF AttemptAgain, Begin
  <2>4. CASE WatchEnds
    <3>1. attempt' \in 1..MaxAttempts /\ resyncs' \in Nat /\ lock' = [lock EXCEPT !.writer = "waiting"]
      BY <2>2, <2>4 DEF WatchEnds
    <3>2. RedisTyped' /\ ResyncTyped' /\ CountsTyped'
      BY <2>4, <3>1 DEF WatchEnds
    <3> QED
      BY <2>4, <3>2 DEF WatchEnds
  <2>5. CASE WantLock \/ LockForResync \/ StartWatch
    BY <2>5 DEF WantLock, LockForResync, StartWatch, Begin
  <2> QED
    BY <1>1, <2>3, <2>4, <2>5
<1>2. CASE ResetQueue
  BY <1>2, OtherOpsType, NeverDown DEF ResetQueue
<1>3. CASE ResetRateLimiter
  BY <1>3, OtherOpsType, NeverDown DEF ResetRateLimiter
<1>4. CASE FlushDB
  BY <1>4 DEF FlushDB
<1>5. CASE List
  BY <1>5 DEF List
<1>6. CASE Panic
  BY <1>6, RestartKeepsTypes DEF Panic
<1>7. CASE Crash
  BY <1>7, RestartKeepsTypes DEF Crash
<1> QED
  BY <1>1, <1>2, <1>3, <1>4, <1>5, <1>6, <1>7 DEF ResyncStep

LEMMA WorldKeepsTypes ==
  ASSUME Typed, NEW k \in Keys,
         \/ DeliverEvent(k) \/ DelayElapses(k) \/ PopulateStep(k) \/ Evict(k)
         \/ \E d \in Digests : ContentChanges(k, d) \/ \E s \in {"absent", "pending", "ready"} :
               StatusChanges(k, s, d)
  PROVE  Typed'
<1> USE NoEntryTyped
    DEF world, worker, readers, resync, history, Fault, NoFault, Disappoint, PopulatorGoes, Become,
        Typed, WorldTyped, QueueTyped, RedisTyped, WorkerTyped, ReadersTyped, ResyncTyped, CountsTyped,
        HistoryTyped
<1>1. CASE DeliverEvent(k)
  <2>1. events[k] - 1 \in Nat
    BY <1>1 DEF DeliverEvent
  <2> QED
    BY <1>1, <2>1, AddType, NeverDown, ZenonT(60) DEF DeliverEvent
<1>2. CASE DelayElapses(k)
  BY <1>2, AddType, NeverDown, ZenonT(120) DEF DelayElapses
<1>3. CASE PopulateStep(k)
  <2>1. CASE PopulateAdds(k)
    BY <2>1, AddType, NeverDown, ZenonT(60) DEF PopulateAdds
  <2>2. CASE PopulateParks(k)
    BY <2>2, OtherOpsType, NeverDown, ZenonT(120) DEF PopulateParks, Threads
  <2>3. CASE PopulateWaitEnds(k) \/ PopulatePollEnds(k)
    BY <2>3 DEF PopulateWaitEnds, PopulatePollEnds
  <2> QED
    BY <1>3, <2>1, <2>2, <2>3 DEF PopulateStep
<1>4. CASE Evict(k)
  BY <1>4 DEF Evict
<1>5. ASSUME NEW d \in Digests, ContentChanges(k, d) PROVE Typed'
  <2>1. [cluster EXCEPT ![k].digest = d] \in [Keys -> Objects] /\ cluster[k].digest \in Digests
    BY DEF Objects
  <2> QED
    BY <1>5, <2>1 DEF ContentChanges
<1>6. ASSUME NEW d \in Digests, NEW s \in {"absent", "pending", "ready"}, StatusChanges(k, s, d)
      PROVE  Typed'
  <2>1. [cluster EXCEPT ![k] = [status |-> s, digest |-> d]] \in [Keys -> Objects]
        /\ cluster[k].digest \in Digests
    BY DEF Objects
  <2> QED
    BY <1>6, <2>1 DEF StatusChanges
<1> QED
  BY <1>1, <1>2, <1>3, <1>4, <1>5, <1>6

LEMMA StutterKeepsTypes == ASSUME Typed, UNCHANGED vars PROVE Typed'
  BY DEF vars, world, worker, readers, resync, history, Typed, WorldTyped, QueueTyped, RedisTyped,
         WorkerTyped, ReadersTyped, ResyncTyped, CountsTyped, HistoryTyped

LEMMA StepKeepsTypes == Typed /\ [Next]_vars => Typed'
  BY WorkerKeepsTypes, ReaderKeepsTypes, ResyncKeepsTypes, WorldKeepsTypes, StutterKeepsTypes DEF Next

LEMMA AlwaysTyped == Spec => []Typed
  BY InitTyped, StepKeepsTypes, PTL DEF Spec

\* Every variable keeps its type, for any sets of repositories and readers and any bounds.
THEOREM TypeCorrect == Spec => []TypeOK
  BY AlwaysTyped, TypedIsTypeOK, PTL

-----------------------------------------------------------------------------
(* The lock.  A reader that missed holds its read half until it is answered; *)
(* one that refreshes an OCI repository holds nothing, but has a value.      *)

Waiting == {"add", "wait", "poll", "fetch"}

LockInv ==
    /\ spc \in {"queue", "limiter", "flush", "list", "populate", "retry"} => lock.writer = "held"
    /\ lock.writer = "held" => lock.readers = {}
    /\ \A r \in Readers :
          /\ r \in lock.readers => rpc[r] \in Waiting
          /\ rpc[r] \in Busy /\ r \notin lock.readers => rkey[r] \in OciKeys /\ rval[r] # NoEntry

LEMMA InitLock == Init => LockInv /\ NoReaderDropped
  BY DEF Init, Boot, LockInv, NoReaderDropped, Busy

LEMMA ReaderKeepsLock ==
  ASSUME Typed, LockInv, NEW r \in Readers, ReaderStep(r) \/ \E k \in Keys : GetFetches(r, k)
  PROVE  LockInv'
<1> USE DEF Typed, RedisTyped, ReadersTyped, readers, resync, ReaderGoes, LockInv, Busy, Waiting
<1>1. ASSUME NEW k \in Keys, GetFetches(r, k) PROVE LockInv'
  <2>1. r \notin lock.readers
    BY <1>1 DEF GetFetches
  <2> QED
    BY <1>1, <2>1 DEF GetFetches, HaveValue
<1>2. CASE ForceAdds(r) \/ RefreshAdds(r) \/ WaitParks(r) \/ WaitEnds(r) \/ PollEnds(r)
  BY <1>2 DEF ForceAdds, RefreshAdds, WaitParks, WaitEnds, PollEnds
<1>3. CASE FetchAgain(r)
  BY <1>3 DEF FetchAgain, HaveValue
<1> QED
  BY <1>1, <1>2, <1>3 DEF ReaderStep

LEMMA ResyncKeepsLock ==
  ASSUME Typed, LockInv, ResyncStep \/ WatchEnds \/ Crash
  PROVE  LockInv'
<1> USE DEF Typed, RedisTyped, ReadersTyped, ResyncTyped, readers, resync, ResyncGoes, LockInv, Busy, Waiting
<1>1. CASE WantLock \/ WatchEnds \/ LockForResync \/ StartWatch
  BY <1>1 DEF WantLock, WatchEnds, LockForResync, StartWatch, Begin
<1>2. CASE ResetQueue \/ ResetRateLimiter \/ FlushDB \/ List \/ AttemptAgain
  BY <1>2 DEF ResetQueue, ResetRateLimiter, FlushDB, List, AttemptAgain, Begin
<1>3. CASE Panic \/ Crash
  BY <1>3 DEF Panic, Crash, Restart, Boot
<1> QED
  BY <1>1, <1>2, <1>3 DEF ResyncStep

\* What the worker, the cluster, the watch and populateWith leave alone.
LEMMA OthersKeepLock ==
  \/ WorkerStep
  \/ \E k \in Keys :
        \/ DeliverEvent(k) \/ DelayElapses(k) \/ PopulateStep(k) \/ Evict(k)
        \/ \E d \in Digests : ContentChanges(k, d) \/ \E s \in {"absent", "pending", "ready"} :
              StatusChanges(k, s, d)
  \/ UNCHANGED vars
  => UNCHANGED <<lock, rpc, rkey, rval, spc, dropped>>
<1> USE DEF readers, resync, history
<1>1. CASE WorkerStep
  BY <1>1 DEF WorkerStep, GetParks, GetItem, CheckProcessing, ReadObject, ReadOld, IndexRepo, SetEntry,
              DropEntry, DeleteEntry, Forget, Retry, GiveUp, Done
<1>2. ASSUME NEW k \in Keys, DeliverEvent(k) \/ DelayElapses(k) \/ PopulateStep(k) \/ Evict(k)
      PROVE  UNCHANGED <<lock, rpc, rkey, rval, spc, dropped>>
  BY <1>2 DEF DeliverEvent, DelayElapses, Evict, PopulateStep, PopulateAdds, PopulateParks,
              PopulateWaitEnds, PopulatePollEnds
<1>3. ASSUME NEW k \in Keys, NEW d \in Digests, NEW s \in {"absent", "pending", "ready"},
             ContentChanges(k, d) \/ StatusChanges(k, s, d)
      PROVE  UNCHANGED <<lock, rpc, rkey, rval, spc, dropped>>
  BY <1>3 DEF ContentChanges, StatusChanges
<1>4. CASE UNCHANGED vars
  BY <1>4 DEF vars
<1> QED
  BY <1>1, <1>2, <1>3, <1>4

LEMMA StepKeepsLock == Typed /\ LockInv /\ [Next]_vars => LockInv'
<1> SUFFICES ASSUME Typed, LockInv, [Next]_vars PROVE LockInv'
  OBVIOUS
<1>1. ASSUME NEW r \in Readers, ReaderStep(r) \/ \E k \in Keys : GetFetches(r, k) PROVE LockInv'
  BY <1>1, ReaderKeepsLock
<1>2. CASE ResyncStep \/ WatchEnds \/ Crash
  BY <1>2, ResyncKeepsLock
<1>3. CASE UNCHANGED <<lock, rpc, rkey, rval, spc, dropped>>
  BY <1>3 DEF LockInv
<1> QED
  BY <1>1, <1>2, <1>3, OthersKeepLock DEF Next

LEMMA AlwaysLocked == Spec => [](Typed /\ LockInv)
  BY AlwaysTyped, InitLock, StepKeepsLock, PTL DEF Spec

LEMMA StepDropsNone == Typed /\ LockInv /\ NoReaderDropped /\ [Next]_vars => NoReaderDropped'
<1> SUFFICES ASSUME Typed, LockInv, NoReaderDropped, [Next]_vars PROVE NoReaderDropped'
  OBVIOUS
<1>1. CASE ResetQueue
  <2>1. \A r \in Readers : rpc[r] = "wait" => rkey[r] \in OciKeys
    BY <1>1 DEF ResetQueue, ResyncGoes, LockInv, Busy
  <2> QED
    BY <1>1, <2>1 DEF ResetQueue, NoReaderDropped
<1>2. CASE Panic \/ Crash
  BY <1>2 DEF Panic, Crash, Restart, NoReaderDropped
<1>3. CASE dropped' = dropped
  BY <1>3 DEF NoReaderDropped
<1>4. ASSUME NEW r \in Readers, ReaderStep(r) \/ \E k \in Keys : GetFetches(r, k)
      PROVE  dropped' = dropped
  BY <1>4 DEF ReaderStep, ForceAdds, RefreshAdds, WaitParks, WaitEnds, PollEnds, FetchAgain, GetFetches,
              history
<1>5. CASE WantLock \/ LockForResync \/ ResetRateLimiter \/ FlushDB \/ List \/ StartWatch \/ AttemptAgain
           \/ WatchEnds
  BY <1>3, <1>5 DEF WantLock, LockForResync, ResetRateLimiter, FlushDB, List, StartWatch, AttemptAgain,
                    WatchEnds, history
<1> QED
  BY <1>1, <1>2, <1>3, <1>4, <1>5, OthersKeepLock DEF Next, ResyncStep

\* A resync never empties the queue under a reader that waits for an HTTP repository: the write lock
\* comes after every read lock is given back, whatever the number of readers.
THEOREM ReadersAreKept == Spec => []NoReaderDropped
  BY AlwaysLocked, InitLock, StepDropsNone, PTL DEF Spec

-----------------------------------------------------------------------------
(* What the queue's methods do to the sets that say what a key waits for.    *)

LEMMA AddSets ==
  ASSUME NEW x \in Q!QueueStates, ~x.shuttingDown, NEW k \in Keys
  PROVE  /\ Q!Add(x, k).dirty = x.dirty \cup {k} /\ Q!Add(x, k).processing = x.processing
         /\ Q!Add(x, k).delayed = x.delayed /\ Q!Add(x, k).requeues = x.requeues
         /\ Q!AddRateLimited(x, k).dirty = x.dirty /\ Q!AddRateLimited(x, k).processing = x.processing
         /\ Q!AddRateLimited(x, k).delayed = x.delayed \cup {k}
         /\ \A j \in Keys : /\ x.requeues[j] > 0 => Q!AddRateLimited(x, k).requeues[j] > 0
                            /\ j = k => Q!AddRateLimited(x, k).requeues[j] > 0
         /\ Q!DelayElapses(x, k).dirty = x.dirty \cup {k}
         /\ Q!DelayElapses(x, k).processing = x.processing
         /\ Q!DelayElapses(x, k).delayed = x.delayed \ {k}
         /\ Q!DelayElapses(x, k).requeues = x.requeues
<1>1. /\ Q!Add(x, k).dirty = x.dirty \cup {k} /\ Q!Add(x, k).processing = x.processing
      /\ Q!Add(x, k).delayed = x.delayed /\ Q!Add(x, k).requeues = x.requeues
  BY DEF Q!Add, Q!Enqueue, Q!Broadcast, Q!QueueStates
<1>2. /\ Q!AddRateLimited(x, k).dirty = x.dirty /\ Q!AddRateLimited(x, k).processing = x.processing
      /\ Q!AddRateLimited(x, k).delayed = x.delayed \cup {k}
      /\ Q!AddRateLimited(x, k).requeues = [x.requeues EXCEPT ![k] = @ + 1]
  BY DEF Q!AddRateLimited, Q!QueueStates
<1>3. \A j \in Keys : /\ x.requeues[j] > 0 => Q!AddRateLimited(x, k).requeues[j] > 0
                      /\ j = k => Q!AddRateLimited(x, k).requeues[j] > 0
  BY <1>2 DEF Q!QueueStates
<1>4. /\ Q!DelayElapses(x, k).dirty = x.dirty \cup {k}
      /\ Q!DelayElapses(x, k).processing = x.processing
      /\ Q!DelayElapses(x, k).delayed = x.delayed \ {k}
      /\ Q!DelayElapses(x, k).requeues = x.requeues
  BY DEF Q!DelayElapses, Q!Add, Q!Enqueue, Q!Broadcast, Q!QueueStates
<1> QED
  BY <1>1, <1>2, <1>3, <1>4

LEMMA WorkSets ==
  ASSUME NEW x \in Q!QueueStates, ~x.shuttingDown, NEW k \in Keys
  PROVE  /\ Q!Get(x).dirty = x.dirty \ {Head(x.queue)}
         /\ Q!Get(x).processing = x.processing \cup {Head(x.queue)}
         /\ Q!Get(x).delayed = x.delayed /\ Q!Get(x).requeues = x.requeues
         /\ Q!Forget(x, k).dirty = x.dirty /\ Q!Forget(x, k).processing = x.processing
         /\ Q!Forget(x, k).delayed = x.delayed
         /\ \A j \in Keys \ {k} : Q!Forget(x, k).requeues[j] = x.requeues[j]
         /\ Q!Done(x, k).dirty = x.dirty /\ Q!Done(x, k).processing = x.processing \ {k}
         /\ Q!Done(x, k).delayed = x.delayed /\ Q!Done(x, k).requeues = x.requeues
         /\ \A t : /\ Q!Wait(x, t).dirty = x.dirty /\ Q!Wait(x, t).processing = x.processing
                   /\ Q!Wait(x, t).delayed = x.delayed /\ Q!Wait(x, t).requeues = x.requeues
<1>1. /\ Q!Get(x).dirty = x.dirty \ {Head(x.queue)}
      /\ Q!Get(x).processing = x.processing \cup {Head(x.queue)}
      /\ Q!Get(x).delayed = x.delayed /\ Q!Get(x).requeues = x.requeues
  BY DEF Q!Get, Q!QueueStates
<1>2. /\ Q!Forget(x, k).dirty = x.dirty /\ Q!Forget(x, k).processing = x.processing
      /\ Q!Forget(x, k).delayed = x.delayed
      /\ \A j \in Keys \ {k} : Q!Forget(x, k).requeues[j] = x.requeues[j]
  BY DEF Q!Forget, Q!QueueStates
<1>3. /\ Q!Done(x, k).dirty = x.dirty /\ Q!Done(x, k).processing = x.processing \ {k}
      /\ Q!Done(x, k).delayed = x.delayed /\ Q!Done(x, k).requeues = x.requeues
  BY DEF Q!Done, Q!Broadcast, Q!QueueStates
<1>4. \A t : /\ Q!Wait(x, t).dirty = x.dirty /\ Q!Wait(x, t).processing = x.processing
             /\ Q!Wait(x, t).delayed = x.delayed /\ Q!Wait(x, t).requeues = x.requeues
  BY DEF Q!Wait, Q!QueueStates
<1> QED
  BY <1>1, <1>2, <1>3, <1>4

-----------------------------------------------------------------------------
(* Readers.  What a reader of k waits for is on its way as long as k is      *)
(* dirty, or a worker that will come to an entry has it, or k has a failure   *)
(* count and thus will be retried; in the end the entry is there.            *)

\* The worker, if it is on k, will leave k an entry, or fail.
OnCourse(k) ==
    \/ pc \in {"check", "read", "set", "drop", "failed"}
    \/ pc = "readOld" /\ obj.status = "ready"
    \/ pc = "index" /\ (old.checksum # NoDigest => redis[k] # NoEntry)

Live(k)    == item = k /\ k \in q.processing /\ OnCourse(k)
Counted(k) == q.requeues[k] > 0 /\ (item = k => OnCourse(k) \/ pc = "done")
Here(k)    == redis[k] # NoEntry /\ ~(item = k /\ pc = "delete")
Came(k)    == Here(k) \/ Counted(k)
Comes(k)   == Came(k) \/ k \in q.dirty \/ Live(k)

Promised(r) ==
    LET k == rkey[r] IN
    /\ cluster[k].status = "ready"
    /\ rpc[r] = "wait" => Comes(k)
    /\ rpc[r] = "poll" => Came(k)
    /\ rpc[r] = "fetch" => Here(k)

ReadInv == ReaderGetsValue /\ \A r \in lock.readers \ unlucky : Promised(r)

Keeps(k) == /\ cluster'[k].status = "ready"
            /\ Here(k) => Here(k)'
            /\ Came(k) => Came(k)'
            /\ Comes(k) => Comes(k)'

\* A method that takes nothing away keeps what is on its way.
LEMMA QueueKeepsComing ==
  ASSUME NEW k \in Keys, cluster[k].status = "ready", UNCHANGED <<cluster, redis, pc, item, obj, old>>,
         k \in q.dirty => k \in q'.dirty,
         k \in q.processing => k \in q'.processing,
         q.requeues[k] > 0 => q'.requeues[k] > 0
  PROVE  Keeps(k)
  BY DEF Keeps, Came, Comes, Here, Counted, Live, OnCourse

\* A reader that waits is not unlucky as long as nobody disappoints it.
LEMMA Disappointed ==
  ASSUME Typed, LockInv, NEW k \in Keys, Disappoint(k), NEW r \in lock.readers, rkey[r] = k
  PROVE  r \in unlucky'
  BY DEF Typed, RedisTyped, LockInv, Waiting, Disappoint, Busy

LEMMA WorkerKeepsComing ==
  ASSUME Typed, WorkerStep, NEW k \in Keys, cluster[k].status = "ready", DropEntry \/ GiveUp => item # k
  PROVE  Keeps(k)
<1>q. q \in Q!QueueStates /\ ~q.shuttingDown /\ (pc # "get" => item \in Keys) /\ (pc = "get" => item # k)
  BY KeysAssumption DEF Typed, QueueTyped, WorkerTyped
<1> USE DEF world, worker, readers, resync, history, WorkerGoes, Fails, Leave
<1>1. CASE GetParks
  BY <1>1, <1>q, WorkSets, QueueKeepsComing DEF GetParks
<1>2. CASE GetItem
  <2>1. q'.dirty = q.dirty \ {item'} /\ q'.processing = q.processing \cup {item'} /\ q'.requeues = q.requeues
    BY <1>2, <1>q, WorkSets DEF GetItem
  <2> QED
    BY <1>2, <1>q, <2>1 DEF GetItem, Keeps, Came, Comes, Here, Counted, Live, OnCourse
<1>3. CASE CheckProcessing
  BY <1>3, <1>q, KeysAssumption
     DEF CheckProcessing, Q!IsProcessing, Keeps, Came, Comes, Here, Counted, Live, OnCourse
<1>4. CASE ReadObject
  BY <1>4, <1>q DEF ReadObject, Keeps, Came, Comes, Here, Counted, Live, OnCourse
<1>5. CASE ReadOld
  BY <1>5, <1>q DEF ReadOld, Unchanged, NoEntry, Keeps, Came, Comes, Here, Counted, Live, OnCourse
<1>6. CASE IndexRepo
  <2>1. item \in Keys /\ cluster[item].digest # NoDigest
    BY <1>6, <1>q, KeysAssumption DEF IndexRepo, Typed, WorldTyped, Objects
  <2>2. /\ UNCHANGED <<cluster, redis, q, item>> /\ pc = "index"
        /\ \/ pc' \in {"set", "drop"}
           \/ pc' = "forget" /\ old.checksum # NoDigest
    BY <1>6, <2>1 DEF IndexRepo
  <2> QED
    BY <2>2 DEF Keeps, Came, Comes, Here, Counted, Live, OnCourse
<1>7. CASE SetEntry
  <2>1. /\ UNCHANGED <<cluster, q, item>> /\ pc = "set"
        /\ \/ pc' = "forget" /\ redis' = [redis EXCEPT ![item] = [checksum |-> obj.digest, charts |-> old.charts]]
           \/ pc' = "failed" /\ redis' = redis
    BY <1>7 DEF SetEntry
  <2>2. /\ redis \in [Keys -> Entries] /\ obj.digest # NoDigest
    BY <2>1, KeysAssumption DEF Typed, RedisTyped, WorkerTyped, Objects
  <2>3. pc' = "forget" /\ item = k => redis'[k] # NoEntry
    BY <2>1, <2>2 DEF NoEntry
  <2>4. item # k => redis'[k] = redis[k]
    BY <2>1, <2>2
  <2>5. CASE item = k
    BY <2>1, <2>3, <2>5 DEF Keeps, Came, Comes, Here, Counted, Live, OnCourse
  <2> QED
    BY <2>1, <2>4, <2>5 DEF Keeps, Came, Comes, Here, Counted, Live, OnCourse
<1>8. CASE DropEntry
  <2>1. item # k /\ redis'[k] = redis[k]
    BY <1>8 DEF DropEntry, Typed, RedisTyped
  <2> QED
    BY <1>8, <2>1 DEF DropEntry, Keeps, Came, Comes, Here, Counted, Live, OnCourse
<1>9. CASE DeleteEntry
  <2>1. CASE item = k
    BY <1>9, <2>1 DEF DeleteEntry, Keeps, Came, Comes, Here, Counted, Live, OnCourse
  <2>2. item # k => redis'[k] = redis[k]
    BY <1>9 DEF DeleteEntry, Typed, RedisTyped
  <2> QED
    BY <1>9, <2>1, <2>2 DEF DeleteEntry, Keeps, Came, Comes, Here, Counted, Live, OnCourse
<1>10. CASE Forget
  <2>1. q'.dirty = q.dirty /\ q'.processing = q.processing /\ (item # k => q'.requeues[k] = q.requeues[k])
    BY <1>10, <1>q, WorkSets DEF Forget
  <2> QED
    BY <1>10, <2>1 DEF Forget, Keeps, Came, Comes, Here, Counted, Live, OnCourse
<1>11. CASE Retry
  <2>1. /\ q'.dirty = q.dirty /\ q'.processing = q.processing
        /\ q.requeues[k] > 0 \/ item = k => q'.requeues[k] > 0
    BY <1>11, <1>q, AddSets DEF Retry
  <2> QED
    BY <1>11, <2>1 DEF Retry, Keeps, Came, Comes, Here, Counted, Live, OnCourse
<1>12. CASE GiveUp
  <2>1. item # k
    BY <1>12
  <2>2. q'.dirty = q.dirty /\ q'.processing = q.processing /\ q'.requeues[k] = q.requeues[k]
    BY <1>12, <1>q, <2>1, WorkSets DEF GiveUp
  <2> QED
    BY <1>12, <2>1, <2>2 DEF GiveUp, Keeps, Came, Comes, Here, Counted, Live, OnCourse
<1>13. CASE Done
  <2>1. q'.dirty = q.dirty /\ q'.processing = q.processing \ {item} /\ q'.requeues = q.requeues
    BY <1>13, <1>q, WorkSets DEF Done
  <2> QED
    BY <1>13, <2>1, KeysAssumption DEF Done, Keeps, Came, Comes, Here, Counted, Live, OnCourse
<1> QED
  BY <1>1, <1>2, <1>3, <1>4, <1>5, <1>6, <1>7, <1>8, <1>9, <1>10, <1>11, <1>12, <1>13 DEF WorkerStep

LEMMA WorldKeepsComing ==
  ASSUME Typed, NEW k \in Keys, cluster[k].status = "ready", NEW j \in Keys,
         Evict(j) => j # k,
         \A d \in Digests, s \in {"absent", "pending", "ready"} : StatusChanges(j, s, d) => j # k,
         \/ DeliverEvent(j) \/ DelayElapses(j) \/ PopulateStep(j) \/ Evict(j)
         \/ \E d \in Digests : ContentChanges(j, d) \/ \E s \in {"absent", "pending", "ready"} :
               StatusChanges(j, s, d)
  PROVE  Keeps(k)
<1>q. q \in Q!QueueStates /\ ~q.shuttingDown
  BY DEF Typed, QueueTyped
<1> USE DEF world, worker, readers, resync, history
<1>1. CASE DeliverEvent(j)
  BY <1>1, <1>q, AddSets, QueueKeepsComing DEF DeliverEvent
<1>2. CASE DelayElapses(j)
  BY <1>2, <1>q, AddSets, QueueKeepsComing DEF DelayElapses
<1>3. CASE PopulateStep(j)
  <2>1. CASE PopulateAdds(j)
    BY <2>1, <1>q, AddSets, QueueKeepsComing DEF PopulateAdds
  <2>2. CASE PopulateParks(j)
    BY <2>2, <1>q, WorkSets, QueueKeepsComing DEF PopulateParks
  <2>3. CASE PopulateWaitEnds(j) \/ PopulatePollEnds(j)
    BY <2>3, QueueKeepsComing DEF PopulateWaitEnds, PopulatePollEnds
  <2> QED
    BY <1>3, <2>1, <2>2, <2>3 DEF PopulateStep
<1>4. CASE Evict(j)
  <2>1. j # k /\ redis'[k] = redis[k]
    BY <1>4 DEF Evict, Typed, RedisTyped
  <2> QED
    BY <1>4, <2>1 DEF Evict, Keeps, Came, Comes, Here, Counted, Live, OnCourse
<1>5. ASSUME NEW d \in Digests, ContentChanges(j, d) PROVE Keeps(k)
  <2>1. cluster'[k].status = "ready"
    BY <1>5 DEF ContentChanges, Typed, WorldTyped, Objects
  <2> QED
    BY <1>5, <2>1 DEF ContentChanges, Keeps, Came, Comes, Here, Counted, Live, OnCourse
<1>6. ASSUME NEW d \in Digests, NEW s \in {"absent", "pending", "ready"}, StatusChanges(j, s, d)
      PROVE  Keeps(k)
  <2>1. j # k
    BY <1>6
  <2>2. cluster'[k] = cluster[k]
    BY <1>6, <2>1 DEF StatusChanges, Typed, WorldTyped
  <2> QED
    BY <1>6, <2>2 DEF StatusChanges, Keeps, Came, Comes, Here, Counted, Live, OnCourse
<1> QED
  BY <1>1, <1>2, <1>3, <1>4, <1>5, <1>6

LEMMA OthersKeepPromises ==
  ASSUME Typed, LockInv, ReadInv,
         \/ WorkerStep
         \/ \E j \in Keys :
               \/ DeliverEvent(j) \/ DelayElapses(j) \/ PopulateStep(j) \/ Evict(j)
               \/ \E d \in Digests : ContentChanges(j, d)
                     \/ \E s \in {"absent", "pending", "ready"} : StatusChanges(j, s, d)
  PROVE  ReadInv'
<1>1. UNCHANGED <<lock, rpc, rkey, rval>>
  BY OthersKeepLock
<1>2. unlucky \subseteq unlucky'
  <2> USE DEF history, Disappoint
  <2>1. CASE WorkerStep
    BY <2>1 DEF WorkerStep, GetParks, GetItem, CheckProcessing, ReadObject, ReadOld, IndexRepo, SetEntry,
                DropEntry, DeleteEntry, Forget, Retry, GiveUp, Done
  <2>2. ASSUME NEW k \in Keys, DeliverEvent(k) \/ DelayElapses(k) \/ PopulateStep(k) \/ Evict(k)
        PROVE  unlucky \subseteq unlucky'
    BY <2>2 DEF DeliverEvent, DelayElapses, Evict, PopulateStep, PopulateAdds, PopulateParks,
                PopulateWaitEnds, PopulatePollEnds
  <2>3. ASSUME NEW k \in Keys, NEW d \in Digests, NEW s \in {"absent", "pending", "ready"},
               ContentChanges(k, d) \/ StatusChanges(k, s, d)
        PROVE  unlucky \subseteq unlucky'
    BY <2>3 DEF ContentChanges, StatusChanges
  <2> QED
    BY <2>1, <2>2, <2>3
<1>3. ReaderGetsValue'
  BY <1>1, <1>2 DEF ReadInv, ReaderGetsValue
<1>4. ASSUME NEW r \in lock'.readers, r \notin unlucky' PROVE Promised(r)'
  <2>1. r \in lock.readers /\ r \notin unlucky /\ Promised(r)
    BY <1>1, <1>2, <1>4 DEF ReadInv
  <2>2. PICK k \in Keys : k = rkey[r]
    BY <2>1 DEF Typed, RedisTyped, ReadersTyped, LockInv, Waiting
  <2>3. cluster[k].status = "ready"
    BY <2>1, <2>2 DEF Promised
  <2>4. Keeps(k)
    <3>1. ASSUME NEW j \in Keys, Disappoint(j) PROVE j # k
      BY <1>4, <2>1, <2>2, <3>1, Disappointed
    <3>2. CASE WorkerStep
      <4>1. DropEntry \/ GiveUp => item # k
        BY <3>1 DEF DropEntry, GiveUp, WorkerGoes
      <4> QED
        BY <2>3, <3>2, <4>1, WorkerKeepsComing
    <3>3. ASSUME NEW j \in Keys
          PROVE  /\ Evict(j) => j # k
                 /\ \A d \in Digests, s \in {"absent", "pending", "ready"} : StatusChanges(j, s, d) => j # k
      BY <2>3, <3>1, <3>3 DEF Evict, StatusChanges
    <3> QED
      BY <2>3, <3>2, <3>3, WorldKeepsComing
  <2> QED
    BY <1>1, <2>1, <2>2, <2>4 DEF Promised, Keeps
<1> QED
  BY <1>1, <1>3, <1>4 DEF ReadInv

LEMMA ReaderKeepsPromises ==
  ASSUME Typed, LockInv, ReadInv, NEW r \in Readers, ReaderStep(r) \/ \E k \in Keys : GetFetches(r, k)
  PROVE  ReadInv'
<1>q. q \in Q!QueueStates /\ ~q.shuttingDown
  BY DEF Typed, QueueTyped
<1>t. rpc \in [Readers -> Busy \cup {"idle", "returned", "error"}] /\ rkey \in [Readers -> Keys \cup {NoKey}]
      /\ rval \in [Readers -> Entries] /\ lock.readers \subseteq Readers
      /\ lock \in [readers : SUBSET Readers, writer : {"none", "waiting", "held"}]
  BY DEF Typed, ReadersTyped, RedisTyped
<1> USE DEF world, worker, readers, resync, history, ReaderGoes
<1>1. ASSUME NEW k \in Keys, GetFetches(r, k) PROVE ReadInv'
  <2>1. /\ unlucky' = IF cluster[k].status = "ready" THEN unlucky ELSE unlucky \cup {r}
        /\ rkey' = [rkey EXCEPT ![r] = k] /\ rval' = [rval EXCEPT ![r] = redis[k]]
        /\ UNCHANGED <<cluster, redis, q, pc, item, obj, old>>
        /\ r \notin lock.readers
    BY <1>1 DEF GetFetches, LockInv, Waiting
  <2>2. /\ \A s \in Readers \ {r} : rpc'[s] = rpc[s]
        /\ rpc'[r] = "returned" => redis[k] # NoEntry
        /\ rpc'[r] \in {"returned", "force", "add", "error"}
        /\ r \in lock'.readers => rpc'[r] = "add"
        /\ lock'.readers \subseteq lock.readers \cup {r}
    BY <1>1, <1>t, <2>1 DEF GetFetches, HaveValue
  <2>3. ReaderGetsValue'
    BY <1>t, <2>1, <2>2 DEF ReadInv, ReaderGetsValue
  <2>4. ASSUME NEW s \in lock'.readers, s \notin unlucky' PROVE Promised(s)'
    <3>1. CASE s = r
      BY <1>t, <2>1, <2>2, <2>4, <3>1 DEF Promised
    <3>2. CASE s # r
      <4>1. s \in lock.readers /\ Promised(s) /\ rkey'[s] = rkey[s] /\ rpc'[s] = rpc[s]
        BY <1>t, <2>1, <2>2, <2>4, <3>2 DEF ReadInv
      <4> QED
        BY <2>1, <4>1 DEF Promised, Came, Comes, Here, Counted, Live, OnCourse
    <3> QED
      BY <3>1, <3>2
  <2> QED
    BY <2>3, <2>4 DEF ReadInv
<1>2. CASE ForceAdds(r) \/ RefreshAdds(r)
  <2>1. rkey[r] \in Keys
    BY <1>2 DEF ForceAdds, RefreshAdds, Typed, ReadersTyped
  <2>2. /\ UNCHANGED <<cluster, redis, pc, item, obj, old, lock, rkey, rval, unlucky>>
        /\ rpc' = [rpc EXCEPT ![r] = "wait"]
        /\ r \in lock.readers => q' = Q!Add(q, rkey[r])
        /\ q' = Q!Add(q, rkey[r]) \/ q' = q
    BY <1>2, <1>t DEF ForceAdds, RefreshAdds, Q!AddIfNotProcessing, LockInv, Waiting
  <2>3. /\ q.dirty \subseteq q'.dirty /\ q'.processing = q.processing /\ q'.requeues = q.requeues
        /\ r \in lock.readers => rkey[r] \in q'.dirty
    BY <1>q, <2>1, <2>2, AddSets
  <2>4. ReaderGetsValue'
    BY <1>t, <2>2 DEF ReadInv, ReaderGetsValue
  <2>5. ASSUME NEW s \in lock'.readers, s \notin unlucky' PROVE Promised(s)'
    <3>1. s \in lock.readers /\ Promised(s) /\ (s # r => rpc'[s] = rpc[s]) /\ rpc'[r] = "wait"
      BY <1>t, <2>2, <2>5 DEF ReadInv
    <3> QED
      BY <2>2, <2>3, <3>1 DEF Promised, Came, Comes, Here, Counted, Live, OnCourse
  <2> QED
    BY <2>4, <2>5 DEF ReadInv
<1>3. CASE WaitParks(r)
  <2>1. /\ UNCHANGED <<cluster, redis, pc, item, obj, old, lock, rpc, rkey, rval, unlucky>>
        /\ q'.dirty = q.dirty /\ q'.processing = q.processing /\ q'.requeues = q.requeues
    BY <1>3, <1>q, WorkSets, AddSets, <1>t DEF WaitParks, Q!Wait, Q!QueueStates
  <2> QED
    BY <2>1 DEF ReadInv, ReaderGetsValue, Promised, Came, Comes, Here, Counted, Live, OnCourse
<1>4. CASE WaitEnds(r) \/ PollEnds(r)
  <2>1. /\ UNCHANGED <<cluster, redis, q, pc, item, obj, old, lock, rkey, rval, unlucky>>
        /\ \A s \in Readers \ {r} : rpc'[s] = rpc[s]
        /\ \/ rpc[r] = "wait" /\ rpc'[r] = "poll" /\ rkey[r] \notin q.dirty \cup q.processing
           \/ rpc[r] = "poll" /\ rpc'[r] = "fetch" /\ q.requeues[rkey[r]] = 0
    BY <1>4, <1>t DEF WaitEnds, PollEnds, Q!Pending, Q!NumRequeues
  <2>2. ReaderGetsValue'
    BY <1>t, <2>1 DEF ReadInv, ReaderGetsValue
  <2>3. ASSUME NEW s \in lock'.readers, s \notin unlucky' PROVE Promised(s)'
    BY <1>t, <2>1, <2>3 DEF ReadInv, Promised, Came, Comes, Here, Counted, Live, OnCourse
  <2> QED
    BY <2>2, <2>3 DEF ReadInv
<1>5. CASE FetchAgain(r)
  <2>1. /\ UNCHANGED <<cluster, redis, q, pc, item, obj, old, rkey, unlucky>>
        /\ \A s \in Readers \ {r} : rpc'[s] = rpc[s] /\ rval'[s] = rval[s]
        /\ lock'.readers = lock.readers \ {r} /\ rpc[r] = "fetch"
    BY <1>5, <1>t DEF FetchAgain
  <2>2. rpc'[r] = "returned" => rval'[r] = (IF redis[rkey[r]] = NoEntry THEN rval[r] ELSE redis[rkey[r]])
    BY <1>5, <1>t DEF FetchAgain
  <2>3. rpc'[r] = "returned" => rval'[r] # NoEntry \/ r \in unlucky'
    <3>1. CASE r \in lock.readers
      BY <2>1, <2>2, <3>1 DEF ReadInv, Promised, Here
    <3>2. CASE r \notin lock.readers
      BY <2>1, <2>2, <3>2 DEF LockInv, Busy
    <3> QED
      BY <3>1, <3>2
  <2>4. ReaderGetsValue'
    BY <2>1, <2>3 DEF ReadInv, ReaderGetsValue
  <2>5. ASSUME NEW s \in lock'.readers, s \notin unlucky' PROVE Promised(s)'
    BY <1>t, <2>1, <2>5 DEF ReadInv, Promised, Came, Comes, Here, Counted, Live, OnCourse
  <2> QED
    BY <2>4, <2>5 DEF ReadInv
<1> QED
  BY <1>1, <1>2, <1>3, <1>4, <1>5 DEF ReaderStep

\* While a resync works nobody holds the read lock; before and after, it changes nothing they wait for.
LEMMA ResyncKeepsPromises == ASSUME Typed, LockInv, ReadInv, ResyncStep \/ WatchEnds \/ Crash PROVE ReadInv'
<1> USE DEF world, worker, readers, resync, history, ResyncGoes
<1>1. CASE WantLock \/ LockForResync \/ StartWatch \/ WatchEnds
  <2>1. /\ UNCHANGED <<cluster, redis, q, pc, item, obj, old, rpc, rkey, rval, unlucky>>
        /\ lock'.readers = lock.readers
    BY <1>1 DEF WantLock, LockForResync, StartWatch, WatchEnds, Typed, RedisTyped
  <2> QED
    BY <2>1 DEF ReadInv, ReaderGetsValue, Promised, Came, Comes, Here, Counted, Live, OnCourse
<1>2. CASE ResetQueue \/ ResetRateLimiter \/ FlushDB \/ List \/ AttemptAgain
  <2>1. UNCHANGED <<rpc, rval, unlucky, lock>> /\ lock.readers = {}
    BY <1>2 DEF ResetQueue, ResetRateLimiter, FlushDB, List, AttemptAgain, LockInv
  <2> QED
    BY <2>1 DEF ReadInv, ReaderGetsValue
<1>3. CASE Panic \/ Crash
  <2>1. rpc' = [s \in Readers |-> "idle"] /\ lock'.readers = {}
    BY <1>3 DEF Panic, Crash, Restart, Boot
  <2> QED
    BY <2>1 DEF ReadInv, ReaderGetsValue
<1> QED
  BY <1>1, <1>2, <1>3 DEF ResyncStep

LEMMA InitRead == Init => ReadInv
  BY DEF Init, Boot, ReadInv, ReaderGetsValue

LEMMA StepKeepsPromises == Typed /\ LockInv /\ ReadInv /\ [Next]_vars => ReadInv'
<1> SUFFICES ASSUME Typed, LockInv, ReadInv, [Next]_vars PROVE ReadInv'
  OBVIOUS
<1>1. CASE UNCHANGED vars
  BY <1>1 DEF vars, world, worker, readers, resync, history, ReadInv, ReaderGetsValue, Promised, Came, Comes,
              Here, Counted, Live, OnCourse
<1> QED
  BY <1>1, OthersKeepPromises, ReaderKeepsPromises, ResyncKeepsPromises DEF Next

\* A reader that comes back has a value, whatever the worker, the resyncs and the other readers did
\* meanwhile, unless its repository was not ready, or met a fault, while it waited.
THEOREM ReadersGetTheirValue == Spec => []ReaderGetsValue
<1>1. Spec => []ReadInv
  BY AlwaysLocked, InitRead, StepKeepsPromises, PTL DEF Spec
<1>2. ReadInv => ReaderGetsValue
  BY DEF ReadInv
<1> QED
  BY <1>1, <1>2, PTL

-----------------------------------------------------------------------------
(* Agreement with the cluster.  From the list of a resync on, a key either   *)
(* will be looked at again, or is with a worker that saw it as it is, or its *)
(* entry is right.                                                           *)

Soon(k) == \/ events[k] > 0 \/ k \in q.delayed \/ k \in q.dirty
           \/ spc = "populate" /\ pop[k] = "add"

Agree(k) ==
    /\ cluster[k].status = "absent" => redis[k] = NoEntry
    /\ cluster[k].status = "ready" =>
          redis[k] # NoEntry /\ (k \notin OciKeys => redis[k].checksum = cluster[k].digest)

\* What the worker holds of k is what the cluster has.
Current(k) == obj.status = cluster[k].status /\ (k \notin OciKeys => obj.digest = cluster[k].digest)

WellInformed(k) ==
    /\ pc = "check" => k \in q.processing
    /\ pc \in {"readOld", "index", "set", "delete"} => Current(k)
    /\ pc = "readOld" => obj.status # "absent"
    /\ pc = "delete" => obj.status = "absent"
    /\ pc \in {"index", "set"} => obj.status = "ready"
    /\ pc = "index" => (old.checksum # NoDigest => redis[k] # NoEntry \/ k \in excused)

InTheAir(k) == item = k /\ pc \notin {"forget", "done"}

Followed(k) == \/ Soon(k)
               \/ /\ item = k => WellInformed(k)
                  /\ InTheAir(k) \/ k \in excused \/ Agree(k)

ConvergeInv == spc \in {"populate", "watching"} => \A k \in Keys \ tainted : Followed(k)

\* Only the worker puts entries in redis.
PutInv == \A k \in Keys : redis[k] # NoEntry => k \in put

\* A checksum and charts that are not of one content are of a content that was replaced.
PastInv ==
    \A k \in Keys \ OciKeys :
        /\ redis[k] # NoEntry => redis[k].checksum = redis[k].charts \/ redis[k].checksum \in past[k]
        /\ item = k /\ pc \in {"readOld", "index", "set"} =>
              obj.digest = cluster[k].digest \/ obj.digest \in past[k]
        /\ item = k /\ pc = "set" => obj.digest = old.charts \/ obj.digest \in past[k]

LEMMA InitConverges == Init => ConvergeInv /\ PutInv /\ PastInv
<1> SUFFICES ASSUME Init PROVE ConvergeInv /\ PutInv /\ PastInv
  OBVIOUS
<1>1. \A k \in Keys : item # k /\ redis[k] = NoEntry
  BY KeysAssumption DEF Init
<1> QED
  BY <1>1 DEF Init, ConvergeInv, PutInv, PastInv

-----------------------------------------------------------------------------
(* The worker, on k or on another key. *)

LEMMA WorkerOnAnother ==
  ASSUME Typed, WorkerStep, NEW k \in Keys, item # k, item' # k
  PROVE  /\ UNCHANGED <<cluster, events, past, tainted, spc, pop>>
         /\ redis'[k] = redis[k]
         /\ k \in q.dirty => k \in q'.dirty
         /\ k \in q.delayed => k \in q'.delayed
         /\ k \in excused => k \in excused'
         /\ k \in put => k \in put'
<1>q. q \in Q!QueueStates /\ ~q.shuttingDown /\ (pc # "get" => item \in Keys)
  BY DEF Typed, QueueTyped, WorkerTyped
<1>r. redis \in [Keys -> Entries]
  BY DEF Typed, RedisTyped
<1> USE DEF world, worker, readers, resync, history, WorkerGoes, Fails
<1>1. CASE GetParks
  BY <1>1, <1>q, WorkSets DEF GetParks
<1>2. CASE GetItem
  BY <1>2, <1>q, WorkSets DEF GetItem
<1>3. CASE CheckProcessing \/ ReadObject \/ ReadOld \/ IndexRepo
  BY <1>3 DEF CheckProcessing, ReadObject, ReadOld, IndexRepo
<1>4. CASE SetEntry \/ DropEntry \/ DeleteEntry
  BY <1>4, <1>r DEF SetEntry, DropEntry, DeleteEntry
<1>5. CASE Forget \/ GiveUp
  BY <1>5, <1>q, WorkSets DEF Forget, GiveUp
<1>6. CASE Retry
  BY <1>6, <1>q, AddSets DEF Retry
<1>7. CASE Done
  BY <1>7, <1>q, WorkSets DEF Done
<1> QED
  BY <1>1, <1>2, <1>3, <1>4, <1>5, <1>6, <1>7 DEF WorkerStep

LEMMA WorkerFollowsAnother ==
  ASSUME Typed, WorkerStep, NEW k \in Keys, item # k, item' # k, Followed(k)
  PROVE  Followed(k)'
  BY WorkerOnAnother DEF Followed, Soon, InTheAir, Agree

\* From Get to Done the worker is on k.
LEMMA WorkerFollows ==
  ASSUME Typed, WorkerStep, NEW k \in Keys, k \notin tainted, item = k \/ item' = k, Followed(k)
  PROVE  Followed(k)'
<1>q. q \in Q!QueueStates /\ ~q.shuttingDown /\ (pc = "get" => item = NoKey /\ item # k)
  BY KeysAssumption DEF Typed, QueueTyped, WorkerTyped
<1>r. redis \in [Keys -> Entries] /\ (pc = "set" => obj \in Objects)
  BY DEF Typed, RedisTyped, WorkerTyped
<1> USE DEF world, worker, readers, resync, history, WorkerGoes, Fails
<1>1. CASE GetParks
  BY <1>1, <1>q DEF GetParks
<1>2. CASE GetItem
  <2>1. item' = k /\ pc' = "check" /\ k \in q'.processing
    BY <1>2, <1>q, WorkSets DEF GetItem
  <2> QED
    BY <2>1 DEF Followed, WellInformed, InTheAir
<1>3. CASE CheckProcessing
  <2>1. CASE Soon(k)
    BY <1>3, <2>1 DEF CheckProcessing, Followed, Soon
  <2>2. CASE ~Soon(k)
    <3>1. item = k /\ pc = "check"
      BY <1>3, <1>q, KeysAssumption DEF CheckProcessing, Leave
    <3>2. Q!IsProcessing(q, item)
      BY <1>q, <2>2, <3>1 DEF Followed, WellInformed, Q!IsProcessing
    <3>3. item' = k /\ pc' = "read"
      BY <1>3, <3>1, <3>2 DEF CheckProcessing
    <3> QED
      BY <3>3 DEF Followed, WellInformed, InTheAir
  <2> QED
    BY <2>1, <2>2
<1>4. CASE ReadObject
  <2>1. item' = k /\ pc' \in {"readOld", "delete", "failed"} /\ InTheAir(k)'
    BY <1>4, <1>q DEF ReadObject, InTheAir
  <2>2. pc' \in {"readOld", "delete"} => obj' = cluster[k] /\ (pc' = "delete" <=> obj'.status = "absent")
    BY <1>4, <1>q DEF ReadObject
  <2>3. UNCHANGED cluster
    BY <1>4 DEF ReadObject
  <2> QED
    BY <2>1, <2>2, <2>3 DEF Followed, WellInformed, Current
<1>5. CASE ReadOld
  <2>1. /\ UNCHANGED <<cluster, events, redis, q, item, obj, spc, pop, excused>> /\ item = k /\ pc = "readOld"
        /\ pc' \in {"forget", "index", "failed"}
        /\ pc' = "forget" => obj.status # "ready" \/ (/\ redis[k] # NoEntry /\ k \notin OciKeys
                                                     /\ redis[k].checksum = obj.digest)
        /\ pc' = "index" => obj.status = "ready" /\ old' = redis[k]
    BY <1>5, <1>q DEF ReadOld, Unchanged
  <2>2. CASE Soon(k)
    BY <2>1, <2>2 DEF Followed, Soon
  <2>3. CASE ~Soon(k)
    <3>1. Current(k) /\ obj.status # "absent"
      BY <2>1, <2>3 DEF Followed, WellInformed
    <3>2. pc' = "index" => (old'.checksum # NoDigest => redis[k] # NoEntry)
      BY <2>1 DEF NoEntry
    <3> QED
      BY <2>1, <3>1, <3>2 DEF Followed, WellInformed, Current, InTheAir, Agree
  <2> QED
    BY <2>2, <2>3
<1>6. CASE IndexRepo
  <2>1. cluster[k].digest # NoDigest
    BY KeysAssumption DEF Typed, WorldTyped, Objects
  <2>2. /\ UNCHANGED <<cluster, events, redis, q, item, spc, pop, excused>> /\ item = k /\ pc = "index"
        /\ pc' \in {"forget", "set", "drop"}
        /\ pc' = "forget" => k \in OciKeys /\ old.checksum # NoDigest
        /\ k \notin OciKeys => obj' = obj
        /\ obj'.status = obj.status
    BY <1>6, <1>q, <2>1 DEF IndexRepo, Typed, WorkerTyped, Objects
  <2>3. CASE Soon(k)
    BY <2>2, <2>3 DEF Followed, Soon
  <2>4. CASE ~Soon(k)
    BY <2>2, <2>4 DEF Followed, WellInformed, Current, InTheAir, Agree
  <2> QED
    BY <2>3, <2>4
<1>7. CASE SetEntry
  <2>1. /\ UNCHANGED <<cluster, events, q, item, obj, spc, pop>> /\ item = k /\ pc = "set"
        /\ \/ pc' = "failed"
           \/ pc' = "forget" /\ redis' = [redis EXCEPT ![k] = [checksum |-> obj.digest, charts |-> old.charts]]
    BY <1>7, <1>q DEF SetEntry
  <2>2. CASE Soon(k)
    BY <2>1, <2>2 DEF Followed, Soon
  <2>3. CASE ~Soon(k)
    <3>1. Current(k) /\ obj.status = "ready"
      BY <2>1, <2>3 DEF Followed, WellInformed
    <3>2. pc' = "forget" => redis'[k] # NoEntry /\ redis'[k].checksum = obj.digest
      BY <1>r, <2>1, KeysAssumption DEF NoEntry, Objects
    <3> QED
      BY <2>1, <3>1, <3>2 DEF Followed, WellInformed, Current, InTheAir, Agree
  <2> QED
    BY <2>2, <2>3
<1>8. CASE DropEntry \/ GiveUp
  <2>1. item' = k /\ pc' \in {"forget", "done"} /\ k \in excused'
    BY <1>8, <1>q DEF DropEntry, GiveUp
  <2> QED
    BY <2>1 DEF Followed, WellInformed
<1>9. CASE DeleteEntry
  <2>1. /\ UNCHANGED <<cluster, events, q, item, obj, spc, pop>> /\ item = k /\ pc = "delete"
        /\ \/ pc' = "failed"
           \/ pc' = "forget" /\ redis' = [redis EXCEPT ![k] = NoEntry]
    BY <1>9, <1>q DEF DeleteEntry
  <2>2. CASE Soon(k)
    BY <2>1, <2>2 DEF Followed, Soon
  <2>3. CASE ~Soon(k)
    <3>1. Current(k) /\ obj.status = "absent"
      BY <2>1, <2>3 DEF Followed, WellInformed
    <3>2. pc' = "forget" => redis'[k] = NoEntry
      BY <1>r, <2>1
    <3> QED
      BY <2>1, <3>1, <3>2 DEF Followed, WellInformed, Current, InTheAir, Agree
  <2> QED
    BY <2>2, <2>3
<1>10. CASE Forget
  <2>1. /\ UNCHANGED <<cluster, events, redis, item, spc, pop, excused>> /\ item = k
        /\ pc = "forget" /\ pc' = "done" /\ q'.dirty = q.dirty /\ q'.delayed = q.delayed
    BY <1>10, <1>q, WorkSets DEF Forget
  <2> QED
    BY <2>1 DEF Followed, Soon, WellInformed, InTheAir, Agree
<1>11. CASE Retry
  <2>1. k \in q'.delayed
    BY <1>11, <1>q, AddSets DEF Retry
  <2> QED
    BY <2>1 DEF Followed, Soon
<1>12. CASE Done
  <2>1. /\ UNCHANGED <<cluster, events, redis, spc, pop, excused>> /\ item' # k
        /\ pc = "done" /\ q'.dirty = q.dirty /\ q'.delayed = q.delayed
    BY <1>12, <1>q, WorkSets, KeysAssumption DEF Done, Leave
  <2> QED
    BY <2>1 DEF Followed, Soon, WellInformed, InTheAir, Agree
<1> QED
  BY <1>1, <1>2, <1>3, <1>4, <1>5, <1>6, <1>7, <1>8, <1>9, <1>10, <1>11, <1>12 DEF WorkerStep

-----------------------------------------------------------------------------
(* The cluster, the watch and populateWith. *)

\* A step that leaves the worker, redis and the object alone, and forgets nothing of k.
LEMMA QueueFollows ==
  ASSUME NEW k \in Keys, Followed(k),
         UNCHANGED <<cluster, redis, pc, item, obj, old, excused>>,
         Soon(k) => Soon(k)', k \in q.processing => k \in q'.processing
  PROVE  Followed(k)'
  BY DEF Followed, WellInformed, Current, InTheAir, Agree

LEMMA WorldFollows ==
  ASSUME Typed, NEW k \in Keys, Followed(k), spc \in {"populate", "watching"}, NEW j \in Keys,
         \/ DeliverEvent(j) \/ DelayElapses(j) \/ PopulateStep(j) \/ Evict(j)
         \/ \E d \in Digests : ContentChanges(j, d) \/ \E s \in {"absent", "pending", "ready"} :
               StatusChanges(j, s, d)
  PROVE  Followed(k)'
<1>q. q \in Q!QueueStates /\ ~q.shuttingDown
  BY DEF Typed, QueueTyped
<1>t. /\ cluster \in [Keys -> Objects] /\ events \in [Keys -> Nat] /\ redis \in [Keys -> Entries]
      /\ pop \in [Keys -> {"add", "wait", "poll", "done"}]
  BY DEF Typed, WorldTyped, RedisTyped, ResyncTyped
<1> USE DEF world, worker, readers, resync, history
<1>1. CASE DeliverEvent(j)
  BY <1>1, <1>q, <1>t, AddSets, QueueFollows DEF DeliverEvent, Soon
<1>2. CASE DelayElapses(j)
  BY <1>2, <1>q, AddSets, QueueFollows DEF DelayElapses, Soon
<1>3. CASE PopulateStep(j)
  <2>1. CASE PopulateAdds(j)
    BY <2>1, <1>q, <1>t, AddSets, QueueFollows DEF PopulateAdds, PopulatorGoes, Soon
  <2>2. CASE PopulateParks(j)
    BY <2>2, <1>q, WorkSets, QueueFollows DEF PopulateParks, Soon
  <2>3. CASE PopulateWaitEnds(j) \/ PopulatePollEnds(j)
    BY <2>3, <1>t, QueueFollows DEF PopulateWaitEnds, PopulatePollEnds, PopulatorGoes, Soon
  <2> QED
    BY <1>3, <2>1, <2>2, <2>3 DEF PopulateStep
<1>4. CASE Evict(j)
  <2>1. j # k => redis'[k] = redis[k] /\ (k \in excused => k \in excused')
    BY <1>4, <1>t DEF Evict
  <2>2. j = k => k \in excused'
    BY <1>4 DEF Evict
  <2> QED
    BY <1>4, <2>1, <2>2 DEF Evict, Followed, Soon, WellInformed, Current, InTheAir, Agree
<1>5. ASSUME NEW d \in Digests, ContentChanges(j, d) PROVE Followed(k)'
  <2>1. j = k /\ k \notin OciKeys => events'[k] > 0
    BY <1>5, <1>t DEF ContentChanges
  <2>2. /\ cluster'[k].status = cluster[k].status
        /\ j # k => cluster'[k] = cluster[k]
        /\ events[k] > 0 => events'[k] > 0
    BY <1>5, <1>t DEF ContentChanges, Objects
  <2> QED
    BY <1>5, <2>1, <2>2 DEF ContentChanges, Followed, Soon, WellInformed, Current, InTheAir, Agree
<1>6. ASSUME NEW d \in Digests, NEW s \in {"absent", "pending", "ready"}, StatusChanges(j, s, d)
      PROVE  Followed(k)'
  <2>1. /\ j = k => events'[k] > 0
        /\ j # k => cluster'[k] = cluster[k]
        /\ events[k] > 0 => events'[k] > 0
    BY <1>6, <1>t DEF StatusChanges
  <2> QED
    BY <1>6, <2>1 DEF StatusChanges, Followed, Soon, WellInformed, Current, InTheAir, Agree
<1> QED
  BY <1>1, <1>2, <1>3, <1>4, <1>5, <1>6

-----------------------------------------------------------------------------
(* Redis and the contents a repository had. *)

LEMMA StepKeepsPut == Typed /\ PutInv /\ [Next]_vars => PutInv'
<1> SUFFICES ASSUME Typed, PutInv, [Next]_vars, NEW k \in Keys, redis'[k] # NoEntry PROVE k \in put'
  BY DEF PutInv
<1>1. CASE UNCHANGED <<redis, put>>
  BY <1>1 DEF PutInv
<1> USE DEF world, worker, readers, resync, history
<1>2. CASE WorkerStep
  <2>1. CASE SetEntry \/ DropEntry \/ DeleteEntry
    <3>1. item = k \/ redis'[k] = redis[k]
      BY <2>1 DEF SetEntry, DropEntry, DeleteEntry, Typed, RedisTyped
    <3>2. CASE redis'[k] = redis[k]
      BY <2>1, <3>2 DEF SetEntry, DropEntry, DeleteEntry, PutInv
    <3>3. CASE item = k /\ redis'[k] # redis[k]
      BY <2>1, <3>3 DEF SetEntry, DropEntry, DeleteEntry, Typed, RedisTyped
    <3> QED
      BY <3>1, <3>2, <3>3
  <2> QED
    BY <1>1, <1>2, <2>1 DEF WorkerStep, GetParks, GetItem, CheckProcessing, ReadObject, ReadOld, IndexRepo,
                            Forget, Retry, GiveUp, Done
<1>3. CASE FlushDB
  BY <1>1, <1>3 DEF FlushDB
<1>4. CASE ResyncStep \/ WatchEnds \/ Crash
  BY <1>1, <1>3, <1>4 DEF ResyncStep, WantLock, LockForResync, ResetQueue, ResetRateLimiter, List, StartWatch,
                         AttemptAgain, Panic, WatchEnds, Crash, Restart
<1>5. ASSUME NEW r \in Readers, ReaderStep(r) \/ \E j \in Keys : GetFetches(r, j) PROVE k \in put'
  BY <1>1, <1>5 DEF ReaderStep, ForceAdds, RefreshAdds, WaitParks, WaitEnds, PollEnds, FetchAgain, GetFetches
<1>6. ASSUME NEW j \in Keys, Evict(j) PROVE k \in put'
  BY <1>6 DEF Evict, PutInv, Typed, RedisTyped
<1>7. ASSUME NEW j \in Keys, DeliverEvent(j) \/ DelayElapses(j) \/ PopulateStep(j) PROVE k \in put'
  BY <1>1, <1>7 DEF DeliverEvent, DelayElapses, PopulateStep, PopulateAdds, PopulateParks, PopulateWaitEnds,
                   PopulatePollEnds
<1>8. ASSUME NEW j \in Keys, NEW d \in Digests, NEW s \in {"absent", "pending", "ready"},
             ContentChanges(j, d) \/ StatusChanges(j, s, d)
      PROVE  k \in put'
  BY <1>1, <1>8 DEF ContentChanges, StatusChanges
<1> QED
  BY <1>1, <1>2, <1>4, <1>5, <1>6, <1>7, <1>8 DEF Next, vars

\* The world's steps that neither the worker nor redis sees.
LEMMA WorldKeepsPast ==
  ASSUME Typed, PastInv, NEW j \in Keys, NEW d \in Digests, NEW s \in {"absent", "pending", "ready"},
         ContentChanges(j, d) \/ StatusChanges(j, s, d)
  PROVE  PastInv'
<1> USE DEF worker
<1>1. UNCHANGED <<redis, pc, item, obj, old>>
  BY DEF ContentChanges, StatusChanges
<1>2. ASSUME NEW k \in Keys
      PROVE  /\ past[k] \subseteq past'[k]
             /\ cluster'[k].digest = cluster[k].digest \/ cluster[k].digest \in past'[k]
  BY DEF ContentChanges, StatusChanges, Become, Typed, WorldTyped, Objects
<1> QED
  BY <1>1, <1>2 DEF PastInv

LEMMA WorkerKeepsPast == ASSUME Typed, PastInv, WorkerStep PROVE PastInv'
<1> SUFFICES ASSUME NEW k \in Keys \ OciKeys
             PROVE  /\ redis'[k] # NoEntry =>
                          redis'[k].checksum = redis'[k].charts \/ redis'[k].checksum \in past[k]
                    /\ item' = k /\ pc' \in {"readOld", "index", "set"} =>
                          obj'.digest = cluster[k].digest \/ obj'.digest \in past[k]
                    /\ item' = k /\ pc' = "set" => obj'.digest = old'.charts \/ obj'.digest \in past[k]
  <2>1. UNCHANGED <<cluster, past>>
    BY DEF WorkerStep, GetParks, GetItem, CheckProcessing, ReadObject, ReadOld, IndexRepo, SetEntry, DropEntry,
           DeleteEntry, Forget, Retry, GiveUp, Done, world
  <2> QED
    BY <2>1 DEF PastInv
<1>p. /\ redis[k] # NoEntry => redis[k].checksum = redis[k].charts \/ redis[k].checksum \in past[k]
      /\ item = k /\ pc \in {"readOld", "index", "set"} =>
            obj.digest = cluster[k].digest \/ obj.digest \in past[k]
      /\ item = k /\ pc = "set" => obj.digest = old.charts \/ obj.digest \in past[k]
  BY DEF PastInv
<1> USE DEF world, worker, readers, resync, history, WorkerGoes, Fails
<1>1. CASE GetParks \/ GetItem \/ CheckProcessing \/ Forget \/ Retry \/ GiveUp \/ Done
  BY <1>1, <1>p DEF GetParks, GetItem, CheckProcessing, Forget, Retry, GiveUp, Done, Leave
<1>2. CASE ReadObject
  BY <1>2, <1>p DEF ReadObject
<1>3. CASE ReadOld
  BY <1>3, <1>p DEF ReadOld
<1>4. CASE IndexRepo
  <2>1. item = k /\ pc' = "set" => obj' = obj /\ old'.charts = cluster[k].digest
    BY <1>4 DEF IndexRepo, Typed, WorkerTyped, Entries
  <2>2. UNCHANGED <<redis, item>> /\ pc = "index" /\ pc' \in {"set", "forget", "drop"}
    BY <1>4 DEF IndexRepo
  <2> QED
    BY <1>p, <2>1, <2>2
<1>5. CASE SetEntry
  <2>1. /\ UNCHANGED <<item, obj, old>> /\ pc = "set" /\ pc' \in {"forget", "failed"}
        /\ redis' = redis \/ redis' = [redis EXCEPT ![item] = [checksum |-> obj.digest, charts |-> old.charts]]
    BY <1>5 DEF SetEntry
  <2>2. redis'[k] = redis[k] \/ (item = k /\ redis'[k] = [checksum |-> obj.digest, charts |-> old.charts])
    BY <2>1 DEF Typed, RedisTyped
  <2> QED
    BY <1>p, <2>1, <2>2
<1>6. CASE DropEntry \/ DeleteEntry
  <2>1. pc' \in {"forget", "failed"} /\ (redis' = redis \/ redis' = [redis EXCEPT ![item] = NoEntry])
    BY <1>6 DEF DropEntry, DeleteEntry
  <2>2. redis'[k] = redis[k] \/ redis'[k] = NoEntry
    BY <2>1 DEF Typed, RedisTyped
  <2> QED
    BY <1>p, <2>1, <2>2
<1> QED
  BY <1>1, <1>2, <1>3, <1>4, <1>5, <1>6 DEF WorkerStep

LEMMA StepKeepsPast == Typed /\ PastInv /\ [Next]_vars => PastInv'
<1> SUFFICES ASSUME Typed, PastInv, [Next]_vars PROVE PastInv'
  OBVIOUS
<1>1. CASE UNCHANGED <<cluster, past, redis, pc, item, obj, old>>
  BY <1>1 DEF PastInv
<1> USE DEF world, worker, readers, resync, history
<1>2. CASE FlushDB
  <2>1. UNCHANGED <<cluster, past, pc, item, obj, old>> /\ \A k \in Keys : redis'[k] = redis[k] \/ redis'[k] = NoEntry
    BY <1>2 DEF FlushDB
  <2> QED
    BY <2>1 DEF PastInv
<1>3. CASE Panic \/ Crash
  BY <1>3 DEF Panic, Crash, Restart, Leave, PastInv
<1>4. CASE ResyncStep \/ WatchEnds
  BY <1>1, <1>2, <1>3, <1>4 DEF ResyncStep, WantLock, LockForResync, ResetQueue, ResetRateLimiter, List,
                               StartWatch, AttemptAgain, WatchEnds
<1>5. ASSUME NEW r \in Readers, ReaderStep(r) \/ \E j \in Keys : GetFetches(r, j) PROVE PastInv'
  BY <1>1, <1>5 DEF ReaderStep, ForceAdds, RefreshAdds, WaitParks, WaitEnds, PollEnds, FetchAgain, GetFetches
<1>6. ASSUME NEW j \in Keys, Evict(j) PROVE PastInv'
  <2>1. UNCHANGED <<cluster, past, pc, item, obj, old>> /\ \A k \in Keys : redis'[k] = redis[k] \/ redis'[k] = NoEntry
    BY <1>6 DEF Evict, Typed, RedisTyped
  <2> QED
    BY <2>1 DEF PastInv
<1>7. ASSUME NEW j \in Keys, DeliverEvent(j) \/ DelayElapses(j) \/ PopulateStep(j) PROVE PastInv'
  BY <1>1, <1>7 DEF DeliverEvent, DelayElapses, PopulateStep, PopulateAdds, PopulateParks, PopulateWaitEnds,
                   PopulatePollEnds
<1> QED
  BY <1>1, <1>3, <1>4, <1>5, <1>6, <1>7, WorkerKeepsPast, WorldKeepsPast DEF Next, vars

-----------------------------------------------------------------------------

LEMMA ResyncFollows ==
  ASSUME Typed, PutInv, ConvergeInv, ResyncStep \/ WatchEnds \/ Crash
  PROVE  ConvergeInv'
<1> USE DEF world, worker, readers, resync, history, ResyncGoes
<1>1. CASE WantLock \/ WatchEnds \/ LockForResync \/ ResetQueue \/ ResetRateLimiter \/ FlushDB \/ AttemptAgain
           \/ Panic \/ Crash
  <2>1. spc' \notin {"populate", "watching"}
    BY <1>1 DEF WantLock, WatchEnds, LockForResync, Begin, ResetQueue, ResetRateLimiter, FlushDB, AttemptAgain,
                Panic, Crash, Restart
  <2> QED
    BY <2>1 DEF ConvergeInv
<1>2. CASE List
  <2>1. CASE spc' = "populate"
    <3>1. /\ UNCHANGED <<cluster, redis, item>>
          /\ pop' = [k \in Keys |-> IF cluster[k].status = "absent" THEN "done" ELSE "add"]
          /\ tainted' = {k \in Keys : /\ cluster[k].status = "absent"
                                      /\ k \in put \/ item = k}
      BY <1>2, <2>1 DEF List
    <3>2. ASSUME NEW k \in Keys \ tainted' PROVE Followed(k)'
      <4>1. CASE cluster[k].status # "absent"
        BY <2>1, <3>1, <4>1 DEF Followed, Soon
      <4>2. CASE cluster[k].status = "absent"
        <5>1. item # k /\ redis[k] = NoEntry
          BY <3>1, <3>2, <4>2 DEF PutInv
        <5> QED
          BY <3>1, <4>2, <5>1 DEF Followed, Agree
      <4> QED
        BY <4>1, <4>2
    <3> QED
      BY <3>2 DEF ConvergeInv
  <2>2. spc' = "populate" \/ spc' \notin {"populate", "watching"}
    BY <1>2 DEF List
  <2> QED
    BY <2>1, <2>2 DEF ConvergeInv
<1>3. CASE StartWatch
  <2>1. /\ UNCHANGED <<cluster, events, redis, q, pc, item, obj, old, excused, tainted>>
        /\ spc = "populate" /\ \A k \in Keys : pop[k] = "done"
    BY <1>3 DEF StartWatch
  <2>2. ASSUME NEW k \in Keys, Followed(k) PROVE Followed(k)'
    BY <2>1, <2>2, QueueFollows DEF Soon
  <2> QED
    BY <2>1, <2>2 DEF ConvergeInv
<1> QED
  BY <1>1, <1>2, <1>3 DEF ResyncStep

\* A reader adds keys to the queue, and takes none away.
LEMMA ReaderFollows ==
  ASSUME Typed, ConvergeInv, NEW r \in Readers, ReaderStep(r) \/ \E k \in Keys : GetFetches(r, k)
  PROVE  ConvergeInv'
<1>q. q \in Q!QueueStates /\ ~q.shuttingDown
  BY DEF Typed, QueueTyped
<1> USE DEF world, worker, readers, resync, history
<1>1. UNCHANGED <<cluster, events, redis, pc, item, obj, old, excused, tainted, spc, pop>>
  BY DEF ReaderStep, ForceAdds, RefreshAdds, WaitParks, WaitEnds, PollEnds, FetchAgain, GetFetches
<1>2. q.dirty \subseteq q'.dirty /\ q'.delayed = q.delayed /\ q'.processing = q.processing
  <2>1. CASE ForceAdds(r) \/ RefreshAdds(r)
    <3>1. rkey[r] \in Keys
      BY <2>1 DEF ForceAdds, RefreshAdds, ReaderGoes, Typed, ReadersTyped
    <3>2. q' = q \/ q' = Q!Add(q, rkey[r])
      BY <2>1 DEF ForceAdds, RefreshAdds, Q!AddIfNotProcessing
    <3> QED
      BY <1>q, <3>1, <3>2, AddSets
  <2>2. CASE WaitParks(r)
    BY <1>q, <2>2 DEF WaitParks, Q!Wait, Q!QueueStates
  <2> QED
    BY <2>1, <2>2 DEF ReaderStep, WaitEnds, PollEnds, FetchAgain, GetFetches
<1>3. ASSUME NEW k \in Keys, Followed(k) PROVE Followed(k)'
  BY <1>1, <1>2, <1>3, QueueFollows DEF Soon
<1> QED
  BY <1>1, <1>3 DEF ConvergeInv

LEMMA StepFollows == Typed /\ PutInv /\ ConvergeInv /\ [Next]_vars => ConvergeInv'
<1> SUFFICES ASSUME Typed, PutInv, ConvergeInv, [Next]_vars PROVE ConvergeInv'
  OBVIOUS
<1> USE DEF world, worker, readers, resync, history
<1>1. CASE WorkerStep
  <2>1. UNCHANGED <<spc, tainted>>
    BY <1>1 DEF WorkerStep, GetParks, GetItem, CheckProcessing, ReadObject, ReadOld, IndexRepo, SetEntry,
                DropEntry, DeleteEntry, Forget, Retry, GiveUp, Done
  <2>2. ASSUME NEW k \in Keys \ tainted, Followed(k) PROVE Followed(k)'
    BY <1>1, <2>2, WorkerFollows, WorkerFollowsAnother
  <2> QED
    BY <2>1, <2>2 DEF ConvergeInv
<1>2. ASSUME NEW j \in Keys,
             \/ DeliverEvent(j) \/ DelayElapses(j) \/ PopulateStep(j) \/ Evict(j)
             \/ \E d \in Digests : ContentChanges(j, d) \/ \E s \in {"absent", "pending", "ready"} :
                   StatusChanges(j, s, d)
      PROVE  ConvergeInv'
  <2>1. tainted' = tainted /\ spc' = spc
    BY <1>2 DEF DeliverEvent, DelayElapses, PopulateStep, PopulateAdds, PopulateParks, PopulateWaitEnds,
                PopulatePollEnds, Evict, ContentChanges, StatusChanges
  <2> QED
    BY <1>2, <2>1, WorldFollows DEF ConvergeInv
<1>3. CASE UNCHANGED vars
  BY <1>3 DEF vars, ConvergeInv, Followed, Soon, WellInformed, Current, InTheAir, Agree
<1> QED
  BY <1>1, <1>2, <1>3, ReaderFollows, ResyncFollows DEF Next

\* Once its events are dealt with, a repository's entry agrees with the cluster, for any number of
\* repositories and after any changes, lost watches, failed resyncs and crashes; but for what the
\* history variables name.
THEOREM CacheAgrees == Spec => []CacheConverges
<1>1. Spec => [](ConvergeInv /\ PutInv /\ PastInv)
  BY AlwaysTyped, InitConverges, StepFollows, StepKeepsPut, StepKeepsPast, PTL DEF Spec
<1>2. ConvergeInv /\ PastInv => CacheConverges
  <2> SUFFICES ASSUME ConvergeInv, PastInv, NEW k \in Keys \ (excused \cup tainted), Settled(k)
               PROVE  /\ Agree(k)
                      /\ redis[k] # NoEntry /\ k \notin OciKeys =>
                            redis[k].checksum = redis[k].charts \/ redis[k].checksum \in past[k]
    BY DEF CacheConverges, Agree
  <2>1. ~Soon(k) /\ ~InTheAir(k) /\ Followed(k)
    BY DEF Settled, Soon, InTheAir, ConvergeInv
  <2> QED
    BY <2>1 DEF Followed, PastInv
<1> QED
  BY <1>1, <1>2, PTL

-----------------------------------------------------------------------------
(* The end of a resync. *)

\* What populateWith waits for, of a key that is ready and has not changed since the list.
Populated(k) ==
    /\ item = k /\ pc = "delete" => pop[k] = "add" \/ (pop[k] = "wait" /\ k \in q.dirty)
    /\ \/ k \in excused
       \/ /\ pop[k] = "wait" => Comes(k)
          /\ pop[k] = "poll" => Came(k)
          /\ pop[k] = "done" => Here(k)

PopulateInv ==
    spc = "populate" => \A k \in Keys : cluster[k].status = "ready" /\ events[k] = 0 => Populated(k)

LEMMA InitPopulates == Init => PopulateInv
  BY DEF Init, PopulateInv

LEMMA WorkerPopulates == ASSUME Typed, PopulateInv, WorkerStep PROVE PopulateInv'
<1> USE DEF world, worker, readers, resync, history, WorkerGoes, Fails
<1>1. UNCHANGED <<cluster, events, spc, pop>>
  BY DEF WorkerStep, GetParks, GetItem, CheckProcessing, ReadObject, ReadOld, IndexRepo, SetEntry, DropEntry,
         DeleteEntry, Forget, Retry, GiveUp, Done
<1>2. SUFFICES ASSUME spc = "populate", NEW k \in Keys, cluster[k].status = "ready", events[k] = 0, Populated(k)
               PROVE  Populated(k)'
  BY <1>1 DEF PopulateInv
<1>3. ~(item' = k /\ pc' = "delete")
  <2>1. CASE ReadObject
    BY <1>2, <2>1 DEF ReadObject
  <2> QED
    BY <2>1 DEF WorkerStep, GetParks, GetItem, CheckProcessing, ReadOld, IndexRepo, SetEntry, DropEntry,
                DeleteEntry, Forget, Retry, GiveUp, Done, Leave
<1>4. CASE k \in excused'
  BY <1>3, <1>4 DEF Populated
<1>5. CASE k \notin excused' /\ k \notin excused
  <2>1. DropEntry \/ GiveUp => item # k
    BY <1>5 DEF DropEntry, GiveUp
  <2>2. Keeps(k)
    BY <1>2, <2>1, WorkerKeepsComing
  <2> QED
    BY <1>1, <1>2, <1>3, <1>5, <2>2 DEF Populated, Keeps
<1>6. CASE k \notin excused' /\ k \in excused
  <2>1. item = k /\ (SetEntry \/ DeleteEntry)
    BY <1>6 DEF WorkerStep, GetParks, GetItem, CheckProcessing, ReadObject, ReadOld, IndexRepo, SetEntry,
                DropEntry, DeleteEntry, Forget, Retry, GiveUp, Done
  <2>2. CASE SetEntry
    <3>1. obj.digest # NoDigest /\ redis \in [Keys -> Entries]
      BY <2>2, KeysAssumption DEF SetEntry, Typed, WorkerTyped, RedisTyped, Objects
    <3>2. redis'[k] # NoEntry
      BY <1>6, <2>1, <2>2, <3>1 DEF SetEntry, NoEntry
    <3> QED
      BY <1>3, <3>2 DEF Populated, Comes, Came, Here
  <2>3. CASE DeleteEntry
    <3>1. pc = "delete" /\ q' = q
      BY <2>3 DEF DeleteEntry
    <3>2. pop[k] = "add" \/ (pop[k] = "wait" /\ k \in q.dirty)
      BY <1>2, <2>1, <3>1 DEF Populated
    <3> QED
      BY <1>1, <1>3, <3>1, <3>2 DEF Populated, Comes
  <2> QED
    BY <2>1, <2>2, <2>3
<1> QED
  BY <1>4, <1>5, <1>6

LEMMA WorldPopulates ==
  ASSUME Typed, PopulateInv, NEW j \in Keys,
         \/ DeliverEvent(j) \/ DelayElapses(j) \/ PopulateStep(j) \/ Evict(j)
         \/ \E d \in Digests : ContentChanges(j, d) \/ \E s \in {"absent", "pending", "ready"} :
               StatusChanges(j, s, d)
  PROVE  PopulateInv'
<1> USE DEF world, worker, readers, resync, history
<1>q. q \in Q!QueueStates /\ ~q.shuttingDown
  BY DEF Typed, QueueTyped
<1>t. /\ cluster \in [Keys -> Objects] /\ events \in [Keys -> Nat]
      /\ pop \in [Keys -> {"add", "wait", "poll", "done"}]
  BY DEF Typed, WorldTyped, ResyncTyped
<1>1. /\ UNCHANGED <<spc, pc, item>>
      /\ excused \subseteq excused'
  BY DEF DeliverEvent, DelayElapses, PopulateStep, PopulateAdds, PopulateParks, PopulateWaitEnds, PopulatePollEnds,
         Evict, ContentChanges, StatusChanges
<1>2. SUFFICES ASSUME spc = "populate", NEW k \in Keys, cluster'[k].status = "ready", events'[k] = 0
               PROVE  Populated(k)'
  BY <1>1 DEF PopulateInv
<1>3. ASSUME NEW d \in Digests, NEW s \in {"absent", "pending", "ready"}, StatusChanges(j, s, d)
      PROVE  j # k
  BY <1>2, <1>3, <1>t DEF StatusChanges
<1>4. cluster[k].status = "ready" /\ events[k] = 0
  <2>1. CASE \E d \in Digests : ContentChanges(j, d)
    BY <1>2, <1>t, <2>1 DEF ContentChanges, Objects
  <2>2. CASE \E d \in Digests, s \in {"absent", "pending", "ready"} : StatusChanges(j, s, d)
    BY <1>2, <1>3, <1>t, <2>2 DEF StatusChanges
  <2>3. CASE DeliverEvent(j)
    BY <1>2, <2>3 DEF DeliverEvent
  <2>4. CASE DelayElapses(j) \/ PopulateStep(j) \/ Evict(j)
    BY <1>2, <2>4 DEF DelayElapses, PopulateStep, PopulateAdds, PopulateParks, PopulateWaitEnds, PopulatePollEnds,
                      Evict
  <2> QED
    BY <2>1, <2>2, <2>3, <2>4
<1>5. Populated(k)
  BY <1>2, <1>4 DEF PopulateInv
<1>6. CASE k \in excused'
  <2>1. item = k /\ pc = "delete" => pop'[k] = "add" \/ (pop'[k] = "wait" /\ k \in q'.dirty)
    <3>1. CASE PopulateStep(j)
      BY <1>5, <1>q, <1>t, <3>1, AddSets, WorkSets
         DEF Populated, PopulateStep, PopulateAdds, PopulateParks, PopulateWaitEnds, PopulatePollEnds,
             PopulatorGoes, Q!Pending
    <3>2. CASE DeliverEvent(j) \/ DelayElapses(j)
      BY <1>5, <1>q, <3>2, AddSets DEF Populated, DeliverEvent, DelayElapses
    <3>3. CASE ~PopulateStep(j) /\ ~DeliverEvent(j) /\ ~DelayElapses(j)
      BY <1>5, <3>3 DEF Populated, Evict, ContentChanges, StatusChanges
    <3> QED
      BY <3>1, <3>2, <3>3
  <2> QED
    BY <1>1, <1>6, <2>1 DEF Populated
<1>7. CASE k \notin excused'
  <2>1. Evict(j) => j # k
    BY <1>7 DEF Evict
  <2>2. Keeps(k)
    BY <1>3, <1>4, <2>1, WorldKeepsComing
  <2>3. CASE PopulateStep(j) /\ j = k
    <3>1. CASE PopulateAdds(k)
      BY <1>q, <1>t, <3>1, AddSets DEF PopulateAdds, PopulatorGoes, Populated, Comes
    <3>2. CASE PopulateParks(k)
      BY <1>1, <1>5, <1>7, <1>q, <2>2, <3>2, WorkSets DEF PopulateParks, Populated, Keeps
    <3>3. CASE PopulateWaitEnds(k)
      BY <1>1, <1>5, <1>7, <1>t, <2>2, <3>3
         DEF PopulateWaitEnds, PopulatorGoes, Populated, Keeps, Q!Pending, Comes, Live
    <3>4. CASE PopulatePollEnds(k)
      BY <1>1, <1>5, <1>7, <1>t, <2>2, <3>4
         DEF PopulatePollEnds, PopulatorGoes, Populated, Keeps, Q!NumRequeues, Came, Counted
    <3> QED
      BY <2>3, <3>1, <3>2, <3>3, <3>4 DEF PopulateStep
  <2>4. CASE ~(PopulateStep(j) /\ j = k)
    <3>1. pop'[k] = pop[k]
      BY <1>t, <2>4 DEF DeliverEvent, DelayElapses, PopulateStep, PopulateAdds, PopulateParks, PopulateWaitEnds,
                        PopulatePollEnds, PopulatorGoes, Evict, ContentChanges, StatusChanges
    <3>2. k \in q.dirty => k \in q'.dirty
      <4>1. CASE PopulateStep(j)
        BY <1>q, <4>1, AddSets, WorkSets DEF PopulateStep, PopulateAdds, PopulateParks, PopulateWaitEnds,
                                             PopulatePollEnds
      <4>2. CASE DeliverEvent(j) \/ DelayElapses(j)
        BY <1>q, <4>2, AddSets DEF DeliverEvent, DelayElapses
      <4>3. CASE ~PopulateStep(j) /\ ~DeliverEvent(j) /\ ~DelayElapses(j)
        BY <4>3 DEF Evict, ContentChanges, StatusChanges
      <4> QED
        BY <4>1, <4>2, <4>3
    <3> QED
      BY <1>1, <1>5, <1>7, <2>2, <3>1, <3>2 DEF Populated, Keeps
  <2> QED
    BY <2>3, <2>4
<1> QED
  BY <1>6, <1>7

LEMMA ReaderPopulates ==
  ASSUME Typed, PopulateInv, NEW r \in Readers, ReaderStep(r) \/ \E k \in Keys : GetFetches(r, k)
  PROVE  PopulateInv'
<1>q. q \in Q!QueueStates /\ ~q.shuttingDown
  BY DEF Typed, QueueTyped
<1> USE DEF world, worker, readers, resync, history
<1>1. UNCHANGED <<cluster, events, redis, pc, item, obj, old, excused, spc, pop>>
  BY DEF ReaderStep, ForceAdds, RefreshAdds, WaitParks, WaitEnds, PollEnds, FetchAgain, GetFetches
<1>2. q.dirty \subseteq q'.dirty /\ q'.processing = q.processing /\ q'.requeues = q.requeues
  <2>1. CASE ForceAdds(r) \/ RefreshAdds(r)
    <3>1. rkey[r] \in Keys
      BY <2>1 DEF ForceAdds, RefreshAdds, ReaderGoes, Typed, ReadersTyped
    <3>2. q' = q \/ q' = Q!Add(q, rkey[r])
      BY <2>1 DEF ForceAdds, RefreshAdds, Q!AddIfNotProcessing
    <3> QED
      BY <1>q, <3>1, <3>2, AddSets
  <2>2. CASE WaitParks(r)
    BY <1>q, <2>2 DEF WaitParks, Q!Wait, Q!QueueStates
  <2> QED
    BY <2>1, <2>2 DEF ReaderStep, WaitEnds, PollEnds, FetchAgain, GetFetches
<1>3. ASSUME NEW k \in Keys, cluster[k].status = "ready", Populated(k) PROVE Populated(k)'
  <2>1. Keeps(k)
    BY <1>1, <1>2, <1>3, QueueKeepsComing
  <2> QED
    BY <1>1, <1>2, <1>3, <2>1 DEF Populated, Keeps
<1> QED
  BY <1>1, <1>3 DEF PopulateInv

LEMMA ResyncPopulatesAll == ASSUME Typed, PopulateInv, ResyncStep \/ WatchEnds \/ Crash PROVE PopulateInv'
<1> USE DEF world, worker, readers, resync, history, ResyncGoes
<1>1. CASE List
  <2>1. spc' = "populate" =>
            /\ cluster' = cluster
            /\ pop' = [k \in Keys |-> IF cluster[k].status = "absent" THEN "done" ELSE "add"]
    BY <1>1 DEF List
  <2> QED
    BY <2>1 DEF PopulateInv, Populated
<1>2. CASE ~List
  <2>1. spc' # "populate"
    BY <1>2 DEF ResyncStep, WantLock, LockForResync, Begin, ResetQueue, ResetRateLimiter, FlushDB, StartWatch,
                AttemptAgain, Panic, WatchEnds, Crash, Restart
  <2> QED
    BY <2>1 DEF PopulateInv
<1> QED
  BY <1>1, <1>2

LEMMA StepPopulates == Typed /\ PopulateInv /\ [Next]_vars => PopulateInv'
<1> SUFFICES ASSUME Typed, PopulateInv, [Next]_vars PROVE PopulateInv'
  OBVIOUS
<1>1. CASE UNCHANGED vars
  BY <1>1 DEF vars, world, worker, readers, resync, history, PopulateInv, Populated, Comes, Came, Here, Counted,
              Live, OnCourse
<1> QED
  BY <1>1, WorkerPopulates, WorldPopulates, ReaderPopulates, ResyncPopulatesAll DEF Next

\* When a resync is about to start the watch, everything that was ready at its list, and has not
\* changed or failed since, has an entry, however late the worker, and whatever it was on before.
THEOREM ResyncsPopulate == Spec => []ResyncPopulates
<1>1. Spec => []PopulateInv
  BY AlwaysTyped, InitPopulates, StepPopulates, PTL DEF Spec
<1>2. PopulateInv => ResyncPopulates
  BY DEF PopulateInv, ResyncPopulates, Populated, Here
<1> QED
  BY <1>1, <1>2, PTL

=============================================================================

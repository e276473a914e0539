---------------------------- MODULE ClusterProofs ----------------------------
(***************************************************************************)
(* What the parts of Cluster keep, for any values of its constants.  A     *)
(* behaviour of Cluster is one of the part it starts with: the session and *)
(* the controller are proved about in modules of their own, and the pages  *)
(* and the Jobs here, each from an inductive invariant whose names begin   *)
(* with Res (resources), Rep (repositories), Ins (instances of operators), *)
(* Op (operators), Frm (form of a repository) or Syn (Jobs of the          *)
(* asset-syncer).  The last section puts them together.                    *)
(***************************************************************************)
EXTENDS Cluster, TLAPS, FiniteSetTheorems, SequenceTheorems

(* The resources of an application: the invariant is ResInv. *)

ResStore   == [items : [Apps -> Nat], selected : Apps \cup {None}, object : Nat,
               status : [of : Apps \cup {None}, version : Nat]]
ResUi      == [page : {"view", "other"}, app : Apps \cup {None}, refsOf : Apps \cup {None},
               seen : Nat \X (Apps \cup {None})]
ResRequest == [kind : {"app", "refs", "status"}, app : Apps, version : Nat, mine : BOOLEAN]
ResStream  == [kind : {"watch"}, app : Apps, version : Nat, open : BOOLEAN, due : BOOLEAN, id : Nat]
ResPast    == [version : [Apps -> Nat \ {0}], moves : Nat, breaks : SUBSET Apps,
               stray : BOOLEAN, overtaken : BOOLEAN]

ResTyped ==
    /\ store \in ResStore /\ ui \in ResUi /\ past \in ResPast
    /\ calls \subseteq ResRequest \cup ResStream /\ IsFiniteSet(calls)
    /\ ui.page = "view" => ui.app \in Apps

LEMMA ResCardinality == ASSUME NEW S PROVE Res!Cardinality(S) = Cardinality(S)
  BY DEF Res!Cardinality, Cardinality

LEMMA ResStreamId == \* there is always an id that is free
    ASSUME IsFiniteSet(calls)
    PROVE  \E i \in 1..(Cardinality(Res!Of("watch")) + 1) : \A c \in Res!Of("watch") : c.id # i
<1> DEFINE W == Res!Of("watch")
           n == Cardinality(W)
           Ids == {c.id : c \in W}
<1>1. IsFiniteSet(W)
  BY FS_Subset DEF Res!Of
<1>2. n \in Nat
  BY <1>1, FS_CardinalityType
<1>3. IsFiniteSet(Ids) /\ Cardinality(Ids) <= n
  <2> DEFINE f == [c \in W |-> c.id]
  <2>1. f \in Surjection(W, Ids)
    BY DEF Surjection
  <2> QED
    BY <1>1, <2>1, FS_Surjection
<1>4. IsFiniteSet(1..(n + 1)) /\ Cardinality(1..(n + 1)) = n + 1
  BY <1>2, FS_Interval, SMTT(60)
<1>5. ~(1..(n + 1) \subseteq Ids)
  <2> SUFFICES ASSUME 1..(n + 1) \subseteq Ids PROVE FALSE
    OBVIOUS
  <2>1. Cardinality(1..(n + 1)) <= Cardinality(Ids)
    BY <1>3, FS_Subset
  <2>2. Cardinality(Ids) \in Nat
    BY <1>3, FS_CardinalityType
  <2> QED
    BY <1>2, <1>3, <1>4, <2>1, <2>2
<1> QED
  BY <1>5

\* a part of a finite set and two more is finite
LEMMA FiniteButTwo ==
    ASSUME NEW S, IsFiniteSet(S), NEW x, NEW y, NEW T, T \subseteq S \cup {x, y}
    PROVE  IsFiniteSet(T)
<1>1. IsFiniteSet(S \cup {x}) /\ IsFiniteSet((S \cup {x}) \cup {y})
  BY FS_AddElement
<1> QED
  BY <1>1, FS_Subset

LEMMA ResForsakeFinite == ASSUME IsFiniteSet(calls) PROVE IsFiniteSet(Res!Forsake(calls))
<1> DEFINE f == [c \in calls |-> IF c.kind = "watch" THEN c ELSE [c EXCEPT !.mine = FALSE]]
<1>1. f \in Surjection(calls, Res!Forsake(calls))
  BY DEF Surjection, Res!Forsake
<1> QED
  BY <1>1, FS_Surjection

\* a stream has an id of its own, and its first event brings the version there is
LEMMA ResNewStream ==
    ASSUME ResTyped, NEW a \in Apps
    PROVE  \E c \in ResStream : /\ Res!NewStream(a) = {c}
                                /\ c.app = a /\ c.version = past.version[a] - 1 /\ c.open /\ ~c.due
                                /\ \A d \in Res!Of("watch") : c.id # d.id
<1> DEFINE I == 1..(Cardinality(Res!Of("watch")) + 1)
           i == CHOOSE i \in I : \A c \in Res!Of("watch") : c.id # i
           c == [kind |-> "watch", app |-> a, version |-> past.version[a] - 1, open |-> TRUE,
                 due |-> FALSE, id |-> i]
<1>1. i \in I /\ \A d \in Res!Of("watch") : d.id # i
  BY ResStreamId DEF ResTyped
<1>2. c \in ResStream
  BY <1>1 DEF ResStream, ResTyped, ResPast
<1>3. Res!NewStream(a) = {c}
  BY ResCardinality, Zenon DEF Res!NewStream
<1> QED
  BY <1>1, <1>2, <1>3

LEMMA ResDebounced == ASSUME NEW d \in ResStream PROVE Res!debounced(d) \in ResStream
  BY DEF Res!debounced, ResStream

LEMMA ResInitTyped == Res!Init => ResTyped
<1> SUFFICES ASSUME Res!Init PROVE ResTyped
  OBVIOUS
<1>1. store \in ResStore
  BY DEF Res!Init, ResStore, Res!NoItems
<1>2. past \in ResPast
  BY DEF Res!Init, ResPast
<1>3. ui \in ResUi
  BY DEF Res!Init, ResUi
<1> QED
  BY <1>1, <1>2, <1>3, FS_EmptySet DEF Res!Init, ResTyped

\* no step leaves infinitely many requests and streams
LEMMA ResNextFinite == ASSUME ResTyped, [Res!Next]_Res!vars PROVE IsFiniteSet(calls')
<1> USE DEF ResTyped
<1>1. CASE Res!Effect
  <2>1. CASE ui.refsOf \in Apps
    <3>1. PICK d : Res!NewStream(ui.refsOf) = {d}
      BY <2>1, ResNewStream
    <3>2. calls' \subseteq calls \cup {d, d}
      BY <1>1, <3>1 DEF Res!Effect
    <3> QED
      BY <3>2, FiniteButTwo
  <2>2. CASE ui.refsOf \notin Apps
    BY <1>1, <2>2 DEF Res!Effect, ResUi
  <2> QED
    BY <2>1, <2>2
<1>2. CASE Res!Leave
  BY <1>2, ResForsakeFinite DEF Res!Leave
<1>3. CASE Res!Rollback
  BY <1>3, FiniteButTwo DEF Res!Rollback
<1>4. ASSUME NEW a \in Apps, Res!OpenApp(a) PROVE IsFiniteSet(calls')
  <2>1. calls' \subseteq Res!Forsake(calls) \cup {Res!Request("app", a, 0), Res!Request("refs", a, 0)}
    BY <1>4 DEF Res!OpenApp
  <2> QED
    BY <2>1, ResForsakeFinite, FiniteButTwo
<1>5. ASSUME NEW a \in Apps, Res!ResourceChanges(a) PROVE IsFiniteSet(calls')
  BY <1>5 DEF Res!ResourceChanges
<1>6. ASSUME NEW c \in calls, Res!AppAnswered(c) \/ Res!RefsAnswered(c) \/ Res!StatusAnswered(c)
      PROVE  IsFiniteSet(calls')
  BY <1>6, FiniteButTwo DEF Res!AppAnswered, Res!RefsAnswered, Res!StatusAnswered
<1>7. ASSUME NEW c \in calls, Res!Deliver(c) PROVE IsFiniteSet(calls')
  <2>1. calls' \subseteq calls \cup {Res!debounced([c EXCEPT !.version = @ + 1]), c}
    BY <1>7 DEF Res!Deliver
  <2> QED
    BY <2>1, FiniteButTwo
<1>8. ASSUME NEW c \in calls, Res!Break(c) PROVE IsFiniteSet(calls')
  BY <1>8, FiniteButTwo DEF Res!Break
<1>9. ASSUME NEW c \in calls, Res!TimerEnds(c) PROVE IsFiniteSet(calls')
  <2>1. calls' \subseteq calls \cup {[c EXCEPT !.due = FALSE],
                                   Res!Request("status", c.app, past.version[c.app])}
    BY <1>9 DEF Res!TimerEnds
  <2> DEFINE x == [c EXCEPT !.due = FALSE]
             y == Res!Request("status", c.app, past.version[c.app])
  <2>2. calls' \subseteq calls \cup {x, y}
    BY <2>1
  <2> HIDE DEF x, y
  <2> QED
    BY <2>2, FiniteButTwo
<1> QED
  BY <1>1, <1>2, <1>3, <1>4, <1>5, <1>6, <1>7, <1>8, <1>9 DEF Res!Next, Res!vars

ResData ==
    /\ store \in ResStore /\ ui \in ResUi /\ past \in ResPast
    /\ calls \subseteq ResRequest \cup ResStream
    /\ ui.page = "view" => ui.app \in Apps

LEMMA ResNextData == ASSUME ResTyped, [Res!Next]_Res!vars PROVE ResData'
<1> USE DEF ResTyped, ResData
<1>1. CASE Res!Effect
  <2>1. CASE ui.refsOf \in Apps
    BY <1>1, <2>1, ResNewStream DEF Res!Effect, Res!Depends, ResUi, ResStore
  <2>2. CASE ui.refsOf \notin Apps
    BY <1>1, <2>2 DEF Res!Effect, Res!Depends, ResUi, ResStore
  <2> QED
    BY <2>1, <2>2
<1>2. CASE Res!Leave
  <2>1. calls' \subseteq ResRequest \cup ResStream
    BY <1>2 DEF Res!Leave, Res!Forsake, ResRequest, ResStream
  <2> QED
    BY <1>2, <2>1 DEF Res!Leave, ResUi, ResPast
<1>3. CASE Res!Rollback
  <2>1. calls' \subseteq ResRequest \cup ResStream
    <3>1. ui.app \in Apps
      BY <1>3 DEF Res!Rollback
    <3>2. Res!Request("app", ui.app, 0) \in ResRequest
      BY <3>1 DEF Res!Request, ResRequest
    <3> QED
      BY <1>3, <3>2 DEF Res!Rollback
  <2>2. store' \in ResStore
    <3>1. store' = [store EXCEPT !.selected = None, !.object = 0]
      BY <1>3 DEF Res!Rollback
    <3> QED
      BY <3>1, Zenon DEF ResStore
  <2>3. past' \in ResPast
    BY <1>3 DEF Res!Rollback, ResPast
  <2> QED
    BY <1>3, <2>1, <2>2, <2>3 DEF Res!Rollback
<1>4. ASSUME NEW a \in Apps, Res!OpenApp(a) PROVE ResData'
  <2>1. Res!Forsake(calls) \subseteq ResRequest \cup ResStream
    BY DEF Res!Forsake, ResRequest, ResStream
  <2>3. {Res!Request("app", a, 0), Res!Request("refs", a, 0)} \subseteq ResRequest
    BY DEF Res!Request, ResRequest
  <2>4. calls' \subseteq ResRequest \cup ResStream
    BY <1>4, <2>1, <2>3 DEF Res!OpenApp
  <2>5. ui' \in ResUi /\ ui'.app = a
    BY <1>4 DEF Res!OpenApp, ResUi
  <2>6. past' \in ResPast
    <3>1. past' = [past EXCEPT !.moves = @ + 1, !.stray = FALSE]
      BY <1>4 DEF Res!OpenApp
    <3>2. past.moves + 1 \in Nat
      BY DEF ResPast
    <3> QED
      BY <3>1, <3>2, Zenon DEF ResPast
  <2>2. store' \in ResStore
    BY <1>4 DEF Res!OpenApp, Res!NoItems, ResStore
  <2> QED
    BY <2>2, <2>4, <2>5, <2>6
<1>5. ASSUME NEW a \in Apps, Res!ResourceChanges(a) PROVE ResData'
  BY <1>5 DEF Res!ResourceChanges, ResPast
<1>6. ASSUME NEW c \in calls, Res!AppAnswered(c) PROVE ResData'
  <2>1. c \in ResRequest
    BY <1>6 DEF Res!AppAnswered, Res!Of, ResStream
  <2>2. store' \in ResStore
    <3>1. c.app \in Apps /\ past.version[c.app] \in Nat /\ ui.seen[1] \in Nat
      BY <2>1 DEF ResUi, ResRequest, ResPast
    <3>2. store' = [store EXCEPT !.selected = c.app, !.object = ui.seen[1] + 1,
                                 !.status = [of |-> c.app, version |-> past.version[c.app]]]
      BY <1>6 DEF Res!AppAnswered
    <3>3. [of |-> c.app, version |-> past.version[c.app]] \in [of : Apps \cup {None}, version : Nat]
      BY <3>1
    <3>4. c.app \in Apps \cup {None} /\ ui.seen[1] + 1 \in Nat
      BY <3>1
    <3> QED
      BY <3>2, <3>3, <3>4, Zenon DEF ResStore
  <2>3. past' \in ResPast
    BY <1>6, <2>1 DEF Res!AppAnswered, ResPast
  <2> QED
  BY <1>6, <2>2, <2>3 DEF Res!AppAnswered
<1>7. ASSUME NEW c \in calls, Res!RefsAnswered(c) PROVE ResData'
  BY <1>7 DEF Res!RefsAnswered, Res!Of, ResUi, ResRequest, ResStream
<1>8. ASSUME NEW c \in calls, Res!Deliver(c) PROVE ResData'
  <2>1. c \in ResStream
    BY <1>8 DEF Res!Deliver, Res!Of, ResRequest
  <2>2. store' \in ResStore
    BY <1>8, <2>1 DEF Res!Deliver, Res!receiveResource, ResStore, ResStream
  <2>3. Res!debounced([c EXCEPT !.version = @ + 1]) \in ResStream
    <3>1. [c EXCEPT !.version = @ + 1] \in ResStream
      BY <2>1 DEF ResStream
    <3> QED
      BY <3>1, ResDebounced
  <2>4. calls' \subseteq ResRequest \cup ResStream
    BY <1>8, <2>3 DEF Res!Deliver
  <2> QED
  BY <1>8, <2>2, <2>4 DEF Res!Deliver
<1>9. ASSUME NEW c \in calls, Res!Break(c) PROVE ResData'
  <2>1. c \in ResStream
    BY <1>9 DEF Res!Break, Res!Of, ResRequest
  <2> QED
  BY <1>9, <2>1 DEF Res!Break, ResStream, ResPast
<1>10. ASSUME NEW c \in calls, Res!TimerEnds(c) PROVE ResData'
  <2>1. c \in ResStream
    BY <1>10 DEF Res!TimerEnds, Res!Of, ResRequest
  <2>2. [c EXCEPT !.due = FALSE] \in ResStream
    BY <2>1 DEF ResStream
  <2>3. Res!Request("status", c.app, past.version[c.app]) \in ResRequest
    BY <2>1 DEF Res!Request, ResRequest, ResStream, ResPast
  <2>4. calls' \subseteq ResRequest \cup ResStream
    BY <1>10, <2>2, <2>3 DEF Res!TimerEnds
  <2> QED
  BY <1>10, <2>4 DEF Res!TimerEnds
<1>11. ASSUME NEW c \in calls, Res!StatusAnswered(c) PROVE ResData'
  <2>1. c \in ResRequest
    BY <1>11 DEF Res!StatusAnswered, Res!Of, ResStream
  <2>2. PICK v \in c.version..past.version[c.app] :
          /\ store' = Res!receiveInstalledPackageStatus(store, c.app, v)
          /\ past' = [past EXCEPT !.stray = @ \/ c.app # ui.app,
                                  !.overtaken = @ \/ (store.status.of = c.app /\ v < store.status.version)]
    BY <1>11 DEF Res!StatusAnswered
  <2>3. v \in Nat
    BY <2>1, <2>2 DEF ResRequest, ResPast
  <2>4. store' \in ResStore
    BY <2>1, <2>2, <2>3 DEF Res!receiveInstalledPackageStatus, ResRequest, ResStore
  <2>5. past' \in ResPast
    BY <2>2 DEF ResPast
  <2> QED
  BY <1>11, <2>4, <2>5 DEF Res!StatusAnswered
<1> QED
  BY <1>1, <1>2, <1>3, <1>4, <1>5, <1>6, <1>7, <1>8, <1>9, <1>10, <1>11 DEF Res!Next, Res!vars

LEMMA ResNextTyped == ASSUME ResTyped, [Res!Next]_Res!vars PROVE ResTyped'
  BY ResNextFinite, ResNextData DEF ResTyped, ResData

\* Nothing is ahead of the cluster.
ResKnown ==
    /\ \A a \in Apps : store.items[a] <= past.version[a]
    /\ \A c \in Res!Of("watch") : c.version <= past.version[c.app]
    /\ store.status.of # None => store.status.version <= past.version[store.status.of]

\* A stream has an id of its own, and is open if none of its application broke.
ResStreams ==
    /\ \A c, d \in Res!Of("watch") : c.id = d.id => c = d
    /\ \A c \in Res!Of("watch") : c.app \notin past.breaks => c.open

\* What the page shows was delivered by a stream, that had delivered nothing since.
ResSource ==
    \A a \in Apps : store.items[a] # 0 /\ a \notin past.breaks =>
        \E c \in Res!Of("watch") : c.app = a /\ c.open /\ c.version = store.items[a]

ResWatching(a) == /\ ui.page = "view" /\ ~Res!EffectDue /\ store.selected = a /\ ui.refsOf = a
                  /\ a \notin past.breaks

ResBehind(a) == \E c \in Res!Of("watch") : c.app = a /\ c.open /\ c.version < past.version[a]

\* ... or will be.
ResWatched == \A a \in Apps : ResWatching(a) => store.items[a] # 0 \/ ResBehind(a)

ResInv1 == ResTyped /\ ResKnown /\ ResStreams /\ ResSource /\ ResWatched

\* the steps that open and close no stream
LEMMA ResSameStreams ==
    ASSUME ResTyped,
           \/ Res!Leave \/ Res!Rollback \/ \E a \in Apps : Res!OpenApp(a) \/ Res!ResourceChanges(a)
           \/ \E c \in calls : Res!AppAnswered(c) \/ Res!RefsAnswered(c) \/ Res!StatusAnswered(c)
    PROVE  Res!Of("watch")' = Res!Of("watch")
<1> USE DEF Res!Of
<1>1. ASSUME NEW S \in SUBSET (ResRequest \cup ResStream)
      PROVE  {c \in Res!Forsake(S) : c.kind = "watch"} = {c \in S : c.kind = "watch"}
  BY DEF Res!Forsake, ResRequest, ResStream
<1>2. \A k, a, v : Res!Request(k, a, v).kind = k
  BY DEF Res!Request
<1>3. CASE Res!Leave
  BY <1>1, <1>3 DEF Res!Leave, ResTyped
<1>4. CASE Res!Rollback
  BY <1>2, <1>4 DEF Res!Rollback
<1>5. ASSUME NEW a \in Apps, Res!OpenApp(a) PROVE Res!Of("watch")' = Res!Of("watch")
  BY <1>1, <1>2, <1>5 DEF Res!OpenApp, ResTyped
<1>6. ASSUME NEW a \in Apps, Res!ResourceChanges(a) PROVE Res!Of("watch")' = Res!Of("watch")
  BY <1>6, SMTT(60) DEF Res!ResourceChanges
<1>7. ASSUME NEW c \in calls, Res!AppAnswered(c) \/ Res!RefsAnswered(c) \/ Res!StatusAnswered(c)
      PROVE  Res!Of("watch")' = Res!Of("watch")
  BY <1>7 DEF Res!AppAnswered, Res!RefsAnswered, Res!StatusAnswered
<1> QED
  BY <1>3, <1>4, <1>5, <1>6, <1>7

\* What the other actions do to the streams.
LEMMA ResNewStreams ==
    ASSUME ResTyped, Res!Effect, store.selected # None, store.selected = ui.refsOf
    PROVE  \E c \in ResStream :
              /\ Res!Of("watch")' = Res!Of("watch") \cup {c}
              /\ c.app = ui.refsOf /\ c.version = past.version[c.app] - 1 /\ c.open
              /\ \A d \in Res!Of("watch") : c.id # d.id
<1>1. ui.refsOf \in Apps
  BY DEF ResTyped, ResUi
<1>2. PICK c \in ResStream : /\ Res!NewStream(ui.refsOf) = {c}
                             /\ c.app = ui.refsOf /\ c.version = past.version[c.app] - 1 /\ c.open
                             /\ \A d \in Res!Of("watch") : c.id # d.id
  BY <1>1, ResNewStream
<1>3. calls' = calls \cup {c} /\ c.kind = "watch"
  BY <1>2 DEF Res!Effect, ResStream
<1> QED
  BY <1>2, <1>3 DEF Res!Of

\* an event that is delivered brings its stream one version on, and starts the timer
LEMMA ResDelivers ==
    ASSUME ResTyped, NEW c \in calls, Res!Deliver(c)
    PROVE  \E d \in ResStream :
              /\ c \in ResStream /\ c \in Res!Of("watch") /\ calls' = (calls \ {c}) \cup {d}
              /\ Res!Of("watch")' = (Res!Of("watch") \ {c}) \cup {d}
              /\ d.app = c.app /\ d.version = c.version + 1 /\ d.open = c.open /\ d.id = c.id /\ d.due
<1> DEFINE e == [c EXCEPT !.version = @ + 1]
<1>1. c \in Res!Of("watch") /\ c \in ResStream
  BY DEF Res!Deliver, Res!Of, ResTyped, ResRequest
<1>2. /\ e \in ResStream
      /\ e.app = c.app /\ e.version = c.version + 1 /\ e.open = c.open /\ e.id = c.id
  BY <1>1 DEF ResStream
<1>3. calls' = (calls \ {c}) \cup {Res!debounced(e)}
  BY DEF Res!Deliver
<1> HIDE DEF e
<1>4. /\ Res!debounced(e) \in ResStream /\ Res!debounced(e).kind = "watch"
      /\ Res!debounced(e).app = e.app /\ Res!debounced(e).version = e.version
      /\ Res!debounced(e).open = e.open /\ Res!debounced(e).id = e.id /\ Res!debounced(e).due
  BY <1>2 DEF Res!debounced, ResStream
<1> QED
  BY <1>1, <1>2, <1>3, <1>4 DEF Res!Of

\* a watch that breaks off is gone, or goes on closed until its timer
LEMMA ResBreaks ==
    ASSUME ResTyped, NEW c \in calls, Res!Break(c)
    PROVE  /\ c \in ResStream /\ c \in Res!Of("watch")
           /\ past' = [past EXCEPT !.breaks = @ \cup {c.app}]
           /\ \/ Res!Of("watch")' = Res!Of("watch") \ {c}
              \/ \E d \in ResStream : /\ Res!Of("watch")' = (Res!Of("watch") \ {c}) \cup {d}
                                      /\ d.app = c.app /\ d.version = c.version /\ d.id = c.id
<1>1. c \in Res!Of("watch") /\ c \in ResStream
  BY DEF Res!Break, Res!Of, ResTyped, ResRequest
<1>2. /\ [c EXCEPT !.open = FALSE] \in ResStream /\ [c EXCEPT !.open = FALSE].kind = "watch"
      /\ [c EXCEPT !.open = FALSE].app = c.app /\ [c EXCEPT !.open = FALSE].version = c.version
      /\ [c EXCEPT !.open = FALSE].id = c.id
  BY <1>1 DEF ResStream
<1>3. CASE c.due
  BY <1>1, <1>2, <1>3 DEF Res!Break, Res!Of
<1>4. CASE ~c.due
  BY <1>1, <1>4 DEF Res!Break, Res!Of
<1> QED
  BY <1>1, <1>3, <1>4 DEF Res!Break

\* the timer of a closed stream takes it away, that of an open one changes no version
LEMMA ResTimes ==
    ASSUME ResTyped, NEW c \in calls, Res!TimerEnds(c)
    PROVE  /\ c \in ResStream /\ c \in Res!Of("watch")
           /\ ~c.open => Res!Of("watch")' = Res!Of("watch") \ {c}
           /\ c.open => \E d \in ResStream :
                           /\ Res!Of("watch")' = (Res!Of("watch") \ {c}) \cup {d}
                           /\ d.app = c.app /\ d.version = c.version /\ d.id = c.id /\ d.open
<1>1. c \in Res!Of("watch") /\ c \in ResStream
  BY DEF Res!TimerEnds, Res!Of, ResTyped, ResRequest
<1>2. /\ [c EXCEPT !.due = FALSE] \in ResStream /\ [c EXCEPT !.due = FALSE].kind = "watch"
      /\ [c EXCEPT !.due = FALSE].app = c.app /\ [c EXCEPT !.due = FALSE].version = c.version
      /\ [c EXCEPT !.due = FALSE].id = c.id /\ [c EXCEPT !.due = FALSE].open = c.open
  BY <1>1 DEF ResStream
<1>3. Res!Request("status", c.app, past.version[c.app]).kind = "status"
  BY DEF Res!Request
<1>4. CASE c.open
  BY <1>1, <1>2, <1>3, <1>4 DEF Res!TimerEnds, Res!Of
<1>5. CASE ~c.open
  BY <1>1, <1>3, <1>5 DEF Res!TimerEnds, Res!Of
<1> QED
  BY <1>1, <1>4, <1>5

\* The steps that leave the streams alone.
ResQuietStep ==
    \/ Res!Leave \/ Res!Rollback \/ \E a \in Apps : Res!OpenApp(a) \/ Res!ResourceChanges(a)
    \/ \E c \in calls : Res!AppAnswered(c) \/ Res!RefsAnswered(c) \/ Res!StatusAnswered(c)

LEMMA ResInit1 == Res!Init => ResInv1
<1> SUFFICES ASSUME Res!Init PROVE ResInv1
  OBVIOUS
<1>1. ResTyped
  BY ResInitTyped
<1>2. Res!Of("watch") = {}
  BY DEF Res!Init, Res!Of
<1>3. \A a \in Apps : ~ResWatching(a)
  BY DEF Res!Init, ResWatching
<1> QED
  BY <1>1, <1>2, <1>3 DEF Res!Init, Res!NoItems, ResInv1, ResKnown, ResStreams, ResSource, ResWatched

LEMMA ResQuietKeeps1 == ASSUME Res!ConstantsAssumption, ResInv1, ResTyped', ResQuietStep PROVE ResInv1'
<1> USE DEF ResInv1, ResKnown, ResStreams, ResSource, ResWatched
<1>1. Res!Of("watch")' = Res!Of("watch")
  BY ResSameStreams DEF ResQuietStep
<1>2. \A c \in Res!Of("watch") : c \in ResStream
  BY DEF ResTyped, Res!Of, ResRequest
<1>3. CASE Res!Leave
  <2>1. /\ store' = store /\ past'.version = past.version /\ past'.breaks = past.breaks
        /\ \A a \in Apps : ~ResWatching(a)'
    BY <1>3 DEF Res!Leave, ResWatching, ResTyped, ResPast
  <2> QED
    BY <1>1, <2>1
<1>4. CASE Res!Rollback
  <2>1. /\ store'.items = store.items /\ store'.status = store.status
        /\ past'.version = past.version /\ past'.breaks = past.breaks /\ store'.selected = None
    BY <1>4 DEF Res!Rollback, ResTyped, ResPast, ResStore
  <2>2. ASSUME NEW a \in Apps, ResWatching(a)' PROVE FALSE
    BY <2>1, <2>2 DEF ResWatching, Res!ConstantsAssumption
  <2> QED
    BY <1>1, <2>1, <2>2
<1>5. ASSUME NEW b \in Apps, Res!OpenApp(b) PROVE ResInv1'
  <2>1. /\ store'.items \in {store.items, [a \in Apps |-> 0]} /\ store'.status = store.status
        /\ past'.version = past.version /\ past'.breaks = past.breaks /\ store'.selected = None
    BY <1>5 DEF Res!OpenApp, Res!NoItems, ResTyped, ResPast, ResStore
  <2>2. ASSUME NEW a \in Apps, ResWatching(a)' PROVE FALSE
    BY <2>1, <2>2 DEF ResWatching, Res!ConstantsAssumption
  <2>3. \A a \in Apps : store'.items[a] = store.items[a] \/ store'.items[a] = 0
    BY <2>1
  <2>4. \A a \in Apps : past.version[a] \in Nat
    BY DEF ResTyped, ResPast
  <2> QED
    BY <1>1, <2>1, <2>2, <2>3, <2>4
<1>6. ASSUME NEW b \in Apps, Res!ResourceChanges(b) PROVE ResInv1'
  <2>1. /\ store' = store /\ ui' = ui /\ past'.breaks = past.breaks
        /\ \A a \in Apps : past'.version[a] \in Nat /\ past'.version[a] >= past.version[a]
    BY <1>6 DEF Res!ResourceChanges, ResTyped, ResPast
  <2>2. \A a \in Apps : past.version[a] \in Nat /\ store.items[a] \in Nat
    BY DEF ResTyped, ResPast, ResStore
  <2>3. ResKnown'
    BY <1>1, <1>2, <2>1, <2>2 DEF ResTyped, ResStore, ResStream
  <2>4. ResWatched'
    <3>1. ASSUME NEW a \in Apps PROVE ResWatching(a)' <=> ResWatching(a)
      BY <2>1 DEF ResWatching, Res!EffectDue, Res!Depends
    <3>2. ASSUME NEW a \in Apps, ResBehind(a) PROVE ResBehind(a)'
      BY <1>1, <1>2, <2>1, <2>2, <3>2 DEF ResBehind, ResStream
    <3> QED
      BY <2>1, <3>1, <3>2
  <2> QED
    BY <1>1, <2>1, <2>3, <2>4
<1>7. ASSUME NEW c \in calls, Res!AppAnswered(c) PROVE ResInv1'
  <2>1. /\ store'.items = store.items /\ store'.status.of = c.app
        /\ store'.status.version = past.version[c.app] /\ ui' = ui
        /\ past'.version = past.version /\ past'.breaks = past.breaks /\ store'.object = ui.seen[1] + 1
    BY <1>7 DEF Res!AppAnswered, ResTyped, ResPast, ResStore
  <2>2. ASSUME NEW a \in Apps, ResWatching(a)' PROVE FALSE
    <3>1. ui'.seen[1] = store'.object
      BY <2>2 DEF ResWatching, Res!EffectDue, Res!Depends
    <3> QED
      BY <2>1, <3>1 DEF ResTyped, ResUi
  <2>3. c.app \in Apps /\ past.version[c.app] \in Nat
    BY DEF ResTyped, ResPast, ResStream, ResRequest
  <2> QED
    BY <1>1, <2>1, <2>2, <2>3
<1>8. ASSUME NEW c \in calls, Res!RefsAnswered(c) PROVE ResInv1'
  <2>1. /\ store' = store /\ past' = past /\ ~Res!EffectDue /\ ui'.page = ui.page /\ ui'.seen = ui.seen
        /\ ui' = ui \/ ui'.refsOf = c.app
    BY <1>8 DEF Res!RefsAnswered, ResTyped, ResUi
  <2>2. ASSUME NEW a \in Apps, ResWatching(a)' PROVE ResWatching(a)
    <3>1. ui.page = "view" /\ ui.seen = <<store.object, ui'.refsOf>>
      BY <2>1, <2>2 DEF ResWatching, Res!EffectDue, Res!Depends
    <3>2. ui.seen = <<store.object, ui.refsOf>>
      BY <2>1, <3>1 DEF Res!EffectDue, Res!Depends
    <3>3. ui'.refsOf = ui.refsOf
      BY <3>1, <3>2
    <3> QED
      BY <2>1, <2>2, <3>3 DEF ResWatching
  <2> QED
    BY <1>1, <2>1, <2>2 DEF ResBehind
<1>9. ASSUME NEW c \in calls, Res!StatusAnswered(c) PROVE ResInv1'
  <2>1. PICK v \in c.version..past.version[c.app] :
          /\ store' = Res!receiveInstalledPackageStatus(store, c.app, v)
          /\ past' = [past EXCEPT !.stray = @ \/ c.app # ui.app,
                                  !.overtaken = @ \/ (store.status.of = c.app /\ v < store.status.version)]
    BY <1>9 DEF Res!StatusAnswered
  <2>2. c.app \in Apps /\ c.version \in Nat /\ past.version[c.app] \in Nat
    BY DEF ResTyped, ResPast, ResStream, ResRequest
  <2>3. /\ store'.items = store.items /\ store'.selected = store.selected /\ store'.object = store.object
        /\ store'.status = store.status \/ store'.status = [of |-> c.app, version |-> v]
    BY <2>1 DEF Res!receiveInstalledPackageStatus, ResTyped, ResStore
  <2>4. ui' = ui /\ past'.version = past.version /\ past'.breaks = past.breaks
    BY <1>9, <2>1 DEF Res!StatusAnswered, ResTyped, ResPast
  <2>5. \A a \in Apps : (ResWatching(a)' <=> ResWatching(a)) /\ (ResBehind(a)' <=> ResBehind(a))
    BY <1>1, <2>3, <2>4 DEF ResWatching, Res!EffectDue, Res!Depends, ResBehind
  <2>6. store'.status.of # None => store'.status.version <= past.version[store'.status.of]
    BY <2>2, <2>3
  <2> QED
    BY <1>1, <2>3, <2>4, <2>5, <2>6
<1> QED
  BY <1>3, <1>4, <1>5, <1>6, <1>7, <1>8, <1>9 DEF ResQuietStep

LEMMA ResEffectKeeps1 == ASSUME Res!ConstantsAssumption, ResInv1, ResTyped', Res!Effect PROVE ResInv1'
<1> USE DEF ResInv1, ResKnown, ResStreams, ResSource, ResWatched
<1>1. /\ store' = store /\ past' = past
      /\ ui'.page = ui.page /\ ui'.refsOf = ui.refsOf
  BY DEF Res!Effect, ResTyped, ResUi
<1>2. CASE store.selected # None /\ store.selected = ui.refsOf
  <2>1. PICK c \in ResStream :
              /\ Res!Of("watch")' = Res!Of("watch") \cup {c}
              /\ c.app = ui.refsOf /\ c.version = past.version[c.app] - 1 /\ c.open
              /\ \A d \in Res!Of("watch") : c.id # d.id
    BY <1>2, ResNewStreams
  <2>2. c.app \in Apps /\ past.version[c.app] \in Nat
    BY <2>1 DEF ResStream, ResTyped, ResPast
  <2>3. ASSUME NEW a \in Apps, ResWatching(a)' PROVE ResBehind(a)'
    <3>1. c.app = a
      BY <2>1, <2>3, <1>1 DEF ResWatching
    <3>2. c \in Res!Of("watch")' /\ c.version < past.version[a]
      BY <2>1, <2>2, <3>1
    <3> QED
      BY <1>1, <2>1, <3>1, <3>2 DEF ResBehind
  <2>4. ResSource'
    BY <1>1, <2>1
  <2>5. ResKnown'
    BY <1>1, <2>1, <2>2
  <2>6. ResStreams'
    BY <1>1, <2>1
  <2> QED
    BY <2>3, <2>4, <2>5, <2>6
<1>3. CASE ~(store.selected # None /\ store.selected = ui.refsOf)
  <2>1. calls' = calls
    BY <1>3 DEF Res!Effect
  <2>2. \A a \in Apps : ~ResWatching(a)'
    BY <1>1, <1>3 DEF ResWatching, Res!ConstantsAssumption
  <2> QED
    BY <1>1, <2>1, <2>2 DEF Res!Of
<1> QED
  BY <1>2, <1>3

LEMMA ResDeliverKeeps1 == ASSUME ResInv1, ResTyped', NEW c \in calls, Res!Deliver(c) PROVE ResInv1'
<1> USE DEF ResInv1, ResKnown, ResStreams, ResSource, ResWatched
<1>1. PICK d \in ResStream :
              /\ c \in ResStream /\ c \in Res!Of("watch")
              /\ Res!Of("watch")' = (Res!Of("watch") \ {c}) \cup {d}
              /\ d.app = c.app /\ d.version = c.version + 1 /\ d.open = c.open /\ d.id = c.id /\ d.due
  BY ResDelivers
<1>2. /\ ui' = ui /\ past' = past /\ c.open /\ c.version < past.version[c.app]
      /\ store' = [store EXCEPT !.items[c.app] = c.version + 1]
  BY DEF Res!Deliver, Res!receiveResource
<1>3. /\ store'.selected = store.selected /\ store'.object = store.object /\ store'.status = store.status
      /\ store'.items[c.app] = c.version + 1
      /\ \A a \in Apps : a # c.app => store'.items[a] = store.items[a]
  BY <1>1, <1>2 DEF ResTyped, ResStore, ResStream
<1>4. c.app \in Apps /\ c.version \in Nat /\ past.version[c.app] \in Nat
  BY <1>1 DEF ResTyped, ResPast, ResStream
<1>5. ResKnown'
  BY <1>1, <1>2, <1>3, <1>4
<1>6. ResStreams'
  <2>1. \A e \in Res!Of("watch") \ {c} : e.id # d.id
    BY <1>1
  <2>2. \A e, f \in Res!Of("watch")' : e.id = f.id => e = f
    BY <1>1, <2>1
  <2>3. \A e \in Res!Of("watch")' : e.app \notin past.breaks => e.open
    BY <1>1
  <2> QED
    BY <1>2, <2>2, <2>3
<1>7. ASSUME NEW a \in Apps, store'.items[a] # 0, a \notin past'.breaks
      PROVE  \E e \in Res!Of("watch")' : e.app = a /\ e.open /\ e.version = store'.items[a]
  <2>1. CASE a = c.app
    BY <1>1, <1>2, <1>3, <2>1, ZenonT(120)
  <2>2. CASE a # c.app
    <3>1. PICK e \in Res!Of("watch") : e.app = a /\ e.open /\ e.version = store.items[a]
      BY <1>2, <1>3, <1>7, <2>2
    <3> QED
      BY <1>1, <1>3, <2>2, <3>1
  <2> QED
    BY <2>1, <2>2
<1>8. ASSUME NEW a \in Apps, ResWatching(a)' PROVE store'.items[a] # 0 \/ ResBehind(a)'
  <2>1. ResWatching(a)
    BY <1>2, <1>3, <1>8 DEF ResWatching, Res!EffectDue, Res!Depends
  <2>2. CASE a = c.app
    BY <1>3, <1>4, <2>2
  <2>3. CASE a # c.app
    BY <1>1, <1>2, <1>3, <2>1, <2>3 DEF ResBehind
  <2> QED
    BY <2>2, <2>3
<1> QED
  BY <1>5, <1>6, <1>7, <1>8

LEMMA ResBreakKeeps1 == ASSUME ResInv1, ResTyped', NEW c \in calls, Res!Break(c) PROVE ResInv1'
<1> USE DEF ResInv1, ResKnown, ResStreams, ResSource, ResWatched
<1>1. /\ c \in ResStream /\ c \in Res!Of("watch")
      /\ past' = [past EXCEPT !.breaks = @ \cup {c.app}]
      /\ \/ Res!Of("watch")' = Res!Of("watch") \ {c}
         \/ \E d \in ResStream : /\ Res!Of("watch")' = (Res!Of("watch") \ {c}) \cup {d}
                                 /\ d.app = c.app /\ d.version = c.version /\ d.id = c.id
  BY ResBreaks
<1>2. store' = store /\ ui' = ui
  BY DEF Res!Break
<1>3. past'.version = past.version /\ past'.breaks = past.breaks \cup {c.app}
  BY <1>1 DEF ResTyped, ResPast
<1>4. \A e \in Res!Of("watch") : e.app # c.app => e \in Res!Of("watch")'
  BY <1>1
<1>5. ResKnown' /\ ResStreams'
  BY <1>1, <1>2, <1>3
<1>6. ASSUME NEW a \in Apps, a \notin past'.breaks
      PROVE  a # c.app /\ a \notin past.breaks
  BY <1>3, <1>6
<1>7. ResSource'
  BY <1>2, <1>3, <1>4, <1>6
<1>8. ASSUME NEW a \in Apps, ResWatching(a)' PROVE store'.items[a] # 0 \/ ResBehind(a)'
  <2>1. ResWatching(a) /\ a # c.app
    BY <1>2, <1>3, <1>8 DEF ResWatching, Res!EffectDue, Res!Depends
  <2> QED
    BY <1>2, <1>3, <1>4, <2>1 DEF ResBehind
<1> QED
  BY <1>5, <1>7, <1>8

LEMMA ResTimerKeeps1 == ASSUME ResInv1, ResTyped', NEW c \in calls, Res!TimerEnds(c) PROVE ResInv1'
<1> USE DEF ResInv1, ResKnown, ResStreams, ResSource, ResWatched
<1>1. /\ c \in ResStream /\ c \in Res!Of("watch")
      /\ ~c.open => Res!Of("watch")' = Res!Of("watch") \ {c}
      /\ c.open => \E d \in ResStream :
                      /\ Res!Of("watch")' = (Res!Of("watch") \ {c}) \cup {d}
                      /\ d.app = c.app /\ d.version = c.version /\ d.id = c.id /\ d.open
  BY ResTimes
<1>2. store' = store /\ ui' = ui /\ past' = past
  BY DEF Res!TimerEnds
<1>3. ResKnown' /\ ResStreams'
  BY <1>1, <1>2
<1>4. ASSUME NEW e \in Res!Of("watch"), e.open
      PROVE  \E d \in Res!Of("watch")' : d.app = e.app /\ d.version = e.version /\ d.open
  BY <1>1, <1>4
<1>5. ResSource'
  BY <1>2, <1>4
<1>6. \A a \in Apps : (ResWatching(a)' <=> ResWatching(a)) /\ (ResBehind(a) => ResBehind(a)')
  BY <1>2, <1>4 DEF ResWatching, Res!EffectDue, Res!Depends, ResBehind
<1> QED
  BY <1>2, <1>3, <1>5, <1>6

LEMMA ResNext1 == ASSUME Res!ConstantsAssumption, ResInv1, [Res!Next]_Res!vars PROVE ResInv1'
<1>1. ResTyped'
  BY ResNextTyped DEF ResInv1
<1>2. CASE UNCHANGED Res!vars
  BY <1>2 DEF ResInv1, ResTyped, ResKnown, ResStreams, ResSource, ResWatched, ResWatching, ResBehind,
              Res!vars, Res!EffectDue, Res!Depends, Res!Of
<1> QED
  BY <1>1, <1>2, ResQuietKeeps1, ResEffectKeeps1, ResDeliverKeeps1, ResBreakKeeps1, ResTimerKeeps1
     DEF Res!Next, ResQuietStep

\* what ShownIsCurrent says follows from the first part of the invariant
LEMMA ResShows == ASSUME Res!ConstantsAssumption, ResInv1 PROVE Res!ShownIsCurrent
<1> SUFFICES ASSUME Res!Quiet PROVE store.items[ui.app] = past.version[ui.app]
  BY DEF Res!ShownIsCurrent
<1>1. ui.app \in Apps /\ ResWatching(ui.app)
  BY DEF Res!Quiet, ResInv1, ResTyped, ResWatching
<1>2. \A c \in Res!Of("watch") : c.app = ui.app => c.version = past.version[ui.app]
  BY DEF Res!Quiet, Res!Of
<1>3. past.version[ui.app] \in Nat
  BY <1>1 DEF ResInv1, ResTyped, ResPast
<1>4. store.items[ui.app] # 0
  BY <1>1, <1>2, <1>3 DEF ResInv1, ResWatched, ResBehind
<1> QED
  BY <1>1, <1>2, <1>4 DEF ResInv1, ResSource, Res!Quiet

-----------------------------------------------------------------------------
(* ... and its status *)

\* A request of the page that is open is for its application.
ResMine == \A c \in calls : c.kind \in {"app", "refs"} /\ c.mine => c.app = ui.app

\* What is selected, and the status, are of the page.
ResOfPage == ui.page = "view" /\ store.selected # None /\ ~past.stray =>
                store.selected = ui.app /\ store.status.of = ui.app

\* A stream will ask for the status, or a request for it will see what there is.
ResDue(a)   == \E c \in Res!Of("watch") : c.app = a /\ c.open /\ (c.version < past.version[a] \/ c.due)
ResAsked(a) == \E c \in Res!Of("status") : c.app = a /\ c.version = past.version[a]
ResTold ==
    \A a \in Apps : ResWatching(a) /\ ~past.stray /\ ~past.overtaken =>
        store.status.version = past.version[a] \/ ResDue(a) \/ ResAsked(a)

ResInv == ResInv1 /\ ResMine /\ ResOfPage /\ ResTold

LEMMA ResInitHolds == Res!Init => ResInv
<1> SUFFICES ASSUME Res!Init PROVE ResInv
  OBVIOUS
<1>1. ResInv1
  BY ResInit1
<1> QED
  BY <1>1 DEF Res!Init, ResInv, ResMine, ResOfPage, ResTold, ResWatching

\* which requests are those of the page that is shown
LEMMA ResMineKept == ASSUME ResInv, [Res!Next]_Res!vars PROVE ResMine'
<1> USE DEF ResMine
<1>0. ResMine /\ calls \subseteq ResRequest \cup ResStream
  BY DEF ResInv, ResInv1, ResTyped
<1>1. CASE Res!Leave
  <2>1. \A c \in Res!Forsake(calls) : c.kind \in {"app", "refs"} => ~c.mine
    BY <1>0 DEF Res!Forsake, ResRequest, ResStream
  <2> QED
    BY <1>1, <2>1 DEF Res!Leave
<1>2. ASSUME NEW a \in Apps, Res!OpenApp(a) PROVE ResMine'
  <2>1. \A c \in Res!Forsake(calls) : c.kind \in {"app", "refs"} => ~c.mine
    BY <1>0 DEF Res!Forsake, ResRequest, ResStream
  <2>2. \A k : Res!Request(k, a, 0).app = a
    BY DEF Res!Request
  <2>3. ui'.app = a
    BY <1>2 DEF Res!OpenApp
  <2> QED
    BY <1>2, <2>1, <2>2, <2>3 DEF Res!OpenApp
<1>3. CASE Res!Rollback
  BY <1>0, <1>3 DEF Res!Rollback, Res!Request
<1>4. CASE Res!Effect
  <2>1. \A c \in calls' : c \in calls \/ c.kind = "watch"
    BY <1>4 DEF Res!Effect, Res!NewStream
  <2>2. ui'.app = ui.app
    BY <1>4 DEF Res!Effect, ResInv, ResInv1, ResTyped, ResUi
  <2> QED
    BY <1>0, <2>1, <2>2
<1>5. ASSUME NEW a \in Apps, Res!ResourceChanges(a) PROVE ResMine'
  BY <1>0, <1>5 DEF Res!ResourceChanges
<1>6. ASSUME NEW c \in calls, Res!AppAnswered(c) \/ Res!StatusAnswered(c) PROVE ResMine'
  BY <1>0, <1>6 DEF Res!AppAnswered, Res!StatusAnswered
<1>7. ASSUME NEW c \in calls, Res!RefsAnswered(c) PROVE ResMine'
  <2>1. ui'.app = ui.app
    BY <1>7 DEF Res!RefsAnswered, ResInv, ResInv1, ResTyped, ResUi
  <2> QED
    BY <1>0, <1>7, <2>1 DEF Res!RefsAnswered
<1>8. ASSUME NEW c \in calls, Res!Deliver(c) PROVE ResMine'
  <2>1. PICK d \in ResStream : calls' = (calls \ {c}) \cup {d}
    BY <1>8, ResDelivers DEF ResInv, ResInv1
  <2>2. ui' = ui /\ d.kind = "watch"
    BY <1>8 DEF Res!Deliver, ResStream
  <2> QED
    BY <1>0, <2>1, <2>2
<1>9. ASSUME NEW c \in calls, Res!Break(c) PROVE ResMine'
  <2>1. ui' = ui /\ \A d \in calls' : d \in calls \/ d = [c EXCEPT !.open = FALSE]
    BY <1>9 DEF Res!Break
  <2>2. [c EXCEPT !.open = FALSE].kind = "watch"
    BY <1>0, <1>9 DEF Res!Break, Res!Of, ResRequest, ResStream
  <2> QED
    BY <1>0, <2>1, <2>2
<1>10. ASSUME NEW c \in calls, Res!TimerEnds(c) PROVE ResMine'
  <2>1. ui' = ui /\ \A d \in calls' : \/ d \in calls \/ d = [c EXCEPT !.due = FALSE]
                                      \/ d = Res!Request("status", c.app, past.version[c.app])
    BY <1>10 DEF Res!TimerEnds
  <2>2. [c EXCEPT !.due = FALSE].kind = "watch"
    BY <1>0, <1>10 DEF Res!TimerEnds, Res!Of, ResRequest, ResStream
  <2>3. Res!Request("status", c.app, past.version[c.app]).kind = "status"
    BY DEF Res!Request
  <2> QED
    BY <1>0, <2>1, <2>2, <2>3
<1>11. CASE UNCHANGED Res!vars
  BY <1>0, <1>11 DEF Res!vars
<1> QED
  BY <1>1, <1>2, <1>3, <1>4, <1>5, <1>6, <1>7, <1>8, <1>9, <1>10, <1>11 DEF Res!Next

LEMMA ResOfPageKept == ASSUME ResInv, [Res!Next]_Res!vars PROVE ResOfPage'
<1> USE DEF ResOfPage
<1>0. ResOfPage /\ ResTyped
  BY DEF ResInv, ResInv1
<1>1. CASE Res!Leave
  BY <1>1 DEF Res!Leave
<1>2. ASSUME NEW a \in Apps, Res!OpenApp(a) PROVE ResOfPage'
  <2>1. store'.selected = None
    BY <1>0, <1>2 DEF Res!OpenApp, ResTyped, ResStore
  <2> QED
    BY <2>1
<1>3. CASE Res!Rollback
  <2>1. store'.selected = None
    BY <1>0, <1>3 DEF Res!Rollback, ResTyped, ResStore
  <2> QED
    BY <2>1
<1>4. CASE Res!Effect
  <2>1. store' = store /\ past' = past /\ ui'.page = ui.page /\ ui'.app = ui.app
    BY <1>0, <1>4 DEF Res!Effect, ResTyped, ResUi
  <2> QED
    BY <1>0, <2>1
<1>5. ASSUME NEW a \in Apps, Res!ResourceChanges(a) PROVE ResOfPage'
  <2>1. store' = store /\ ui' = ui /\ past'.stray = past.stray
    BY <1>0, <1>5 DEF Res!ResourceChanges, ResTyped, ResPast
  <2> QED
    BY <1>0, <2>1
<1>6. ASSUME NEW c \in calls, Res!AppAnswered(c) PROVE ResOfPage'
  <2>1. store'.selected = c.app /\ store'.status.of = c.app /\ ui' = ui
    BY <1>0, <1>6 DEF Res!AppAnswered, ResTyped, ResStore
  <2>2. past'.stray = (past.stray \/ (~c.mine /\ c.app # ui.app))
    BY <1>0, <1>6 DEF Res!AppAnswered, ResTyped, ResPast
  <2>3. c.mine => c.app = ui.app
    BY <1>6 DEF Res!AppAnswered, Res!Of, ResInv, ResMine
  <2> QED
    BY <2>1, <2>2, <2>3
<1>7. ASSUME NEW c \in calls, Res!RefsAnswered(c) PROVE ResOfPage'
  <2>1. store' = store /\ past' = past /\ ui'.page = ui.page /\ ui'.app = ui.app
    BY <1>0, <1>7 DEF Res!RefsAnswered, ResTyped, ResUi
  <2> QED
    BY <1>0, <2>1
<1>8. ASSUME NEW c \in calls, Res!StatusAnswered(c) PROVE ResOfPage'
  <2>1. PICK v \in c.version..past.version[c.app] :
          /\ store' = Res!receiveInstalledPackageStatus(store, c.app, v)
          /\ past' = [past EXCEPT !.stray = @ \/ c.app # ui.app,
                                  !.overtaken = @ \/ (store.status.of = c.app /\ v < store.status.version)]
    BY <1>8 DEF Res!StatusAnswered
  <2>2. /\ store'.selected = store.selected /\ ui' = ui
        /\ store'.status = store.status \/ store'.status.of = c.app
    BY <1>0, <1>8, <2>1 DEF Res!StatusAnswered, Res!receiveInstalledPackageStatus, ResTyped, ResStore
  <2>3. past'.stray = (past.stray \/ c.app # ui.app)
    BY <1>0, <2>1 DEF ResTyped, ResPast
  <2> QED
    BY <1>0, <2>2, <2>3
<1>9. ASSUME NEW c \in calls, Res!Deliver(c) PROVE ResOfPage'
  <2>1. ui' = ui /\ past' = past /\ store'.selected = store.selected /\ store'.status = store.status
    BY <1>0, <1>9 DEF Res!Deliver, Res!receiveResource, ResTyped, ResStore
  <2> QED
    BY <1>0, <2>1
<1>10. ASSUME NEW c \in calls, Res!Break(c) PROVE ResOfPage'
  <2>1. ui' = ui /\ store' = store /\ past'.stray = past.stray
    BY <1>0, <1>10 DEF Res!Break, ResTyped, ResPast
  <2> QED
    BY <1>0, <2>1
<1>11. ASSUME NEW c \in calls, Res!TimerEnds(c) PROVE ResOfPage'
  BY <1>0, <1>11 DEF Res!TimerEnds
<1>12. CASE UNCHANGED Res!vars
  BY <1>0, <1>12 DEF Res!vars
<1> QED
  BY <1>1, <1>2, <1>3, <1>4, <1>5, <1>6, <1>7, <1>8, <1>9, <1>10, <1>11, <1>12 DEF Res!Next

LEMMA ResToldKept == ASSUME Res!ConstantsAssumption, ResInv, [Res!Next]_Res!vars PROVE ResTold'
<1>0. ResTyped /\ ResTyped' /\ ResInv1
  BY ResNextTyped DEF ResInv, ResInv1
<1> SUFFICES ASSUME NEW a \in Apps, ResWatching(a)', ~past'.stray, ~past'.overtaken
             PROVE  store'.status.version = past'.version[a] \/ ResDue(a)' \/ ResAsked(a)'
  BY DEF ResTold
<1>a. ui'.page = "view" /\ ui'.seen = <<store'.object, ui'.refsOf>> /\ store'.selected = a
      /\ ui'.refsOf = a /\ a \notin past'.breaks /\ a # None
  BY DEF ResWatching, Res!EffectDue, Res!Depends, Res!ConstantsAssumption
<1>b. past.version[a] \in Nat
  BY <1>0 DEF ResTyped, ResPast
\* How it was before, when the page and what is selected stay.
<1>c. ASSUME store' = store, ui' = ui, past'.stray = past.stray, past'.overtaken = past.overtaken,
             past.breaks \subseteq past'.breaks
      PROVE  /\ ResWatching(a)
             /\ store.status.version = past.version[a] \/ ResDue(a) \/ ResAsked(a)
  <2>1. ResWatching(a)
    BY <1>a, <1>c DEF ResWatching, Res!EffectDue, Res!Depends
  <2> QED
    BY <1>c, <2>1 DEF ResInv, ResTold
<1>1. CASE Res!Leave
  BY <1>1, <1>a DEF Res!Leave
<1>2. ASSUME NEW b \in Apps, Res!OpenApp(b) PROVE FALSE
  BY <1>0, <1>2, <1>a DEF Res!OpenApp, ResTyped, ResStore
<1>3. CASE Res!Rollback
  BY <1>0, <1>3, <1>a DEF Res!Rollback, ResTyped, ResStore
<1>4. CASE Res!Effect
  <2>1. store' = store /\ past' = past /\ ui'.refsOf = ui.refsOf
    BY <1>0, <1>4 DEF Res!Effect, ResTyped, ResUi
  <2>2. PICK c \in ResStream :
              /\ Res!Of("watch")' = Res!Of("watch") \cup {c}
              /\ c.app = ui.refsOf /\ c.version = past.version[c.app] - 1 /\ c.open
              /\ \A d \in Res!Of("watch") : c.id # d.id
    BY <1>0, <1>4, <1>a, <2>1, ResNewStreams
  <2> QED
    BY <1>a, <1>b, <2>1, <2>2 DEF ResDue
<1>5. ASSUME NEW b \in Apps, Res!ResourceChanges(b) PROVE ResDue(a)' \/ ResAsked(a)'
                                                    \/ store'.status.version = past'.version[a]
  <2>1. /\ store' = store /\ ui' = ui /\ calls' = calls
        /\ past'.stray = past.stray /\ past'.overtaken = past.overtaken /\ past'.breaks = past.breaks
        /\ past'.version = [past.version EXCEPT ![b] = @ + 1]
    BY <1>0, <1>5 DEF Res!ResourceChanges, ResTyped, ResPast
  <2>2. /\ ResWatching(a)
        /\ store.status.version = past.version[a] \/ ResDue(a) \/ ResAsked(a)
    BY <1>c, <2>1
  <2>3. \A e \in Res!Of("watch") : e \in ResStream
    BY <1>0 DEF ResTyped, Res!Of, ResRequest
  <2>4. CASE a = b
    <3>1. past'.version[a] = past.version[a] + 1
      BY <1>0, <2>1, <2>4 DEF ResTyped, ResPast
    <3>2. PICK e \in Res!Of("watch") : e.app = a /\ e.open
      BY <1>0, <2>2 DEF ResInv1, ResWatched, ResSource, ResBehind, ResWatching
    <3>3. e.version < past'.version[a]
      BY <1>0, <1>b, <2>3, <3>1, <3>2 DEF ResInv1, ResKnown, ResStream
    <3> QED
      BY <2>1, <3>2, <3>3 DEF ResDue, Res!Of
  <2>5. CASE a # b
    <3>1. past'.version[a] = past.version[a]
      BY <1>0, <2>1, <2>5 DEF ResTyped, ResPast
    <3> QED
      BY <2>1, <2>2, <3>1 DEF ResDue, ResAsked, Res!Of
  <2> QED
    BY <2>4, <2>5
<1>6. ASSUME NEW c \in calls, Res!AppAnswered(c) PROVE FALSE
  <2>1. store'.object = ui.seen[1] + 1 /\ ui' = ui /\ ui.seen[1] \in Nat
    BY <1>0, <1>6 DEF Res!AppAnswered, ResTyped, ResStore, ResUi
  <2>2. ui'.seen[1] = store'.object
    BY <1>a
  <2> QED
    BY <2>1, <2>2
<1>7. ASSUME NEW c \in calls, Res!RefsAnswered(c)
      PROVE  store'.status.version = past'.version[a] \/ ResDue(a)' \/ ResAsked(a)'
  <2>1. /\ store' = store /\ past' = past /\ ~Res!EffectDue /\ ui'.page = ui.page /\ ui'.seen = ui.seen
        /\ calls' = calls \ {c} /\ c.kind = "refs"
    BY <1>0, <1>7 DEF Res!RefsAnswered, Res!Of, ResTyped, ResUi
  <2>2. ui.seen = <<store.object, ui.refsOf>>
    BY <2>1, <1>a DEF Res!EffectDue, Res!Depends
  <2>3. ResWatching(a)
    BY <1>a, <2>1, <2>2 DEF ResWatching, Res!EffectDue, Res!Depends
  <2>4. store.status.version = past.version[a] \/ ResDue(a) \/ ResAsked(a)
    BY <2>1, <2>3 DEF ResInv, ResTold
  <2> QED
    BY <2>1, <2>4 DEF ResDue, ResAsked, Res!Of
<1>8. ASSUME NEW c \in calls, Res!StatusAnswered(c)
      PROVE  store'.status.version = past'.version[a] \/ ResDue(a)' \/ ResAsked(a)'
  <2>1. PICK v \in c.version..past.version[c.app] :
          /\ store' = Res!receiveInstalledPackageStatus(store, c.app, v)
          /\ past' = [past EXCEPT !.stray = @ \/ c.app # ui.app,
                                  !.overtaken = @ \/ (store.status.of = c.app /\ v < store.status.version)]
    BY <1>8 DEF Res!StatusAnswered
  <2>2. c \in ResRequest /\ c.kind = "status"
    BY <1>0, <1>8 DEF Res!StatusAnswered, Res!Of, ResTyped, ResStream
  <2>3. /\ past'.stray = (past.stray \/ c.app # ui.app)
        /\ past'.overtaken = (past.overtaken \/ (store.status.of = c.app /\ v < store.status.version))
        /\ past'.version = past.version /\ past'.breaks = past.breaks
    BY <1>0, <2>1 DEF ResTyped, ResPast
  <2>4. ui' = ui /\ calls' = calls \ {c}
    BY <1>8 DEF Res!StatusAnswered
  <2>5. store'.selected = store.selected /\ store'.object = store.object
    BY <1>0, <2>1 DEF Res!receiveInstalledPackageStatus, ResTyped, ResStore
  <2>6. ResWatching(a)
    BY <1>a, <2>3, <2>4, <2>5 DEF ResWatching, Res!EffectDue, Res!Depends
  <2>7. ui.app = a /\ store.status.of = a /\ c.app = a
    BY <1>a, <2>3, <2>4, <2>5 DEF ResInv, ResOfPage
  <2>8. store'.status.version = v
    BY <1>0, <1>a, <2>1, <2>5 DEF Res!receiveInstalledPackageStatus, ResTyped, ResStore
  <2>9. store.status.version <= v /\ store.status.version \in Nat /\ v \in Nat /\ v <= past.version[a]
        /\ c.version <= v
    <3>1. store.status.version \in Nat /\ c.version \in Nat
      BY <1>0, <2>2 DEF ResTyped, ResStore, ResRequest
    <3>2. v \in c.version..past.version[a] /\ ~(v < store.status.version)
      BY <2>1, <2>3, <2>7
    <3> QED
      BY <1>b, <3>1, <3>2
  <2>10. store.status.version = past.version[a] \/ ResDue(a) \/ ResAsked(a)
    BY <2>3, <2>6 DEF ResInv, ResTold
  <2>11. CASE store.status.version = past.version[a]
    BY <1>b, <2>3, <2>8, <2>9, <2>11
  <2>12. CASE ResDue(a)
    BY <2>2, <2>3, <2>4, <2>12 DEF ResDue, Res!Of
  <2>13. CASE ResAsked(a)
    <3>1. PICK d \in Res!Of("status") : d.app = a /\ d.version = past.version[a]
      BY <2>13 DEF ResAsked
    <3>2. CASE d = c
      BY <1>b, <2>2, <2>3, <2>8, <2>9, <3>1, <3>2 DEF ResRequest
    <3>3. CASE d # c
      BY <2>3, <2>4, <3>1, <3>3 DEF ResAsked, Res!Of
    <3> QED
      BY <3>2, <3>3
  <2> QED
    BY <2>10, <2>11, <2>12, <2>13
<1>9. ASSUME NEW c \in calls, Res!Deliver(c)
      PROVE  store'.status.version = past'.version[a] \/ ResDue(a)' \/ ResAsked(a)'
  <2>1. PICK d \in ResStream :
              /\ c \in ResStream /\ c \in Res!Of("watch")
              /\ Res!Of("watch")' = (Res!Of("watch") \ {c}) \cup {d}
              /\ d.app = c.app /\ d.version = c.version + 1 /\ d.open = c.open /\ d.id = c.id /\ d.due
    BY <1>0, <1>9, ResDelivers
  <2>2. /\ ui' = ui /\ past' = past /\ c.open /\ calls \ {c} \subseteq calls'
        /\ store'.selected = store.selected /\ store'.object = store.object /\ store'.status = store.status
    BY <1>0, <1>9 DEF Res!Deliver, Res!receiveResource, ResTyped, ResStore
  <2>3. ResWatching(a)
    BY <1>a, <2>2 DEF ResWatching, Res!EffectDue, Res!Depends
  <2>4. store.status.version = past.version[a] \/ ResDue(a) \/ ResAsked(a)
    BY <2>2, <2>3 DEF ResInv, ResTold
  <2>5. CASE c.app = a
    BY <2>1, <2>2, <2>5 DEF ResDue
  <2>6. CASE c.app # a
    BY <2>1, <2>2, <2>4, <2>6 DEF ResDue, ResAsked, Res!Of
  <2> QED
    BY <2>5, <2>6
<1>10. ASSUME NEW c \in calls, Res!Break(c)
      PROVE  store'.status.version = past'.version[a] \/ ResDue(a)' \/ ResAsked(a)'
  <2>1. /\ past' = [past EXCEPT !.breaks = @ \cup {c.app}] /\ c \in Res!Of("watch")
        /\ Res!Of("watch") \ {c} \subseteq Res!Of("watch")'
    BY <1>0, <1>10, ResBreaks
  <2>2. store' = store /\ ui' = ui /\ calls \ {c} \subseteq calls'
    BY <1>10 DEF Res!Break
  <2>3. /\ past'.breaks = past.breaks \cup {c.app} /\ past'.version = past.version
        /\ past'.stray = past.stray /\ past'.overtaken = past.overtaken
    BY <1>0, <2>1 DEF ResTyped, ResPast
  <2>4. store.status.version = past.version[a] \/ ResDue(a) \/ ResAsked(a)
    BY <1>c, <2>2, <2>3
  <2>5. c.app # a
    BY <1>a, <2>3
  <2> QED
    BY <2>1, <2>2, <2>3, <2>4, <2>5 DEF ResDue, ResAsked, Res!Of
<1>11. ASSUME NEW c \in calls, Res!TimerEnds(c)
      PROVE  store'.status.version = past'.version[a] \/ ResDue(a)' \/ ResAsked(a)'
  <2>1. c \in Res!Of("watch") /\ Res!Of("watch") \ {c} \subseteq Res!Of("watch")'
    BY <1>0, <1>11, ResTimes
  <2>2. store' = store /\ ui' = ui /\ past' = past /\ calls \ {c} \subseteq calls'
        /\ Res!Request("status", c.app, past.version[c.app]) \in calls'
    BY <1>11 DEF Res!TimerEnds
  <2>3. store.status.version = past.version[a] \/ ResDue(a) \/ ResAsked(a)
    BY <1>c, <2>2
  <2>4. CASE c.app = a
    BY <2>2, <2>4 DEF ResAsked, Res!Of, Res!Request
  <2>5. CASE c.app # a
    BY <2>1, <2>2, <2>3, <2>5 DEF ResDue, ResAsked, Res!Of
  <2> QED
    BY <2>4, <2>5
<1>12. CASE UNCHANGED Res!vars
  <2>1. store.status.version = past.version[a] \/ ResDue(a) \/ ResAsked(a)
    BY <1>c, <1>12 DEF Res!vars
  <2> QED
    BY <1>12, <2>1 DEF Res!vars, ResDue, ResAsked, Res!Of
<1> QED
  BY <1>1, <1>2, <1>3, <1>4, <1>5, <1>6, <1>7, <1>8, <1>9, <1>10, <1>11, <1>12 DEF Res!Next

LEMMA ResFresh == ASSUME Res!ConstantsAssumption, ResInv PROVE Res!StatusIsFresh
<1> SUFFICES ASSUME Res!Quiet, ~past.stray, ~past.overtaken
             PROVE  store.status = [of |-> ui.app, version |-> past.version[ui.app]]
  BY DEF Res!StatusIsFresh
<1>1. ui.app \in Apps /\ ui.app # None /\ ResWatching(ui.app) /\ store.selected = ui.app /\ ui.page = "view"
  BY DEF Res!Quiet, ResInv, ResInv1, ResTyped, ResWatching, Res!ConstantsAssumption
<1>2. store.status.of = ui.app
  BY <1>1 DEF ResInv, ResOfPage
<1>3. ~ResDue(ui.app) /\ ~ResAsked(ui.app)
  <2>1. \A c \in calls : c.kind = "watch" /\ c.version = past.version[c.app] /\ ~c.due
    BY DEF Res!Quiet
  <2>2. past.version[ui.app] \in Nat
    BY <1>1 DEF ResInv, ResInv1, ResTyped, ResPast
  <2> QED
    BY <2>1, <2>2 DEF ResDue, ResAsked, Res!Of
<1>4. store.status.version = past.version[ui.app]
  BY <1>1, <1>3 DEF ResInv, ResTold
<1> QED
  BY <1>2, <1>4 DEF ResInv, ResInv1, ResTyped, ResStore

LEMMA ResNextHolds == ASSUME Res!ConstantsAssumption, ResInv, [Res!Next]_Res!vars PROVE ResInv'
  BY ResNext1, ResMineKept, ResOfPageKept, ResToldKept DEF ResInv

LEMMA ResHolds == ASSUME Res!ConstantsAssumption, ResInv PROVE Res!ShownIsCurrent /\ Res!StatusIsFresh
  BY ResShows, ResFresh DEF ResInv

LEMMA ResTypes == ASSUME ResInv PROVE Res!TypeOK
<1> USE DEF ResInv, ResInv1
<1>1. \A a \in Apps : store.items[a] \in 0..past.version[a]
  BY DEF ResKnown, ResTyped, ResStore, ResPast
<1>2. \A c, d \in Res!Of("watch") : c.id = d.id => c = d
  BY DEF ResStreams
<1> QED
  BY <1>1, <1>2 DEF Res!TypeOK, ResTyped, ResStore, ResUi

-----------------------------------------------------------------------------
(* The page of repositories: the invariant is RepInv. *)

RepAll   == Repos!Repos
RepLists == [RepAll -> Nat]
RepModals == [of : {"none", "add", "edit", "delete", "strange"}, repo : RepAll \cup {None}]
RepStore == [isFetching : BOOLEAN, errors : SUBSET {"fetch", "create", "update", "delete"},
             detail : RepAll \cup {None}, list : RepLists]
RepUi    == [open : BOOLEAN, ns : Namespaces, allNS : BOOLEAN, modal : Repos!Modals \cup {Repos!NoModal}]
RepReads == {"list", "first", "second"}
RepCalls == [kind : RepReads \cup {"permissions", "detail", "add", "added", "update", "delete"},
             ns : Namespaces \cup {All}, repo : RepAll \cup {None}, first : RepLists, as : RepModals]
RepPast  == [repos : SUBSET RepAll, moves : Nat, errors : 0..Max.repositories.errors,
             strange : BOOLEAN, mixed : BOOLEAN]

RepTyped ==
    /\ store \in RepStore /\ ui \in RepUi /\ past \in RepPast /\ calls \subseteq RepCalls
    /\ \A c \in calls : c.repo = None <=> c.kind \in RepReads \cup {"permissions"}
    /\ \A e, f \in store.errors \ {"fetch"} : e = f

\* The detail that a form is filled with is of what it was opened for.
RepFilled ==
    ui.modal.of = "edit" /\ ~past.strange /\ store.detail # None => store.detail = ui.modal.repo

RepAdded(cs) == {c \in cs : c.kind = "added"}

\* A list is right if it has those there are, once, but for those whose detail is asked for.
RepRight(l, rs, cs) ==
    /\ \A r \in RepAll : l[r] <= 1
    /\ \A r \in RepAll : l[r] > 0 => r \in rs /\ \A c \in RepAdded(cs) : c.repo # r
    /\ \A r \in rs : (\A q \in rs : q.name = r.name => q = r) =>
          l[r] > 0 \/ \E c \in RepAdded(cs) : c.repo = r
    /\ \A c, d \in RepAdded(cs) : c.repo = d.repo => c = d
    /\ \A c \in RepAdded(cs) : c.repo \in rs

\* The page has the right list, or asks for it.
RepListed ==
    ui.open /\ ~past.mixed /\ past.errors = 0 =>
        \/ \E c \in calls : c.kind \in RepReads
        \/ RepRight(store.list, past.repos, calls)

\* The half of a list is what it was.
RepHalves == ~past.mixed => \A c \in calls : c.kind = "second" => c.first = Repos!Stored(c.ns)

RepLoading == store.isFetching => calls # {}

RepInv == RepTyped /\ RepFilled /\ RepListed /\ RepHalves /\ RepLoading /\ Repos!UpdatesWhatWasOpened

LEMMA RepNone == ASSUME Repos!ConstantsAssumption PROVE None \notin RepAll
  BY DEF Repos!ConstantsAssumption, RepAll

LEMMA RepInitHolds == ASSUME Repos!ConstantsAssumption PROVE Repos!Init => RepInv
<1> SUFFICES ASSUME Repos!Init PROVE RepInv
  OBVIOUS
<1>1. PICK n \in Namespaces : n # Global
  BY DEF Repos!ConstantsAssumption
<1>2. ui \in RepUi /\ ~ui.open /\ ui.modal.of = "none"
  BY <1>1 DEF Repos!Init, RepUi, Repos!NoModal
<1>3. store \in RepStore /\ store.errors = {} /\ ~store.isFetching
  BY DEF Repos!Init, RepStore, RepLists, RepAll, Repos!Empty
<1>4. past \in RepPast
  BY DEF Repos!Init, RepPast, RepAll, Repos!ConstantsAssumption
<1> QED
  BY <1>2, <1>3, <1>4 DEF Repos!Init, RepInv, RepTyped, RepFilled, RepListed, RepHalves, RepLoading,
                          Repos!UpdatesWhatWasOpened

-----------------------------------------------------------------------------
\* what a request is made of
LEMMA RepRequest ==
    ASSUME NEW k \in {"list", "first", "second", "permissions", "detail", "add", "added", "update", "delete"},
           NEW ns \in Namespaces \cup {All}, NEW r \in RepAll \cup {None}
    PROVE  /\ Repos!Request(k, ns, r) \in RepCalls
           /\ Repos!Request(k, ns, r).kind = k /\ Repos!Request(k, ns, r).ns = ns
           /\ Repos!Request(k, ns, r).repo = r
<1>1. Repos!Empty \in RepLists /\ Repos!NoModal \in RepModals
  BY DEF Repos!Empty, RepLists, RepAll, Repos!NoModal, RepModals
<1> QED
  BY <1>1 DEF Repos!Request, RepCalls, RepReads

\* a render may take the dialog away, and opens none
LEMMA RepKeep ==
    ASSUME NEW s, NEW u \in RepUi
    PROVE  /\ Repos!Keep(s, u) \in RepUi /\ Repos!Keep(s, u).open = u.open
           /\ Repos!Keep(s, u).modal = u.modal \/ Repos!Keep(s, u).modal = Repos!NoModal
<1>1. [u EXCEPT !.modal = Repos!NoModal] \in RepUi
  BY DEF RepUi
<1> QED
  BY <1>1 DEF Repos!Keep, RepUi

LEMMA RepShown == ASSUME NEW u \in RepUi PROVE Repos!Shown(u) \in Namespaces \cup {All}
  BY DEF Repos!Shown, RepUi

\* The list is asked for by one request.
LEMMA RepRefetch ==
    ASSUME NEW ns \in Namespaces \cup {All}
    PROVE  \E c \in RepCalls : /\ Repos!refetchRepos(ns) = {c}
                               /\ c.kind \in RepReads \ {"second"} /\ c.repo = None
  BY RepRequest DEF Repos!refetchRepos, RepReads

LEMMA RepStored ==
    ASSUME RepTyped, NEW ns
    PROVE  Repos!Stored(ns) \in RepLists
  BY DEF Repos!Stored, RepLists, RepAll

\* a move is counted, and changes no repository
LEMMA RepCount ==
    ASSUME RepTyped, Repos!Move
    PROVE  /\ Repos!Count \in RepPast /\ Repos!Count.repos = past.repos
           /\ Repos!Count.errors = past.errors /\ Repos!Count.strange = past.strange
           /\ Repos!Count.mixed = past.mixed
<1>1. past.moves + 1 \in Nat
  BY DEF RepTyped, RepPast
<1> QED
  BY <1>1 DEF Repos!Count, RepTyped, RepPast

-----------------------------------------------------------------------------
(* What a step keeps *)

\* A step that adds no read and takes none.
LEMMA RepLeavesList ==
    ASSUME RepInv, ui'.open => ui.open, store'.list = store.list,
           past'.repos = past.repos, past'.mixed = past.mixed, past'.errors = past.errors,
           \A c \in calls : c.kind \in RepReads => c \in calls',
           RepAdded(calls') = RepAdded(calls)
    PROVE  RepListed'
  BY DEF RepInv, RepListed, RepRight, RepAdded

\* a form that stays, or is unmounted, is filled with the repository it was filled with
LEMMA RepSameForm ==
    ASSUME RepInv, ui'.modal = ui.modal \/ ui'.modal = Repos!NoModal,
           store'.detail = store.detail \/ store'.detail = None, past'.strange = past.strange
    PROVE  RepFilled'
  BY DEF RepInv, RepFilled, Repos!NoModal

\* a step that changes no repository, and gets no first half, keeps what is known of the halves
LEMMA RepSameHalves ==
    ASSUME RepInv, past'.repos = past.repos, past'.mixed = past.mixed \/ past'.mixed,
           \A c \in calls' : c.kind = "second" => c \in calls
    PROVE  RepHalves'
<1>1. \A ns : Repos!Stored(ns)' = Repos!Stored(ns)
  BY DEF Repos!Stored
<1> QED
  BY <1>1 DEF RepInv, RepHalves

\* The effects of a page.
LEMMA RepFetches ==
    ASSUME RepInv, Repos!ConstantsAssumption, NEW s \in RepStore, NEW u \in RepUi, Repos!Move,
           Repos!Fetched(s, u, Repos!Count),
           s.detail = store.detail, u.modal = ui.modal, \A e, f \in s.errors \ {"fetch"} : e = f
    PROVE  RepInv'
<1> DEFINE s1 == Repos!requestReposPermissions(Repos!requestRepoSummaries(s))
           d == Repos!Request("permissions", Repos!Shown(u), None)
<1>0. RepTyped
  BY DEF RepInv
<1>1. s1 \in RepStore /\ s1.detail = s.detail /\ s1.errors = s.errors
  <2>1. [s EXCEPT !.isFetching = TRUE] \in RepStore /\ [s EXCEPT !.isFetching = TRUE].detail = s.detail
        /\ [s EXCEPT !.isFetching = TRUE].errors = s.errors
    BY DEF RepStore
  <2> DEFINE t == [s EXCEPT !.isFetching = TRUE]
  <2>2. s1 = [t EXCEPT !.isFetching = TRUE]
    BY DEF Repos!requestReposPermissions, Repos!requestRepoSummaries
  <2> HIDE DEF t, s1
  <2> QED
    BY <2>1, <2>2 DEF t, RepStore
<1>2. Repos!Shown(u) \in Namespaces \cup {All}
  BY RepShown
<1>3. PICK c \in RepCalls : /\ Repos!refetchRepos(Repos!Shown(u)) = {c}
                            /\ c.kind \in RepReads \ {"second"} /\ c.repo = None
  BY <1>2, RepRefetch
<1>4. d \in RepCalls /\ d.kind = "permissions" /\ d.repo = None
  BY <1>2, RepRequest
<1>5. /\ store' = s1 /\ ui' = Repos!Keep(s1, u) /\ calls' = calls \cup {c, d}
      /\ past' = Repos!Count
  BY <1>3 DEF Repos!Fetched
<1> HIDE DEF s1, d
<1>6. /\ past' \in RepPast /\ past'.repos = past.repos /\ past'.errors = past.errors
      /\ past'.strange = past.strange /\ past'.mixed = past.mixed
  BY <1>0, <1>5, RepCount
<1>7. ui' \in RepUi /\ (ui'.modal = ui.modal \/ ui'.modal = Repos!NoModal)
  BY <1>5, RepKeep
<1>8. RepTyped'
  BY <1>0, <1>1, <1>3, <1>4, <1>5, <1>6, <1>7 DEF RepTyped
<1>9. RepFilled'
  BY <1>1, <1>5, <1>6, <1>7, RepSameForm
<1>10. RepListed'
  BY <1>3, <1>5 DEF RepListed
<1>11. RepHalves'
  BY <1>3, <1>4, <1>5, <1>6, RepSameHalves
<1>12. RepLoading'
  BY <1>5 DEF RepLoading
<1>13. Repos!UpdatesWhatWasOpened'
  BY <1>3, <1>4, <1>5 DEF RepInv, Repos!UpdatesWhatWasOpened, RepReads
<1> QED
  BY <1>8, <1>9, <1>10, <1>11, <1>12, <1>13 DEF RepInv

\* the reducers, one lemma each: what they leave alone
LEMMA RepLocation ==
    ASSUME NEW s \in RepStore
    PROVE  /\ Repos!LocationChange(s) \in RepStore /\ Repos!LocationChange(s).detail = s.detail
           /\ Repos!LocationChange(s).list = s.list /\ Repos!LocationChange(s).errors = {}
           /\ ~Repos!LocationChange(s).isFetching
<1> DEFINE t == [s EXCEPT !.isFetching = FALSE]
<1>1. t \in RepStore /\ t.detail = s.detail /\ t.list = s.list /\ ~t.isFetching
  BY DEF RepStore
<1>2. Repos!LocationChange(s) = [t EXCEPT !.errors = {}]
  BY DEF Repos!LocationChange
<1> HIDE DEF t
<1> QED
  BY <1>1, <1>2 DEF RepStore

\* the steps of the user, one lemma each, and then the answers
LEMMA RepPages ==
    ASSUME RepInv, Repos!ConstantsAssumption,
           \/ Repos!OpenPage \/ Repos!toggleListAllNS \/ \E ns \in Namespaces : Repos!changeContext(ns)
    PROVE  RepInv'
<1>0. RepTyped /\ store \in RepStore /\ ui \in RepUi
  BY DEF RepInv, RepTyped
<1>1. CASE Repos!OpenPage
  <2> DEFINE u == [ui EXCEPT !.open = TRUE, !.allNS = FALSE]
  <2>1. u \in RepUi /\ u.modal = ui.modal
    <3> DEFINE v == [ui EXCEPT !.open = TRUE]
    <3>1. v \in RepUi /\ v.modal = ui.modal
      BY <1>0 DEF RepUi
    <3>2. u = [v EXCEPT !.allNS = FALSE]
      OBVIOUS
    <3> HIDE DEF v, u
    <3> QED
      BY <3>1, <3>2 DEF RepUi
  <2>2. Repos!Fetched(store, u, Repos!Count) /\ Repos!Move
    BY <1>1 DEF Repos!OpenPage
  <2> HIDE DEF u
  <2> QED
    BY <1>0, <2>1, <2>2, RepFetches DEF RepTyped
<1>2. CASE Repos!toggleListAllNS
  <2> DEFINE u == [ui EXCEPT !.allNS = ~@]
             s == Repos!LocationChange(store)
  <2>1. u \in RepUi /\ u.modal = ui.modal
    BY <1>0 DEF RepUi
  <2>2. Repos!Fetched(s, u, Repos!Count) /\ Repos!Move
    BY <1>2 DEF Repos!toggleListAllNS
  <2>3. s \in RepStore /\ s.detail = store.detail /\ s.errors = {}
    BY <1>0, RepLocation
  <2> HIDE DEF u, s
  <2> QED
    BY <2>1, <2>2, <2>3, RepFetches
<1>3. ASSUME NEW ns \in Namespaces, Repos!changeContext(ns) PROVE RepInv'
  <2> DEFINE u == [ui EXCEPT !.ns = ns]
             s == Repos!LocationChange(store)
  <2>1. u \in RepUi /\ u.modal = ui.modal /\ u.open = ui.open
    BY <1>0 DEF RepUi
  <2>3. s \in RepStore /\ s.detail = store.detail /\ s.errors = {} /\ s.list = store.list /\ ~s.isFetching
    BY <1>0, RepLocation
  <2>4. CASE ui.allNS
    <3>1. store' = s /\ ui' = u /\ past' = Repos!Count /\ calls' = calls /\ Repos!Move
      BY <1>3, <2>4 DEF Repos!changeContext
    <3>2. /\ past' \in RepPast /\ past'.repos = past.repos /\ past'.errors = past.errors
          /\ past'.strange = past.strange /\ past'.mixed = past.mixed
      BY <1>0, <3>1, RepCount
    <3> HIDE DEF u, s
    <3>3. RepTyped'
      BY <1>0, <2>1, <2>3, <3>1, <3>2 DEF RepTyped
    <3>4. RepFilled' /\ RepListed' /\ RepHalves'
      BY <2>1, <2>3, <3>1, <3>2, RepSameForm, RepLeavesList, RepSameHalves
    <3>5. RepLoading'
      BY <2>3, <3>1 DEF RepLoading
    <3> QED
      BY <3>1, <3>3, <3>4, <3>5 DEF RepInv, Repos!UpdatesWhatWasOpened
  <2>5. CASE ~ui.allNS
    <3>1. Repos!Fetched(s, u, Repos!Count) /\ Repos!Move
      BY <1>3, <2>5 DEF Repos!changeContext
    <3> HIDE DEF u, s
    <3> QED
      BY <2>1, <2>3, <3>1, RepFetches
  <2> QED
    BY <2>4, <2>5
<1> QED
  BY <1>1, <1>2, <1>3

-----------------------------------------------------------------------------
(* The reducers *)

LEMMA RepLoads ==
    ASSUME NEW s \in RepStore, NEW t, t = [s EXCEPT !.isFetching = TRUE] \/ t = [s EXCEPT !.isFetching = FALSE]
    PROVE  t \in RepStore /\ t.detail = s.detail /\ t.list = s.list /\ t.errors = s.errors
  BY DEF RepStore

LEMMA RepClears ==
    ASSUME NEW s \in RepStore
    PROVE  LET t == [s EXCEPT !.isFetching = FALSE, !.errors = {}]
           IN t \in RepStore /\ t.detail = s.detail /\ t.list = s.list /\ t.errors = {} /\ ~t.isFetching
  BY RepLocation DEF Repos!LocationChange

LEMMA RepDetails ==
    ASSUME NEW s \in RepStore
    PROVE  LET t == Repos!requestRepoDetail(s)
           IN t \in RepStore /\ t.detail = None /\ t.list = s.list /\ t.errors = {}
              /\ t.isFetching = s.isFetching
<1> DEFINE t == [s EXCEPT !.detail = None]
<1>1. t \in RepStore /\ t.list = s.list /\ t.detail = None /\ t.isFetching = s.isFetching
  BY DEF RepStore
<1>2. Repos!requestRepoDetail(s) = [t EXCEPT !.errors = {}]
  BY DEF Repos!requestRepoDetail
<1> HIDE DEF t
<1> QED
  BY <1>1, <1>2 DEF RepStore

LEMMA RepReceives ==
    ASSUME NEW s \in RepStore, NEW l \in RepLists
    PROVE  LET t == Repos!receiveRepoSummaries(s, l)
           IN t \in RepStore /\ t.detail = s.detail /\ t.list = l /\ t.errors = {} /\ ~t.isFetching
<1> DEFINE t == [s EXCEPT !.isFetching = FALSE, !.errors = {}]
<1>1. t \in RepStore /\ t.detail = s.detail /\ t.errors = {} /\ ~t.isFetching
  BY RepClears
<1>2. Repos!receiveRepoSummaries(s, l) = [t EXCEPT !.list = l]
  BY DEF Repos!receiveRepoSummaries
<1> HIDE DEF t
<1> QED
  BY <1>1, <1>2 DEF RepStore

LEMMA RepReceivesDetail ==
    ASSUME NEW s \in RepStore, NEW r \in RepAll
    PROVE  LET t == Repos!receiveRepoDetail(s, r)
           IN t \in RepStore /\ t.detail = r /\ t.list = s.list /\ t.errors = {} /\ ~t.isFetching
<1> DEFINE t == [s EXCEPT !.isFetching = FALSE, !.errors = {}]
<1>1. t \in RepStore /\ t.list = s.list /\ t.errors = {} /\ ~t.isFetching
  BY RepClears
<1>2. Repos!receiveRepoDetail(s, r) = [t EXCEPT !.detail = r]
  BY DEF Repos!receiveRepoDetail
<1> HIDE DEF t
<1> QED
  BY <1>1, <1>2 DEF RepStore

LEMMA RepAdds ==
    ASSUME NEW s \in RepStore, NEW r \in RepAll
    PROVE  LET t == Repos!addedRepo(s, r)
           IN t \in RepStore /\ t.detail = s.detail /\ t.list = [s.list EXCEPT ![r] = @ + 1]
              /\ t.errors = s.errors /\ ~t.isFetching
<1> DEFINE u == [s EXCEPT !.isFetching = FALSE]
           l == [s.list EXCEPT ![r] = @ + 1]
<1>1. u \in RepStore /\ u.detail = s.detail /\ u.list = s.list /\ u.errors = s.errors /\ ~u.isFetching
  BY DEF RepStore
<1>2. Repos!addedRepo(s, r) = [u EXCEPT !.list = l]
  BY DEF Repos!addedRepo, RepStore
<1>3. l \in RepLists
  BY DEF RepStore, RepLists
<1> HIDE DEF u, l
<1>4. Repos!addedRepo(s, r) \in RepStore /\ Repos!addedRepo(s, r).detail = s.detail
      /\ Repos!addedRepo(s, r).list = l
      /\ Repos!addedRepo(s, r).errors = s.errors /\ ~Repos!addedRepo(s, r).isFetching
  BY <1>1, <1>2, <1>3 DEF RepStore
<1> QED
  BY <1>4 DEF l

LEMMA RepErrs ==
    ASSUME NEW s \in RepStore, NEW op \in {"fetch", "create", "update", "delete"}
    PROVE  LET t == Repos!errorRepos(s, op)
           IN /\ t \in RepStore /\ t.detail = s.detail /\ t.list = s.list /\ ~t.isFetching
              /\ \A e, f \in t.errors \ {"fetch"} : e = f
<1> DEFINE u == [s EXCEPT !.isFetching = FALSE]
           es == (s.errors \cap {"fetch"}) \cup {op}
<1>1. u \in RepStore /\ u.detail = s.detail /\ u.list = s.list /\ ~u.isFetching
  BY DEF RepStore
<1>2. Repos!errorRepos(s, op) = [u EXCEPT !.errors = es]
  BY DEF Repos!errorRepos, RepStore
<1>3. es \in SUBSET {"fetch", "create", "update", "delete"} /\ \A e, f \in es \ {"fetch"} : e = f
  OBVIOUS
<1> HIDE DEF u, es
<1> QED
  BY <1>1, <1>2, <1>3 DEF RepStore

LEMMA RepSent ==
    ASSUME NEW k \in {"add", "update", "delete"},
           NEW ns \in Namespaces \cup {All}, NEW r \in RepAll, NEW m \in RepModals
    PROVE  LET c == [Repos!Request(k, ns, r) EXCEPT !.as = m]
           IN c \in RepCalls /\ c.kind = k /\ c.ns = ns /\ c.repo = r /\ c.as = m
<1>1. Repos!Request(k, ns, r) \in RepCalls /\ Repos!Request(k, ns, r).kind = k
      /\ Repos!Request(k, ns, r).ns = ns /\ Repos!Request(k, ns, r).repo = r
  BY RepRequest
<1> QED
  BY <1>1 DEF RepCalls

-----------------------------------------------------------------------------
(* What the user does *)

LEMMA RepLeave == ASSUME RepInv, Repos!Leave PROVE RepInv'
<1>0. RepTyped
  BY DEF RepInv
<1>1. Repos!Move /\ past' = Repos!Count /\ store' = store /\ calls' = calls
  BY DEF Repos!Leave
<1>2. ui' \in RepUi /\ ~ui'.open /\ ui'.modal = Repos!NoModal
  <2> DEFINE v == [ui EXCEPT !.open = FALSE]
  <2>1. v \in RepUi /\ ~v.open
    BY <1>0 DEF RepTyped, RepUi
  <2>2. ui' = [v EXCEPT !.modal = Repos!NoModal]
    BY DEF Repos!Leave
  <2> HIDE DEF v
  <2> QED
    BY <2>1, <2>2 DEF RepUi
<1>3. /\ past' \in RepPast /\ past'.repos = past.repos /\ past'.errors = past.errors
      /\ past'.strange = past.strange /\ past'.mixed = past.mixed
  BY <1>0, <1>1, RepCount
<1>4. RepTyped'
  BY <1>0, <1>1, <1>2, <1>3 DEF RepTyped
<1>5. RepFilled' /\ RepListed' /\ RepHalves'
  BY <1>1, <1>2, <1>3, RepSameForm, RepLeavesList, RepSameHalves
<1> QED
  BY <1>1, <1>4, <1>5 DEF RepInv, RepLoading, Repos!UpdatesWhatWasOpened

LEMMA RepCloseModal == ASSUME RepInv, Repos!closeModal PROVE RepInv'
<1>0. RepTyped
  BY DEF RepInv
<1>1. Repos!Move /\ past' = Repos!Count /\ store' = store /\ calls' = calls
  BY DEF Repos!closeModal
<1>2. ui' \in RepUi /\ ui'.open = ui.open /\ ui'.modal = Repos!NoModal
  BY <1>0 DEF Repos!closeModal, RepTyped, RepUi
<1>3. /\ past' \in RepPast /\ past'.repos = past.repos /\ past'.errors = past.errors
      /\ past'.strange = past.strange /\ past'.mixed = past.mixed
  BY <1>0, <1>1, RepCount
<1>4. RepTyped'
  BY <1>0, <1>1, <1>2, <1>3 DEF RepTyped
<1>5. RepFilled' /\ RepListed' /\ RepHalves'
  BY <1>1, <1>2, <1>3, RepSameForm, RepLeavesList, RepSameHalves
<1> QED
  BY <1>1, <1>4, <1>5 DEF RepInv, RepLoading, Repos!UpdatesWhatWasOpened

LEMMA RepRefresh == ASSUME RepInv, NEW r \in RepAll, Repos!Refresh(r) PROVE RepInv'
<1>0. RepTyped /\ store \in RepStore /\ ui \in RepUi
  BY DEF RepInv, RepTyped
<1>1. Repos!Move /\ past' = Repos!Count /\ ui' = ui /\ store' = [store EXCEPT !.isFetching = TRUE]
      /\ calls' = calls \cup Repos!refetchRepos(Repos!Shown(ui))
  BY DEF Repos!Refresh, Repos!requestRepoSummaries
<1>2. PICK c \in RepCalls : /\ Repos!refetchRepos(Repos!Shown(ui)) = {c}
                            /\ c.kind \in RepReads \ {"second"} /\ c.repo = None
  BY <1>0, RepShown, RepRefetch
<1>3. /\ past' \in RepPast /\ past'.repos = past.repos /\ past'.errors = past.errors
      /\ past'.strange = past.strange /\ past'.mixed = past.mixed
  BY <1>0, <1>1, RepCount
<1>4. store' \in RepStore /\ store'.detail = store.detail /\ store'.errors = store.errors
  BY <1>0, <1>1, RepLoads
<1>5. RepTyped'
  BY <1>0, <1>1, <1>2, <1>3, <1>4 DEF RepTyped
<1>6. RepFilled' /\ RepHalves'
  BY <1>1, <1>2, <1>3, <1>4, RepSameForm, RepSameHalves
<1>7. RepListed' /\ RepLoading'
  BY <1>1, <1>2 DEF RepListed, RepLoading
<1>8. Repos!UpdatesWhatWasOpened'
  BY <1>1, <1>2 DEF RepInv, Repos!UpdatesWhatWasOpened, RepReads
<1> QED
  BY <1>5, <1>6, <1>7, <1>8 DEF RepInv

LEMMA RepOpenModal ==
    ASSUME RepInv, Repos!ConstantsAssumption, NEW m \in Repos!Modals, Repos!openModal(m)
    PROVE  RepInv'
<1>0. RepTyped /\ store \in RepStore /\ ui \in RepUi
  BY DEF RepInv, RepTyped
<1>1. Repos!Move /\ past' = [Repos!Count EXCEPT !.strange = FALSE] /\ ui' = [ui EXCEPT !.modal = m]
      /\ store' = IF m.of = "delete" THEN store ELSE Repos!requestRepoDetail(store)
  BY DEF Repos!openModal
<1>2. /\ past' \in RepPast /\ past'.repos = past.repos /\ past'.errors = past.errors
      /\ ~past'.strange /\ past'.mixed = past.mixed
  <2> DEFINE p == Repos!Count
  <2>1. /\ p \in RepPast /\ p.repos = past.repos /\ p.errors = past.errors /\ p.mixed = past.mixed
    BY <1>0, <1>1, RepCount
  <2>2. past' = [p EXCEPT !.strange = FALSE]
    BY <1>1
  <2> HIDE DEF p
  <2> QED
    BY <2>1, <2>2 DEF RepPast
<1>3. /\ store' \in RepStore /\ store'.list = store.list /\ store'.isFetching = store.isFetching
      /\ store'.errors \in {store.errors, {}}
      /\ m.of # "delete" => store'.detail = None
  BY <1>0, <1>1, RepDetails
<1>4. ui' \in RepUi /\ ui'.open = ui.open /\ ui'.modal = m
  BY <1>0, <1>1 DEF RepUi
<1>5. /\ calls' \subseteq RepCalls /\ calls \subseteq calls'
      /\ \A c \in calls' \ calls : c.kind = "detail" /\ c.repo # None
  <2>1. CASE m.of = "edit"
    <3>1. m.repo \in RepAll
      BY <2>1 DEF Repos!Modals, RepAll
    <3>2. m.repo.ns \in Namespaces
      BY <3>1 DEF RepAll, Repos!Repos
    <3>3. /\ Repos!Request("detail", m.repo.ns, m.repo) \in RepCalls
          /\ Repos!Request("detail", m.repo.ns, m.repo).kind = "detail"
          /\ Repos!Request("detail", m.repo.ns, m.repo).repo = m.repo
      BY <3>1, <3>2, RepRequest
    <3>4. calls' = calls \cup {Repos!Request("detail", m.repo.ns, m.repo)}
      BY <2>1 DEF Repos!openModal
    <3> QED
      BY <1>0, <3>1, <3>3, <3>4, RepNone DEF RepTyped
  <2>2. CASE m.of # "edit"
    BY <1>0, <2>2 DEF Repos!openModal, RepTyped
  <2> QED
    BY <2>1, <2>2
<1>6. RepTyped'
  BY <1>0, <1>2, <1>3, <1>4, <1>5 DEF RepTyped, RepReads
<1>7. RepFilled'
  BY <1>3, <1>4 DEF RepFilled
<1>8. RepHalves'
  BY <1>2, <1>5, RepSameHalves
<1>9. RepListed'
  <2>1. RepAdded(calls') = RepAdded(calls)
    BY <1>5 DEF RepAdded
  <2> QED
    BY <1>2, <1>3, <1>4, <1>5, <2>1, RepLeavesList
<1>10. RepLoading' /\ Repos!UpdatesWhatWasOpened'
  BY <1>3, <1>5 DEF RepInv, RepLoading, Repos!UpdatesWhatWasOpened
<1> QED
  BY <1>6, <1>7, <1>8, <1>9, <1>10 DEF RepInv

\* An operation is sent: nothing that was read or filled in changes.
LEMMA RepSends ==
    ASSUME RepInv, Repos!ConstantsAssumption, Repos!Move, past' = Repos!Count,
           store' = store \/ store' = Repos!addOrUpdateRepo(store),
           ui' = ui \/ ui' = Repos!Keep(store', ui),
           NEW k \in {"add", "update", "delete"}, NEW r \in RepAll, NEW m \in RepModals,
           calls' = calls \cup Repos!Send(k, r, m),
           k = "update" /\ m.of = "edit" => r = m.repo
    PROVE  RepInv'
<1> DEFINE c == [Repos!Request(k, Repos!Shown(ui), r) EXCEPT !.as = m]
<1>0. RepTyped /\ store \in RepStore /\ ui \in RepUi
  BY DEF RepInv, RepTyped
<1>1. c \in RepCalls /\ c.kind = k /\ c.repo = r /\ c.as = m
  BY <1>0, RepShown, RepSent
<1>2. calls' = calls \cup {c}
  BY DEF Repos!Send
<1> HIDE DEF c
<1>3. /\ past' \in RepPast /\ past'.repos = past.repos /\ past'.errors = past.errors
      /\ past'.strange = past.strange /\ past'.mixed = past.mixed
  BY <1>0, RepCount
<1>4. store' \in RepStore /\ store'.detail = store.detail /\ store'.list = store.list
      /\ store'.errors = store.errors
  BY <1>0, RepLoads DEF Repos!addOrUpdateRepo
<1>5. ui' \in RepUi /\ ui'.open = ui.open /\ (ui'.modal = ui.modal \/ ui'.modal = Repos!NoModal)
  BY <1>0, RepKeep
<1>6. RepTyped'
  BY <1>0, <1>1, <1>2, <1>3, <1>4, <1>5, RepNone DEF RepTyped, RepReads
<1>7. RepFilled' /\ RepHalves'
  BY <1>1, <1>2, <1>3, <1>4, <1>5, RepSameForm, RepSameHalves
<1>8. RepListed'
  <2>1. RepAdded(calls') = RepAdded(calls)
    BY <1>1, <1>2 DEF RepAdded
  <2> QED
    BY <1>2, <1>3, <1>4, <1>5, <2>1, RepLeavesList
<1>9. RepLoading' /\ Repos!UpdatesWhatWasOpened'
  BY <1>1, <1>2 DEF RepInv, RepLoading, Repos!UpdatesWhatWasOpened
<1> QED
  BY <1>6, <1>7, <1>8, <1>9 DEF RepInv

LEMMA RepOperates ==
    ASSUME RepInv, Repos!ConstantsAssumption,
           Repos!updateRepo \/ Repos!deleteRepo \/ \E r \in RepAll : Repos!addRepo(r)
    PROVE  RepInv'
<1>0. RepTyped /\ store \in RepStore /\ ui \in RepUi
  BY DEF RepInv, RepTyped
<1>1. CASE Repos!updateRepo
  <2> DEFINE m == [ui.modal EXCEPT !.of = IF past.strange THEN "strange" ELSE "edit"]
  <2>1. ui.modal.of = "edit" /\ ui.modal.repo \in RepAll /\ store.detail # None /\ store.detail \in RepAll
    BY <1>0, <1>1 DEF Repos!updateRepo, RepUi, Repos!Modals, Repos!NoModal, RepAll, RepStore
  <2>2. Repos!Target(ui.modal) \in RepAll
    BY <2>1 DEF Repos!Target, RepAll, Repos!Repos
  <2>3. m \in RepModals /\ m.repo = ui.modal.repo /\ (m.of = "edit" => ~past.strange)
    <3>1. ui.modal \in [of : {"none", "add", "edit", "delete", "strange"}, repo : RepAll \cup {None}]
      BY <1>0 DEF RepUi, Repos!Modals, Repos!NoModal, RepAll
    <3> QED
      BY <3>1 DEF RepModals
  <2>4. m.of = "edit" => Repos!Target(ui.modal) = m.repo
    <3>1. SUFFICES ASSUME ~past.strange PROVE Repos!Target(ui.modal) = ui.modal.repo
      BY <2>3
    <3>2. store.detail = ui.modal.repo
      BY <2>1, <3>1 DEF RepInv, RepFilled
    <3> QED
      BY <2>1, <3>2 DEF Repos!Target, RepAll, Repos!Repos
  <2>5. /\ Repos!Move /\ past' = Repos!Count /\ store' = Repos!addOrUpdateRepo(store)
        /\ ui' = Repos!Keep(store', ui) /\ calls' = calls \cup Repos!Send("update", Repos!Target(ui.modal), m)
    BY <1>1 DEF Repos!updateRepo
  <2> HIDE DEF m
  <2> QED
    BY <2>2, <2>3, <2>4, <2>5, RepSends
<1>2. CASE Repos!deleteRepo
  <2>1. ui.modal.repo \in RepAll /\ ui.modal \in RepModals
    BY <1>0, <1>2 DEF Repos!deleteRepo, RepUi, Repos!Modals, Repos!NoModal, RepAll, RepModals
  <2>2. /\ Repos!Move /\ past' = Repos!Count /\ store' = store /\ ui' = ui
        /\ calls' = calls \cup Repos!Send("delete", ui.modal.repo, ui.modal)
    BY <1>2 DEF Repos!deleteRepo
  <2> QED
    BY <2>1, <2>2, RepSends
<1>3. ASSUME NEW r \in RepAll, Repos!addRepo(r) PROVE RepInv'
  <2>1. ui.modal \in RepModals
    BY <1>0 DEF RepUi, Repos!Modals, Repos!NoModal, RepAll, RepModals
  <2>2. /\ Repos!Move /\ past' = Repos!Count /\ store' = Repos!addOrUpdateRepo(store)
        /\ ui' = Repos!Keep(store', ui) /\ calls' = calls \cup Repos!Send("add", r, ui.modal)
    BY <1>3 DEF Repos!addRepo
  <2> QED
    BY <2>1, <2>2, RepSends
<1> QED
  BY <1>1, <1>2, <1>3

-----------------------------------------------------------------------------
(* Answers *)

\* an answer that opens no modal leaves an update with the repository it was opened for
LEMMA RepAnswer ==
    ASSUME RepInv, NEW c \in calls, NEW s \in RepStore, NEW u \in RepUi, NEW cs \in SUBSET RepCalls,
           NEW p \in RepPast, Repos!Answer(c, s, u, cs, p),
           \A e, f \in s.errors \ {"fetch"} : e = f,
           \A d \in cs : d.repo = None <=> d.kind \in RepReads \cup {"permissions"},
           \A d \in cs : d.kind # "update",
           u.open = ui.open, u.modal = ui.modal \/ u.modal = Repos!NoModal
    PROVE  /\ RepTyped' /\ Repos!UpdatesWhatWasOpened'
           /\ store' = s /\ calls' = (calls \ {c}) \cup cs /\ past' = p
           /\ ui'.open = ui.open /\ (ui'.modal = ui.modal \/ ui'.modal = Repos!NoModal)
<1>1. /\ store' = s /\ ui' = Repos!Keep(s, u) /\ calls' = (calls \ {c}) \cup cs /\ past' = p
  BY DEF Repos!Answer
<1>2. ui' \in RepUi /\ ui'.open = ui.open /\ (ui'.modal = ui.modal \/ ui'.modal = Repos!NoModal)
  BY <1>1, RepKeep
<1>3. RepTyped'
  BY <1>1, <1>2 DEF RepInv, RepTyped
<1>4. Repos!UpdatesWhatWasOpened'
  BY <1>1 DEF RepInv, Repos!UpdatesWhatWasOpened
<1> QED
  BY <1>1, <1>2, <1>3, <1>4

LEMMA RepUnchanged ==
    ASSUME RepInv
    PROVE  /\ RepTyped /\ store \in RepStore /\ ui \in RepUi /\ past \in RepPast /\ calls \subseteq RepCalls
           /\ \A e, f \in store.errors \ {"fetch"} : e = f
  BY DEF RepInv, RepTyped

\* to note that a list is mixed changes nothing else
LEMMA RepMixes ==
    ASSUME RepInv, NEW b
    PROVE  LET p == [past EXCEPT !.mixed = @ \/ b]
           IN p \in RepPast /\ p.repos = past.repos /\ p.errors = past.errors
              /\ p.strange = past.strange /\ (p.mixed <=> past.mixed \/ b)
<1> DEFINE m == past.mixed \/ b
<1>1. m \in BOOLEAN /\ (m <=> past.mixed \/ b)
  OBVIOUS
<1>2. [past EXCEPT !.mixed = @ \/ b] = [past EXCEPT !.mixed = m]
  OBVIOUS
<1> HIDE DEF m
<1> QED
  BY <1>1, <1>2, RepUnchanged DEF RepPast

LEMMA RepFirstAnswered ==
    ASSUME RepInv, Repos!ConstantsAssumption, NEW c \in calls, Repos!FirstAnswered(c)
    PROVE  RepInv'
<1> DEFINE s == Repos!requestRepoSummaries(store)
           q == Repos!Request("second", c.ns, None)
           d == [q EXCEPT !.first = Repos!Stored(c.ns)]
           p == [past EXCEPT !.mixed = @ \/ Repos!Mixed]
<1>1. s \in RepStore /\ s.detail = store.detail /\ s.errors = store.errors
  BY RepUnchanged, RepLoads DEF Repos!requestRepoSummaries
<1>2. /\ p \in RepPast /\ p.repos = past.repos /\ p.strange = past.strange
      /\ (p.mixed <=> past.mixed \/ Repos!Mixed)
  BY RepMixes
<1>3. d \in RepCalls /\ d.kind = "second" /\ d.repo = None /\ d.ns = c.ns /\ d.first = Repos!Stored(c.ns)
  <2>1. c \in RepCalls
    BY RepUnchanged
  <2>2. c.ns \in Namespaces \cup {All}
    BY <2>1 DEF RepCalls
  <2>3. q \in RepCalls /\ q.kind = "second" /\ q.repo = None /\ q.ns = c.ns
    BY <2>2, RepRequest
  <2>4. Repos!Stored(c.ns) \in RepLists
    BY RepUnchanged, RepStored
  <2> HIDE DEF q
  <2> QED
    BY <2>3, <2>4 DEF RepCalls
<1>4. Repos!Answer(c, s, ui, {d}, p)
  BY DEF Repos!FirstAnswered
<1> HIDE DEF s, q, d, p
<1>5. \A e \in {d} : (e.repo = None <=> e.kind \in RepReads \cup {"permissions"}) /\ e.kind # "update"
  BY <1>3 DEF RepReads
<1>6. /\ RepTyped' /\ Repos!UpdatesWhatWasOpened'
      /\ store' = s /\ calls' = (calls \ {c}) \cup {d} /\ past' = p
      /\ ui'.open = ui.open /\ (ui'.modal = ui.modal \/ ui'.modal = Repos!NoModal)
  <2>1. /\ \A e, f \in s.errors \ {"fetch"} : e = f
        /\ {d} \in SUBSET RepCalls /\ ui \in RepUi
    BY <1>1, <1>3, RepUnchanged
  <2> QED
    BY <1>1, <1>2, <1>4, <1>5, <2>1, RepAnswer, Zenon
<1>7. RepFilled'
  BY <1>1, <1>2, <1>6, RepSameForm
<1>8. RepListed' /\ RepLoading'
  BY <1>3, <1>6 DEF RepListed, RepLoading, RepReads
<1>9. RepHalves'
  <2>1. \A ns : Repos!Stored(ns)' = Repos!Stored(ns)
    BY <1>2, <1>6 DEF Repos!Stored
  <2> QED
    BY <1>2, <1>3, <1>6, <2>1 DEF RepInv, RepHalves
<1> QED
  BY <1>6, <1>7, <1>8, <1>9 DEF RepInv

LEMMA RepListAnswered ==
    ASSUME RepInv, Repos!ConstantsAssumption, NEW c \in calls, Repos!ListAnswered(c)
    PROVE  RepInv'
<1> DEFINE p == [past EXCEPT !.mixed = @ \/ Repos!Mixed]
<1>1. PICK l \in (IF c.kind = "list" THEN {Repos!Stored(All)} ELSE Repos!UniqBy(c.first, Repos!Stored(All))) :
         Repos!Answer(c, Repos!receiveRepoSummaries(store, l), ui, {}, p)
  BY DEF Repos!ListAnswered
<1> DEFINE s == Repos!receiveRepoSummaries(store, l)
<1>2. /\ p \in RepPast /\ p.repos = past.repos /\ p.strange = past.strange
      /\ (p.mixed <=> past.mixed \/ Repos!Mixed)
  BY RepMixes
<1>3. l \in RepLists /\ \A r \in RepAll : l[r] <= 1
  <2>1. l = Repos!Stored(All) \/ l \in [RepAll -> {0, 1}]
    BY <1>1 DEF Repos!UniqBy, RepAll
  <2>2. Repos!Stored(All) \in [RepAll -> {0, 1}]
    BY DEF Repos!Stored, RepAll
  <2> QED
    BY <2>1, <2>2 DEF RepLists
<1>4. s \in RepStore /\ s.detail = store.detail /\ s.errors = {} /\ s.list = l /\ ~s.isFetching
  BY <1>3, RepUnchanged, RepReceives
<1>5. Repos!Answer(c, s, ui, {}, p)
  BY <1>1
<1> HIDE DEF s, p
<1>6. /\ RepTyped' /\ Repos!UpdatesWhatWasOpened'
      /\ store' = s /\ calls' = (calls \ {c}) \cup {} /\ past' = p
      /\ ui'.open = ui.open /\ (ui'.modal = ui.modal \/ ui'.modal = Repos!NoModal)
  BY <1>2, <1>4, <1>5, RepAnswer, RepUnchanged, Zenon
<1>7. RepFilled' /\ RepLoading'
  BY <1>2, <1>4, <1>6, RepSameForm DEF RepLoading
<1>9. RepHalves'
  <2>1. past'.mixed = past.mixed \/ past'.mixed
    BY <1>2, <1>6, RepUnchanged DEF RepPast
  <2> QED
    BY <1>2, <1>6, <2>1, RepSameHalves
<1>8. RepListed'
  <2> SUFFICES ASSUME ~past.mixed, ~Repos!Mixed PROVE RepRight(l, past.repos, calls')
    BY <1>2, <1>4, <1>6 DEF RepListed
  <2>1. RepAdded(calls') = {}
    BY <1>6 DEF Repos!Mixed, Repos!Operations, RepAdded
  <2>2. \A r \in RepAll : Repos!Stored(All)[r] = 1 <=> r \in past.repos
    BY DEF Repos!Stored, RepAll
  <2>3. past.repos \subseteq RepAll
    BY RepUnchanged DEF RepPast
  <2>4. CASE c.kind = "list"
    <3>1. l = Repos!Stored(All)
      BY <1>1, <2>4
    <3>2. \A r \in RepAll : l[r] > 0 <=> r \in past.repos
      BY <3>1 DEF Repos!Stored, RepAll
    <3> QED
      BY <1>3, <2>1, <2>3, <3>2 DEF RepRight
  <2>5. CASE c.kind # "list"
    <3>1. c.kind = "second" /\ l \in Repos!UniqBy(c.first, Repos!Stored(All))
      BY <1>1, <2>5 DEF Repos!ListAnswered
    <3>2. c.first = Repos!Stored(c.ns)
      BY <3>1 DEF RepInv, RepHalves
    <3>3. \A r \in RepAll : c.first[r] = 1 => r \in past.repos
      BY <3>2 DEF Repos!Stored, RepAll
    <3>4. /\ l \in [RepAll -> {0, 1}]
          /\ \A r \in RepAll : l[r] = 1 => c.first[r] = 1 \/ Repos!Stored(All)[r] = 1
          /\ \A r \in RepAll : Repos!Stored(All)[r] = 1 => \E q \in RepAll : q.name = r.name /\ l[q] = 1
      BY <3>1 DEF Repos!UniqBy, RepAll
    <3>5. \A r \in RepAll : l[r] > 0 => l[r] = 1
      BY <3>4
    <3>6. \A r \in RepAll : l[r] > 0 => r \in past.repos
      BY <2>2, <3>3, <3>4, <3>5
    <3>7. \A r \in past.repos : (\A q \in past.repos : q.name = r.name => q = r) => l[r] > 0
      <4> SUFFICES ASSUME NEW r \in past.repos, \A q \in past.repos : q.name = r.name => q = r
                   PROVE  l[r] > 0
        OBVIOUS
      <4>1. PICK q \in RepAll : q.name = r.name /\ l[q] = 1
        BY <2>2, <2>3, <3>4
      <4>2. l[q] > 0
        BY <4>1
      <4> QED
        BY <3>6, <4>1, <4>2
    <3> QED
      BY <1>3, <2>1, <3>6, <3>7 DEF RepRight
  <2> QED
    BY <2>4, <2>5
<1> QED
  BY <1>6, <1>7, <1>8, <1>9 DEF RepInv

\* The permissions, and what an update answers.
LEMMA RepSettles ==
    ASSUME RepInv, Repos!ConstantsAssumption, NEW c \in calls, Repos!PermissionsAnswered(c) \/ Repos!Updated(c)
    PROVE  RepInv'
<1>1. PICK s : /\ Repos!Answer(c, s, ui, {}, past)
               /\ \/ s = Repos!receiveReposPermissions(store)
                  \/ s = Repos!repoUpdated(store)
  BY DEF Repos!PermissionsAnswered, Repos!Updated
<1>2. /\ s \in RepStore /\ s.detail = store.detail /\ s.list = store.list /\ ~s.isFetching
      /\ s.errors \in {store.errors, {}}
  <2>1. CASE s = Repos!receiveReposPermissions(store)
    BY <2>1, RepUnchanged, RepClears DEF Repos!receiveReposPermissions
  <2>2. CASE s = Repos!repoUpdated(store)
    BY <2>2, RepUnchanged DEF Repos!repoUpdated, RepStore
  <2> QED
    BY <1>1, <2>1, <2>2
<1>3. \A e, f \in s.errors \ {"fetch"} : e = f
  BY <1>2, RepUnchanged
<1>4. /\ RepTyped' /\ Repos!UpdatesWhatWasOpened'
      /\ store' = s /\ calls' = (calls \ {c}) \cup {} /\ past' = past
      /\ ui'.open = ui.open /\ (ui'.modal = ui.modal \/ ui'.modal = Repos!NoModal)
  BY <1>1, <1>2, <1>3, RepAnswer, RepUnchanged, Zenon
<1>5. RepFilled' /\ RepHalves' /\ RepLoading'
  BY <1>2, <1>4, RepSameForm, RepSameHalves DEF RepLoading
<1>6. c.kind \in {"permissions", "update"}
  BY DEF Repos!PermissionsAnswered, Repos!Updated
<1>7. RepListed'
  <2>1. RepAdded(calls') = RepAdded(calls) /\ \A d \in calls : d.kind \in RepReads => d \in calls'
    BY <1>4, <1>6 DEF RepAdded, RepReads
  <2> QED
    BY <1>2, <1>4, <2>1, RepLeavesList
<1> QED
  BY <1>4, <1>5, <1>7 DEF RepInv

LEMMA RepDetailAnswered ==
    ASSUME RepInv, Repos!ConstantsAssumption, NEW c \in calls, Repos!DetailAnswered(c)
    PROVE  RepInv'
<1> DEFINE s == Repos!receiveRepoDetail(store, c.repo)
           b == past.strange \/ ui.modal.repo # c.repo
           p == [past EXCEPT !.strange = b]
<1>1. c.kind = "detail" /\ c.repo \in RepAll /\ Repos!Answer(c, s, ui, {}, p)
  BY RepUnchanged DEF Repos!DetailAnswered, RepPast
<1>2. s \in RepStore /\ s.detail = c.repo /\ s.list = store.list /\ s.errors = {} /\ ~s.isFetching
  BY <1>1, RepUnchanged, RepReceivesDetail
<1>3. b \in BOOLEAN /\ (b <=> past.strange \/ ui.modal.repo # c.repo)
  OBVIOUS
<1> HIDE DEF b, s
<1>4. /\ p \in RepPast /\ p.repos = past.repos /\ p.errors = past.errors /\ p.strange = b
      /\ p.mixed = past.mixed
  BY <1>3, RepUnchanged DEF RepPast
<1> HIDE DEF p
<1>5. /\ RepTyped' /\ Repos!UpdatesWhatWasOpened'
      /\ store' = s /\ calls' = (calls \ {c}) \cup {} /\ past' = p
      /\ ui'.open = ui.open /\ (ui'.modal = ui.modal \/ ui'.modal = Repos!NoModal)
  BY <1>1, <1>2, <1>4, RepAnswer, RepUnchanged, Zenon
<1>6. RepFilled'
  BY <1>2, <1>3, <1>4, <1>5 DEF RepFilled, Repos!NoModal
<1>7. RepHalves' /\ RepLoading'
  BY <1>2, <1>4, <1>5, RepSameHalves DEF RepLoading
<1>8. RepListed'
  <2>1. RepAdded(calls') = RepAdded(calls) /\ \A d \in calls : d.kind \in RepReads => d \in calls'
    BY <1>1, <1>5 DEF RepAdded, RepReads
  <2> QED
    BY <1>2, <1>4, <1>5, <2>1, RepLeavesList
<1> QED
  BY <1>5, <1>6, <1>7, <1>8 DEF RepInv

LEMMA RepAddAnswered ==
    ASSUME RepInv, Repos!ConstantsAssumption, NEW c \in calls, Repos!AddAnswered(c)
    PROVE  RepInv'
<1> DEFINE d == [c EXCEPT !.kind = "added"]
           b == past.mixed \/ Repos!Reading
           p0 == [past EXCEPT !.repos = @ \cup {c.repo}]
           p == [p0 EXCEPT !.mixed = b]
<1>1. c.kind = "add" /\ c.repo \in RepAll /\ c.repo \notin past.repos
  <2>1. c \in RepCalls /\ c.kind = "add" /\ c.repo \notin past.repos
    BY RepUnchanged DEF Repos!AddAnswered
  <2>2. c.repo # None
    BY <2>1, RepUnchanged DEF RepTyped, RepReads
  <2> QED
    BY <2>1, <2>2 DEF RepCalls
<1>2. d \in RepCalls /\ d.kind = "added" /\ d.repo = c.repo
  BY RepUnchanged DEF RepCalls
<1>3. b \in BOOLEAN /\ (b <=> past.mixed \/ Repos!Reading)
  OBVIOUS
<1>4. Repos!Answer(c, store, ui, {d}, p)
  BY DEF Repos!AddAnswered
<1>5. p0 \in RepPast /\ p0.repos = past.repos \cup {c.repo} /\ p0.errors = past.errors
      /\ p0.strange = past.strange
  BY <1>1, RepUnchanged DEF RepPast
<1> HIDE DEF b, p0, d
<1>6. p \in RepPast /\ p.repos = past.repos \cup {c.repo} /\ p.errors = past.errors
      /\ p.strange = past.strange /\ p.mixed = b
  BY <1>3, <1>5 DEF RepPast
<1> HIDE DEF p
<1>7. \A e \in {d} : (e.repo = None <=> e.kind \in RepReads \cup {"permissions"}) /\ e.kind # "update"
  BY <1>1, <1>2, RepNone DEF RepReads
<1>8. /\ RepTyped' /\ Repos!UpdatesWhatWasOpened'
      /\ store' = store /\ calls' = (calls \ {c}) \cup {d} /\ past' = p
      /\ ui'.open = ui.open /\ (ui'.modal = ui.modal \/ ui'.modal = Repos!NoModal)
  <2>1. /\ \A e, f \in store.errors \ {"fetch"} : e = f
        /\ {d} \in SUBSET RepCalls /\ ui \in RepUi /\ store \in RepStore
    BY <1>2, RepUnchanged
  <2> QED
    BY <1>4, <1>6, <1>7, <2>1, RepAnswer, Zenon
<1>9. RepFilled' /\ RepLoading'
  BY <1>6, <1>8, RepSameForm DEF RepLoading
<1>10. RepHalves'
  <2> SUFFICES ASSUME ~Repos!Reading, NEW e \in calls', e.kind = "second" PROVE FALSE
    BY <1>3, <1>6, <1>8 DEF RepHalves
  <2> QED
    BY <1>2, <1>8 DEF Repos!Reading
<1>11. RepListed'
  <2> SUFFICES ASSUME ui.open, ~past.mixed, past.errors = 0, ~\E e \in calls : e.kind \in RepReads
               PROVE  RepRight(store.list, past.repos \cup {c.repo}, calls')
    <3>1. \A e \in calls : e.kind \in RepReads => e \in calls'
      BY <1>1, <1>8 DEF RepReads
    <3> QED
      BY <1>3, <1>6, <1>8, <3>1 DEF RepListed
  <2>1. RepRight(store.list, past.repos, calls)
    BY DEF RepInv, RepListed
  <2>2. RepAdded(calls') = RepAdded(calls) \cup {d}
    BY <1>1, <1>2, <1>8 DEF RepAdded
  <2>3. store.list \in RepLists
    BY RepUnchanged DEF RepStore
  <2>4. \A e \in RepAdded(calls) : e.repo # d.repo
    BY <1>1, <1>2, <2>1 DEF RepRight
  <2>5. \A r \in RepAll : store.list[r] > 0 => r # c.repo
    BY <1>1, <2>1 DEF RepRight
  <2> QED
    BY <1>2, <2>1, <2>2, <2>4, <2>5 DEF RepRight
<1> QED
  BY <1>8, <1>9, <1>10, <1>11 DEF RepInv

\* A dialog that waited for its operation is closed.
LEMMA RepCloses ==
    ASSUME NEW u \in RepUi, NEW m
    PROVE  LET v == [u EXCEPT !.modal = IF @ = m THEN Repos!NoModal ELSE @]
           IN v \in RepUi /\ v.open = u.open /\ (v.modal = u.modal \/ v.modal = Repos!NoModal)
<1> DEFINE x == IF u.modal = m THEN Repos!NoModal ELSE u.modal
<1>1. x \in Repos!Modals \cup {Repos!NoModal} /\ (x = u.modal \/ x = Repos!NoModal)
  BY DEF RepUi
<1>2. [u EXCEPT !.modal = IF @ = m THEN Repos!NoModal ELSE @] = [u EXCEPT !.modal = x]
  OBVIOUS
<1> HIDE DEF x
<1> QED
  BY <1>1, <1>2 DEF RepUi

LEMMA RepAddedAnswer ==
    ASSUME RepInv, Repos!ConstantsAssumption, NEW c \in calls, Repos!Added(c)
    PROVE  RepInv'
<1> DEFINE s == Repos!addedRepo(store, c.repo)
           u == [ui EXCEPT !.modal = IF @ = c.as THEN Repos!NoModal ELSE @]
<1>1. c.kind = "added" /\ c.repo \in past.repos /\ c.repo \in RepAll
  BY RepUnchanged DEF Repos!Added, RepPast
<1>2. /\ s \in RepStore /\ s.detail = store.detail /\ s.list = [store.list EXCEPT ![c.repo] = @ + 1]
      /\ s.errors = store.errors /\ ~s.isFetching
  BY <1>1, RepUnchanged, RepAdds
<1>3. u \in RepUi /\ u.open = ui.open /\ (u.modal = ui.modal \/ u.modal = Repos!NoModal)
  BY RepUnchanged, RepCloses
<1>4. Repos!Answer(c, s, u, {}, past)
  BY DEF Repos!Added
<1> HIDE DEF s, u
<1>5. /\ RepTyped' /\ Repos!UpdatesWhatWasOpened'
      /\ store' = s /\ calls' = (calls \ {c}) \cup {} /\ past' = past
      /\ ui'.open = ui.open /\ (ui'.modal = ui.modal \/ ui'.modal = Repos!NoModal)
  <2>1. (\A e, f \in s.errors \ {"fetch"} : e = f) /\ past \in RepPast
    BY <1>2, RepUnchanged
  <2>2. {} \in SUBSET RepCalls
    OBVIOUS
  <2> QED
    BY <1>2, <1>3, <1>4, <2>1, <2>2, RepAnswer, Zenon
<1>6. RepFilled' /\ RepHalves' /\ RepLoading'
  BY <1>2, <1>5, RepSameForm, RepSameHalves DEF RepLoading
<1>7. RepListed'
  <2> SUFFICES ASSUME ui.open, ~past.mixed, past.errors = 0, ~\E e \in calls : e.kind \in RepReads
               PROVE  RepRight(s.list, past.repos, calls')
    <3>1. \A e \in calls : e.kind \in RepReads => e \in calls'
      BY <1>1, <1>5 DEF RepReads
    <3> QED
      BY <1>5, <3>1 DEF RepListed
  <2>1. RepRight(store.list, past.repos, calls)
    BY DEF RepInv, RepListed
  <2>2. RepAdded(calls') = RepAdded(calls) \ {c} /\ c \in RepAdded(calls)
    BY <1>1, <1>5 DEF RepAdded
  <2>3. store.list \in RepLists
    BY RepUnchanged DEF RepStore
  <2>4. s.list[c.repo] = 1 /\ \A r \in RepAll \ {c.repo} : s.list[r] = store.list[r]
    <3>1. ~(store.list[c.repo] > 0)
      BY <1>1, <2>1, <2>2 DEF RepRight
    <3>2. store.list[c.repo] = 0
      BY <1>1, <2>3, <3>1 DEF RepLists
    <3> QED
      BY <1>1, <1>2, <2>3, <3>2 DEF RepLists
  <2>5. \A e \in RepAdded(calls') : e.repo # c.repo
    BY <2>1, <2>2 DEF RepRight
  <2>6. \A r \in RepAll : s.list[r] <= 1
    BY <2>1, <2>4 DEF RepRight
  <2>7. \A r \in RepAll : s.list[r] > 0 => r \in past.repos /\ \A e \in RepAdded(calls') : e.repo # r
    <3> TAKE r \in RepAll
    <3>1. CASE r = c.repo
      BY <1>1, <2>5, <3>1
    <3>2. CASE r # c.repo
      BY <2>1, <2>2, <2>4, <3>2 DEF RepRight
    <3> QED
      BY <3>1, <3>2
  <2>8. \A r \in past.repos : (\A q \in past.repos : q.name = r.name => q = r) =>
            s.list[r] > 0 \/ \E e \in RepAdded(calls') : e.repo = r
    <3> TAKE r \in past.repos
    <3>1. r \in RepAll
      BY RepUnchanged DEF RepPast
    <3>2. CASE r = c.repo
      BY <2>4, <3>2
    <3>3. CASE r # c.repo
      BY <2>1, <2>2, <2>4, <3>1, <3>3 DEF RepRight
    <3> QED
      BY <3>2, <3>3
  <2> QED
    BY <2>1, <2>2, <2>6, <2>7, <2>8 DEF RepRight
<1> QED
  BY <1>5, <1>6, <1>7 DEF RepInv

LEMMA RepDeleted ==
    ASSUME RepInv, Repos!ConstantsAssumption, NEW c \in calls, Repos!Deleted(c)
    PROVE  RepInv'
<1> DEFINE s == Repos!requestRepoSummaries(store)
           u == [ui EXCEPT !.modal = IF @ = c.as THEN Repos!NoModal ELSE @]
           b == past.mixed \/ Repos!Reading
           p0 == [past EXCEPT !.repos = @ \ {c.repo}]
           p == [p0 EXCEPT !.mixed = b]
<1>1. s \in RepStore /\ s.detail = store.detail /\ s.errors = store.errors
  BY RepUnchanged, RepLoads DEF Repos!requestRepoSummaries
<1>2. u \in RepUi /\ u.open = ui.open /\ (u.modal = ui.modal \/ u.modal = Repos!NoModal)
  BY RepUnchanged, RepCloses
<1>3. b \in BOOLEAN /\ (b <=> past.mixed \/ Repos!Reading)
  OBVIOUS
<1>4. PICK d \in RepCalls : /\ Repos!refetchRepos(c.ns) = {d}
                            /\ d.kind \in RepReads \ {"second"} /\ d.repo = None
  BY RepUnchanged, RepRefetch DEF RepCalls
<1>5. Repos!Answer(c, s, u, {d}, p)
  BY <1>4 DEF Repos!Deleted
<1>6. p0 \in RepPast /\ p0.strange = past.strange
  BY RepUnchanged DEF RepPast
<1> HIDE DEF b, p0, s, u
<1>7. p \in RepPast /\ p.strange = past.strange /\ p.mixed = b
  BY <1>3, <1>6 DEF RepPast
<1> HIDE DEF p
<1>8. \A e \in {d} : (e.repo = None <=> e.kind \in RepReads \cup {"permissions"}) /\ e.kind # "update"
  BY <1>4 DEF RepReads
<1>9. /\ RepTyped' /\ Repos!UpdatesWhatWasOpened'
      /\ store' = s /\ calls' = (calls \ {c}) \cup {d} /\ past' = p
      /\ ui'.open = ui.open /\ (ui'.modal = ui.modal \/ ui'.modal = Repos!NoModal)
  <2>1. /\ \A e, f \in s.errors \ {"fetch"} : e = f
        /\ {d} \in SUBSET RepCalls
    BY <1>1, <1>4, RepUnchanged
  <2> QED
    BY <1>1, <1>2, <1>5, <1>7, <1>8, <2>1, RepAnswer, Zenon
<1>10. RepFilled' /\ RepLoading'
  BY <1>1, <1>7, <1>9, RepSameForm DEF RepLoading
<1>11. RepHalves'
  <2> SUFFICES ASSUME ~Repos!Reading, NEW e \in calls', e.kind = "second" PROVE FALSE
    BY <1>3, <1>7, <1>9 DEF RepHalves
  <2> QED
    BY <1>4, <1>9 DEF Repos!Reading
<1>12. RepListed'
  BY <1>4, <1>9 DEF RepListed
<1> QED
  BY <1>9, <1>10, <1>11, <1>12 DEF RepInv

LEMMA RepCallFails ==
    ASSUME RepInv, Repos!ConstantsAssumption, NEW c \in calls, Repos!CallFails(c)
    PROVE  RepInv'
<1> DEFINE gone == c.repo # None /\ c.repo \notin past.repos /\ c.kind \notin {"add", "delete"}
           s == Repos!errorRepos(store, Repos!OpOf(c))
           u == IF c.kind = "delete" /\ ui.modal = c.as THEN [ui EXCEPT !.modal = Repos!NoModal] ELSE ui
           n == IF gone THEN past.errors ELSE past.errors + 1
           b == past.mixed \/ c.kind = "added"
           p0 == [past EXCEPT !.errors = n]
           p == [p0 EXCEPT !.mixed = b]
<1>1. Repos!OpOf(c) \in {"fetch", "create", "update", "delete"}
  BY DEF Repos!OpOf
<1>2. /\ s \in RepStore /\ s.detail = store.detail /\ s.list = store.list /\ ~s.isFetching
      /\ \A e, f \in s.errors \ {"fetch"} : e = f
  BY <1>1, RepUnchanged, RepErrs
<1>3. u \in RepUi /\ u.open = ui.open /\ (u.modal = ui.modal \/ u.modal = Repos!NoModal)
  BY RepUnchanged DEF RepUi
<1>4. b \in BOOLEAN /\ (b <=> past.mixed \/ c.kind = "added")
  OBVIOUS
<1>5. /\ n \in 0..Max.repositories.errors
      /\ n = 0 => gone /\ past.errors = 0
  <2>1. past.errors \in 0..Max.repositories.errors /\ Max.repositories.errors \in Nat
    BY RepUnchanged DEF RepPast, Repos!ConstantsAssumption
  <2>2. gone \/ past.errors < Max.repositories.errors
    BY DEF Repos!CallFails
  <2> QED
    BY <2>1, <2>2
<1>6. Repos!Answer(c, s, u, {}, p)
  BY DEF Repos!CallFails
<1> HIDE DEF n
<1>7. p0 \in RepPast /\ p0.strange = past.strange /\ p0.repos = past.repos /\ p0.errors = n
  BY <1>5, RepUnchanged DEF RepPast
<1> HIDE DEF b, p0, s, u
<1>8. p \in RepPast /\ p.strange = past.strange /\ p.repos = past.repos /\ p.errors = n /\ p.mixed = b
  BY <1>4, <1>7 DEF RepPast
<1> HIDE DEF p
<1>9. /\ RepTyped' /\ Repos!UpdatesWhatWasOpened'
      /\ store' = s /\ calls' = (calls \ {c}) \cup {} /\ past' = p
      /\ ui'.open = ui.open /\ (ui'.modal = ui.modal \/ ui'.modal = Repos!NoModal)
  <2>1. {} \in SUBSET RepCalls
    OBVIOUS
  <2> QED
    BY <1>2, <1>3, <1>6, <1>8, <2>1, RepAnswer, Zenon
<1>10. RepFilled' /\ RepLoading'
  BY <1>2, <1>8, <1>9, RepSameForm DEF RepLoading
<1>11. RepHalves'
  <2>1. past'.mixed = past.mixed \/ past'.mixed
    BY <1>4, <1>8, <1>9, RepUnchanged DEF RepPast
  <2> QED
    BY <1>8, <1>9, <2>1, RepSameHalves
<1>12. RepListed'
  <2> SUFFICES ASSUME ~b, n = 0 PROVE RepListed'
    BY <1>8, <1>9 DEF RepListed
  <2>1. past'.mixed = past.mixed /\ past'.errors = past.errors
    BY <1>4, <1>5, <1>8, <1>9, RepUnchanged DEF RepPast
  <2>2. c.kind \notin RepReads /\ c.kind # "added"
    BY <1>4, <1>5, RepUnchanged DEF RepTyped
  <2>3. RepAdded(calls') = RepAdded(calls) /\ \A d \in calls : d.kind \in RepReads => d \in calls'
    BY <1>9, <2>2 DEF RepAdded
  <2> QED
    BY <1>2, <1>8, <1>9, <2>1, <2>3, RepLeavesList
<1> QED
  BY <1>9, <1>10, <1>11, <1>12 DEF RepInv

-----------------------------------------------------------------------------
LEMMA RepNextHolds == ASSUME Repos!ConstantsAssumption PROVE RepInv /\ [Repos!Next]_(Repos!vars) => RepInv'
<1> SUFFICES ASSUME RepInv, [Repos!Next]_(Repos!vars) PROVE RepInv'
  OBVIOUS
<1>1. CASE Repos!User
  BY <1>1, RepPages, RepLeave, RepCloseModal, RepOperates, RepOpenModal, RepRefresh
  DEF Repos!User, RepAll
<1>2. ASSUME NEW c \in calls, Repos!Answered(c) PROVE RepInv'
  BY <1>2, RepFirstAnswered, RepListAnswered, RepSettles, RepDetailAnswered, RepAddAnswered,
     RepAddedAnswer, RepDeleted, RepCallFails DEF Repos!Answered
<1>3. CASE UNCHANGED Repos!vars
  <2>1. store' = store /\ ui' = ui /\ calls' = calls /\ past' = past
    BY <1>3 DEF Repos!vars
  <2> QED
    BY <2>1 DEF RepInv, RepTyped, RepFilled, RepListed, RepHalves, RepLoading, RepRight, RepAdded,
                Repos!UpdatesWhatWasOpened, Repos!Stored
<1> QED
  BY <1>1, <1>2, <1>3 DEF Repos!Next

\* What the run checks of the page follows from the invariant.
LEMMA RepHolds ==
    ASSUME Repos!ConstantsAssumption, RepInv
    PROVE  Repos!TypeOK /\ Repos!UpdatesWhatWasOpened /\ Repos!ListIsCurrent
<1>1. Repos!TypeOK
  BY RepUnchanged DEF Repos!TypeOK, RepStore, RepUi, RepPast, RepLists, RepAll, Repos!ConstantsAssumption
<1>2. Repos!ListIsCurrent
  <2> SUFFICES ASSUME ui.open, calls = {}, ~past.mixed, past.errors = 0
               PROVE  /\ ~store.isFetching
                      /\ \A r \in RepAll : store.list[r] <= 1
                      /\ \A r \in past.repos : Repos!Alone(r) /\ r \in Repos!Visible(Repos!Stored(All)) =>
                            r \in Repos!Visible(store.list)
                      /\ Repos!Visible(store.list) \subseteq past.repos
    BY DEF Repos!ListIsCurrent, RepAll
  <2>1. RepRight(store.list, past.repos, calls) /\ RepAdded(calls) = {}
    BY DEF RepInv, RepListed, RepAdded
  <2>2. ~store.isFetching
    BY DEF RepInv, RepLoading
  <2>3. \A r \in past.repos : Repos!Alone(r) /\ r \in Repos!Visible(Repos!Stored(All)) =>
            r \in Repos!Visible(store.list)
    BY <2>1 DEF RepRight, Repos!Alone, Repos!Visible
  <2>4. Repos!Visible(store.list) \subseteq past.repos
    BY <2>1 DEF RepRight, Repos!Visible, RepAll
  <2> QED
    BY <2>1, <2>2, <2>3, <2>4 DEF RepRight
<1> QED
  BY <1>1, <1>2 DEF RepInv

-----------------------------------------------------------------------------
(* The instances of operators: the invariant is InsInv. *)

InsOps   == {"create", "update", "delete"}
InsReads == {"rcsv", "res"}
InsPages == {"other", "view", "update", "new", "list"}
InsBody  == Inst!Body \cup {None}
InsText  == Inst!Body \cup {Blank}
InsStore == [fetching : SUBSET {"csv", "resource"}, csv : BOOLEAN, resource : InsBody,
             resources : SUBSET Instances,
             errors : [csv : {"no", "fetch"}, resource : {"no", "fetch"} \cup InsOps]]
InsUi    == [page : InsPages, inst : Instances \cup {None}, crd : BOOLEAN, default : {Blank, Inst!Example},
             current : InsText, values : InsText, typed : BOOLEAN, dialog : {"closed", "deleting", "broken"}]
InsCalls == [kind : InsReads \cup InsOps \cup {"csv", "csvs", "items"}, inst : Instances \cup {None},
             body : InsText, url : Instances \cup {None}, calm : BOOLEAN, n : Nat]
InsPast  == [cluster : [Instances -> Inst!Specs], moves : Nat, sends : Nat,
             errors : 0..Max.instances.errors, stray : BOOLEAN]

InsTyped ==
    /\ store \in InsStore /\ ui \in InsUi /\ past \in InsPast /\ calls \subseteq InsCalls
    /\ ui.page \in {"view", "update"} => ui.inst \in Instances
    /\ \A c \in calls : /\ c.kind \in InsReads \cup InsOps => c.inst \in Instances
                        /\ c.kind \in {"create", "update"} => c.body \in Inst!Body
                        /\ c.kind = "res" => c.url = c.inst

\* What is being fetched is asked for.
InsFetches ==
    /\ "csv" \in store.fetching => \E c \in calls : c.kind \in {"csv", "rcsv", "csvs"}
    /\ "resource" \in store.fetching => \E c \in calls : c.kind \in InsReads \cup InsOps \cup {"csvs", "items"}

InsDialog == ui.dialog = "deleting" => \E c \in calls : c.kind = "delete"

\* Once the resource is there it is that of the page.
InsAbout ==
    ui.page \in {"view", "update"} /\ ~past.stray /\ ~Inst!Reading =>
        IF store.resource = None THEN store.errors.resource # "no" ELSE store.resource.of = ui.inst

InsCurrent == ui.page = "update" /\ store.resource # None => ui.current = store.resource

InsExample == {Inst!Example, Inst!Edited(Inst!Example.of, Inst!Example)}

InsValues ==
    ui.page = "update" /\ ui.values # Blank =>
        ui.values \in InsExample \/ (ui.current # Blank /\ ui.values.of = ui.current.of)

\* While something is typed there is a form, and nothing in flight but what it sent.
InsEdits ==
    ui.typed => /\ ui.page \in {"new", "update"} /\ ui.values # Blank /\ ui.values.spec \in {3, 5}
                /\ ui.page = "update" => store.resource # None /\ store.errors.resource # "fetch"
                /\ ui.page = "new" => ui.crd /\ store.errors.csv = "no"
                /\ \A c \in calls : c.kind \in {"create", "update"}

InsThere == {i \in Instances : past.cluster[i] # 0}
InsLists ==
    ui.page = "list" /\ past.errors = 0 =>
        (\E c \in calls : c.kind \in {"csvs", "items"}) \/ store.resources = InsThere

InsInv == /\ InsTyped /\ InsFetches /\ InsDialog /\ InsAbout /\ InsCurrent /\ InsValues /\ InsEdits
          /\ InsLists /\ Inst!ActsOnUrlInstance

LEMMA InsExamples == ASSUME Inst!ConstantsAssumption PROVE Inst!Example \in Inst!Body /\ InsExample \subseteq Inst!Body
<1>1. (CHOOSE i \in Instances : TRUE) \in Instances
  BY DEF Inst!ConstantsAssumption
<1> QED
  BY <1>1 DEF Inst!Example, Inst!Body, Inst!Specs, InsExample, Inst!Edited

LEMMA InsInitHolds == ASSUME Inst!ConstantsAssumption PROVE Inst!Init => InsInv
<1> SUFFICES ASSUME Inst!Init PROVE InsInv
  OBVIOUS
<1>1. ui \in InsUi /\ ui.page = "other" /\ ui.dialog = "closed" /\ ~ui.typed
  BY DEF Inst!Init, Inst!NoPage, InsUi, InsPages, InsText
<1>2. store \in InsStore /\ store.fetching = {}
  BY DEF Inst!Init, InsStore, InsBody, InsOps
<1>3. past \in InsPast
  BY DEF Inst!Init, InsPast, Inst!Specs, Inst!ConstantsAssumption
<1> QED
  BY <1>1, <1>2, <1>3 DEF Inst!Init, InsInv, InsTyped, InsFetches, InsDialog, InsAbout, InsCurrent,
                         InsValues, InsEdits, InsLists, Inst!ActsOnUrlInstance

-----------------------------------------------------------------------------
(* The reducers *)

\* the reducers, one lemma each: what they leave alone
LEMMA InsFlags ==
    ASSUME NEW s \in InsStore, NEW e \in {"csv", "resource"}
    PROVE  /\ Inst!Fetching(s, e) \in InsStore /\ Inst!Fetching(s, e).fetching = s.fetching \cup {e}
           /\ Inst!Fetching(s, e).csv = s.csv /\ Inst!Fetching(s, e).resource = s.resource
           /\ Inst!Fetching(s, e).resources = s.resources /\ Inst!Fetching(s, e).errors = s.errors
           /\ Inst!Fetched(s, e) \in InsStore /\ Inst!Fetched(s, e).fetching = s.fetching \ {e}
           /\ Inst!Fetched(s, e).csv = s.csv /\ Inst!Fetched(s, e).resource = s.resource
           /\ Inst!Fetched(s, e).resources = s.resources /\ Inst!Fetched(s, e).errors = s.errors
  BY DEF Inst!Fetching, Inst!Fetched, InsStore

LEMMA InsLocation ==
    ASSUME NEW s \in InsStore
    PROVE  LET t == Inst!LocationChange(s)
           IN /\ t \in InsStore /\ t.fetching = s.fetching /\ t.csv = s.csv /\ t.resource = s.resource
              /\ t.resources = s.resources
<1> DEFINE e == [csv |-> "no", resource |-> "no"]
<1>1. e \in [csv : {"no", "fetch"}, resource : {"no", "fetch"} \cup InsOps]
  OBVIOUS
<1>2. Inst!LocationChange(s) = [s EXCEPT !.errors = e]
  BY DEF Inst!LocationChange
<1> HIDE DEF e
<1> QED
  BY <1>1, <1>2 DEF InsStore

\* An error of the resource.
LEMMA InsError ==
    ASSUME NEW s \in InsStore, NEW op \in {"fetch"} \cup InsOps
    PROVE  LET t == [s EXCEPT !.errors.resource = op]
           IN /\ t \in InsStore /\ t.fetching = s.fetching /\ t.csv = s.csv /\ t.resource = s.resource
              /\ t.resources = s.resources /\ t.errors.resource = op /\ t.errors.csv = s.errors.csv
<1> DEFINE e == [s.errors EXCEPT !.resource = op]
<1>1. e \in [csv : {"no", "fetch"}, resource : {"no", "fetch"} \cup InsOps] /\ e.resource = op
      /\ e.csv = s.errors.csv
  BY DEF InsStore
<1>2. [s EXCEPT !.errors.resource = op] = [s EXCEPT !.errors = e]
  BY DEF InsStore
<1> HIDE DEF e
<1> QED
  BY <1>1, <1>2 DEF InsStore

LEMMA InsErrs ==
    ASSUME NEW s \in InsStore, NEW op \in InsOps
    PROVE  LET t == Inst!errorResource(s, op)
           IN /\ t \in InsStore /\ t.fetching = s.fetching \ {"resource"} /\ t.csv = s.csv
              /\ t.resource = s.resource /\ t.resources = s.resources
              /\ t.errors.resource = op /\ t.errors.csv = s.errors.csv
<1> DEFINE f == Inst!Fetched(s, "resource")
<1>1. /\ f \in InsStore /\ f.fetching = s.fetching \ {"resource"}
      /\ f.csv = s.csv /\ f.resource = s.resource
      /\ f.resources = s.resources /\ f.errors = s.errors
  BY InsFlags
<1>2. Inst!errorResource(s, op) = [f EXCEPT !.errors.resource = op]
  BY DEF Inst!errorResource
<1> HIDE DEF f
<1> QED
  BY <1>1, <1>2, InsError

LEMMA InsErrsCustom ==
    ASSUME NEW s \in InsStore
    PROVE  LET t == Inst!errorCustomResource(s)
           IN /\ t \in InsStore /\ t.fetching = s.fetching \ {"resource"} /\ t.csv = s.csv
              /\ t.resource = None /\ t.resources = s.resources /\ t.errors.resource = "fetch"
<1> DEFINE f == Inst!Fetched(s, "resource")
           g == [f EXCEPT !.resource = None]
<1>1. /\ f \in InsStore /\ f.fetching = s.fetching \ {"resource"}
      /\ f.csv = s.csv /\ f.resources = s.resources
  BY InsFlags
<1>2. Inst!errorCustomResource(s) = [g EXCEPT !.errors.resource = "fetch"]
  BY DEF Inst!errorCustomResource
<1> HIDE DEF f
<1>3. g \in InsStore /\ g.fetching = f.fetching /\ g.csv = f.csv /\ g.resource = None
      /\ g.resources = f.resources
  BY <1>1 DEF InsStore, InsBody
<1> HIDE DEF g
<1> QED
  BY <1>1, <1>2, <1>3, InsError

LEMMA InsCSV ==
    ASSUME NEW s \in InsStore
    PROVE  LET t == Inst!receiveCSV(s)
           IN /\ t \in InsStore /\ t.fetching = s.fetching \ {"csv"} /\ t.resource = s.resource
              /\ t.resources = s.resources /\ t.errors = s.errors
<1> DEFINE f == Inst!Fetched(s, "csv")
<1>1. /\ f \in InsStore /\ f.fetching = s.fetching \ {"csv"} /\ f.resource = s.resource
      /\ f.resources = s.resources /\ f.errors = s.errors
  BY InsFlags
<1>2. Inst!receiveCSV(s) = [f EXCEPT !.csv = TRUE]
  BY DEF Inst!receiveCSV
<1> HIDE DEF f
<1> QED
  BY <1>1, <1>2 DEF InsStore

LEMMA InsErrsCSV ==
    ASSUME NEW s \in InsStore
    PROVE  LET t == Inst!errorCSVs(s)
           IN /\ t \in InsStore /\ t.fetching = s.fetching \ {"csv"} /\ t.resource = s.resource
              /\ t.resources = s.resources /\ t.errors.resource = s.errors.resource
<1> DEFINE f == Inst!Fetched(s, "csv")
           g == [f EXCEPT !.csv = FALSE]
           e == [g.errors EXCEPT !.csv = "fetch"]
<1>1. /\ f \in InsStore /\ f.fetching = s.fetching \ {"csv"} /\ f.resource = s.resource
      /\ f.resources = s.resources /\ f.errors = s.errors
  BY InsFlags
<1>2. Inst!errorCSVs(s) = [g EXCEPT !.errors.csv = "fetch"]
  BY DEF Inst!errorCSVs
<1> HIDE DEF f
<1>3. g \in InsStore /\ g.fetching = f.fetching /\ g.resource = f.resource
      /\ g.resources = f.resources /\ g.errors = f.errors
  BY <1>1 DEF InsStore
<1> HIDE DEF g
<1>4. e \in [csv : {"no", "fetch"}, resource : {"no", "fetch"} \cup InsOps]
      /\ e.resource = g.errors.resource
  BY <1>3 DEF InsStore
<1>5. Inst!errorCSVs(s) = [g EXCEPT !.errors = e]
  BY <1>2, <1>3 DEF InsStore
<1> HIDE DEF e
<1> QED
  BY <1>1, <1>3, <1>4, <1>5 DEF InsStore

LEMMA InsReceives ==
    ASSUME NEW s \in InsStore, NEW is \in SUBSET Instances
    PROVE  LET t == Inst!receiveCustomResources(s, is)
           IN /\ t \in InsStore /\ t.fetching = s.fetching \ {"resource"} /\ t.resource = s.resource
              /\ t.resources = is /\ t.errors = s.errors
<1> DEFINE f == Inst!Fetched(s, "resource")
<1>1. /\ f \in InsStore /\ f.fetching = s.fetching \ {"resource"} /\ f.resource = s.resource
      /\ f.errors = s.errors
  BY InsFlags
<1>2. Inst!receiveCustomResources(s, is) = [f EXCEPT !.resources = is]
  BY DEF Inst!receiveCustomResources
<1> HIDE DEF f
<1> QED
  BY <1>1, <1>2 DEF InsStore

LEMMA InsReceivesOne ==
    ASSUME NEW s \in InsStore, NEW r \in Inst!Body
    PROVE  LET t == Inst!receiveCustomResource(s, r)
           IN /\ t \in InsStore /\ t.fetching = s.fetching \ {"resource"} /\ t.resource = r
              /\ t.resources = s.resources /\ t.errors = s.errors
<1> DEFINE f == Inst!Fetched(s, "resource")
<1>1. /\ f \in InsStore /\ f.fetching = s.fetching \ {"resource"} /\ f.resources = s.resources
      /\ f.errors = s.errors
  BY InsFlags
<1>2. Inst!receiveCustomResource(s, r) = [f EXCEPT !.resource = r]
  BY DEF Inst!receiveCustomResource
<1> HIDE DEF f
<1> QED
  BY <1>1, <1>2 DEF InsStore, InsBody

-----------------------------------------------------------------------------
(* The effects *)

\* the effects of a render fill the form with what the instance, or the example, says
LEMMA InsEffects ==
    ASSUME Inst!ConstantsAssumption, NEW s \in InsStore, NEW u \in InsUi, NEW csv \in BOOLEAN, NEW res \in BOOLEAN
    PROVE  LET w == Inst!Effects(s, u, csv, res)
           IN /\ w \in InsUi /\ w.page = u.page /\ w.inst = u.inst /\ w.typed = u.typed
              /\ w.dialog = u.dialog
              /\ w.current = IF res /\ s.resource # None /\ u.page = "update" THEN s.resource ELSE u.current
              /\ \/ w.values = Blank
                 \/ w.values = IF w.current # Blank THEN w.current ELSE w.default
                 \/ w.values = u.values /\ w.current = u.current
<1> DEFINE new == csv /\ s.csv /\ u.page \in {"view", "new", "update"}
           c   == u.crd \/ new
           d   == IF new /\ u.page # "view" THEN Inst!Example ELSE u.default
           r   == IF res /\ s.resource # None /\ u.page = "update" THEN s.resource ELSE u.current
           v1  == [u EXCEPT !.crd = c]
           v2  == [v1 EXCEPT !.default = d]
           v   == [v2 EXCEPT !.current = r]
           start == IF r # Blank THEN r ELSE d
<1>1. c \in BOOLEAN
  OBVIOUS
<1>2. d \in {Blank, Inst!Example} /\ d \in InsText
  BY InsExamples DEF InsUi, InsText
<1>3. r \in InsText
  BY DEF InsUi, InsStore, InsText, InsBody
<1>4. start \in InsText
  BY <1>2, <1>3
<1>5. Inst!Effects(s, u, csv, res) =
        (CASE ~Inst!HasForm(s, v) -> [v EXCEPT !.values = Blank]
           [] Inst!HasForm(s, v) /\ (\/ v.values = Blank
                                     \/ <<v.default, v.current>> # <<u.default, u.current>>) ->
                [v EXCEPT !.values = start]
           [] OTHER -> v)
  <2>1. u = [u EXCEPT !.crd = u.crd] /\ v = [u EXCEPT !.crd = @ \/ new,
                         !.default = IF new /\ u.page # "view" THEN Inst!Example ELSE @,
                         !.current = IF res /\ s.resource # None /\ u.page = "update"
                                     THEN s.resource ELSE @]
    BY DEF InsUi
  <2>2. v.current = r /\ v.default = d
    BY DEF InsUi
  <2> HIDE DEF v, r, d, c, new
  <2> QED
    BY <2>1, <2>2 DEF Inst!Effects, new
<1> HIDE DEF new, c, d, start
<1>6. v1 \in InsUi /\ v1.page = u.page /\ v1.inst = u.inst /\ v1.typed = u.typed
      /\ v1.dialog = u.dialog /\ v1.values = u.values /\ v1.current = u.current
  BY <1>1 DEF InsUi
<1> HIDE DEF v1
<1>7. v2 \in InsUi /\ v2.page = u.page /\ v2.inst = u.inst /\ v2.typed = u.typed
      /\ v2.dialog = u.dialog /\ v2.values = u.values /\ v2.default = d
  BY <1>2, <1>6 DEF InsUi
<1> HIDE DEF v2
<1>8. v \in InsUi /\ v.page = u.page /\ v.inst = u.inst /\ v.typed = u.typed
      /\ v.dialog = u.dialog /\ v.values = u.values /\ v.current = r /\ v.default = d
  BY <1>3, <1>7 DEF InsUi
<1> HIDE DEF v
<1>9. \A t \in InsText : LET w == [v EXCEPT !.values = t]
         IN w \in InsUi /\ w.page = v.page /\ w.inst = v.inst /\ w.typed = v.typed
            /\ w.dialog = v.dialog /\ w.current = v.current /\ w.values = t /\ w.default = v.default
  BY <1>8 DEF InsUi
<1>10. Blank \in InsText
  BY DEF InsText
<1>11. CASE ~Inst!HasForm(s, v)
  <2>1. Inst!Effects(s, u, csv, res) = [v EXCEPT !.values = Blank]
    BY <1>5, <1>11
  <2> QED
    BY <1>8, <1>9, <1>10, <2>1 DEF r
<1>12. CASE Inst!HasForm(s, v) /\ (v.values = Blank \/ <<v.default, v.current>> # <<u.default, u.current>>)
  <2>1. Inst!Effects(s, u, csv, res) = [v EXCEPT !.values = start]
    BY <1>5, <1>12
  <2> QED
    BY <1>4, <1>8, <1>9, <2>1 DEF r, start
<1>13. CASE Inst!HasForm(s, v) /\ v.values # Blank /\ <<v.default, v.current>> = <<u.default, u.current>>
  <2>1. Inst!Effects(s, u, csv, res) = v
    BY <1>5, <1>13
  <2> QED
    BY <1>8, <1>13, <2>1 DEF r
<1> QED
  BY <1>11, <1>12, <1>13

\* Nothing to do: the form stays as it is.
LEMMA InsNoEffects ==
    ASSUME NEW s \in InsStore, NEW u \in InsUi, Inst!HasForm(s, u), u.values # Blank
    PROVE  Inst!Effects(s, u, FALSE, FALSE) = u
<1> DEFINE v == [u EXCEPT !.crd = u.crd \/ FALSE, !.default = u.default, !.current = u.current]
<1>1. v = u
  BY DEF InsUi
<1>2. Inst!Effects(s, u, FALSE, FALSE) = 
        (CASE ~Inst!HasForm(s, v) -> [v EXCEPT !.values = Blank]
           [] Inst!HasForm(s, v) /\ (\/ v.values = Blank
                                     \/ <<v.default, v.current>> # <<u.default, u.current>>) ->
                [v EXCEPT !.values = IF v.current # Blank THEN v.current ELSE v.default]
           [] OTHER -> v)
  BY DEF Inst!Effects
<1> HIDE DEF v
<1> QED
  BY <1>1, <1>2

\* what a request is made of
LEMMA InsCall ==
    ASSUME InsTyped, NEW k \in InsReads \cup InsOps \cup {"csv", "csvs", "items"},
           NEW i \in Instances \cup {None}
    PROVE  LET c == Inst!Call(k, i)
           IN c \in InsCalls /\ c.kind = k /\ c.inst = i /\ c.url = i
<1>1. past.moves \in Nat
  BY DEF InsTyped, InsPast
<1> QED
  BY <1>1 DEF Inst!Call, InsCalls, InsText

\* A page that is opened, the calls cs of others being in flight.
LEMMA InsOpened ==
    ASSUME InsInv, Inst!ConstantsAssumption, NEW s0 \in InsStore, NEW page \in {"view", "update", "new", "list"},
           NEW i \in Instances \cup {None}, page \in {"view", "update"} => i \in Instances,
           NEW cs \in SUBSET calls, NEW p \in InsPast,
           ui.dialog = "deleting" /\ ui.page = page /\ page = "view" => \E c \in cs : c.kind = "delete",
           s0.fetching \subseteq store.fetching,
           page = "new" => cs = calls,
           Inst!Opened(s0, page, i, cs, p)
    PROVE  InsInv'
<1> DEFINE s1 == Inst!LocationChange(s0)
           s  == CASE page \in {"view", "update"} -> Inst!Fetching(Inst!Fetching(s1, "resource"), "csv")
                   [] page = "new"                -> Inst!Fetching(s1, "csv")
                   [] page = "list"               -> Inst!Fetching(Inst!Fetching(s1, "resource"), "csv")
           stays == page = ui.page /\ page = "view"
           b == stays /\ ui.crd
           d == IF stays THEN ui.dialog ELSE "closed"
           u  == [Inst!NoPage EXCEPT !.page = page, !.inst = i, !.crd = b, !.dialog = d]
           more == CASE page \in {"view", "update"} -> {Inst!Call("rcsv", i), Inst!Call("csv", i)}
                              [] page = "new"                -> {Inst!Call("csv", None)}
                              [] page = "list"               -> {Inst!Call("csvs", None)}
<1>0. InsTyped
  BY DEF InsInv
<1>1. /\ s1 \in InsStore /\ s1.fetching = s0.fetching /\ s1.csv = s0.csv /\ s1.resource = s0.resource
      /\ s1.resources = s0.resources
  BY InsLocation
<1> HIDE DEF s1
<1>2. /\ s \in InsStore /\ s.resource = s0.resource
      /\ "resource" \in s.fetching => page # "new" \/ "resource" \in s0.fetching
  <2> DEFINE a == Inst!Fetching(s1, "resource")
             e == Inst!Fetching(a, "csv")
             f == Inst!Fetching(s1, "csv")
  <2>1. a \in InsStore /\ a.resource = s1.resource
    BY <1>1, InsFlags
  <2> HIDE DEF a
  <2>2. e \in InsStore /\ e.resource = s1.resource
    BY <2>1, InsFlags
  <2>3. f \in InsStore /\ f.resource = s1.resource /\ f.fetching = s1.fetching \cup {"csv"}
    BY <1>1, InsFlags
  <2>4. s = IF page = "new" THEN f ELSE e
    BY DEF a
  <2> HIDE DEF e, f, s
  <2> QED
    BY <1>1, <2>2, <2>3, <2>4
<1>3. b \in BOOLEAN /\ d \in {"closed", "deleting", "broken"}
      /\ (d = "deleting" => ui.dialog = "deleting" /\ ui.page = page /\ page = "view")
  BY <1>0 DEF InsTyped, InsUi
<1> HIDE DEF s, b, d
<1>4. u \in InsUi /\ u.page = page /\ u.inst = i /\ ~u.typed /\ u.dialog = d /\ u.current = Blank
      /\ u.values = Blank
  <2> DEFINE u0 == Inst!NoPage
             u1 == [u0 EXCEPT !.page = page]
             u2 == [u1 EXCEPT !.inst = i]
             u3 == [u2 EXCEPT !.crd = b]
  <2>1. u0 \in InsUi /\ ~u0.typed /\ u0.current = Blank /\ u0.values = Blank
    BY DEF Inst!NoPage, InsUi, InsPages, InsText
  <2>2. u = [u3 EXCEPT !.dialog = d]
    OBVIOUS
  <2> HIDE DEF u0
  <2>3. u1 \in InsUi /\ ~u1.typed /\ u1.current = Blank /\ u1.values = Blank /\ u1.page = page
    BY <2>1 DEF InsUi, InsPages
  <2> HIDE DEF u1
  <2>4. u2 \in InsUi /\ ~u2.typed /\ u2.current = Blank /\ u2.values = Blank /\ u2.page = page
        /\ u2.inst = i
    BY <2>3 DEF InsUi
  <2> HIDE DEF u2
  <2>5. u3 \in InsUi /\ ~u3.typed /\ u3.current = Blank /\ u3.values = Blank /\ u3.page = page
        /\ u3.inst = i
    BY <1>3, <2>4 DEF InsUi
  <2> HIDE DEF u3, u
  <2> QED
    BY <1>3, <2>2, <2>5 DEF InsUi
<1> HIDE DEF u
<1>5. /\ store' = s /\ ui' = Inst!Effects(s, u, TRUE, TRUE) /\ calls' = cs \cup more
      /\ past' = [p EXCEPT !.stray = FALSE]
  BY DEF Inst!Opened, s, s1, u, b, d, stays
<1>6. /\ more \subseteq InsCalls
      /\ \A c \in more : /\ c.kind \in {"rcsv", "csv", "csvs"}
                         /\ c.kind = "rcsv" => c.inst \in Instances
      /\ \E c \in more : c.kind \in {"csv", "csvs"}
      /\ page \in {"view", "update"} => \E c \in more : c.kind = "rcsv"
      /\ page = "list" => \E c \in more : c.kind = "csvs"
  <2> DEFINE c1 == Inst!Call("rcsv", i)
             c2 == Inst!Call("csv", i)
             c3 == Inst!Call("csv", None)
             c4 == Inst!Call("csvs", None)
  <2>1. /\ c1 \in InsCalls /\ c1.kind = "rcsv" /\ c1.inst = i
        /\ c2 \in InsCalls /\ c2.kind = "csv"
        /\ c3 \in InsCalls /\ c3.kind = "csv"
        /\ c4 \in InsCalls /\ c4.kind = "csvs"
    BY <1>0, InsCall DEF InsReads
  <2>2. more = IF page = "new" THEN {c3} ELSE IF page = "list" THEN {c4} ELSE {c1, c2}
    OBVIOUS
  <2> HIDE DEF c1, c2, c3, c4, more
  <2> QED
    BY <2>1, <2>2
<1> HIDE DEF more
<1>7. /\ past' \in InsPast /\ ~past'.stray /\ past'.errors = p.errors
  BY <1>5 DEF InsPast
<1> DEFINE w == Inst!Effects(s, u, TRUE, TRUE)
<1>8. /\ w \in InsUi /\ w.page = page /\ w.inst = i /\ ~w.typed /\ w.dialog = d
      /\ w.current = IF s.resource # None /\ page = "update" THEN s.resource ELSE Blank
      /\ w.values = Blank \/ w.values = IF w.current # Blank THEN w.current ELSE w.default
  <2>1. /\ w \in InsUi /\ w.page = u.page /\ w.inst = u.inst /\ w.typed = u.typed
        /\ w.dialog = u.dialog
        /\ w.current = IF TRUE /\ s.resource # None /\ u.page = "update" THEN s.resource ELSE u.current
        /\ \/ w.values = Blank
           \/ w.values = IF w.current # Blank THEN w.current ELSE w.default
           \/ w.values = u.values /\ w.current = u.current
    BY <1>2, <1>4, InsEffects
  <2> HIDE DEF w
  <2> QED
    BY <1>4, <2>1
<1> HIDE DEF w
<1>9. ui' = w
  BY <1>5 DEF w
<1>10. InsTyped'
  BY <1>0, <1>2, <1>5, <1>6, <1>7, <1>8, <1>9 DEF InsTyped, InsReads, InsOps
<1>11. InsFetches'
  <2>1. \E c \in calls' : c.kind \in {"csv", "rcsv", "csvs"}
    BY <1>5, <1>6
  <2>2. page # "new" => \E c \in calls' : c.kind \in {"rcsv", "csvs"}
    BY <1>5, <1>6
  <2>3. page = "new" /\ "resource" \in s.fetching =>
           \E c \in calls' : c.kind \in InsReads \cup InsOps \cup {"csvs", "items"}
    BY <1>2, <1>5 DEF InsInv, InsFetches
  <2> QED
    BY <1>5, <2>1, <2>2, <2>3 DEF InsFetches, InsReads
<1>12. InsDialog'
  BY <1>3, <1>5, <1>8, <1>9 DEF InsDialog
<1>13. InsAbout'
  BY <1>5, <1>6, <1>8, <1>9 DEF InsAbout, Inst!Reading
<1>14. InsCurrent'
  BY <1>5, <1>8, <1>9 DEF InsCurrent
<1>15. InsValues'
  BY <1>8, <1>9 DEF InsValues, InsUi, InsExample
<1>16. InsEdits' /\ InsLists'
  BY <1>5, <1>6, <1>8, <1>9 DEF InsEdits, InsLists
<1>17. Inst!ActsOnUrlInstance'
  BY <1>5, <1>6 DEF InsInv, Inst!ActsOnUrlInstance
<1> QED
  BY <1>10, <1>11, <1>12, <1>13, <1>14, <1>15, <1>16, <1>17 DEF InsInv

-----------------------------------------------------------------------------
(* What the user does *)

\* a move is counted, and changes no instance
LEMMA InsCount ==
    ASSUME InsTyped
    PROVE  /\ Inst!Count \in InsPast /\ Inst!Count.cluster = past.cluster
           /\ Inst!Count.errors = past.errors /\ Inst!Count.stray = past.stray
<1>1. past.moves + 1 \in Nat
  BY DEF InsTyped, InsPast
<1> QED
  BY <1>1 DEF Inst!Count, InsTyped, InsPast

\* the steps of the user, one lemma each, and then the answers
LEMMA InsOpenPage ==
    ASSUME InsInv, Inst!ConstantsAssumption, NEW page \in {"view", "update", "new", "list"},
           NEW i \in Instances \cup {None}, Inst!OpenPage(page, i)
    PROVE  InsInv'
<1>0. InsTyped /\ store \in InsStore
  BY DEF InsInv, InsTyped
<1>1. Inst!Opened(store, page, i, calls, Inst!Count) /\ (page \in {"view", "update"} => i \in Instances)
  BY DEF Inst!OpenPage
<1>2. Inst!Count \in InsPast
  BY <1>0, InsCount
<1>3. ui.dialog = "deleting" /\ ui.page = page => \E c \in calls : c.kind = "delete"
  BY DEF InsInv, InsDialog
<1> QED
  BY <1>0, <1>1, <1>2, <1>3, InsOpened

\* The form changes, and nothing is sent.
LEMMA InsForms ==
    ASSUME InsInv, Inst!ConstantsAssumption, Inst!HasForm(store, ui), store.fetching = {}, ui.values # Blank,
           NEW b \in Inst!Body, NEW typed \in BOOLEAN, typed => calls = {} /\ b.spec \in {3, 5},
           ui.page = "update" => b \in InsExample \/ b.of = ui.values.of,
           ui.page = "update" /\ ui.values \in InsExample => b \in InsExample,
           ui' = [ui EXCEPT !.values = b, !.typed = typed], past' = Inst!Count,
           store' = store, calls' = calls
    PROVE  InsInv'
<1>0. InsTyped
  BY DEF InsInv
<1> DEFINE u == [ui EXCEPT !.values = b]
<1>1. /\ u \in InsUi /\ u.page = ui.page /\ u.inst = ui.inst /\ u.crd = ui.crd /\ u.default = ui.default
      /\ u.current = ui.current /\ u.values = b /\ u.dialog = ui.dialog
  BY <1>0 DEF InsTyped, InsUi, InsText
<1>2. ui' = [u EXCEPT !.typed = typed]
  OBVIOUS
<1> HIDE DEF u
<1>3. /\ ui' \in InsUi /\ ui'.page = ui.page /\ ui'.inst = ui.inst /\ ui'.crd = ui.crd
      /\ ui'.current = ui.current /\ ui'.values = b /\ ui'.dialog = ui.dialog /\ ui'.typed = typed
  BY <1>1, <1>2 DEF InsUi
<1>4. /\ past' \in InsPast /\ past'.cluster = past.cluster /\ past'.errors = past.errors
      /\ past'.stray = past.stray
  BY <1>0, InsCount
<1>5. InsTyped'
  BY <1>0, <1>3, <1>4 DEF InsTyped
<1>6. InsFetches' /\ InsDialog' /\ InsCurrent'
  BY <1>3 DEF InsInv, InsFetches, InsDialog, InsCurrent
<1>7. InsAbout'
  BY <1>3, <1>4 DEF InsInv, InsAbout, Inst!Reading
<1>8. InsLists'
  BY <1>3, <1>4 DEF InsInv, InsLists, InsThere
<1>9. InsValues'
  <2> SUFFICES ASSUME ui.page = "update" PROVE b \in InsExample \/ (ui.current # Blank /\ b.of = ui.current.of)
    BY <1>3 DEF InsValues
  <2> QED
    BY DEF InsInv, InsValues
<1>10. InsEdits'
  <2> SUFFICES ASSUME typed PROVE InsEdits'
    BY <1>3 DEF InsEdits
  <2>1. b # Blank
    BY DEF Inst!ConstantsAssumption
  <2> QED
    BY <1>3, <2>1 DEF InsEdits, Inst!HasForm
<1>11. Inst!ActsOnUrlInstance'
  BY DEF InsInv, Inst!ActsOnUrlInstance
<1> QED
  BY <1>5, <1>6, <1>7, <1>8, <1>9, <1>10, <1>11 DEF InsInv

LEMMA InsEditing ==
    ASSUME InsInv, Inst!ConstantsAssumption,
           Inst!restoreDefaultValues \/ \E i \in Instances : Inst!handleValuesChange(i)
    PROVE  InsInv'
<1>0. InsTyped
  BY DEF InsInv
<1>1. CASE Inst!restoreDefaultValues
  <2>1. ui.default = Inst!Example /\ Inst!Example \in Inst!Body /\ Inst!Example \in InsExample
    BY <1>0, <1>1, InsExamples DEF Inst!restoreDefaultValues, InsTyped, InsUi, InsExample
  <2>2. /\ Inst!HasForm(store, ui) /\ store.fetching = {}
        /\ ui' = [ui EXCEPT !.values = Inst!Example, !.typed = FALSE] /\ past' = Inst!Count
        /\ store' = store /\ calls' = calls
    BY <1>1, <2>1 DEF Inst!restoreDefaultValues
  <2>3. CASE ui.values # Blank
    BY <2>1, <2>2, <2>3, InsForms
  <2>4. CASE ui.values = Blank
    <3> DEFINE u == [ui EXCEPT !.values = Inst!Example]
    <3>1. /\ u \in InsUi /\ u.page = ui.page /\ u.inst = ui.inst /\ u.crd = ui.crd
          /\ u.current = ui.current /\ u.values = Inst!Example /\ u.dialog = ui.dialog
      BY <1>0, <2>1 DEF InsTyped, InsUi, InsText
    <3>2. ui' = [u EXCEPT !.typed = FALSE]
      BY <2>2
    <3> HIDE DEF u
    <3>3. /\ ui' \in InsUi /\ ui'.page = ui.page /\ ui'.inst = ui.inst /\ ui'.crd = ui.crd
          /\ ui'.current = ui.current /\ ui'.values = Inst!Example /\ ui'.dialog = ui.dialog /\ ~ui'.typed
      BY <3>1, <3>2 DEF InsUi
    <3>4. /\ past' \in InsPast /\ past'.cluster = past.cluster /\ past'.errors = past.errors
          /\ past'.stray = past.stray
      BY <1>0, <2>2, InsCount
    <3>5. InsTyped'
      BY <1>0, <2>2, <3>3, <3>4 DEF InsTyped
    <3>6. InsFetches' /\ InsDialog' /\ InsCurrent' /\ InsEdits'
      BY <2>2, <3>3 DEF InsInv, InsFetches, InsDialog, InsCurrent, InsEdits
    <3>7. InsAbout' /\ InsLists'
      BY <2>2, <3>3, <3>4 DEF InsInv, InsAbout, Inst!Reading, InsLists, InsThere
    <3>8. InsValues'
      BY <2>1, <3>3 DEF InsValues
    <3>9. Inst!ActsOnUrlInstance'
      BY <2>2 DEF InsInv, Inst!ActsOnUrlInstance
    <3> QED
      BY <3>5, <3>6, <3>7, <3>8, <3>9 DEF InsInv
  <2> QED
    BY <2>3, <2>4
<1>2. ASSUME NEW i \in Instances, Inst!handleValuesChange(i) PROVE InsInv'
  <2> DEFINE b == Inst!Edited(i, ui.values)
             t == calls = {}
  <2>1. b \in Inst!Body /\ b.spec \in {3, 5} /\ b.of = i
    BY SMTT(60) DEF Inst!Edited, Inst!Body, Inst!Specs
  <2>2. ui.page = "update" => b.of = ui.values.of
    BY <1>2, <2>1 DEF Inst!handleValuesChange
  <2>3. ui.page = "update" /\ ui.values \in InsExample => b \in InsExample
    <3> SUFFICES ASSUME ui.page = "update", ui.values \in InsExample PROVE b \in InsExample
      OBVIOUS
    <3>1. ui.values.of = Inst!Example.of /\ ui.values.spec \in {4, 5} /\ Inst!Example.spec = 4
      BY SMTT(60) DEF InsExample, Inst!Example, Inst!Edited
    <3>2. i = Inst!Example.of
      BY <1>2, <3>1 DEF Inst!handleValuesChange
    <3>3. b = Inst!Edited(Inst!Example.of, Inst!Example)
      BY <3>1, <3>2, SMTT(60) DEF Inst!Edited
    <3> QED
      BY <3>3 DEF InsExample
  <2>4. /\ Inst!HasForm(store, ui) /\ store.fetching = {} /\ ui.values # Blank
        /\ ui' = [ui EXCEPT !.values = b, !.typed = t] /\ past' = Inst!Count
        /\ store' = store /\ calls' = calls
    BY <1>2 DEF Inst!handleValuesChange
  <2>5. t \in BOOLEAN /\ (t => calls = {})
    OBVIOUS
  <2> HIDE DEF b, t
  <2> QED
    BY <2>1, <2>2, <2>3, <2>4, <2>5, InsForms
<1> QED
  BY <1>1, <1>2

\* an operation is counted, and changes no instance before it is answered
LEMMA InsSends ==
    ASSUME InsTyped, Inst!Sends
    PROVE  /\ past' \in InsPast /\ past'.cluster = past.cluster
           /\ past'.errors = past.errors /\ past'.stray = past.stray
<1>1. past.sends + 1 \in Nat
  BY DEF InsTyped, InsPast
<1> QED
  BY <1>1 DEF Inst!Sends, InsTyped, InsPast

LEMMA InsDeploys == ASSUME InsInv, Inst!ConstantsAssumption, Inst!handleDeploy PROVE InsInv'
<1>0. InsTyped
  BY DEF InsInv
<1> DEFINE k == IF ui.page = "new" THEN "create" ELSE "update"
           i == IF ui.page = "new" THEN ui.values.of ELSE ui.inst
           calm == ~Inst!Reading /\ ~past.stray
           c == [Inst!Call(k, i) EXCEPT !.body = ui.values, !.url = ui.inst, !.calm = calm]
<1>1. /\ Inst!Sends /\ Inst!HasForm(store, ui) /\ store.fetching = {} /\ ui.values # Blank
      /\ store' = Inst!Fetching(store, "resource") /\ calls' = calls \cup {c} /\ ui' = ui
  BY DEF Inst!handleDeploy
<1>2. /\ ui.page \in {"new", "update"} /\ ui.values \in Inst!Body /\ ui.inst \in Instances \cup {None}
      /\ ui.page = "update" => ui.inst \in Instances /\ store.resource # None /\ store.resource \in Inst!Body
  BY <1>0, <1>1 DEF Inst!HasForm, InsTyped, InsUi, InsText, InsStore, InsBody
<1>3. i \in Instances /\ ui.values \in InsText /\ k \in InsOps /\ calm \in BOOLEAN
      /\ k \in {"create", "update"} /\ (k = "update" => ui.page = "update")
  BY <1>2 DEF Inst!Body, InsText, InsOps
<1>4. /\ calm => ~Inst!Reading /\ ~past.stray
  OBVIOUS
<1> HIDE DEF k, i, calm
<1>5. c \in InsCalls /\ c.kind = k /\ c.inst = i /\ c.body = ui.values /\ c.url = ui.inst /\ c.calm = calm
  <2> DEFINE c0 == Inst!Call(k, i)
             c1 == [c0 EXCEPT !.body = ui.values]
             c2 == [c1 EXCEPT !.url = ui.inst]
  <2>1. c0 \in InsCalls /\ c0.kind = k /\ c0.inst = i
    BY <1>0, <1>3, InsCall
  <2>2. c = [c2 EXCEPT !.calm = calm]
    OBVIOUS
  <2> HIDE DEF c0, c
  <2>3. c1 \in InsCalls /\ c1.kind = k /\ c1.inst = i /\ c1.body = ui.values
    BY <1>3, <2>1 DEF InsCalls
  <2> HIDE DEF c1
  <2>4. c2 \in InsCalls /\ c2.kind = k /\ c2.inst = i /\ c2.body = ui.values /\ c2.url = ui.inst
    BY <1>2, <2>3 DEF InsCalls
  <2> HIDE DEF c2
  <2> QED
    BY <1>3, <2>2, <2>4 DEF InsCalls
<1> HIDE DEF c
<1>6. /\ past' \in InsPast /\ past'.cluster = past.cluster
      /\ past'.errors = past.errors /\ past'.stray = past.stray
  BY <1>0, <1>1, InsSends
<1>7. /\ store' \in InsStore /\ store'.resource = store.resource
      /\ store'.resources = store.resources /\ store'.errors = store.errors
      /\ store'.fetching = {"resource"}
  BY <1>0, <1>1, InsFlags DEF InsTyped
<1>8. InsTyped'
  BY <1>0, <1>1, <1>2, <1>3, <1>5, <1>6, <1>7 DEF InsTyped, InsReads, InsOps
<1>9. InsFetches'
  BY <1>1, <1>3, <1>5, <1>7 DEF InsFetches, InsOps
<1>10. InsDialog' /\ InsCurrent' /\ InsValues'
  BY <1>1, <1>7 DEF InsInv, InsDialog, InsCurrent, InsValues
<1>11. InsAbout'
  BY <1>1, <1>3, <1>5, <1>6, <1>7 DEF InsInv, InsAbout, Inst!Reading
<1>12. InsLists'
  BY <1>1, <1>6, <1>7 DEF InsInv, InsLists, InsThere
<1>13. InsEdits'
  BY <1>1, <1>3, <1>5, <1>7 DEF InsInv, InsEdits
<1>14. Inst!ActsOnUrlInstance'
  <2>1. calm /\ ui.page = "update" => ui.values.of = ui.inst \/ ui.values \in InsExample
    <3> SUFFICES ASSUME calm, ui.page = "update", ui.values \notin InsExample PROVE ui.values.of = ui.inst
      OBVIOUS
    <3>1. store.resource.of = ui.inst
      BY <1>2, <1>4 DEF InsInv, InsAbout
    <3>2. ui.current = store.resource
      BY <1>2 DEF InsInv, InsCurrent
    <3>3. ui.values.of = ui.current.of
      BY <1>1 DEF InsInv, InsValues
    <3> QED
      BY <3>1, <3>2, <3>3
  <2> QED
    BY <1>1, <1>3, <1>5, <2>1 DEF InsInv, Inst!ActsOnUrlInstance, InsExample
<1> QED
  BY <1>8, <1>9, <1>10, <1>11, <1>12, <1>13, <1>14 DEF InsInv

LEMMA InsDeletes == ASSUME InsInv, Inst!ConstantsAssumption, Inst!handleDeleteClick PROVE InsInv'
<1>0. InsTyped
  BY DEF InsInv
<1>1. Inst!Sends /\ ui.page = "view"
  BY DEF Inst!handleDeleteClick
<1>2. /\ past' \in InsPast /\ past'.cluster = past.cluster
      /\ past'.errors = past.errors /\ past'.stray = past.stray
  BY <1>0, <1>1, InsSends
<1>3. ~ui.typed /\ ui.inst \in Instances
  BY <1>0, <1>1 DEF InsInv, InsEdits, InsTyped
<1>4. PICK d \in {"deleting", "broken"} : ui' = [ui EXCEPT !.dialog = d]
                                         /\ (d = "broken" <=> ~(ui.crd /\ store.resource # None))
  BY DEF Inst!handleDeleteClick
<1>5. /\ ui' \in InsUi /\ ui'.page = "view" /\ ui'.inst = ui.inst /\ ui'.dialog = d /\ ~ui'.typed
  BY <1>0, <1>1, <1>3, <1>4 DEF InsTyped, InsUi
<1>6. CASE d = "broken"
  <2>1. store' = store /\ calls' = calls
    BY <1>4, <1>6 DEF Inst!handleDeleteClick
  <2>2. InsTyped'
    BY <1>0, <1>1, <1>2, <1>3, <1>5, <2>1 DEF InsTyped
  <2>3. InsFetches' /\ InsDialog' /\ InsCurrent' /\ InsValues' /\ InsEdits' /\ Inst!ActsOnUrlInstance'
    BY <1>5, <1>6, <2>1 DEF InsInv, InsFetches, InsDialog, InsCurrent, InsValues, InsEdits,
                            Inst!ActsOnUrlInstance
  <2>4. InsAbout' /\ InsLists'
    BY <1>1, <1>2, <1>5, <2>1 DEF InsInv, InsAbout, Inst!Reading, InsLists
  <2> QED
    BY <2>2, <2>3, <2>4 DEF InsInv
<1>7. CASE d = "deleting"
  <2> DEFINE calm == ~Inst!Reading /\ ~past.stray
             c == [Inst!Call("delete", store.resource.of) EXCEPT !.url = ui.inst, !.calm = calm]
  <2>1. /\ store.resource # None /\ store' = Inst!Fetching(store, "resource") /\ calls' = calls \cup {c}
    BY <1>4, <1>7 DEF Inst!handleDeleteClick
  <2>2. store.resource \in Inst!Body /\ store.resource.of \in Instances
    BY <1>0, <2>1 DEF InsTyped, InsStore, InsBody, Inst!Body
  <2>3. calm \in BOOLEAN /\ (calm => ~Inst!Reading /\ ~past.stray)
    OBVIOUS
  <2> HIDE DEF calm
  <2>4. c \in InsCalls /\ c.kind = "delete" /\ c.inst = store.resource.of /\ c.url = ui.inst /\ c.calm = calm
    <3> DEFINE c0 == Inst!Call("delete", store.resource.of)
               c1 == [c0 EXCEPT !.url = ui.inst]
    <3>1. c0 \in InsCalls /\ c0.kind = "delete" /\ c0.inst = store.resource.of
      BY <1>0, <2>2, InsCall DEF InsOps
    <3>2. c = [c1 EXCEPT !.calm = calm]
      OBVIOUS
    <3> HIDE DEF c0, c
    <3>3. c1 \in InsCalls /\ c1.kind = "delete" /\ c1.inst = store.resource.of /\ c1.url = ui.inst
      BY <1>3, <3>1 DEF InsCalls
    <3> HIDE DEF c1
    <3> QED
      BY <2>3, <3>2, <3>3 DEF InsCalls
  <2> HIDE DEF c
  <2>5. /\ store' \in InsStore /\ store'.resource = store.resource
        /\ store'.resources = store.resources /\ store'.errors = store.errors
        /\ store'.fetching = store.fetching \cup {"resource"}
    BY <1>0, <2>1, InsFlags DEF InsTyped
  <2>6. InsTyped'
    BY <1>0, <1>2, <1>3, <1>5, <2>1, <2>2, <2>4, <2>5 DEF InsTyped
  <2>7. InsFetches' /\ InsDialog' /\ InsCurrent' /\ InsValues' /\ InsEdits'
    BY <1>5, <2>1, <2>4, <2>5 DEF InsInv, InsFetches, InsDialog, InsCurrent, InsValues, InsEdits, InsOps
  <2>8. InsAbout' /\ InsLists'
    BY <1>1, <1>2, <1>5, <2>1, <2>4, <2>5 DEF InsInv, InsAbout, Inst!Reading, InsLists
  <2>9. Inst!ActsOnUrlInstance'
    <3>1. calm => store.resource.of = ui.inst
      BY <1>1, <2>1, <2>3 DEF InsInv, InsAbout
    <3> QED
      BY <2>1, <2>4, <3>1 DEF InsInv, Inst!ActsOnUrlInstance
  <2> QED
    BY <2>6, <2>7, <2>8, <2>9 DEF InsInv
<1> QED
  BY <1>6, <1>7

\* Somebody else changes an instance.
LEMMA InsChanges == ASSUME InsInv, NEW i \in Instances, Inst!ResourceChanges(i) PROVE InsInv'
<1>0. InsTyped
  BY DEF InsInv
<1>1. /\ past.cluster[i] = 1 /\ past' = [past EXCEPT !.cluster[i] = 2]
      /\ store' = store /\ ui' = ui /\ calls' = calls
  BY DEF Inst!ResourceChanges
<1> DEFINE k == [past.cluster EXCEPT ![i] = 2]
<1>2. k \in [Instances -> Inst!Specs] /\ \A j \in Instances : k[j] # 0 <=> past.cluster[j] # 0
  BY <1>0, <1>1 DEF InsTyped, InsPast, Inst!Specs
<1>3. past' = [past EXCEPT !.cluster = k]
  BY <1>0, <1>1 DEF InsTyped, InsPast
<1> HIDE DEF k
<1>4. past' \in InsPast /\ past'.cluster = k /\ past'.errors = past.errors /\ past'.stray = past.stray
  BY <1>0, <1>2, <1>3 DEF InsTyped, InsPast
<1>5. InsThere' = InsThere
  BY <1>2, <1>4 DEF InsThere
<1> QED
  BY <1>0, <1>1, <1>4, <1>5 DEF InsInv, InsTyped, InsFetches, InsDialog, InsAbout, InsCurrent, InsValues,
                                InsEdits, InsLists, Inst!Reading, Inst!ActsOnUrlInstance

-----------------------------------------------------------------------------
(* Answers *)

InsCSVKinds == {"csv", "rcsv", "csvs"}
InsResKinds == InsReads \cup InsOps \cup {"csvs", "items"}

\* An answer keeps the invariant if it ends what it was awaited for, and if what it brings is
\* about the page, or strays.
LEMMA InsAnswer ==
    ASSUME InsInv, Inst!ConstantsAssumption, NEW c \in calls, NEW s \in InsStore, NEW csv \in BOOLEAN,
           NEW res \in BOOLEAN, NEW cs \in SUBSET InsCalls, NEW p \in InsPast,
           Inst!Answer(c, s, csv, res, cs, p), c.kind # "delete",
           \A d \in cs : d.kind \in {"res", "items"} /\ (d.kind = "res" => d.inst \in Instances /\ d.url = d.inst),
           s.fetching \subseteq store.fetching,
           "csv" \in s.fetching => c.kind \notin InsCSVKinds,
           "resource" \in s.fetching => c.kind \notin InsResKinds \/ \E d \in cs : d.kind \in InsResKinds,
           s.resource # None => s.resource = store.resource \/ res,
           c.kind \in {"create", "update"} =>
               ~csv /\ ~res /\ cs = {} /\ s.resource = store.resource /\ s.errors.csv = store.errors.csv
                 /\ s.errors.resource # "fetch",
           ui.page \in {"view", "update"} /\ ~p.stray =>
               /\ ~past.stray
               /\ IF c.kind \in InsReads
                  THEN \/ \E d \in cs : d.kind = "res"
                       \/ IF s.resource = None THEN s.errors.resource # "no" ELSE s.resource.of = ui.inst
                  ELSE IF s.resource = None THEN s.errors.resource # "no" \/ (store.resource = None /\
                                                   s.errors.resource = store.errors.resource)
                                            ELSE s.resource = store.resource,
           ui.page = "list" /\ p.errors = 0 =>
               /\ past.errors = 0 /\ p.cluster = past.cluster
               /\ IF c.kind \in {"csvs", "items"}
                  THEN (\E d \in cs : d.kind = "items") \/ s.resources = InsThere
                  ELSE s.resources = store.resources
    PROVE  InsInv'
<1>0. InsTyped /\ ui \in InsUi
  BY DEF InsInv, InsTyped
<1> DEFINE w == Inst!Effects(s, ui, csv, res)
<1>1. /\ store' = s /\ ui' = w /\ calls' = (calls \ {c}) \cup cs /\ past' = p
  BY DEF Inst!Answer
<1>2. /\ w \in InsUi /\ w.page = ui.page /\ w.inst = ui.inst /\ w.typed = ui.typed
      /\ w.dialog = ui.dialog
      /\ w.current = IF res /\ s.resource # None /\ ui.page = "update" THEN s.resource ELSE ui.current
      /\ \/ w.values = Blank
         \/ w.values = IF w.current # Blank THEN w.current ELSE w.default
         \/ w.values = ui.values /\ w.current = ui.current
  BY <1>0, InsEffects
<1>3. ui.typed => w = ui
  <2> SUFFICES ASSUME ui.typed PROVE w = ui
    OBVIOUS
  <2>1. /\ ui.page \in {"new", "update"} /\ ui.values # Blank
        /\ ui.page = "update" => store.resource # None /\ store.errors.resource # "fetch"
        /\ ui.page = "new" => ui.crd /\ store.errors.csv = "no"
        /\ c.kind \in {"create", "update"}
    BY DEF InsInv, InsEdits
  <2>2. Inst!HasForm(s, ui)
    BY <2>1 DEF Inst!HasForm
  <2>3. csv = FALSE /\ res = FALSE
    BY <2>1
  <2>4. Inst!Effects(s, ui, FALSE, FALSE) = ui
    BY <1>0, <2>1, <2>2, InsNoEffects
  <2> QED
    BY <2>3, <2>4
<1> HIDE DEF w
<1>4. InsTyped'
  BY <1>0, <1>1, <1>2 DEF InsTyped, InsReads, InsOps
<1>5. InsFetches'
  <2>1. ASSUME "csv" \in s.fetching PROVE \E d \in calls' : d.kind \in InsCSVKinds
    <3>1. PICK d \in calls : d.kind \in InsCSVKinds
      BY <2>1 DEF InsInv, InsFetches, InsCSVKinds
    <3> QED
      BY <1>1, <2>1, <3>1
  <2>2. ASSUME "resource" \in s.fetching PROVE \E d \in calls' : d.kind \in InsResKinds
    <3>1. PICK d \in calls : d.kind \in InsResKinds
      BY <2>2 DEF InsInv, InsFetches, InsResKinds
    <3> QED
      BY <1>1, <2>2, <3>1
  <2> QED
    BY <1>1, <2>1, <2>2 DEF InsFetches, InsCSVKinds, InsResKinds
<1>6. InsDialog'
  BY <1>1, <1>2 DEF InsInv, InsDialog
<1>7. InsAbout'
  <2> SUFFICES ASSUME ui.page \in {"view", "update"}, ~p.stray, ~Inst!Reading'
               PROVE  IF s.resource = None THEN s.errors.resource # "no" ELSE s.resource.of = ui.inst
    BY <1>1, <1>2 DEF InsAbout
  <2>1. CASE c.kind \in InsReads
    <3>1. ~\E d \in cs : d.kind = "res"
      BY <1>1 DEF Inst!Reading
    <3> QED
      BY <2>1, <3>1
  <2>2. CASE c.kind \notin InsReads
    <3>1. ~Inst!Reading
      BY <1>1, <2>2 DEF Inst!Reading, InsReads
    <3> QED
      BY <2>2, <3>1 DEF InsInv, InsAbout
  <2> QED
    BY <2>1, <2>2
<1>8. InsCurrent'
  BY <1>1, <1>2 DEF InsInv, InsCurrent
<1>9. InsValues'
  <2>1. w.default \in {Blank, Inst!Example}
    BY <1>2 DEF InsUi
  <2> QED
    BY <1>1, <1>2, <2>1 DEF InsInv, InsValues, InsExample
<1>10. InsEdits'
  <2> SUFFICES ASSUME ui.typed PROVE InsEdits'
    BY <1>1, <1>2 DEF InsEdits
  <2>1. ui' = ui
    BY <1>1, <1>3
  <2>2. /\ ui.page \in {"new", "update"} /\ ui.values # Blank /\ ui.values.spec \in {3, 5}
        /\ ui.page = "update" => store.resource # None /\ store.errors.resource # "fetch"
        /\ ui.page = "new" => ui.crd /\ store.errors.csv = "no"
        /\ \A d \in calls : d.kind \in {"create", "update"}
    BY DEF InsInv, InsEdits
  <2>3. c.kind \in {"create", "update"}
    BY <2>2
  <2> QED
    BY <1>1, <2>1, <2>2, <2>3 DEF InsEdits
<1>11. InsLists'
  <2> SUFFICES ASSUME ui.page = "list", p.errors = 0
               PROVE  (\E d \in calls' : d.kind \in {"csvs", "items"}) \/ s.resources = InsThere'
    BY <1>1, <1>2 DEF InsLists
  <2>1. InsThere' = InsThere
    BY <1>1 DEF InsThere
  <2>2. CASE c.kind \in {"csvs", "items"}
    BY <1>1, <2>1, <2>2
  <2>3. CASE c.kind \notin {"csvs", "items"}
    BY <1>1, <2>1, <2>3 DEF InsInv, InsLists
  <2> QED
    BY <2>2, <2>3
<1>12. Inst!ActsOnUrlInstance'
  BY <1>1 DEF InsInv, Inst!ActsOnUrlInstance
<1> QED
  BY <1>4, <1>5, <1>6, <1>7, <1>8, <1>9, <1>10, <1>11, <1>12 DEF InsInv

\* the parts of the invariant that every answer needs
LEMMA InsKept ==
    ASSUME InsInv
    PROVE  /\ InsTyped /\ store \in InsStore /\ ui \in InsUi /\ past \in InsPast /\ calls \subseteq InsCalls
           /\ \A c \in calls : /\ c.kind \in InsReads \cup InsOps => c.inst \in Instances
                               /\ c.kind \in {"create", "update"} => c.body \in Inst!Body
                               /\ c.kind = "res" => c.url = c.inst
  BY DEF InsInv, InsTyped

\* What an answer to c is about: when it does not stray it is about the page.
LEMMA InsStrays ==
    ASSUME InsInv, NEW c \in calls
    PROVE  LET p == Inst!Strays(c)
           IN /\ p \in InsPast /\ p.cluster = past.cluster /\ p.errors = past.errors
              /\ ui.page \in {"view", "update"} /\ ~p.stray => ~past.stray /\ c.url = ui.inst
<1> DEFINE page == CASE c.kind = "create" -> {"new"}
                     [] c.kind = "update" -> {"update"}
                     [] c.kind = "delete" -> {"view"}
                     [] OTHER             -> {"view", "update"}
           b == past.stray \/ (ui.page \in {"view", "update"} /\ (ui.page \notin page \/ c.url # ui.inst))
<1>1. b \in BOOLEAN /\ (ui.page \in {"view", "update"} /\ ~b => ~past.stray /\ c.url = ui.inst)
  OBVIOUS
<1>2. Inst!Strays(c) = [past EXCEPT !.stray = b]
  BY DEF Inst!Strays
<1> HIDE DEF b
<1> QED
  BY <1>1, <1>2, InsKept DEF InsPast

\* an error is what the cluster cannot answer, or one of those that are counted
LEMMA InsFails ==
    ASSUME InsInv, Inst!ConstantsAssumption, NEW c \in calls, Inst!Impossible(c) \/ past.errors < Max.instances.errors
    PROVE  LET p == [Inst!Strays(c) EXCEPT !.errors = IF Inst!Impossible(c) THEN @ ELSE @ + 1]
           IN /\ p \in InsPast /\ p.cluster = past.cluster
              /\ p.errors = 0 => past.errors = 0 /\ Inst!Impossible(c)
              /\ ui.page \in {"view", "update"} /\ ~p.stray => ~past.stray /\ c.url = ui.inst
<1> DEFINE q == Inst!Strays(c)
           n == IF Inst!Impossible(c) THEN q.errors ELSE q.errors + 1
<1>1. /\ q \in InsPast /\ q.cluster = past.cluster /\ q.errors = past.errors
      /\ ui.page \in {"view", "update"} /\ ~q.stray => ~past.stray /\ c.url = ui.inst
  BY InsStrays
<1> HIDE DEF q
<1>2. n \in 0..Max.instances.errors /\ (n = 0 => past.errors = 0 /\ Inst!Impossible(c))
  BY <1>1 DEF InsPast, Inst!ConstantsAssumption
<1>3. [Inst!Strays(c) EXCEPT !.errors = IF Inst!Impossible(c) THEN @ ELSE @ + 1] = [q EXCEPT !.errors = n]
  BY DEF q
<1> HIDE DEF n
<1> QED
  BY <1>1, <1>2, <1>3 DEF InsPast

LEMMA InsCSVAnswered ==
    ASSUME InsInv, Inst!ConstantsAssumption, NEW c \in calls, Inst!CSVAnswered(c)
    PROVE  InsInv'
<1> DEFINE s == Inst!receiveCSV(store)
           d == Inst!Call("res", c.inst)
           cs == IF c.kind = "rcsv" THEN {d} ELSE {}
<1>1. /\ s \in InsStore /\ s.fetching = store.fetching \ {"csv"} /\ s.resource = store.resource
      /\ s.resources = store.resources /\ s.errors = store.errors
  BY InsKept, InsCSV
<1>2. d \in InsCalls /\ d.kind = "res" /\ d.inst = c.inst /\ d.url = c.inst
  BY InsKept, InsCall DEF InsCalls, InsReads
<1>3. c.kind \in {"csv", "rcsv"} /\ Inst!Answer(c, s, TRUE, FALSE, cs, past)
  BY DEF Inst!CSVAnswered
<1>4. c.kind = "rcsv" => c.inst \in Instances
  BY InsKept DEF InsReads
<1> HIDE DEF s, d
<1>5. /\ cs \in SUBSET InsCalls
      /\ \A e \in cs : e.kind \in {"res", "items"} /\ (e.kind = "res" => e.inst \in Instances /\ e.url = e.inst)
      /\ c.kind = "rcsv" => \E e \in cs : e.kind = "res"
  BY <1>2, <1>4
<1> HIDE DEF cs
<1>6. /\ c.kind # "delete" /\ past \in InsPast /\ s.fetching \subseteq store.fetching
      /\ "csv" \in s.fetching => c.kind \notin InsCSVKinds
      /\ "resource" \in s.fetching => c.kind \notin InsResKinds \/ \E e \in cs : e.kind \in InsResKinds
  BY <1>1, <1>3, <1>5, InsKept DEF InsResKinds, InsReads, InsOps
<1>7. c.kind \in InsReads => c.kind = "rcsv"
  BY <1>3 DEF InsReads
<1>8. c.kind \notin {"csvs", "items", "create", "update"}
  BY <1>3
<1> QED
  BY <1>1, <1>3, <1>5, <1>6, <1>7, <1>8, InsAnswer

LEMMA InsResourceAnswered ==
    ASSUME InsInv, Inst!ConstantsAssumption, NEW c \in calls, Inst!ResourceAnswered(c)
    PROVE  InsInv'
<1> DEFINE r == [of |-> c.inst, spec |-> past.cluster[c.inst]]
           s == Inst!receiveCustomResource(store, r)
           p == Inst!Strays(c)
<1>1. c.kind = "res" /\ Inst!Answer(c, s, FALSE, TRUE, {}, p)
  BY DEF Inst!ResourceAnswered
<1>2. c.inst \in Instances /\ c.url = c.inst
  BY <1>1, InsKept DEF InsReads
<1>3. r \in Inst!Body /\ r.of = c.inst
  BY <1>2, InsKept DEF Inst!Body, InsPast
<1> HIDE DEF r
<1>4. /\ s \in InsStore /\ s.fetching = store.fetching \ {"resource"} /\ s.resource = r
      /\ s.resources = store.resources /\ s.errors = store.errors
  BY <1>3, InsKept, InsReceivesOne
<1>5. r # None
  BY <1>3 DEF Inst!ConstantsAssumption
<1>6. /\ p \in InsPast /\ p.cluster = past.cluster /\ p.errors = past.errors
      /\ ui.page \in {"view", "update"} /\ ~p.stray => ~past.stray /\ c.url = ui.inst
  BY InsStrays
<1> HIDE DEF s, p
<1>7. /\ c.kind \notin {"csvs", "items", "create", "update", "delete"} /\ c.kind \notin InsCSVKinds
      /\ s.fetching \subseteq store.fetching /\ "resource" \notin s.fetching
      /\ ui.page \in {"view", "update"} /\ ~p.stray => ~past.stray /\ s.resource.of = ui.inst
      /\ s.resource # None
      /\ ui.page = "list" /\ p.errors = 0 => past.errors = 0 /\ p.cluster = past.cluster
                                             /\ s.resources = store.resources
  BY <1>1, <1>2, <1>3, <1>4, <1>5, <1>6 DEF InsCSVKinds
<1>8. c.kind \in InsReads /\ {} \in SUBSET InsCalls
  BY <1>1 DEF InsReads
<1> QED
  BY <1>1, <1>4, <1>6, <1>7, <1>8, InsAnswer

LEMMA InsListAnswered ==
    ASSUME InsInv, Inst!ConstantsAssumption, NEW c \in calls, Inst!ListAnswered(c)
    PROVE  InsInv'
<1>1. CASE c.kind = "csvs"
  <2> DEFINE s == Inst!Fetched(store, "csv")
             d == Inst!Call("items", None)
  <2>1. Inst!Answer(c, s, FALSE, FALSE, {d}, past)
    BY <1>1 DEF Inst!ListAnswered
  <2>2. /\ s \in InsStore /\ s.fetching = store.fetching \ {"csv"} /\ s.resource = store.resource
        /\ s.resources = store.resources /\ s.errors = store.errors
    BY InsKept, InsFlags
  <2>3. d \in InsCalls /\ d.kind = "items"
    BY InsKept, InsCall
  <2> HIDE DEF s, d
  <2>4. /\ {d} \in SUBSET InsCalls /\ past \in InsPast
        /\ \A e \in {d} : e.kind \in {"res", "items"} /\ (e.kind = "res" => e.inst \in Instances /\ e.url = e.inst)
        /\ \E e \in {d} : e.kind = "items" /\ e.kind \in InsResKinds
        /\ c.kind \notin InsReads
    BY <1>1, <2>3, InsKept DEF InsResKinds, InsReads
  <2> QED
    BY <1>1, <2>1, <2>2, <2>4, InsAnswer, ZenonT(60)
<1>2. CASE c.kind = "items"
  <2> DEFINE s == Inst!receiveCustomResources(store, InsThere)
  <2>1. Inst!Answer(c, s, FALSE, FALSE, {}, past)
    BY <1>2 DEF Inst!ListAnswered, InsThere
  <2>2. /\ s \in InsStore /\ s.fetching = store.fetching \ {"resource"} /\ s.resource = store.resource
        /\ s.resources = InsThere /\ s.errors = store.errors
    BY InsKept, InsReceives DEF InsThere
  <2> HIDE DEF s
  <2>3. /\ {} \in SUBSET InsCalls /\ past \in InsPast
        /\ c.kind \notin InsReads /\ c.kind \notin InsCSVKinds
    BY <1>2, InsKept DEF InsReads, InsCSVKinds
  <2> QED
    BY <1>2, <2>1, <2>2, <2>3, InsAnswer
<1> QED
  BY <1>1, <1>2 DEF Inst!ListAnswered

\* It is done, and another page opens.
LEMMA InsDone ==
    ASSUME InsInv, Inst!ConstantsAssumption, NEW c \in calls, Inst!Deployed(c) \/ Inst!Deleted(c)
    PROVE  InsInv'
<1> DEFINE s == Inst!Fetched(store, "resource")
           n == IF Inst!Deployed(c) THEN c.body.spec ELSE 0
           k == [past.cluster EXCEPT ![c.inst] = n]
           p == [past EXCEPT !.cluster[c.inst] = n]
<1>1. s \in InsStore /\ s.fetching \subseteq store.fetching
  BY InsKept, InsFlags
<1>2. c.inst \in Instances /\ (Inst!Deployed(c) => c.kind # "delete")
  BY InsKept DEF Inst!Deployed, Inst!Deleted, InsOps
<1>3. n \in Inst!Specs
  BY InsKept DEF Inst!Specs, Inst!Body, Inst!Deployed
<1> HIDE DEF n
<1>4. k \in [Instances -> Inst!Specs]
  BY <1>2, <1>3, InsKept DEF InsPast
<1>5. p = [past EXCEPT !.cluster = k]
  BY InsKept DEF InsPast
<1> HIDE DEF k, s
<1>6. p \in InsPast
  BY <1>4, <1>5, InsKept DEF InsPast
<1>7. CASE Inst!Deployed(c)
  <2>1. Inst!Opened(s, "view", c.inst, calls \ {c}, p)
    BY <1>7 DEF Inst!Deployed, n, s
  <2>2. ui.dialog = "deleting" => \E d \in calls \ {c} : d.kind = "delete"
    BY <1>2, <1>7 DEF InsInv, InsDialog
  <2> HIDE DEF p
  <2> QED
    BY <1>1, <1>2, <1>6, <2>1, <2>2, InsOpened
<1>8. CASE ~Inst!Deployed(c)
  <2>1. Inst!Opened(s, "list", None, calls \ {c}, p)
    BY <1>8 DEF Inst!Deleted, n, s
  <2> HIDE DEF p
  <2> QED
    BY <1>1, <1>6, <2>1, InsOpened
<1> QED
  BY <1>7, <1>8

LEMMA InsCallFails ==
    ASSUME InsInv, Inst!ConstantsAssumption, NEW c \in calls, Inst!CallFails(c)
    PROVE  InsInv'
<1> DEFINE p == [Inst!Strays(c) EXCEPT !.errors = IF Inst!Impossible(c) THEN @ ELSE @ + 1]
           e == Inst!errorCSVs(store)
<1>1. /\ p \in InsPast /\ p.cluster = past.cluster
      /\ p.errors = 0 => past.errors = 0 /\ Inst!Impossible(c)
      /\ ui.page \in {"view", "update"} /\ ~p.stray => ~past.stray /\ c.url = ui.inst
  BY InsFails DEF Inst!CallFails
<1>2. /\ e \in InsStore /\ e.fetching = store.fetching \ {"csv"} /\ e.resource = store.resource
      /\ e.resources = store.resources /\ e.errors.resource = store.errors.resource
  BY InsKept, InsErrsCSV
<1>3. {} \in SUBSET InsCalls
  OBVIOUS
<1>4. c.kind \in {"csvs", "items"} => p.errors # 0
  BY <1>1 DEF Inst!Impossible
<1>5. CASE c.kind = "csv"
  <2>1. Inst!Answer(c, e, TRUE, FALSE, {}, p)
    BY <1>5 DEF Inst!CallFails
  <2> HIDE DEF p, e
  <2>2. c.kind \notin InsReads /\ c.kind \notin InsResKinds
    BY <1>5 DEF InsReads, InsResKinds, InsOps
  <2> QED
    BY <1>1, <1>2, <1>3, <1>5, <2>1, <2>2, InsAnswer
<1>6. CASE c.kind = "rcsv"
  <2> DEFINE s == Inst!errorCustomResource(e)
  <2>1. Inst!Answer(c, s, TRUE, TRUE, {}, p)
    BY <1>6 DEF Inst!CallFails
  <2>2. /\ s \in InsStore /\ s.fetching = e.fetching \ {"resource"}
        /\ s.resource = None /\ s.resources = e.resources /\ s.errors.resource = "fetch"
    BY <1>2, InsErrsCustom
  <2> HIDE DEF p, e, s
  <2>3. c.kind \in InsReads
    BY <1>6 DEF InsReads
  <2> QED
    BY <1>1, <1>2, <1>3, <1>6, <2>1, <2>2, <2>3, InsAnswer, ZenonT(60)
<1>7. CASE c.kind = "res"
  <2> DEFINE s == Inst!errorCustomResource(store)
  <2>1. Inst!Answer(c, s, FALSE, TRUE, {}, p)
    BY <1>7 DEF Inst!CallFails
  <2>2. /\ s \in InsStore /\ s.fetching = store.fetching \ {"resource"}
        /\ s.resource = None /\ s.resources = store.resources /\ s.errors.resource = "fetch"
    BY InsKept, InsErrsCustom
  <2> HIDE DEF p, s
  <2>3. c.kind \in InsReads /\ c.kind \notin InsCSVKinds
    BY <1>7 DEF InsReads, InsCSVKinds
  <2> QED
    BY <1>1, <1>3, <1>7, <2>1, <2>2, <2>3, InsAnswer
<1>8. CASE c.kind = "csvs"
  <2> DEFINE s == Inst!receiveCustomResources(e, {})
  <2>1. Inst!Answer(c, s, TRUE, FALSE, {}, p)
    BY <1>8 DEF Inst!CallFails
  <2>2. /\ s \in InsStore /\ s.fetching = e.fetching \ {"resource"} /\ s.resource = e.resource
        /\ s.errors = e.errors
    BY <1>2, InsReceives
  <2> HIDE DEF p, e, s
  <2>3. c.kind \notin InsReads
    BY <1>8 DEF InsReads
  <2> QED
    BY <1>1, <1>2, <1>3, <1>4, <1>8, <2>1, <2>2, <2>3, InsAnswer, ZenonT(60)
<1>9. CASE c.kind = "items"
  <2> DEFINE f == Inst!errorCustomResource(store)
             s == Inst!receiveCustomResources(f, {})
  <2>1. Inst!Answer(c, s, FALSE, TRUE, {}, p)
    BY <1>9 DEF Inst!CallFails
  <2>2. /\ f \in InsStore /\ f.fetching = store.fetching \ {"resource"}
        /\ f.resource = None /\ f.errors.resource = "fetch"
    BY InsKept, InsErrsCustom
  <2> HIDE DEF f
  <2>3. /\ s \in InsStore /\ s.fetching = f.fetching \ {"resource"} /\ s.resource = f.resource
        /\ s.errors = f.errors
    BY <2>2, InsReceives
  <2> HIDE DEF p, s
  <2>4. c.kind \notin InsReads /\ c.kind \notin InsCSVKinds
    BY <1>9 DEF InsReads, InsCSVKinds
  <2> QED
    BY <1>1, <1>3, <1>4, <1>9, <2>1, <2>2, <2>3, <2>4, InsAnswer
<1>10. CASE c.kind \in {"create", "update"}
  <2> DEFINE s == Inst!errorResource(store, c.kind)
  <2>1. Inst!Answer(c, s, FALSE, FALSE, {}, p)
    BY <1>10 DEF Inst!CallFails
  <2>2. /\ s \in InsStore /\ s.fetching = store.fetching \ {"resource"}
        /\ s.resource = store.resource /\ s.resources = store.resources
        /\ s.errors.resource = c.kind /\ s.errors.csv = store.errors.csv
    BY <1>10, InsKept, InsErrs DEF InsOps
  <2> HIDE DEF p, s
  <2>3. c.kind \notin InsReads /\ c.kind \notin InsCSVKinds
    BY <1>10 DEF InsReads, InsCSVKinds
  <2> QED
    BY <1>1, <1>3, <1>10, <2>1, <2>2, <2>3, InsAnswer, ZenonT(60)
<1>11. CASE c.kind = "delete"
  <2> DEFINE d == IF ui.dialog = "deleting" THEN "closed" ELSE ui.dialog
  <2>1. /\ store' = Inst!errorResource(store, "delete") /\ ui' = [ui EXCEPT !.dialog = d]
        /\ calls' = calls \ {c} /\ past' = p
    BY <1>11, InsKept DEF Inst!CallFails, InsUi
  <2>2. /\ store' \in InsStore /\ store'.fetching = store.fetching \ {"resource"}
        /\ store'.resource = store.resource /\ store'.resources = store.resources
        /\ store'.errors.resource = "delete"
    BY <2>1, InsKept, InsErrs DEF InsOps
  <2>3. d \in {"closed", "deleting", "broken"} /\ d # "deleting"
    BY InsKept DEF InsUi
  <2> HIDE DEF d, p
  <2>4. /\ ui' \in InsUi /\ ui'.page = ui.page /\ ui'.inst = ui.inst /\ ui'.typed = ui.typed
        /\ ui'.dialog = d /\ ui'.current = ui.current /\ ui'.values = ui.values
    BY <2>1, <2>3, InsKept DEF InsUi
  <2>5. ~ui.typed
    BY <1>11 DEF InsInv, InsEdits
  <2>6. InsTyped'
    BY <1>1, <2>1, <2>2, <2>4, InsKept DEF InsTyped
  <2>7. InsFetches'
    <3>1. "csv" \in store.fetching => \E x \in calls' : x.kind \in {"csv", "rcsv", "csvs"}
      BY <1>11, <2>1 DEF InsInv, InsFetches
    <3> QED
      BY <2>2, <3>1 DEF InsFetches
  <2>8. InsDialog' /\ InsCurrent' /\ InsValues' /\ InsEdits'
    BY <2>1, <2>2, <2>3, <2>4, <2>5 DEF InsInv, InsDialog, InsCurrent, InsValues, InsEdits
  <2>9. InsAbout'
    BY <1>1, <1>11, <2>1, <2>2, <2>4 DEF InsInv, InsAbout, Inst!Reading
  <2>10. InsLists'
    BY <1>1, <1>11, <2>1, <2>2, <2>4 DEF InsInv, InsLists, InsThere
  <2>11. Inst!ActsOnUrlInstance'
    BY <2>1 DEF InsInv, Inst!ActsOnUrlInstance
  <2> QED
    BY <2>6, <2>7, <2>8, <2>9, <2>10, <2>11 DEF InsInv
<1> QED
  BY <1>5, <1>6, <1>7, <1>8, <1>9, <1>10, <1>11 DEF Inst!CallFails

-----------------------------------------------------------------------------
LEMMA InsNextHolds == ASSUME Inst!ConstantsAssumption PROVE InsInv /\ [Inst!Next]_(Inst!vars) => InsInv'
<1> SUFFICES ASSUME InsInv, [Inst!Next]_(Inst!vars) PROVE InsInv'
  OBVIOUS
<1>1. CASE Inst!Next
  BY <1>1, InsEditing, InsDeploys, InsDeletes, InsOpenPage, InsChanges, InsCSVAnswered,
     InsResourceAnswered, InsListAnswered, InsDone, InsCallFails DEF Inst!Next
<1>2. CASE UNCHANGED Inst!vars
  <2>1. store' = store /\ ui' = ui /\ calls' = calls /\ past' = past
    BY <1>2 DEF Inst!vars
  <2> QED
    BY <2>1 DEF InsInv, InsTyped, InsFetches, InsDialog, InsAbout, InsCurrent, InsValues, InsEdits, InsLists,
                InsThere, Inst!Reading, Inst!ActsOnUrlInstance
<1> QED
  BY <1>1, <1>2

\* What the run checks of the pages follows from the invariant.
LEMMA InsHolds ==
    ASSUME Inst!ConstantsAssumption, InsInv
    PROVE  Inst!TypeOK /\ Inst!ActsOnUrlInstance /\ Inst!EditsKept /\ Inst!PageSettles
<1>1. Inst!TypeOK
  <2>1. ui.default \in InsText
    BY InsKept, InsExamples DEF InsUi, InsText
  <2> QED
    BY <2>1, InsKept DEF Inst!TypeOK, InsStore, InsBody, InsUi, InsText, InsPast, InsCalls
<1>2. Inst!EditsKept
  BY InsKept DEF InsInv, InsEdits, Inst!EditsKept, Inst!HasForm
<1>3. Inst!PageSettles
  <2> SUFFICES ASSUME calls = {} PROVE Inst!PageSettles
    BY DEF Inst!PageSettles
  <2>1. store.fetching = {}
    BY InsKept DEF InsInv, InsFetches, InsStore
  <2>2. ui.dialog # "deleting"
    BY DEF InsInv, InsDialog
  <2>3. ~Inst!Reading
    BY DEF Inst!Reading
  <2> QED
    BY <2>1, <2>2, <2>3 DEF InsInv, InsAbout, InsLists, InsThere, Inst!PageSettles
<1> QED
  BY <1>1, <1>2, <1>3 DEF InsInv

-----------------------------------------------------------------------------
(* The operators: the invariant is OpInv. *)

OpChannels == {"default", "other", "no"}
OpSubs  == [ns : Namespaces, op : Ops]
OpStore == [fetching : SUBSET {"OLM", "operator", "subscriptions", "csv"}, olm : BOOLEAN,
            operators : SUBSET Ops, operator : Ops \cup {None}, subscriptions : SUBSET OpSubs,
            errors : [operator : {"no", "fetch", "create"}, subscriptions : {"no", "fetch"}]]
OpForms == [channel : OpChannels, mode : BOOLEAN]
OpUi    == [page : {"other", "list", "view", "new"}, op : Ops \cup {None}, form : OpForms, ns : Namespaces]
OpAsked == {"olm", "operators", "operator", "subscriptions", "csv"}
OpCalls == [kind : OpAsked \cup {"more", "groups", "group", "subscribe"}, op : Ops \cup {None},
            ns : Namespaces, url : Ops \cup {None}, first : SUBSET OpSubs, channel : OpChannels,
            calm : BOOLEAN]
OpPast  == [subscriptions : SUBSET OpSubs, groups : [Namespaces -> Nat], moves : Nat,
            errors : 0..Max.operators.errors, stray : BOOLEAN, old : BOOLEAN]

OpTyped ==
    /\ store \in OpStore /\ ui \in OpUi /\ past \in OpPast /\ calls \subseteq OpCalls
    /\ ui.page \in {"view", "new"} => ui.op \in Ops

\* Requests: what reads an operator names it; what subscribes has its group, and is for the operator
\* of the page; and what has half of the subscriptions has all those of "operators".
OpCallsOK(cs, p) ==
    /\ \A c \in cs : c.kind \in {"operator", "groups", "group", "subscribe"} => c.op \in Ops
    /\ \A c \in cs : c.kind = "subscribe" => p.groups[c.ns] > 0
    /\ ~p.old => \A c \in cs : c.kind = "more" => c.first = {s \in p.subscriptions : s.ns = Global}
    /\ \A c \in cs : c.kind \in {"groups", "group", "subscribe"} =>
          /\ c.calm => c.op = c.url
          /\ c.ns = Global => Op!global(c.op, c.channel)

OpClusterOK(p) == p.groups[Global] > 0 /\ \A s \in p.subscriptions : p.groups[s.ns] > 0

\* Whatever is flagged as loading is asked for.
OpFlag(kind) == CASE kind = "olm" -> "OLM"
                  [] kind \in {"operators", "operator", "groups", "group", "subscribe"} -> "operator"
                  [] kind \in {"subscriptions", "more"} -> "subscriptions"
                  [] OTHER -> "csv"
OpAwaits(flags, cs) == \A f \in flags : \E c \in cs : OpFlag(c.kind) = f

\* The page shows its operator, or waits for it, or says why not.
OpShows(s, u, cs, p) ==
    u.page \in {"view", "new"} /\ ~p.stray /\ s.errors.operator = "no" =>
        s.operator = u.op \/ \E c \in cs : c.kind = "operator"

\* All namespaces are chosen only where they are supported.
OpForm == ui.page = "new" /\ store.operator # None /\ ui.form.mode =>
             Op!global(store.operator, ui.form.channel)

\* ... and so it is with the subscriptions.
OpLists(s, u, cs, p) ==
    (/\ u.page = "view" \/ (u.page = "list" /\ s.olm)
     /\ ~p.stray /\ ~p.old /\ s.errors = Op!NoErrors) =>
        \/ s.subscriptions = {t \in p.subscriptions : t.ns \in {Global, u.ns}}
        \/ \E c \in cs : c.kind \in {"subscriptions", "more"} /\ c.ns = u.ns

OpInv ==
    /\ OpTyped /\ OpCallsOK(calls, past) /\ OpClusterOK(past) /\ OpAwaits(store.fetching, calls)
    /\ OpShows(store, ui, calls, past) /\ OpForm /\ OpLists(store, ui, calls, past)

LEMMA OpInitHolds == ASSUME Op!ConstantsAssumption PROVE Op!Init => OpInv
<1> SUFFICES ASSUME Op!Init PROVE OpInv
  OBVIOUS
<1> USE DEF Op!ConstantsAssumption
<1>1. PICK n \in Namespaces : n # Global
  BY DEF Op!ConstantsAssumption
<1>2. ui \in OpUi /\ ui.page = "other"
  BY <1>1 DEF Op!Init, OpUi, Op!NoForm, OpForms, OpChannels
<1>3. store \in OpStore /\ store.fetching = {}
  BY DEF Op!Init, Op!InitialState, Op!NoErrors, OpStore
<1>4. PICK ss \in SUBSET Op!Subscriptions :
          past = [subscriptions |-> ss,
                  groups |-> [m \in Namespaces |-> IF m = Global \/ \E s \in ss : s.ns = m THEN 1 ELSE 0],
                  moves |-> 0, errors |-> 0, stray |-> FALSE, old |-> FALSE]
  BY DEF Op!Init
<1>5. past \in OpPast
  BY <1>4 DEF OpPast, Op!Subscriptions, OpSubs
<1>6. OpClusterOK(past)
  BY <1>4 DEF OpClusterOK, Op!ConstantsAssumption, Op!Subscriptions
<1> QED
  BY <1>2, <1>3, <1>5, <1>6 DEF Op!Init, OpInv, OpTyped, OpCallsOK, OpAwaits, OpShows, OpForm, OpLists

-----------------------------------------------------------------------------
(* What a page asks for *)

\* what a request is made of
LEMMA OpCall ==
    ASSUME NEW k \in OpAsked, NEW op \in Ops \cup {None}, NEW ns \in Namespaces
    PROVE  /\ Op!Call(k, op, ns) \in OpCalls
           /\ Op!Call(k, op, ns).kind = k /\ Op!Call(k, op, ns).op = op /\ Op!Call(k, op, ns).ns = ns
  BY DEF Op!Call, OpCalls, OpChannels

LEMMA OpCSVOf ==
    ASSUME NEW s \in OpStore, NEW u \in OpUi
    PROVE  \A c \in Op!CSVOf(s, u) : c \in OpCalls /\ c.kind = "csv"
  BY OpCall DEF Op!CSVOf, OpStore, OpUi, OpAsked

\* a page asks for the operator it is of, and for the subscriptions if it shows them
LEMMA OpAsks ==
    ASSUME NEW s \in OpStore, NEW u \in OpUi, u.page \in {"view", "new"} => u.op \in Ops
    PROVE  /\ \A c \in Op!Asks(s, u) : /\ c \in OpCalls /\ c.kind \in OpAsked
                                       /\ c.kind = "operator" => c.op \in Ops
           /\ u.page \in {"view", "new"} => \E c \in Op!Asks(s, u) : c.kind = "operator"
           /\ u.page = "view" \/ (u.page = "list" /\ s.olm) =>
                 \E c \in Op!Asks(s, u) : c.kind = "subscriptions" /\ c.ns = u.ns
           /\ u.page = "list" /\ ~s.olm => \A c \in Op!Asks(s, u) : c.kind = "olm"
<1> USE OpCall, OpCSVOf DEF OpAsked
<1>1. u.ns \in Namespaces /\ None \in Ops \cup {None}
  BY DEF OpUi
<1>2. CASE u.page = "list"
  BY <1>1, <1>2 DEF Op!Asks
<1>3. CASE u.page = "view"
  BY <1>1, <1>3 DEF Op!Asks
<1>4. CASE u.page = "new"
  BY <1>1, <1>4 DEF Op!Asks
<1>5. CASE u.page = "other"
  BY <1>1, <1>5 DEF Op!Asks
<1> QED
  BY <1>2, <1>3, <1>4, <1>5 DEF OpUi

\* each request has the flag that its answer clears
LEMMA OpFlags ==
    ASSUME NEW k \in OpAsked
    PROVE  Op!FlagOf(k) = OpFlag(k) /\ OpFlag(k) \in {"OLM", "operator", "subscriptions", "csv"}
  BY DEF Op!FlagOf, OpFlag, OpAsked

\* It is flagged, and asked for.
LEMMA OpFetches ==
    ASSUME NEW s \in OpStore, NEW cs, OpAwaits(s.fetching, cs), NEW asks,
           \A c \in asks : c \in OpCalls /\ c.kind \in OpAsked
    PROVE  LET t == [s EXCEPT !.fetching = @ \cup {Op!FlagOf(c.kind) : c \in asks}]
           IN  /\ t \in OpStore /\ OpAwaits(t.fetching, cs \cup asks)
               /\ t.operator = s.operator /\ t.errors = s.errors /\ t.olm = s.olm
               /\ t.subscriptions = s.subscriptions
<1> DEFINE F == {Op!FlagOf(c.kind) : c \in asks}
           t == [s EXCEPT !.fetching = @ \cup F]
<1>1. F \subseteq {"OLM", "operator", "subscriptions", "csv"} /\ \A f \in F : \E c \in asks : OpFlag(c.kind) = f
  BY OpFlags
<1> HIDE DEF F
<1>2. /\ t \in OpStore /\ t.fetching = s.fetching \cup F
      /\ t.operator = s.operator /\ t.errors = s.errors /\ t.olm = s.olm
      /\ t.subscriptions = s.subscriptions
  BY <1>1 DEF OpStore
<1>3. OpAwaits(t.fetching, cs \cup asks)
  BY <1>1, <1>2 DEF OpAwaits
<1> QED
  BY <1>2, <1>3 DEF F

-----------------------------------------------------------------------------
(* What a step keeps *)

\* a page that asks for more keeps what is known of the requests
LEMMA OpAdds ==
    ASSUME NEW cs, NEW ds, NEW p, OpCallsOK(cs, p),
           \A c \in ds : c.kind \in OpAsked /\ (c.kind = "operator" => c.op \in Ops)
    PROVE  OpCallsOK(cs \cup ds, p)
  BY DEF OpCallsOK, OpAsked

\* A page that is opened, by the user or after a subscription.
LEMMA OpOpens ==
    ASSUME NEW s \in OpStore, NEW u \in OpUi, NEW cs \in SUBSET OpCalls, NEW p \in OpPast,
           u.page \in {"view", "new"} => u.op \in Ops, Op!Opened(s, u, cs, p),
           OpCallsOK(cs, p), OpClusterOK(p), OpAwaits(s.fetching, cs)
    PROVE  OpInv'
<1> DEFINE asks == Op!Asks(s, u)
           t == [s EXCEPT !.fetching = @ \cup {Op!FlagOf(c.kind) : c \in asks}]
           f == IF u.page = "new" /\ s.operator # None THEN Op!DefaultForm(s.operator) ELSE u.form
<1>1. /\ \A c \in asks : c \in OpCalls /\ c.kind \in OpAsked /\ (c.kind = "operator" => c.op \in Ops)
      /\ u.page \in {"view", "new"} => \E c \in asks : c.kind = "operator"
      /\ u.page = "view" \/ (u.page = "list" /\ s.olm) =>
            \E c \in asks : c.kind = "subscriptions" /\ c.ns = u.ns
  BY OpAsks
<1>2. store' = t /\ ui' = [u EXCEPT !.form = f] /\ calls' = cs \cup asks /\ past' = [p EXCEPT !.stray = FALSE]
  BY DEF Op!Opened
<1> HIDE DEF asks
<1>3. /\ t \in OpStore /\ OpAwaits(t.fetching, cs \cup asks)
      /\ t.operator = s.operator /\ t.errors = s.errors /\ t.olm = s.olm
      /\ t.subscriptions = s.subscriptions
  BY <1>1, OpFetches
<1> HIDE DEF t
<1>4. f \in OpForms /\ (u.page = "new" /\ s.operator # None /\ f.mode => Op!global(s.operator, f.channel))
  <2>1. Op!global(s.operator, "default") \in BOOLEAN
    BY DEF Op!global
  <2>2. Op!DefaultForm(s.operator) \in OpForms
    BY <2>1 DEF Op!DefaultForm, OpForms, OpChannels
  <2>3. /\ Op!DefaultForm(s.operator).mode = Op!global(s.operator, "default")
        /\ Op!DefaultForm(s.operator).channel = "default"
    BY DEF Op!DefaultForm
  <2>4. u.form \in OpForms
    BY DEF OpUi
  <2> QED
    BY <2>2, <2>3, <2>4
<1> HIDE DEF f
<1>5. ui' \in OpUi /\ ui'.page = u.page /\ ui'.op = u.op /\ ui'.ns = u.ns /\ ui'.form = f
  BY <1>2, <1>4 DEF OpUi
<1>6. /\ past' \in OpPast /\ past'.subscriptions = p.subscriptions /\ past'.groups = p.groups
      /\ past'.old = p.old
  BY <1>2 DEF OpPast
<1>7. OpCallsOK(cs \cup asks, p)
  BY <1>1, OpAdds
<1>8. OpCallsOK(calls', past') /\ OpClusterOK(past')
  BY <1>2, <1>6, <1>7 DEF OpCallsOK, OpClusterOK
<1>9. OpTyped'
  BY <1>1, <1>2, <1>3, <1>5, <1>6 DEF OpTyped
<1>10. OpShows(store', ui', calls', past')
  BY <1>1, <1>2, <1>5 DEF OpShows
<1>11. OpForm'
  BY <1>2, <1>3, <1>4, <1>5 DEF OpForm
<1>12. OpLists(store', ui', calls', past')
  BY <1>1, <1>2, <1>3, <1>5 DEF OpLists
<1>13. OpAwaits(store'.fetching, calls')
  BY <1>2, <1>3
<1> QED
  BY <1>8, <1>9, <1>10, <1>11, <1>12, <1>13 DEF OpInv, OpCallsOK, OpClusterOK, OpAwaits, OpShows, OpLists

\* An answer.
LEMMA OpAnswers ==
    ASSUME OpInv, NEW c \in calls, NEW s \in OpStore, NEW cs \in SUBSET OpCalls, NEW p \in OpPast,
           Op!Answer(c, s, cs, p),
           OpCallsOK((calls \ {c}) \cup cs, p), OpClusterOK(p), OpAwaits(s.fetching, (calls \ {c}) \cup cs),
           OpShows(s, ui, (calls \ {c}) \cup cs, p),
           s.operator = None \/ s.operator = store.operator \/ c.kind = "operator",
           ui.page # "list" \/ store.olm \/ ~s.olm => OpLists(s, ui, (calls \ {c}) \cup cs, p)
    PROVE  OpInv'
<1> DEFINE new == s.operator # None /\ c.kind = "operator"
           asks == (IF new /\ ui.page = "view" THEN Op!CSVOf(s, ui) ELSE {})
                     \cup (IF s.olm # store.olm THEN Op!Asks(s, ui) \ Op!Asks(store, ui) ELSE {})
           t == [s EXCEPT !.fetching = @ \cup {Op!FlagOf(d.kind) : d \in asks}]
           ds == (calls \ {c}) \cup cs
           f == IF new /\ ui.page = "new" THEN Op!DefaultForm(s.operator) ELSE ui.form
<1>0. OpTyped
  BY DEF OpInv
<1>1. \A d \in asks : d \in OpCalls /\ d.kind \in OpAsked /\ (d.kind = "operator" => d.op \in Ops)
  <2>1. \A d \in Op!CSVOf(s, ui) : d \in OpCalls /\ d.kind = "csv"
    BY <1>0, OpCSVOf DEF OpTyped
  <2>2. \A d \in Op!Asks(s, ui) : d \in OpCalls /\ d.kind \in OpAsked /\ (d.kind = "operator" => d.op \in Ops)
    BY <1>0, OpAsks DEF OpTyped
  <2> QED
    BY <2>1, <2>2 DEF OpAsked
<1>2. ui.page = "list" /\ s.olm /\ ~store.olm => \E d \in asks : d.kind = "subscriptions" /\ d.ns = ui.ns
  <2>1. /\ ui.page = "list" /\ s.olm => \E d \in Op!Asks(s, ui) : d.kind = "subscriptions" /\ d.ns = ui.ns
        /\ ui.page = "list" /\ ~store.olm => \A d \in Op!Asks(store, ui) : d.kind = "olm"
    BY <1>0, OpAsks DEF OpTyped
  <2> QED
    BY <2>1
<1>3. store' = t /\ ui' = [ui EXCEPT !.form = f] /\ calls' = ds \cup asks /\ past' = p
  BY DEF Op!Answer
<1> HIDE DEF asks, ds
<1>4. /\ t \in OpStore /\ OpAwaits(t.fetching, ds \cup asks)
      /\ t.operator = s.operator /\ t.errors = s.errors /\ t.olm = s.olm
      /\ t.subscriptions = s.subscriptions
  BY <1>1, OpFetches DEF ds
<1> HIDE DEF t
<1>5. f \in OpForms /\ (ui.page = "new" /\ s.operator # None /\ f.mode => Op!global(s.operator, f.channel))
  <2>1. Op!global(s.operator, "default") \in BOOLEAN
    BY DEF Op!global
  <2>2. Op!DefaultForm(s.operator) \in OpForms
    BY <2>1 DEF Op!DefaultForm, OpForms, OpChannels
  <2>3. /\ Op!DefaultForm(s.operator).mode = Op!global(s.operator, "default")
        /\ Op!DefaultForm(s.operator).channel = "default"
    BY DEF Op!DefaultForm
  <2>4. ui.form \in OpForms
    BY <1>0 DEF OpTyped, OpUi
  <2>5. OpForm
    BY DEF OpInv
  <2> QED
    BY <2>2, <2>3, <2>4, <2>5 DEF OpForm
<1> HIDE DEF f, new
<1>6. ui' \in OpUi /\ ui'.page = ui.page /\ ui'.op = ui.op /\ ui'.ns = ui.ns /\ ui'.form = f
  BY <1>0, <1>3, <1>5 DEF OpTyped, OpUi
<1>7. OpCallsOK(calls', past')
  BY <1>1, <1>3, OpAdds DEF ds
<1>8. OpTyped'
  BY <1>0, <1>1, <1>3, <1>4, <1>6 DEF OpTyped, ds
<1>9. OpShows(store', ui', calls', past')
  BY <1>3, <1>4, <1>6 DEF OpShows, ds
<1>10. OpForm'
  BY <1>3, <1>4, <1>5, <1>6 DEF OpForm
<1>11. OpLists(store', ui', calls', past')
  <2>1. s.olm \in BOOLEAN /\ store.olm \in BOOLEAN
    BY <1>0 DEF OpTyped, OpStore
  <2>2. CASE ui.page = "list" /\ s.olm /\ ~store.olm
    BY <1>2, <1>3, <1>6, <2>2 DEF OpLists
  <2>3. CASE ~(ui.page = "list" /\ s.olm /\ ~store.olm)
    <3>1. OpLists(s, ui, ds, p)
      BY <2>1, <2>3 DEF ds
    <3> QED
      BY <1>3, <1>4, <1>6, <3>1 DEF OpLists
  <2> QED
    BY <2>2, <2>3
<1> QED
  BY <1>3, <1>4, <1>7, <1>8, <1>9, <1>10, <1>11 DEF OpInv, OpCallsOK, OpClusterOK, OpAwaits, OpShows, OpLists

-----------------------------------------------------------------------------
(* The actions *)

\* a move is counted, and changes no subscription
LEMMA OpFacts ==
    ASSUME OpTyped, Op!Move
    PROVE  /\ Op!Count \in OpPast
           /\ Op!Count.groups = past.groups /\ Op!Count.subscriptions = past.subscriptions
           /\ Op!Count.stray = past.stray /\ Op!Count.old = past.old
<1>1. past.moves + 1 \in Nat
  BY DEF OpTyped, OpPast
<1> QED
  BY <1>1 DEF Op!Count, OpTyped, OpPast

\* the steps of the user, one lemma each, and then the answers
LEMMA OpOpenPage ==
    ASSUME OpInv, NEW page \in {"list", "view", "new"}, NEW op \in Ops \cup {None}, Op!OpenPage(page, op)
    PROVE  OpInv'
<1> DEFINE u == [ui EXCEPT !.page = page, !.op = op, !.form = Op!NoForm]
<1>0. OpTyped
  BY DEF OpInv
<1>1. Op!LocationChange(store) \in OpStore /\ Op!LocationChange(store).fetching = store.fetching
  BY <1>0 DEF OpTyped, OpStore, Op!LocationChange, Op!NoErrors
<1>2. u \in OpUi /\ u.page = page /\ u.op = op
  BY <1>0 DEF OpTyped, OpUi, OpForms, OpChannels, Op!NoForm
<1>3. op = None <=> page = "list"
  BY DEF Op!OpenPage
<1>4. /\ Op!Count \in OpPast
      /\ Op!Count.groups = past.groups /\ Op!Count.subscriptions = past.subscriptions
      /\ Op!Count.stray = past.stray /\ Op!Count.old = past.old
  BY <1>0, OpFacts DEF Op!OpenPage
<1>5. OpCallsOK(calls, Op!Count) /\ OpClusterOK(Op!Count)
  BY <1>4 DEF OpInv, OpCallsOK, OpClusterOK
<1>6. Op!Opened(Op!LocationChange(store), u, calls, Op!Count)
  BY DEF Op!OpenPage
<1>7. OpAwaits(Op!LocationChange(store).fetching, calls)
  BY <1>1 DEF OpInv
<1> HIDE DEF u
<1> QED
  BY <1>0, <1>1, <1>2, <1>3, <1>4, <1>5, <1>6, <1>7, OpOpens DEF OpTyped

LEMMA OpChangeContext ==
    ASSUME OpInv, NEW ns \in Namespaces, Op!changeContext(ns)
    PROVE  OpInv'
<1> DEFINE u == [ui EXCEPT !.ns = ns]
           s == Op!LocationChange(Op!setNamespaceState(store))
<1>0. OpTyped
  BY DEF OpInv
<1>1. s \in OpStore /\ s.fetching = {}
  BY <1>0 DEF OpTyped, OpStore, Op!LocationChange, Op!NoErrors, Op!setNamespaceState, Op!InitialState
<1>2. u \in OpUi /\ u.page = ui.page /\ u.op = ui.op
  BY <1>0 DEF OpTyped, OpUi
<1>4. /\ Op!Count \in OpPast
      /\ Op!Count.groups = past.groups /\ Op!Count.subscriptions = past.subscriptions
      /\ Op!Count.stray = past.stray /\ Op!Count.old = past.old
  BY <1>0, OpFacts DEF Op!changeContext
<1>5. OpCallsOK(calls, Op!Count) /\ OpClusterOK(Op!Count)
  BY <1>4 DEF OpInv, OpCallsOK, OpClusterOK
<1>6. Op!Opened(s, u, calls, Op!Count)
  BY DEF Op!changeContext
<1>7. OpAwaits(s.fetching, calls)
  BY <1>1 DEF OpAwaits
<1> HIDE DEF u, s
<1> QED
  BY <1>0, <1>1, <1>2, <1>4, <1>5, <1>6, <1>7, OpOpens DEF OpTyped

\* What the user chooses in the form.
LEMMA OpChooses ==
    ASSUME OpInv,
           \/ \E ch \in Op!Channels : Op!selectChannel(ch)
           \/ \E mode \in BOOLEAN : Op!setInstallationMode(mode)
    PROVE  OpInv'
<1>0. OpTyped
  BY DEF OpInv
<1>1. /\ store' = store /\ calls' = calls /\ past' = Op!Count /\ Op!Move
  BY DEF Op!selectChannel, Op!setInstallationMode
<1>2. /\ Op!Count \in OpPast
      /\ Op!Count.groups = past.groups /\ Op!Count.subscriptions = past.subscriptions
      /\ Op!Count.stray = past.stray /\ Op!Count.old = past.old
  BY <1>0, <1>1, OpFacts
<1>3. /\ ui' \in OpUi /\ ui'.page = ui.page /\ ui'.op = ui.op /\ ui'.ns = ui.ns
      /\ ui'.form.mode => Op!global(store.operator, ui'.form.channel)
  <2>1. ASSUME NEW ch \in Op!Channels, Op!selectChannel(ch)
        PROVE  /\ ui' \in OpUi /\ ui'.page = ui.page /\ ui'.op = ui.op /\ ui'.ns = ui.ns
               /\ ui'.form.mode => Op!global(store.operator, ui'.form.channel)
    <3>1. /\ Op!WithChannel(ch) \in OpForms /\ Op!WithChannel(ch).channel = ch
          /\ Op!WithChannel(ch).mode = Op!global(store.operator, ch)
      BY DEF Op!WithChannel, Op!global, OpForms, OpChannels, Op!Channels
    <3>2. ui' = [ui EXCEPT !.form = Op!WithChannel(ch)]
      BY <2>1 DEF Op!selectChannel
    <3> QED
      BY <1>0, <3>1, <3>2 DEF OpTyped, OpUi
  <2>2. ASSUME NEW mode \in BOOLEAN, Op!setInstallationMode(mode)
        PROVE  /\ ui' \in OpUi /\ ui'.page = ui.page /\ ui'.op = ui.op /\ ui'.ns = ui.ns
               /\ ui'.form.mode => Op!global(store.operator, ui'.form.channel)
    <3>1. [ui.form EXCEPT !.mode = mode] \in OpForms
      BY <1>0 DEF OpTyped, OpUi, OpForms
    <3>2. /\ [ui.form EXCEPT !.mode = mode].mode = mode
          /\ [ui.form EXCEPT !.mode = mode].channel = ui.form.channel
      BY <1>0 DEF OpTyped, OpUi, OpForms
    <3>3. /\ ui' = [ui EXCEPT !.form = [ui.form EXCEPT !.mode = mode]]
          /\ mode => Op!global(store.operator, ui.form.channel)
      BY <2>2 DEF Op!setInstallationMode
    <3> QED
      BY <1>0, <3>1, <3>2, <3>3 DEF OpTyped, OpUi
  <2> QED
    BY <2>1, <2>2
<1> QED
  BY <1>0, <1>1, <1>2, <1>3 DEF OpInv, OpTyped, OpCallsOK, OpClusterOK, OpAwaits, OpShows, OpForm, OpLists

LEMMA OpHandleDeploy ==
    ASSUME OpInv, Op!ConstantsAssumption, Op!handleDeploy
    PROVE  OpInv'
<1> DEFINE ns == IF ui.form.mode THEN Global ELSE ui.ns
           c == [Op!Call(IF ns = Global THEN "subscribe" ELSE "groups", store.operator, ns)
                   EXCEPT !.url = ui.op, !.channel = ui.form.channel,
                          !.calm = ~Op!Reading /\ ~past.stray]
           calm == ~Op!Reading /\ ~past.stray
<1>0. OpTyped /\ OpShows(store, ui, calls, past) /\ OpForm
  BY DEF OpInv
<1>1. /\ store' = Op!Fetching(store, "operator") /\ ui' = ui /\ past' = Op!Count
      /\ calls' = calls \cup {c} /\ Op!HasForm /\ ~Op!disableInstall /\ Op!Move
  BY DEF Op!handleDeploy
<1>2. /\ Op!Count \in OpPast
      /\ Op!Count.groups = past.groups /\ Op!Count.subscriptions = past.subscriptions
      /\ Op!Count.stray = past.stray /\ Op!Count.old = past.old
  BY <1>0, <1>1, OpFacts
<1>4. /\ store.operator \in Ops /\ ui.page = "new" /\ store.errors.operator = "no"
      /\ ui.form.channel \in OpChannels /\ ui.op \in Ops \cup {None}
  BY <1>0, <1>1 DEF Op!HasForm, OpTyped, OpStore, OpUi, OpForms
<1>5. ns \in Namespaces
  BY <1>0 DEF OpTyped, OpUi, Op!ConstantsAssumption
<1>6. calm \in BOOLEAN
  OBVIOUS
<1>7. calm => store.operator = ui.op
  BY <1>0, <1>4 DEF OpShows, Op!Reading
<1>8. ns = Global => Op!global(store.operator, ui.form.channel)
  BY <1>0, <1>1, <1>4 DEF OpForm, Op!disableInstall, Op!ConstantsAssumption
<1> HIDE DEF ns, calm
<1> DEFINE k == IF ns = Global THEN "subscribe" ELSE "groups"
<1>9. /\ c \in OpCalls /\ c.kind = k /\ c.op = store.operator /\ c.ns = ns
      /\ c.url = ui.op /\ c.channel = ui.form.channel /\ c.calm = calm
  <2> DEFINE c0 == Op!Call(k, store.operator, ns)
             c1 == [c0 EXCEPT !.url = ui.op]
             c2 == [c1 EXCEPT !.channel = ui.form.channel]
  <2>1. c = [c2 EXCEPT !.calm = calm]
    BY DEF calm, c
  <2> HIDE DEF c
  <2>2. c0 \in OpCalls /\ c0.kind = k /\ c0.op = store.operator /\ c0.ns = ns
    BY <1>4, <1>5 DEF Op!Call, OpCalls, OpChannels, OpAsked
  <2> HIDE DEF c0
  <2>3. c1 \in OpCalls /\ c1.kind = k /\ c1.op = store.operator /\ c1.ns = ns /\ c1.url = ui.op
    BY <1>4, <2>2 DEF OpCalls
  <2> HIDE DEF c1
  <2>4. c2 \in OpCalls /\ c2.kind = k /\ c2.op = store.operator /\ c2.ns = ns /\ c2.url = ui.op
        /\ c2.channel = ui.form.channel
    BY <1>4, <2>3 DEF OpCalls
  <2> HIDE DEF c2
  <2> QED
    BY <1>6, <2>1, <2>4 DEF OpCalls
<1> HIDE DEF c
<1>10. OpCallsOK(calls', past')
  <2>1. OpCallsOK(calls, past) /\ past.groups[Global] > 0
    BY DEF OpInv, OpClusterOK
  <2> QED
    BY <1>1, <1>2, <1>9, <1>4, <1>7, <1>8, <2>1 DEF OpCallsOK
<1>11. OpFlag(c.kind) = "operator"
  BY <1>9 DEF OpFlag
<1>12. /\ store' \in OpStore /\ store'.fetching = store.fetching \cup {"operator"}
       /\ store'.operator = store.operator /\ store'.errors = store.errors /\ store'.olm = store.olm
       /\ store'.subscriptions = store.subscriptions
  BY <1>0, <1>1 DEF Op!Fetching, OpTyped, OpStore
<1>13. OpAwaits(store'.fetching, calls')
  BY <1>1, <1>11, <1>12 DEF OpInv, OpAwaits
<1>14. OpTyped' /\ OpClusterOK(past')
  BY <1>0, <1>1, <1>2, <1>9, <1>12 DEF OpInv, OpTyped, OpClusterOK
<1>15. OpShows(store', ui', calls', past') /\ OpForm' /\ OpLists(store', ui', calls', past')
  BY <1>0, <1>1, <1>2, <1>12 DEF OpInv, OpShows, OpForm, OpLists
<1> QED
  BY <1>10, <1>13, <1>14, <1>15 DEF OpInv, OpCallsOK, OpClusterOK, OpAwaits, OpShows, OpLists

-----------------------------------------------------------------------------
(* Answers *)

\* What an answer leaves, when it sends nothing more and the flag of its kind is cleared.
LEMMA OpRest ==
    ASSUME OpInv, NEW c \in calls, NEW s \in OpStore, s.fetching \subseteq store.fetching \ {OpFlag(c.kind)}
    PROVE  /\ OpCallsOK((calls \ {c}) \cup {}, past) /\ OpAwaits(s.fetching, (calls \ {c}) \cup {})
  BY DEF OpInv, OpCallsOK, OpAwaits

\* an answer that is not for the page shown is noted as stray
LEMMA OpStrays ==
    ASSUME OpTyped, NEW c \in calls
    PROVE  /\ Op!Strays(c) \in OpPast
           /\ Op!Strays(c).groups = past.groups /\ Op!Strays(c).subscriptions = past.subscriptions
           /\ Op!Strays(c).old = past.old /\ Op!Strays(c).errors = past.errors
           /\ Op!Strays(c).stray = (past.stray \/ c.ns # ui.ns \/ (c.op # None /\ c.op # ui.op)
                                      \/ (c.kind = "operator") # (ui.page \in {"view", "new"}))
<1> DEFINE b == past.stray \/ c.ns # ui.ns \/ (c.op # None /\ c.op # ui.op)
                                      \/ (c.kind = "operator") # (ui.page \in {"view", "new"})
<1>1. b \in BOOLEAN
  OBVIOUS
<1>2. Op!Strays(c) = [past EXCEPT !.stray = b]
  BY DEF Op!Strays
<1> HIDE DEF b
<1>3. /\ [past EXCEPT !.stray = b] \in OpPast /\ [past EXCEPT !.stray = b].stray = b
      /\ [past EXCEPT !.stray = b].groups = past.groups
      /\ [past EXCEPT !.stray = b].subscriptions = past.subscriptions
      /\ [past EXCEPT !.stray = b].old = past.old /\ [past EXCEPT !.stray = b].errors = past.errors
  BY <1>1 DEF OpTyped, OpPast
<1> QED
  BY <1>2, <1>3 DEF b

LEMMA OpOLMAnswered == ASSUME OpInv, NEW c \in calls, Op!OLMAnswered(c) PROVE OpInv'
<1> DEFINE s == Op!OLMInstalled(store)
<1>0. OpTyped
  BY DEF OpInv
<1>1. /\ s \in OpStore /\ s.fetching = store.fetching \ {"OLM"} /\ s.operator = store.operator
      /\ s.errors = store.errors /\ s.subscriptions = store.subscriptions /\ s.olm
  BY <1>0 DEF OpTyped, OpStore, Op!OLMInstalled, Op!Fetched
<1>2. c.kind = "olm" /\ Op!Answer(c, s, {}, past)
  BY DEF Op!OLMAnswered
<1> HIDE DEF s
<1>3. OpCallsOK((calls \ {c}) \cup {}, past) /\ OpAwaits(s.fetching, (calls \ {c}) \cup {})
  BY <1>1, <1>2, OpRest DEF OpFlag
<1>4. OpShows(s, ui, (calls \ {c}) \cup {}, past)
  BY <1>1, <1>2 DEF OpInv, OpShows
<1>5. ui.page # "list" \/ store.olm \/ ~s.olm => OpLists(s, ui, (calls \ {c}) \cup {}, past)
  BY <1>1, <1>2 DEF OpInv, OpLists
<1>6. past \in OpPast /\ OpClusterOK(past) /\ {} \in SUBSET OpCalls
  BY <1>0 DEF OpInv, OpTyped
<1> QED
  BY <1>1, <1>2, <1>3, <1>4, <1>5, <1>6, OpAnswers

LEMMA OpOperatorsAnswered ==
    ASSUME OpInv, Op!ConstantsAssumption, NEW c \in calls, Op!OperatorsAnswered(c)
    PROVE  OpInv'
<1>0. OpTyped /\ past \in OpPast /\ OpClusterOK(past) /\ {} \in SUBSET OpCalls
  BY DEF OpInv, OpTyped
<1>1. CASE c.kind = "operators" /\ Op!Answer(c, Op!receiveOperators(store), {}, past)
  <2> DEFINE s == Op!receiveOperators(store)
  <2>1. /\ s \in OpStore /\ s.fetching = store.fetching \ {"operator"} /\ s.operator = store.operator
        /\ s.errors = store.errors /\ s.subscriptions = store.subscriptions /\ s.olm = store.olm
    BY <1>0 DEF OpTyped, OpStore, Op!receiveOperators, Op!Fetched
  <2> HIDE DEF s
  <2>3. OpCallsOK((calls \ {c}) \cup {}, past) /\ OpAwaits(s.fetching, (calls \ {c}) \cup {})
    BY <1>1, <2>1, OpRest DEF OpFlag
  <2>4. OpShows(s, ui, (calls \ {c}) \cup {}, past) /\ OpLists(s, ui, (calls \ {c}) \cup {}, past)
    BY <1>1, <2>1 DEF OpInv, OpShows, OpLists
  <2> QED
    BY <1>0, <1>1, <2>1, <2>3, <2>4, OpAnswers DEF s
<1>2. CASE c.kind = "operator" /\ Op!Answer(c, Op!receiveOperator(store, c.op), {}, Op!Strays(c))
  <2> DEFINE s == Op!receiveOperator(store, c.op)
             p == Op!Strays(c)
  <2>0. c.op \in Ops
    BY <1>2 DEF OpInv, OpCallsOK
  <2>1. /\ s \in OpStore /\ s.fetching = store.fetching \ {"operator"} /\ s.operator = c.op
        /\ s.errors = store.errors /\ s.subscriptions = store.subscriptions /\ s.olm = store.olm
    BY <1>0, <2>0 DEF OpTyped, OpStore, Op!receiveOperator, Op!Fetched
  <2>2. /\ p \in OpPast /\ p.groups = past.groups /\ p.subscriptions = past.subscriptions
        /\ p.old = past.old
        /\ ~p.stray => ~past.stray /\ c.op = ui.op
    BY <1>0, <2>0, OpStrays DEF Op!ConstantsAssumption
  <2> HIDE DEF s, p
  <2>3. OpCallsOK((calls \ {c}) \cup {}, p) /\ OpAwaits(s.fetching, (calls \ {c}) \cup {}) /\ OpClusterOK(p)
    <3>1. OpCallsOK((calls \ {c}) \cup {}, past) /\ OpAwaits(s.fetching, (calls \ {c}) \cup {})
      BY <1>2, <2>1, OpRest DEF OpFlag
    <3> QED
      BY <1>0, <2>2, <3>1 DEF OpCallsOK, OpClusterOK
  <2>4. OpShows(s, ui, (calls \ {c}) \cup {}, p)
    BY <2>1, <2>2 DEF OpShows
  <2>5. OpLists(s, ui, (calls \ {c}) \cup {}, p)
    BY <1>2, <2>1, <2>2 DEF OpInv, OpLists
  <2> QED
    BY <1>0, <1>2, <2>1, <2>2, <2>3, <2>4, <2>5, OpAnswers DEF s, p
<1>3. CASE c.kind = "csv" /\ Op!Answer(c, Op!Fetched(store, "csv"), {}, past)
  <2> DEFINE s == Op!Fetched(store, "csv")
  <2>1. /\ s \in OpStore /\ s.fetching = store.fetching \ {"csv"} /\ s.operator = store.operator
        /\ s.errors = store.errors /\ s.subscriptions = store.subscriptions /\ s.olm = store.olm
    BY <1>0 DEF OpTyped, OpStore, Op!Fetched
  <2> HIDE DEF s
  <2>3. OpCallsOK((calls \ {c}) \cup {}, past) /\ OpAwaits(s.fetching, (calls \ {c}) \cup {})
    BY <1>3, <2>1, OpRest DEF OpFlag
  <2>4. OpShows(s, ui, (calls \ {c}) \cup {}, past) /\ OpLists(s, ui, (calls \ {c}) \cup {}, past)
    BY <1>3, <2>1 DEF OpInv, OpShows, OpLists
  <2> QED
    BY <1>0, <1>3, <2>1, <2>3, <2>4, OpAnswers DEF s
<1> QED
  BY <1>1, <1>2, <1>3 DEF Op!OperatorsAnswered

\* The list of subscriptions, in two steps but for the namespace "operators".
LEMMA OpListSubscriptions ==
    ASSUME OpInv, Op!ConstantsAssumption, NEW c \in calls, Op!listSubscriptions(c)
    PROVE  OpInv'
<1>0. OpTyped /\ past \in OpPast /\ OpClusterOK(past) /\ c \in OpCalls
  BY DEF OpInv, OpTyped
<1>1. ASSUME c.kind = "subscriptions", c.ns # Global,
             Op!Answer(c, store, {[c EXCEPT !.kind = "more", !.first = Op!In(Global)]}, past)
      PROVE  OpInv'
  <2> DEFINE d == [c EXCEPT !.kind = "more", !.first = Op!In(Global)]
  <2>1. Op!In(Global) \in SUBSET OpSubs
    BY <1>0 DEF Op!In, OpPast
  <2>2. d \in OpCalls
    BY <1>0, <2>1, Zenon DEF OpCalls, OpAsked
  <2>3. d.kind = "more" /\ d.first = Op!In(Global) /\ d.ns = c.ns
    BY <1>0 DEF OpCalls
  <2> HIDE DEF d
  <2>4. OpCallsOK((calls \ {c}) \cup {d}, past)
    BY <2>3 DEF OpInv, OpCallsOK, Op!In
  <2>5. OpAwaits(store.fetching, (calls \ {c}) \cup {d})
    BY <1>1, <2>3 DEF OpInv, OpAwaits, OpFlag
  <2>6. OpShows(store, ui, (calls \ {c}) \cup {d}, past)
    BY <1>1 DEF OpInv, OpShows
  <2>7. OpLists(store, ui, (calls \ {c}) \cup {d}, past)
    BY <2>3 DEF OpInv, OpLists
  <2>8. store \in OpStore /\ Op!Answer(c, store, {d}, past)
    BY <1>0, <1>1 DEF OpTyped, d
  <2> QED
    BY <1>0, <2>2, <2>4, <2>5, <2>6, <2>7, <2>8, OpAnswers
<1>2. ASSUME NEW ss \in SUBSET OpSubs, c.kind \in {"subscriptions", "more"},
             Op!Answer(c, Op!receiveSubscriptions(store, ss), {}, Op!Strays(c)),
             ~past.old => ss = {t \in past.subscriptions : t.ns \in {Global, c.ns}}
      PROVE  OpInv'
  <2> DEFINE s == Op!receiveSubscriptions(store, ss)
             p == Op!Strays(c)
  <2>1. /\ s \in OpStore /\ s.fetching = store.fetching \ {"subscriptions"} /\ s.operator = store.operator
        /\ s.errors = store.errors /\ s.subscriptions = ss /\ s.olm = store.olm
    BY <1>0 DEF OpTyped, OpStore, Op!receiveSubscriptions, Op!Fetched
  <2>2. /\ p \in OpPast /\ p.groups = past.groups /\ p.subscriptions = past.subscriptions
        /\ p.old = past.old
        /\ ~p.stray => ~past.stray /\ c.ns = ui.ns
    BY <1>0, OpStrays
  <2> HIDE DEF s, p
  <2>3. OpCallsOK((calls \ {c}) \cup {}, p) /\ OpAwaits(s.fetching, (calls \ {c}) \cup {}) /\ OpClusterOK(p)
    <3>1. OpCallsOK((calls \ {c}) \cup {}, past) /\ OpAwaits(s.fetching, (calls \ {c}) \cup {})
      BY <1>2, <2>1, OpRest DEF OpFlag
    <3> QED
      BY <1>0, <2>2, <3>1 DEF OpCallsOK, OpClusterOK
  <2>4. OpShows(s, ui, (calls \ {c}) \cup {}, p)
    BY <1>2, <2>1, <2>2 DEF OpInv, OpShows
  <2>5. OpLists(s, ui, (calls \ {c}) \cup {}, p)
    BY <1>2, <2>1, <2>2 DEF OpLists
  <2> QED
    BY <1>0, <1>2, <2>1, <2>2, <2>3, <2>4, <2>5, OpAnswers DEF s, p
<1>3. CASE c.kind = "subscriptions" /\ c.ns = Global
             /\ Op!Answer(c, Op!receiveSubscriptions(store, Op!In(Global)), {}, Op!Strays(c))
  <2>1. Op!In(Global) \in SUBSET OpSubs /\ Op!In(Global) = {t \in past.subscriptions : t.ns \in {Global, c.ns}}
    BY <1>0, <1>3 DEF Op!In, OpPast
  <2> QED
    BY <1>2, <1>3, <2>1
<1>4. CASE c.kind = "more"
             /\ Op!Answer(c, Op!receiveSubscriptions(store, c.first \cup Op!In(c.ns)), {}, Op!Strays(c))
  <2>1. c.first \cup Op!In(c.ns) \in SUBSET OpSubs
    BY <1>0 DEF Op!In, OpPast, OpCalls
  <2>2. ~past.old => c.first \cup Op!In(c.ns) = {t \in past.subscriptions : t.ns \in {Global, c.ns}}
    BY <1>4 DEF Op!In, OpInv, OpCallsOK
  <2> QED
    BY <1>2, <1>4, <2>1, <2>2
<1> QED
  BY <1>1, <1>3, <1>4 DEF Op!listSubscriptions

\* A group is found, or created, before the subscription.
LEMMA OpGroupsAnswered ==
    ASSUME OpInv, Op!ConstantsAssumption, NEW c \in calls, Op!GroupsAnswered(c)
    PROVE  OpInv'
<1>0. OpTyped /\ past \in OpPast /\ OpClusterOK(past) /\ OpCallsOK(calls, past) /\ c \in OpCalls /\ store \in OpStore
  BY DEF OpInv, OpTyped
<1>1. ASSUME NEW k \in {"subscribe", "group"}, c.kind \in {"groups", "group"}, NEW p \in OpPast,
             Op!Answer(c, store, {[c EXCEPT !.kind = k]}, p),
             p.subscriptions = past.subscriptions, p.old = past.old, p.stray = past.stray,
             \A n \in Namespaces : p.groups[n] >= past.groups[n],
             k = "subscribe" => p.groups[c.ns] > 0
      PROVE  OpInv'
  <2> DEFINE d == [c EXCEPT !.kind = k]
  <2>1. d \in OpCalls /\ d.kind = k /\ d.ns = c.ns /\ d.op = c.op /\ d.calm = c.calm /\ d.url = c.url
        /\ d.channel = c.channel
    BY <1>0, <1>1 DEF OpCalls, OpAsked
  <2> HIDE DEF d
  <2>2. \A n \in Namespaces : p.groups[n] \in Nat /\ past.groups[n] \in Nat
    BY <1>0 DEF OpPast
  <2>3. OpClusterOK(p)
    <3>1. \A t \in past.subscriptions : t.ns \in Namespaces
      BY <1>0 DEF OpPast, OpSubs
    <3> QED
      BY <1>0, <1>1, <2>2, <3>1 DEF OpClusterOK, Op!ConstantsAssumption
  <2>4. OpCallsOK((calls \ {c}) \cup {d}, p)
    <3>1. \A e \in calls : e.ns \in Namespaces
      BY <1>0 DEF OpTyped, OpCalls
    <3>2. \A e \in calls : e.kind = "subscribe" => p.groups[e.ns] > 0
      BY <1>0, <1>1, <2>2, <3>1 DEF OpCallsOK
    <3>3. c.calm => c.op = c.url
      BY <1>0, <1>1 DEF OpCallsOK
    <3>4. c.ns = Global => Op!global(c.op, c.channel)
      BY <1>0, <1>1 DEF OpCallsOK
    <3> QED
      BY <1>0, <1>1, <2>1, <3>2, <3>3, <3>4 DEF OpCallsOK
  <2>5. OpAwaits(store.fetching, (calls \ {c}) \cup {d})
    <3>1. OpFlag(c.kind) = OpFlag(d.kind)
      BY <1>1, <2>1 DEF OpFlag
    <3> QED
      BY <3>1 DEF OpInv, OpAwaits
  <2>6. OpShows(store, ui, (calls \ {c}) \cup {d}, p)
    BY <1>1 DEF OpInv, OpShows
  <2>7. OpLists(store, ui, (calls \ {c}) \cup {d}, p)
    BY <1>1 DEF OpInv, OpLists
  <2> QED
    BY <1>0, <1>1, <2>1, <2>3, <2>4, <2>5, <2>6, <2>7, OpAnswers DEF d
<1>2. CASE c.kind = "groups" /\ Op!Answer(c, store, {[c EXCEPT !.kind = Op!createOperatorGroupIfNotExists(c)]}, past)
  <2>1. /\ Op!createOperatorGroupIfNotExists(c) \in {"subscribe", "group"}
        /\ Op!createOperatorGroupIfNotExists(c) = "subscribe" => past.groups[c.ns] > 0
    BY DEF Op!createOperatorGroupIfNotExists
  <2>2. \A n \in Namespaces : past.groups[n] >= past.groups[n]
    BY <1>0 DEF OpPast
  <2> QED
    BY <1>0, <1>1, <1>2, <2>1, <2>2
<1>3. CASE /\ c.kind = "group"
           /\ Op!Answer(c, store, {[c EXCEPT !.kind = "subscribe"]}, [past EXCEPT !.groups[c.ns] = @ + 1])
  <2> DEFINE p == [past EXCEPT !.groups[c.ns] = @ + 1]
  <2>1. c.ns \in Namespaces /\ past.groups[c.ns] \in Nat
    BY <1>0 DEF OpCalls, OpPast
  <2>2. /\ p \in OpPast /\ p.subscriptions = past.subscriptions /\ p.old = past.old /\ p.stray = past.stray
        /\ p.groups = [past.groups EXCEPT ![c.ns] = @ + 1]
    BY <1>0, <2>1 DEF OpPast
  <2>3. p.groups[c.ns] > 0 /\ \A n \in Namespaces : p.groups[n] >= past.groups[n]
    BY <1>0, <2>1, <2>2 DEF OpPast
  <2> HIDE DEF p
  <2> QED
    BY <1>1, <1>3, <2>2, <2>3 DEF p
<1> QED
  BY <1>2, <1>3 DEF Op!GroupsAnswered

LEMMA OpSubscribed ==
    ASSUME OpInv, NEW c \in calls, Op!Subscribed(c)
    PROVE  OpInv'
<1> DEFINE s == Op!LocationChange(Op!Fetched(store, "operator"))
           u == [ui EXCEPT !.page = "list", !.op = None, !.form = Op!NoForm]
           new == [ns |-> c.ns, op |-> c.op]
           old == past.old \/ \E d \in calls : d.kind = "more"
           p == [past EXCEPT !.subscriptions = @ \cup {new}, !.old = old]
<1>0. OpTyped /\ past \in OpPast /\ OpClusterOK(past) /\ OpCallsOK(calls, past) /\ c \in OpCalls
  BY DEF OpInv, OpTyped
<1>1. c.kind = "subscribe" /\ Op!Opened(s, u, calls \ {c}, p)
  BY DEF Op!Subscribed
<1>2. s \in OpStore /\ s.fetching = store.fetching \ {"operator"}
  BY <1>0 DEF OpTyped, OpStore, Op!LocationChange, Op!NoErrors, Op!Fetched
<1>3. u \in OpUi /\ u.page = "list"
  BY <1>0 DEF OpTyped, OpUi, OpForms, OpChannels, Op!NoForm
<1>4. past.groups[c.ns] > 0
  BY <1>0, <1>1 DEF OpCallsOK
<1>5. new \in OpSubs
  BY <1>0, <1>1 DEF OpCalls, OpSubs, OpCallsOK
<1>6. old \in BOOLEAN
  BY <1>0 DEF OpPast
<1>7. /\ p \in OpPast /\ p.subscriptions = past.subscriptions \cup {new} /\ p.groups = past.groups
      /\ p.old = old
  <2> HIDE DEF new, old
  <2> DEFINE q == [past EXCEPT !.subscriptions = @ \cup {new}]
  <2>1. q \in OpPast /\ q.subscriptions = past.subscriptions \cup {new} /\ q.groups = past.groups
    BY <1>0, <1>5 DEF OpPast
  <2>2. p = [q EXCEPT !.old = old]
    OBVIOUS
  <2> HIDE DEF q, p
  <2> QED
    BY <1>6, <2>1, <2>2 DEF OpPast
<1>8. OpClusterOK(p)
  BY <1>0, <1>4, <1>7 DEF OpClusterOK
<1>9. OpCallsOK(calls \ {c}, p)
  BY <1>0, <1>7 DEF OpCallsOK
<1>10. OpAwaits(s.fetching, calls \ {c})
  BY <1>1, <1>2 DEF OpInv, OpAwaits, OpFlag
<1> HIDE DEF s, u, p
<1> QED
  BY <1>0, <1>1, <1>2, <1>3, <1>7, <1>8, <1>9, <1>10, OpOpens DEF OpTyped

LEMMA OpCallFails ==
    ASSUME OpInv, Op!ConstantsAssumption, NEW c \in calls, Op!CallFails(c)
    PROVE  OpInv'
<1> DEFINE exists == c.kind = "subscribe" /\ [ns |-> c.ns, op |-> c.op] \in past.subscriptions
           s == CASE c.kind = "olm"                      -> Op!errorOLMCheck(store)
                  [] c.kind \in {"operators", "operator"} -> Op!errorOperators(store)
                  [] c.kind = "csv"                      -> Op!Fetched(store, "csv")
                  [] c.kind \in {"subscriptions", "more"} -> Op!errorSubscriptionList(store)
                  [] c.kind \in {"groups", "group", "subscribe"} -> Op!errorOperatorCreate(store)
           n == IF exists THEN past.errors ELSE past.errors + 1
           p == [Op!Strays(c) EXCEPT !.errors = n]
<1>0. OpTyped /\ past \in OpPast /\ OpClusterOK(past) /\ OpCallsOK(calls, past) /\ c \in OpCalls
      /\ store \in OpStore
  BY DEF OpInv, OpTyped
<1>1. exists \/ past.errors < Max.operators.errors
  BY DEF Op!CallFails
<1>2. /\ Op!Strays(c) \in OpPast
      /\ Op!Strays(c).groups = past.groups /\ Op!Strays(c).subscriptions = past.subscriptions
      /\ Op!Strays(c).old = past.old /\ Op!Strays(c).errors = past.errors
      /\ ~Op!Strays(c).stray => ~past.stray /\ c.ns = ui.ns
  BY <1>0, OpStrays
<1>3. n \in 0..Max.operators.errors
  BY <1>0, <1>1 DEF OpPast, Op!ConstantsAssumption
<1>4. Op!Answer(c, s, {}, p)
  BY <1>2 DEF Op!CallFails
<1> HIDE DEF n
<1>5. /\ p \in OpPast /\ p.groups = past.groups /\ p.subscriptions = past.subscriptions
      /\ p.old = past.old
      /\ ~p.stray => ~past.stray /\ c.ns = ui.ns
  BY <1>2, <1>3 DEF OpPast
<1>6. /\ s \in OpStore /\ s.fetching = store.fetching \ {OpFlag(c.kind)} /\ s.olm = store.olm
      /\ s.subscriptions = store.subscriptions
      /\ s.operator = store.operator \/ (s.operator = None /\ s.errors.operator = "fetch")
      /\ s.errors.operator # "no" \/ s.errors.operator = store.errors.operator
      /\ s.errors = Op!NoErrors => store.errors = Op!NoErrors /\ c.kind \notin {"subscriptions", "more"}
      /\ s.errors.operator = "no" => c.kind # "operator"
  <2>1. CASE c.kind = "olm"
    BY <1>0, <2>1 DEF OpStore, OpFlag, Op!errorOLMCheck, Op!Fetched, Op!NoErrors
  <2>2. CASE c.kind \in {"operators", "operator"}
    <3>1. s = Op!errorOperators(store) /\ OpFlag(c.kind) = "operator"
      BY <2>2 DEF OpFlag
    <3> HIDE DEF s
    <3>2. Op!Fetched(store, "operator") \in OpStore
      BY <1>0 DEF OpStore, Op!Fetched
    <3> DEFINE t == Op!Fetched(store, "operator")
    <3>3. t.fetching = store.fetching \ {"operator"} /\ t.olm = store.olm
          /\ t.subscriptions = store.subscriptions /\ t.errors = store.errors
      BY <1>0 DEF OpStore, Op!Fetched
    <3>4. s = [t EXCEPT !.operator = None, !.errors.operator = "fetch"]
      BY <3>1 DEF Op!errorOperators
    <3> HIDE DEF t
    <3>5. s \in OpStore /\ s.fetching = t.fetching /\ s.olm = t.olm /\ s.subscriptions = t.subscriptions
          /\ s.operator = None /\ s.errors.operator = "fetch"
      BY <3>2, <3>4 DEF t, OpStore
    <3> QED
      BY <3>1, <3>3, <3>5 DEF Op!NoErrors
  <2>3. CASE c.kind = "csv"
    BY <1>0, <2>3 DEF OpStore, OpFlag, Op!Fetched, Op!NoErrors
  <2>4. CASE c.kind \in {"subscriptions", "more"}
    BY <1>0, <2>4 DEF OpStore, OpFlag, Op!errorSubscriptionList, Op!Fetched, Op!NoErrors
  <2>5. CASE c.kind \in {"groups", "group", "subscribe"}
    BY <1>0, <2>5 DEF OpStore, OpFlag, Op!errorOperatorCreate, Op!Fetched, Op!NoErrors
  <2> QED
    BY <1>0, <2>1, <2>2, <2>3, <2>4, <2>5 DEF OpCalls, OpAsked
<1> HIDE DEF s, p
<1>7. OpCallsOK((calls \ {c}) \cup {}, p) /\ OpAwaits(s.fetching, (calls \ {c}) \cup {}) /\ OpClusterOK(p)
  <2>1. OpCallsOK((calls \ {c}) \cup {}, past) /\ OpAwaits(s.fetching, (calls \ {c}) \cup {})
    BY <1>6, OpRest
  <2> QED
    BY <1>0, <1>5, <2>1 DEF OpCallsOK, OpClusterOK
<1>8. OpShows(s, ui, (calls \ {c}) \cup {}, p)
  BY <1>5, <1>6 DEF OpInv, OpShows
<1>9. OpLists(s, ui, (calls \ {c}) \cup {}, p)
  BY <1>5, <1>6 DEF OpInv, OpLists
<1> QED
  BY <1>4, <1>5, <1>6, <1>7, <1>8, <1>9, OpAnswers

LEMMA OpNextHolds == ASSUME Op!ConstantsAssumption, OpInv, [Op!Next]_Op!vars PROVE OpInv'
<1>1. CASE UNCHANGED Op!vars
  BY <1>1 DEF Op!vars, OpInv, OpTyped, OpCallsOK, OpClusterOK, OpAwaits, OpShows, OpForm, OpLists
<1> QED
  BY <1>1, OpOpenPage, OpChangeContext, OpChooses, OpHandleDeploy, OpOLMAnswered, OpOperatorsAnswered,
     OpListSubscriptions, OpGroupsAnswered, OpSubscribed, OpCallFails DEF Op!Next

\* the invariant says what the properties do
LEMMA OpHolds ==
    ASSUME Op!ConstantsAssumption, OpInv
    PROVE  Op!TypeOK /\ Op!SubscribesAsShown /\ Op!GroupFirst /\ Op!PageSettles
<1> USE DEF OpInv
<1>1. Op!TypeOK
  BY DEF Op!TypeOK, OpTyped, OpStore, OpUi, OpPast, OpForms, OpChannels, Op!Channels, OpSubs,
         Op!Subscriptions, Op!ConstantsAssumption
<1>2. Op!SubscribesAsShown /\ Op!GroupFirst
  BY DEF Op!SubscribesAsShown, Op!GroupFirst, OpCallsOK, OpClusterOK
<1>3. Op!PageSettles
  <2> SUFFICES ASSUME calls = {}
               PROVE  /\ store.fetching = {}
                      /\ ui.page \in {"view", "new"} /\ ~past.stray =>
                            store.errors.operator # "no" \/ store.operator = ui.op
                      /\ (ui.page \in {"list", "view"} /\ ~past.stray /\ ~past.old /\ store.olm
                            /\ store.errors = Op!NoErrors) =>
                            store.subscriptions = Op!In(Global) \cup Op!In(ui.ns)
    BY DEF Op!PageSettles
  <2>1. store.fetching = {}
    BY DEF OpAwaits
  <2>2. Op!In(Global) \cup Op!In(ui.ns) = {t \in past.subscriptions : t.ns \in {Global, ui.ns}}
    BY DEF Op!In
  <2> QED
    BY <2>1, <2>2 DEF OpShows, OpLists
<1> QED
  BY <1>1, <1>2, <1>3

-----------------------------------------------------------------------------
(* The form of a repository: the invariant is FrmInv. *)

FrmTexts == {"", "old", "new"}
FrmParts == {"url", "interval", "type", "plugin", "scope", "auth", "pull", "oci", "filter", "validation",
             "tls", "skip", "pass", "proxy"}
FrmUi    == [plugin : {"none", "helm", "flux"}, type : {"none", "helm", "oci"}, scoped : BOOLEAN,
             method : Form!Methods \cup {Form!NoAuth}, provider : {"", "generic"} \cup Form!Clouds,
             showProvider : BOOLEAN, creds : [Form!Methods -> FrmTexts], managed : BOOLEAN,
             secretAuthName : FrmTexts, customCA : FrmTexts, caManaged : BOOLEAN,
             secretTLSName : FrmTexts, skip : BOOLEAN, pass : BOOLEAN,
             psMethod : {"docker", Form!NoAuth}, same : BOOLEAN, psManaged : BOOLEAN, psName : FrmTexts,
             psCreds : FrmTexts, url : FrmTexts \cup {"bare"}, interval : FrmTexts \cup {"10m"},
             oci : FrmTexts, names : FrmTexts, regex : BOOLEAN, exclude : BOOLEAN,
             validation : BOOLEAN, proxy : BOOLEAN]
FrmPast  == [edits : Nat, touched : SUBSET FrmParts, global : BOOLEAN]

FrmOld(b) == IF b THEN "old" ELSE ""

FrmAuth(f)   == <<f.method, f.provider, f.managed, f.secretAuthName, f.creds>>
FrmTls(f)    == <<f.customCA, f.caManaged, f.secretTLSName>>
FrmPull(f)   == <<f.psMethod, f.same, f.psManaged, f.psName, f.psCreds>>
FrmFilter(f) == <<f.names, f.regex, f.exclude>>
FrmRest(f)   == <<f.plugin, f.type, f.url, f.oci, f.validation, f.skip, f.pass>>

\* What the form of a repository still shows of it, the parts t having been touched.
FrmKept(f, t) ==
    /\ f.plugin = store.plugin /\ f.type = store.type
    /\ "url" \notin t => f.url = "old"
    /\ "auth" \notin t =>
          /\ f.method = store.method /\ f.provider = store.provider
          /\ store.auth = "secretRef" => f.managed = TRUE /\ f.secretAuthName = "old"
          /\ store.auth = "creds" => f.managed = FALSE /\ f.creds[store.method] = "old"
    /\ "tls" \notin t =>
          FrmTls(f) = <<FrmOld(store.tls = "certAuthority"), store.tls = "secretRef",
                        FrmOld(store.tls = "secretRef")>>
    /\ "auth" \notin t /\ "pull" \notin t =>
          IF store.pull = "none" THEN f.psMethod = Form!NoAuth
          ELSE FrmPull(f) = <<"docker", FALSE, store.pull = "secretRef", FrmOld(store.pull = "secretRef"),
                              FrmOld(store.pull = "credentials")>>
    /\ "filter" \notin t =>
          IF store.filter = Form!NoFilter THEN f.names = ""
          ELSE FrmFilter(f) = <<"old", store.filter.test, store.filter.not>>
    /\ "oci" \notin t => f.oci = store.oci
    /\ "validation" \notin t /\ store.plugin = "helm" => f.validation = ~Form!Custom(store)
    /\ "skip" \notin t => f.skip = store.skip
    /\ "pass" \notin t => f.pass = store.pass

FrmForm(f, t) ==
    /\ f.method \in Form!Supported(f.plugin, f.type) \cup {Form!NoAuth}
    /\ f.plugin = "flux" => f.scoped
    /\ store # None => FrmKept(f, t)

FrmTyped ==
    /\ store \in Form!Details \cup {None} /\ ui \in FrmUi /\ past \in FrmPast
    /\ store # None /\ store.provider # "" => store.method = Form!NoAuth

FrmSent ==
    \/ calls = {}
    \/ Form!Complete(ui)
       /\ calls = {Form!buildAddOrUpdateRequest(Form!FormData(ui), Form!CustomDetail(ui))}

FrmInv ==
    /\ FrmTyped /\ FrmSent /\ FrmForm(ui, past.touched)
    /\ ui.method # Form!NoAuth => ui.provider = ""

\* what a repository that the server has can have in its fields
LEMMA FrmDetails ==
    ASSUME NEW d \in Form!Details
    PROVE  /\ d.plugin \in {"helm", "flux"} /\ d.type \in {"helm", "oci"} /\ d.scoped \in BOOLEAN
           /\ d.method \in Form!Methods \cup {Form!NoAuth} /\ d.auth \in {"none", "secretRef", "creds"}
           /\ d.tls \in {"none", "certAuthority", "secretRef"} /\ d.skip \in BOOLEAN /\ d.pass \in BOOLEAN
           /\ d.pull \in {"none", "secretRef", "credentials"} /\ d.filter \in Form!Filters
           /\ d.oci \in {"", "old"} /\ d.provider \in {"", "aws"}
           /\ d.method \in Form!Supported(d.plugin, d.type) \cup {Form!NoAuth}
           /\ d.auth = "none" <=> d.method = Form!NoAuth
           /\ d.oci = "old" => d.plugin = "helm" /\ d.type = "oci"
           /\ d.plugin = "flux" => d.scoped /\ d.pull = "none" /\ d.filter = Form!NoFilter
           /\ d.provider # "" => d.plugin = "flux" /\ d.type = "oci"
  BY DEF Form!Details

-----------------------------------------------------------------------------
(* A new form, and one that is filled *)

\* The forms f and g differ at most in what belongs to the area
FrmTouches(area, f, g) ==
    /\ g.plugin = f.plugin /\ g.type = f.type
    /\ area = "url" \/ g.url = f.url
    /\ area = "oci" \/ g.oci = f.oci
    /\ area = "validation" \/ g.validation = f.validation
    /\ area = "skip" \/ g.skip = f.skip
    /\ area = "pass" \/ g.pass = f.pass
    /\ area = "auth" \/ FrmAuth(g) = FrmAuth(f)
    /\ area = "tls" \/ FrmTls(g) = FrmTls(f)
    /\ area \in {"auth", "pull"} \/ FrmPull(g) = FrmPull(f)
    /\ area = "filter" \/ FrmFilter(g) = FrmFilter(f)

\* an edit of one area leaves the others as the repository has them
LEMMA FrmCarries ==
    ASSUME NEW f, NEW g, NEW t, NEW area, FrmForm(f, t), FrmTouches(area, f, g)
    PROVE  store # None => FrmKept(g, t \cup {area})
<1> USE DEF FrmTouches
<1> SUFFICES ASSUME store # None PROVE FrmKept(g, t \cup {area})
  OBVIOUS
<1>1. FrmKept(f, t)
  BY DEF FrmForm
<1>2. area # "auth" => /\ g.method = f.method /\ g.provider = f.provider /\ g.managed = f.managed
                       /\ g.secretAuthName = f.secretAuthName /\ g.creds = f.creds
  BY DEF FrmAuth
<1>3. area \notin {"auth", "pull"} => g.psMethod = f.psMethod
  BY DEF FrmPull
<1>4. area # "filter" => g.names = f.names
  BY DEF FrmFilter
<1> DEFINE u == t \cup {area}
<1>5. \A x : x \notin u => x \notin t /\ x # area
  OBVIOUS
<1>6. area = "auth" => "auth" \in u
  OBVIOUS
<1>7. area = "pull" => "pull" \in u
  OBVIOUS
<1> HIDE DEF u
<1>8. g.plugin = store.plugin /\ g.type = store.type
  BY <1>1 DEF FrmKept
<1>9. "url" \notin u => g.url = "old"
  BY <1>1, <1>5 DEF FrmKept
<1>10. "auth" \notin u =>
          /\ g.method = store.method /\ g.provider = store.provider
          /\ store.auth = "secretRef" => g.managed = TRUE /\ g.secretAuthName = "old"
          /\ store.auth = "creds" => g.managed = FALSE /\ g.creds[store.method] = "old"
  BY <1>1, <1>2, <1>5 DEF FrmKept
<1>11. "tls" \notin u => FrmTls(g) = FrmTls(f) /\ "tls" \notin t
  BY <1>5
<1>12. "auth" \notin u /\ "pull" \notin u =>
          FrmPull(g) = FrmPull(f) /\ g.psMethod = f.psMethod /\ "auth" \notin t /\ "pull" \notin t
  BY <1>3, <1>5, <1>6, <1>7
<1>13. "filter" \notin u => FrmFilter(g) = FrmFilter(f) /\ g.names = f.names /\ "filter" \notin t
  BY <1>4, <1>5
<1>14. /\ "oci" \notin u => g.oci = store.oci
       /\ "validation" \notin u /\ store.plugin = "helm" => g.validation = ~Form!Custom(store)
       /\ "skip" \notin u => g.skip = store.skip
       /\ "pass" \notin u => g.pass = store.pass
  BY <1>1, <1>5 DEF FrmKept
<1>15. FrmKept(g, u)
  BY <1>1, <1>8, <1>9, <1>10, <1>11, <1>12, <1>13, <1>14 DEF FrmKept
<1> QED
  BY <1>15 DEF u

\* the effects of a render take the provider away from who chose a method
LEMMA FrmSettle ==
    ASSUME NEW f \in FrmUi, NEW t, FrmForm(f, t),
           store # None /\ store.provider # "" => store.method = Form!NoAuth
    PROVE  LET g == Form!Settle(f)
           IN g \in FrmUi /\ FrmForm(g, t) /\ (g.method # Form!NoAuth => g.provider = "")
<1>1. CASE f.method # Form!NoAuth
  <2> DEFINE h == [f EXCEPT !.showProvider = FALSE]
             g == [h EXCEPT !.provider = ""]
  <2>1. Form!Settle(f) = g
    BY <1>1 DEF Form!Settle
  <2>2. /\ h \in FrmUi /\ h.scoped = f.scoped /\ FrmAuth(h) = FrmAuth(f) /\ FrmTls(h) = FrmTls(f)
        /\ FrmPull(h) = FrmPull(f) /\ FrmFilter(h) = FrmFilter(f) /\ FrmRest(h) = FrmRest(f)
    BY ZenonT(120) DEF FrmUi, FrmAuth, FrmTls, FrmPull, FrmFilter, FrmRest
  <2> HIDE DEF h
  <2>3. /\ g \in FrmUi /\ g.scoped = h.scoped /\ FrmTls(g) = FrmTls(h)
        /\ FrmPull(g) = FrmPull(h) /\ FrmFilter(g) = FrmFilter(h) /\ FrmRest(g) = FrmRest(h)
        /\ g.method = h.method /\ g.managed = h.managed /\ g.secretAuthName = h.secretAuthName
        /\ g.creds = h.creds /\ g.provider = ""
    BY <2>2, ZenonT(60) DEF FrmUi, FrmAuth, FrmTls, FrmPull, FrmFilter, FrmRest
  <2> HIDE DEF g
  <2>4. g.plugin = f.plugin /\ g.type = f.type /\ g.url = f.url /\ g.oci = f.oci
        /\ g.validation = f.validation /\ g.skip = f.skip /\ g.pass = f.pass
        /\ g.method = f.method
    BY <2>2, <2>3 DEF FrmRest, FrmAuth
  <2>5. store # None => FrmKept(g, t)
    <3> SUFFICES ASSUME store # None PROVE FrmKept(g, t)
      OBVIOUS
    <3>1. FrmKept(f, t)
      BY DEF FrmForm
    <3>2. "auth" \notin t => store.provider = ""
      BY <1>1, <3>1 DEF FrmKept
    <3>3. /\ g.managed = f.managed /\ g.secretAuthName = f.secretAuthName /\ g.creds = f.creds
          /\ g.psMethod = f.psMethod /\ g.names = f.names
      BY <2>2, <2>3 DEF FrmAuth, FrmPull, FrmFilter
    <3> QED
      BY <2>2, <2>3, <2>4, <3>1, <3>2, <3>3, ZenonT(120) DEF FrmKept
  <2> QED
    BY <2>1, <2>2, <2>3, <2>4, <2>5 DEF FrmForm
<1>2. CASE f.method = Form!NoAuth
  <2> DEFINE b == f.showProvider \/ f.provider # ""
             g == [f EXCEPT !.showProvider = b]
  <2>1. Form!Settle(f) = g
    BY <1>2 DEF Form!Settle
  <2>2. b \in BOOLEAN
    OBVIOUS
  <2> HIDE DEF b
  <2>3. /\ g \in FrmUi /\ g.scoped = f.scoped /\ FrmAuth(g) = FrmAuth(f) /\ FrmTls(g) = FrmTls(f)
        /\ FrmPull(g) = FrmPull(f) /\ FrmFilter(g) = FrmFilter(f) /\ FrmRest(g) = FrmRest(f)
    BY <2>2, ZenonT(60) DEF FrmUi, FrmAuth, FrmTls, FrmPull, FrmFilter, FrmRest
  <2> HIDE DEF g
  <2>4. /\ g.plugin = f.plugin /\ g.type = f.type /\ g.url = f.url /\ g.oci = f.oci
        /\ g.validation = f.validation /\ g.skip = f.skip /\ g.pass = f.pass
        /\ g.method = f.method /\ g.managed = f.managed /\ g.secretAuthName = f.secretAuthName
        /\ g.creds = f.creds /\ g.psMethod = f.psMethod /\ g.names = f.names /\ g.provider = f.provider
    BY <2>3 DEF FrmRest, FrmAuth, FrmPull, FrmFilter
  <2>5. store # None => FrmKept(g, t)
    BY <2>3, <2>4 DEF FrmForm, FrmKept
  <2> QED
    BY <1>2, <2>1, <2>3, <2>4, <2>5 DEF FrmForm
<1> QED
  BY <1>1, <1>2

\* An edit of one input.
FrmEdit(area, f, g) ==
    \/ area = "url" /\ (\E v \in FrmTexts \cup {"bare"} : g = [f EXCEPT !.url = v])
    \/ area = "interval" /\ (\E v \in FrmTexts \cup {"10m"} : g = [f EXCEPT !.interval = v])
    \/ area = "auth" /\ (\E v \in BOOLEAN : g = [f EXCEPT !.managed = v])
    \/ area = "auth" /\ (\E v \in FrmTexts : g = [f EXCEPT !.secretAuthName = v])
    \/ area = "auth" /\ (\E v \in [Form!Methods -> FrmTexts] : g = [f EXCEPT !.creds = v])
    \/ area = "auth" /\ (\E v \in {"generic"} \cup Form!Clouds : g = [f EXCEPT !.provider = v])
    \/ area = "pull" /\ (\E v \in {"docker", Form!NoAuth} : g = [f EXCEPT !.psMethod = v])
    \/ area = "pull" /\ (\E v \in BOOLEAN : g = [f EXCEPT !.same = v])
    \/ area = "pull" /\ (\E v \in BOOLEAN : g = [f EXCEPT !.psManaged = v])
    \/ area = "pull" /\ (\E v \in FrmTexts : g = [f EXCEPT !.psName = v])
    \/ area = "pull" /\ (\E v \in FrmTexts : g = [f EXCEPT !.psCreds = v])
    \/ area = "oci" /\ (\E v \in FrmTexts : g = [f EXCEPT !.oci = v])
    \/ area = "filter" /\ (\E v \in FrmTexts : g = [f EXCEPT !.names = v])
    \/ area = "filter" /\ (\E v \in BOOLEAN : g = [f EXCEPT !.regex = v])
    \/ area = "filter" /\ (\E v \in BOOLEAN : g = [f EXCEPT !.exclude = v])
    \/ area = "validation" /\ (\E v \in BOOLEAN : g = [f EXCEPT !.validation = v])
    \/ area = "tls" /\ (\E v \in BOOLEAN : g = [f EXCEPT !.caManaged = v])
    \/ area = "tls" /\ (\E v \in FrmTexts : g = [f EXCEPT !.secretTLSName = v])
    \/ area = "tls" /\ (\E v \in FrmTexts : g = [f EXCEPT !.customCA = v])
    \/ area = "skip" /\ (\E v \in BOOLEAN : g = [f EXCEPT !.skip = v])
    \/ area = "pass" /\ (\E v \in BOOLEAN : g = [f EXCEPT !.pass = v])
    \/ area = "proxy" /\ (\E v \in BOOLEAN : g = [f EXCEPT !.proxy = v])

\* an input of one area, alone, leaves the method and the scope as they are
LEMMA FrmField ==
    ASSUME NEW f \in FrmUi, NEW area, NEW g, FrmEdit(area, f, g)
    PROVE  g \in FrmUi /\ g.method = f.method /\ g.scoped = f.scoped /\ FrmTouches(area, f, g)
<1> DEFINE Goal == g \in FrmUi /\ g.method = f.method /\ g.scoped = f.scoped /\ FrmTouches(area, f, g)
<1>1. ASSUME area = "url", NEW v \in FrmTexts \cup {"bare"}, g = [f EXCEPT !.url = v]
      PROVE  Goal
  BY <1>1, ZenonT(60) DEF FrmUi, FrmTouches, FrmAuth, FrmTls, FrmPull, FrmFilter
<1>2. ASSUME area = "interval", NEW v \in FrmTexts \cup {"10m"}, g = [f EXCEPT !.interval = v]
      PROVE  Goal
  BY <1>2, ZenonT(60) DEF FrmUi, FrmTouches, FrmAuth, FrmTls, FrmPull, FrmFilter
<1>3. ASSUME area = "auth", NEW v \in BOOLEAN, g = [f EXCEPT !.managed = v]
      PROVE  Goal
  BY <1>3, ZenonT(60) DEF FrmUi, FrmTouches, FrmAuth, FrmTls, FrmPull, FrmFilter, FrmTexts
<1>4. ASSUME area = "auth", NEW v \in FrmTexts, g = [f EXCEPT !.secretAuthName = v]
      PROVE  Goal
  BY <1>4, ZenonT(60) DEF FrmUi, FrmTouches, FrmAuth, FrmTls, FrmPull, FrmFilter, FrmTexts
<1>5. ASSUME area = "auth", NEW v \in [Form!Methods -> FrmTexts], g = [f EXCEPT !.creds = v]
      PROVE  Goal
  BY <1>5, ZenonT(60) DEF FrmUi, FrmTouches, FrmAuth, FrmTls, FrmPull, FrmFilter, FrmTexts
<1>6. ASSUME area = "auth", NEW v \in {"generic"} \cup Form!Clouds, g = [f EXCEPT !.provider = v]
      PROVE  Goal
  BY <1>6, ZenonT(60) DEF FrmUi, FrmTouches, FrmAuth, FrmTls, FrmPull, FrmFilter, FrmTexts
<1>7. ASSUME area = "pull", NEW v \in {"docker", Form!NoAuth}, g = [f EXCEPT !.psMethod = v]
      PROVE  Goal
  BY <1>7, ZenonT(60) DEF FrmUi, FrmTouches, FrmAuth, FrmTls, FrmPull, FrmFilter, FrmTexts
<1>8. ASSUME area = "pull", NEW v \in BOOLEAN, g = [f EXCEPT !.same = v]
      PROVE  Goal
  BY <1>8, ZenonT(60) DEF FrmUi, FrmTouches, FrmAuth, FrmTls, FrmPull, FrmFilter, FrmTexts
<1>9. ASSUME area = "pull", NEW v \in BOOLEAN, g = [f EXCEPT !.psManaged = v]
      PROVE  Goal
  BY <1>9, ZenonT(60) DEF FrmUi, FrmTouches, FrmAuth, FrmTls, FrmPull, FrmFilter, FrmTexts
<1>10. ASSUME area = "pull", NEW v \in FrmTexts, g = [f EXCEPT !.psName = v]
      PROVE  Goal
  BY <1>10, ZenonT(60) DEF FrmUi, FrmTouches, FrmAuth, FrmTls, FrmPull, FrmFilter, FrmTexts
<1>11. ASSUME area = "pull", NEW v \in FrmTexts, g = [f EXCEPT !.psCreds = v]
      PROVE  Goal
  BY <1>11, ZenonT(60) DEF FrmUi, FrmTouches, FrmAuth, FrmTls, FrmPull, FrmFilter, FrmTexts
<1>12. ASSUME area = "oci", NEW v \in FrmTexts, g = [f EXCEPT !.oci = v]
      PROVE  Goal
  BY <1>12, ZenonT(60) DEF FrmUi, FrmTouches, FrmAuth, FrmTls, FrmPull, FrmFilter, FrmTexts
<1>13. ASSUME area = "filter", NEW v \in FrmTexts, g = [f EXCEPT !.names = v]
      PROVE  Goal
  BY <1>13, ZenonT(60) DEF FrmUi, FrmTouches, FrmAuth, FrmTls, FrmPull, FrmFilter, FrmTexts
<1>14. ASSUME area = "filter", NEW v \in BOOLEAN, g = [f EXCEPT !.regex = v]
      PROVE  Goal
  BY <1>14, ZenonT(60) DEF FrmUi, FrmTouches, FrmAuth, FrmTls, FrmPull, FrmFilter, FrmTexts
<1>15. ASSUME area = "filter", NEW v \in BOOLEAN, g = [f EXCEPT !.exclude = v]
      PROVE  Goal
  BY <1>15, ZenonT(60) DEF FrmUi, FrmTouches, FrmAuth, FrmTls, FrmPull, FrmFilter, FrmTexts
<1>16. ASSUME area = "validation", NEW v \in BOOLEAN, g = [f EXCEPT !.validation = v]
      PROVE  Goal
  BY <1>16, ZenonT(60) DEF FrmUi, FrmTouches, FrmAuth, FrmTls, FrmPull, FrmFilter, FrmTexts
<1>17. ASSUME area = "tls", NEW v \in BOOLEAN, g = [f EXCEPT !.caManaged = v]
      PROVE  Goal
  BY <1>17, ZenonT(60) DEF FrmUi, FrmTouches, FrmAuth, FrmTls, FrmPull, FrmFilter, FrmTexts
<1>18. ASSUME area = "tls", NEW v \in FrmTexts, g = [f EXCEPT !.secretTLSName = v]
      PROVE  Goal
  BY <1>18, ZenonT(60) DEF FrmUi, FrmTouches, FrmAuth, FrmTls, FrmPull, FrmFilter, FrmTexts
<1>19. ASSUME area = "tls", NEW v \in FrmTexts, g = [f EXCEPT !.customCA = v]
      PROVE  Goal
  BY <1>19, ZenonT(60) DEF FrmUi, FrmTouches, FrmAuth, FrmTls, FrmPull, FrmFilter, FrmTexts
<1>20. ASSUME area = "skip", NEW v \in BOOLEAN, g = [f EXCEPT !.skip = v]
      PROVE  Goal
  BY <1>20, ZenonT(60) DEF FrmUi, FrmTouches, FrmAuth, FrmTls, FrmPull, FrmFilter, FrmTexts
<1>21. ASSUME area = "pass", NEW v \in BOOLEAN, g = [f EXCEPT !.pass = v]
      PROVE  Goal
  BY <1>21, ZenonT(60) DEF FrmUi, FrmTouches, FrmAuth, FrmTls, FrmPull, FrmFilter, FrmTexts
<1>22. ASSUME area = "proxy", NEW v \in BOOLEAN, g = [f EXCEPT !.proxy = v]
      PROVE  Goal
  BY <1>22, ZenonT(60) DEF FrmUi, FrmTouches, FrmAuth, FrmTls, FrmPull, FrmFilter, FrmTexts
<1> QED
  BY <1>1, <1>2, <1>3, <1>4, <1>5, <1>6, <1>7, <1>8, <1>9, <1>10, <1>11, <1>12,
     <1>13, <1>14, <1>15, <1>16, <1>17, <1>18, <1>19, <1>20, <1>21, <1>22 DEF FrmEdit

\* After an edit the form is settled, and the part is one the user touched.
LEMMA FrmEdits ==
    ASSUME FrmInv, NEW area \in FrmParts, NEW f \in FrmUi, FrmForm(f, past.touched \cup {area}),
           Form!Edit(area, f)
    PROVE  FrmInv'
<1>1. FrmTyped /\ past \in FrmPast
  BY DEF FrmInv, FrmTyped
<1>2. calls' = {} /\ store' = store /\ ui' = Form!Settle(f)
  BY DEF Form!Edit
<1>3. past' \in FrmPast /\ past'.touched = past.touched \cup {area}
  <2> DEFINE n == past.edits + 1
             u == past.touched \cup {area}
             p == [past EXCEPT !.edits = n]
             q == [p EXCEPT !.touched = u]
  <2>1. past' = q
    BY DEF Form!Edit
  <2>2. n \in Nat /\ u \in SUBSET FrmParts
    BY <1>1 DEF FrmPast
  <2> HIDE DEF n
  <2>3. p \in FrmPast
    BY <1>1, <2>2 DEF FrmPast
  <2> HIDE DEF p, u
  <2>4. q \in FrmPast /\ q.touched = u
    BY <2>2, <2>3 DEF FrmPast
  <2> QED
    BY <2>1, <2>4 DEF u
<1>4. /\ ui' \in FrmUi /\ FrmForm(ui', past.touched \cup {area})
      /\ ui'.method # Form!NoAuth => ui'.provider = ""
  BY <1>1, <1>2, FrmSettle DEF FrmTyped
<1>5. FrmForm(ui, past.touched)'
  BY <1>2, <1>3, <1>4, ZenonT(120) DEF FrmForm, FrmKept, FrmFilter, FrmPull, FrmTls
<1>6. FrmTyped'
  BY <1>1, <1>2, <1>3, <1>4 DEF FrmTyped
<1> QED
  BY <1>2, <1>4, <1>5, <1>6 DEF FrmInv, FrmSent

\* a step that is such an input keeps the invariant
LEMMA FrmEditsField ==
    ASSUME FrmInv, NEW area \in FrmParts, NEW g, FrmEdit(area, ui, g), Form!Edit(area, g)
    PROVE  FrmInv'
<1>1. ui \in FrmUi /\ FrmForm(ui, past.touched)
  BY DEF FrmInv, FrmTyped
<1>2. g \in FrmUi /\ g.method = ui.method /\ g.scoped = ui.scoped /\ FrmTouches(area, ui, g)
  BY <1>1, FrmField
<1>3. store # None => FrmKept(g, past.touched \cup {area})
  BY <1>1, <1>2, FrmCarries
<1>4. FrmForm(g, past.touched \cup {area})
  BY <1>1, <1>2, <1>3 DEF FrmForm, FrmTouches
<1> QED
  BY <1>2, <1>4, FrmEdits

LEMMA FrmOneInput ==
    ASSUME FrmInv,
           \/ Form!handleURLChange \/ Form!handleIntervalChange
           \/ \E v \in {"generic"} \cup Form!Clouds : Form!handleFluxAuthProviderChange(v)
           \/ Form!handleIsUserManagedSecretChange \/ Form!handleSecretAuthNameChange
           \/ Form!handleCredentialsChange
           \/ \E m \in {"docker", Form!NoAuth} : Form!handleImgPSChange(m)
           \/ Form!handleUseSameAuthCredsChange \/ Form!handleIsUserManagedPSSecretChange
           \/ Form!setSecretPSNameChange \/ Form!handleImgPSCredentialsChange
           \/ Form!handleFiltering \/ Form!handleAdvanced
    PROVE  FrmInv'
<1>0. ui \in FrmUi
  BY DEF FrmInv, FrmTyped
<1> DEFINE Edits(p, g) == p \in FrmParts /\ FrmEdit(p, ui, g) /\ Form!Edit(p, g)
<1>1. ASSUME NEW p, NEW g, Edits(p, g) PROVE FrmInv'
  BY <1>1, FrmEditsField
<1> HIDE DEF Edits
<1>2. CASE Form!handleURLChange
  <2>1. PICK u \in {"new", "bare"} : Form!Edit("url", [ui EXCEPT !.url = u])
    BY <1>2 DEF Form!handleURLChange
  <2>2. Edits("url", [ui EXCEPT !.url = u])
    BY <2>1 DEF Edits, FrmEdit, FrmParts, FrmTexts
  <2> QED
    BY <2>2, <1>1
<1>3. CASE Form!handleIntervalChange
  <2>1. PICK i \in {"", "new"} : Form!Edit("interval", [ui EXCEPT !.interval = i])
    BY <1>3 DEF Form!handleIntervalChange
  <2>2. Edits("interval", [ui EXCEPT !.interval = i])
    BY <2>1 DEF Edits, FrmEdit, FrmParts, FrmTexts
  <2> QED
    BY <2>2, <1>1
<1>4. CASE \E v \in {"generic"} \cup Form!Clouds : Form!handleFluxAuthProviderChange(v)
  <2>1. PICK v \in {"generic"} \cup Form!Clouds : Form!handleFluxAuthProviderChange(v)
    BY <1>4
  <2>2. Edits("auth", [ui EXCEPT !.provider = v])
    BY <2>1 DEF Edits, FrmEdit, FrmParts, Form!handleFluxAuthProviderChange
  <2> QED
    BY <2>2, <1>1
<1>5. CASE Form!handleIsUserManagedSecretChange
  <2>1. Edits("auth", [ui EXCEPT !.managed = ~ui.managed])
    BY <1>5 DEF Edits, FrmEdit, FrmParts, Form!handleIsUserManagedSecretChange
  <2> QED
    BY <2>1, <1>1
<1>6. CASE Form!handleSecretAuthNameChange
  <2>1. Edits("auth", [ui EXCEPT !.secretAuthName = "new"])
    BY <1>6 DEF Edits, FrmEdit, FrmParts, FrmTexts, Form!handleSecretAuthNameChange
  <2> QED
    BY <2>1, <1>1
<1>7. CASE Form!handleCredentialsChange
  <2> DEFINE c == [ui.creds EXCEPT ![ui.method] = "new"]
             g == [ui EXCEPT !.creds[ui.method] = "new"]
  <2>1. c \in [Form!Methods -> FrmTexts]
    BY <1>0 DEF FrmUi, FrmTexts
  <2>2. g = [ui EXCEPT !.creds = c]
    BY <1>0 DEF FrmUi
  <2>3. Form!Edit("auth", g)
    BY <1>7 DEF Form!handleCredentialsChange
  <2> HIDE DEF c, g
  <2>4. Edits("auth", g)
    BY <2>1, <2>2, <2>3 DEF Edits, FrmEdit, FrmParts
  <2> QED
    BY <2>4, <1>1
<1>8. CASE \E m \in {"docker", Form!NoAuth} : Form!handleImgPSChange(m)
  <2>1. PICK m \in {"docker", Form!NoAuth} : Form!handleImgPSChange(m)
    BY <1>8
  <2>2. Edits("pull", [ui EXCEPT !.psMethod = m])
    BY <2>1 DEF Edits, FrmEdit, FrmParts, Form!handleImgPSChange
  <2> QED
    BY <2>2, <1>1
<1>9. CASE Form!handleUseSameAuthCredsChange
  <2>1. Edits("pull", [ui EXCEPT !.same = ~ui.same])
    BY <1>9 DEF Edits, FrmEdit, FrmParts, Form!handleUseSameAuthCredsChange
  <2> QED
    BY <2>1, <1>1
<1>10. CASE Form!handleIsUserManagedPSSecretChange
  <2>1. Edits("pull", [ui EXCEPT !.psManaged = ~ui.psManaged])
    BY <1>10 DEF Edits, FrmEdit, FrmParts, Form!handleIsUserManagedPSSecretChange
  <2> QED
    BY <2>1, <1>1
<1>11. CASE Form!setSecretPSNameChange
  <2>1. Edits("pull", [ui EXCEPT !.psName = "new"])
    BY <1>11 DEF Edits, FrmEdit, FrmParts, FrmTexts, Form!setSecretPSNameChange
  <2> QED
    BY <2>1, <1>1
<1>12. CASE Form!handleImgPSCredentialsChange
  <2>1. Edits("pull", [ui EXCEPT !.psCreds = "new"])
    BY <1>12 DEF Edits, FrmEdit, FrmParts, FrmTexts, Form!handleImgPSCredentialsChange
  <2> QED
    BY <2>1, <1>1
<1>13. CASE Form!handleFiltering
  <2>1. CASE Form!Edit("oci", [ui EXCEPT !.oci = "new"])
    <3>1. Edits("oci", [ui EXCEPT !.oci = "new"])
      BY <2>1 DEF Edits, FrmEdit, FrmParts, FrmTexts
    <3> QED
      BY <3>1, <1>1
  <2>2. ASSUME NEW n \in {"", "new"}, Form!Edit("filter", [ui EXCEPT !.names = n]) PROVE FrmInv'
    <3>1. Edits("filter", [ui EXCEPT !.names = n])
      BY <2>2 DEF Edits, FrmEdit, FrmParts, FrmTexts
    <3> QED
      BY <3>1, <1>1
  <2>3. CASE Form!Edit("filter", [ui EXCEPT !.regex = ~ui.regex])
    <3>1. Edits("filter", [ui EXCEPT !.regex = ~ui.regex])
      BY <2>3 DEF Edits, FrmEdit, FrmParts
    <3> QED
      BY <3>1, <1>1
  <2>4. CASE Form!Edit("filter", [ui EXCEPT !.exclude = ~ui.exclude])
    <3>1. Edits("filter", [ui EXCEPT !.exclude = ~ui.exclude])
      BY <2>4 DEF Edits, FrmEdit, FrmParts
    <3> QED
      BY <3>1, <1>1
  <2> QED
    BY <1>13, <2>1, <2>2, <2>3, <2>4 DEF Form!handleFiltering
<1>14. CASE Form!handleAdvanced
  <2>1. CASE Form!Edit("validation", [ui EXCEPT !.validation = ~ui.validation])
    <3>1. Edits("validation", [ui EXCEPT !.validation = ~ui.validation])
      BY <2>1 DEF Edits, FrmEdit, FrmParts
    <3> QED
      BY <3>1, <1>1
  <2>2. CASE Form!Edit("tls", [ui EXCEPT !.caManaged = ~ui.caManaged])
    <3>1. Edits("tls", [ui EXCEPT !.caManaged = ~ui.caManaged])
      BY <2>2 DEF Edits, FrmEdit, FrmParts
    <3> QED
      BY <3>1, <1>1
  <2>3. CASE Form!Edit("tls", [ui EXCEPT !.secretTLSName = "new"])
    <3>1. Edits("tls", [ui EXCEPT !.secretTLSName = "new"])
      BY <2>3 DEF Edits, FrmEdit, FrmParts, FrmTexts
    <3> QED
      BY <3>1, <1>1
  <2>4. CASE Form!Edit("tls", [ui EXCEPT !.customCA = "new"])
    <3>1. Edits("tls", [ui EXCEPT !.customCA = "new"])
      BY <2>4 DEF Edits, FrmEdit, FrmParts, FrmTexts
    <3> QED
      BY <3>1, <1>1
  <2>5. CASE Form!Edit("skip", [ui EXCEPT !.skip = ~ui.skip])
    <3>1. Edits("skip", [ui EXCEPT !.skip = ~ui.skip])
      BY <2>5 DEF Edits, FrmEdit, FrmParts
    <3> QED
      BY <3>1, <1>1
  <2>6. CASE Form!Edit("pass", [ui EXCEPT !.pass = ~ui.pass])
    <3>1. Edits("pass", [ui EXCEPT !.pass = ~ui.pass])
      BY <2>6 DEF Edits, FrmEdit, FrmParts
    <3> QED
      BY <3>1, <1>1
  <2>7. CASE Form!Edit("proxy", [ui EXCEPT !.proxy = ~ui.proxy])
    <3>1. Edits("proxy", [ui EXCEPT !.proxy = ~ui.proxy])
      BY <2>7 DEF Edits, FrmEdit, FrmParts
    <3> QED
      BY <3>1, <1>1
  <2> QED
    BY <1>14, <2>1, <2>2, <2>3, <2>4, <2>5, <2>6, <2>7 DEF Form!handleAdvanced
<1> QED
  BY <1>2, <1>3, <1>4, <1>5, <1>6, <1>7, <1>8, <1>9, <1>10, <1>11, <1>12, <1>13, <1>14

\* The choices that change several inputs at once.
LEMMA FrmChoices ==
    ASSUME FrmInv,
           \/ Form!handleRepoScopeChange
           \/ \E t \in {"helm", "oci"} : Form!handleTypeRadioButtonChange(t)
           \/ \E p \in {"helm", "flux"} : Form!handlePluginRadioButtonChange(p)
           \/ \E m \in Form!Methods \cup {Form!NoAuth} : Form!handleAuthRadioButtonChange(m)
           \/ Form!handleFluxAuthProviderAuthChange
    PROVE  FrmInv'
<1>0. ui \in FrmUi /\ FrmForm(ui, past.touched) /\ past \in FrmPast
  BY DEF FrmInv, FrmTyped
<1>1. CASE Form!handleRepoScopeChange
  <2> DEFINE b == ~ui.scoped
             g == [ui EXCEPT !.scoped = b]
  <2>1. store = None /\ ui.plugin = "helm" /\ Form!Edit("scope", g) /\ b \in BOOLEAN
    BY <1>1 DEF Form!handleRepoScopeChange, Form!New, Form!IsHelm
  <2> HIDE DEF b
  <2>2. g \in FrmUi /\ g.method = ui.method /\ g.plugin = ui.plugin /\ g.type = ui.type
    BY <1>0, <2>1, ZenonT(60) DEF FrmUi
  <2> HIDE DEF g
  <2>3. FrmForm(g, past.touched \cup {"scope"})
    BY <1>0, <2>1, <2>2 DEF FrmForm
  <2> QED
    BY <2>1, <2>2, <2>3, FrmEdits DEF FrmParts
<1>2. ASSUME NEW t \in {"helm", "oci"}, Form!handleTypeRadioButtonChange(t) PROVE FrmInv'
  <2> DEFINE m == Form!MethodFor(ui.plugin, t)
             h == [ui EXCEPT !.type = t]
             g == [h EXCEPT !.method = m]
  <2>1. store = None /\ Form!Edit("type", g)
    BY <1>2 DEF Form!handleTypeRadioButtonChange, Form!New
  <2>2. m \in Form!Methods \cup {Form!NoAuth} /\ m \in Form!Supported(ui.plugin, t) \cup {Form!NoAuth}
    BY <1>0 DEF Form!MethodFor, FrmUi
  <2> HIDE DEF m
  <2>3. h \in FrmUi /\ h.plugin = ui.plugin /\ h.type = t /\ h.scoped = ui.scoped
    BY <1>0, ZenonT(120) DEF FrmUi
  <2> HIDE DEF h
  <2>4. g \in FrmUi /\ g.plugin = ui.plugin /\ g.type = t /\ g.scoped = ui.scoped /\ g.method = m
    BY <2>2, <2>3, ZenonT(60) DEF FrmUi
  <2> HIDE DEF g
  <2>5. FrmForm(g, past.touched \cup {"type"})
    BY <1>0, <2>1, <2>2, <2>4 DEF FrmForm
  <2> QED
    BY <2>1, <2>4, <2>5, FrmEdits DEF FrmParts
<1>3. ASSUME NEW p \in {"helm", "flux"}, Form!handlePluginRadioButtonChange(p) PROVE FrmInv'
  <2> DEFINE i == IF ui.interval = "" THEN "10m" ELSE ui.interval
             m == Form!MethodFor(p, ui.type)
             t == IF ui.type = "none" THEN "helm" ELSE ui.type
             s == p = "flux" \/ ~past.global
             f1 == [ui EXCEPT !.plugin = p]
             f2 == [f1 EXCEPT !.interval = i]
             f3 == [f2 EXCEPT !.method = m]
             f4 == [f3 EXCEPT !.type = t]
             g == [f4 EXCEPT !.scoped = s]
  <2>1. store = None /\ Form!Edit("plugin", g)
    BY <1>3 DEF Form!handlePluginRadioButtonChange, Form!New
  <2>2. /\ m \in Form!Methods \cup {Form!NoAuth} /\ m \in Form!Supported(p, t) \cup {Form!NoAuth}
        /\ t \in {"helm", "oci"} /\ i \in FrmTexts \cup {"10m"} /\ s \in BOOLEAN /\ (p = "flux" => s)
    <3>1. m \in Form!Methods \cup {Form!NoAuth}
      BY <1>0 DEF Form!MethodFor, FrmUi
    <3>2. m \in Form!Supported(p, ui.type) \cup {Form!NoAuth}
      BY DEF Form!MethodFor
    <3>3. Form!Supported(p, ui.type) = Form!Supported(p, t)
      BY DEF Form!Supported
    <3>4. t \in {"helm", "oci"} /\ i \in FrmTexts \cup {"10m"}
      BY <1>0 DEF FrmUi
    <3> QED
      BY <3>1, <3>2, <3>3, <3>4
  <2> HIDE DEF m, t, i, s
  <2>3. f1 \in FrmUi /\ f1.plugin = p
    BY <1>0, ZenonT(60) DEF FrmUi
  <2> HIDE DEF f1
  <2>4. f2 \in FrmUi /\ f2.plugin = p
    BY <2>2, <2>3, ZenonT(60) DEF FrmUi
  <2> HIDE DEF f2
  <2>5. f3 \in FrmUi /\ f3.plugin = p /\ f3.method = m
    BY <2>2, <2>4, ZenonT(60) DEF FrmUi
  <2> HIDE DEF f3
  <2>6. f4 \in FrmUi /\ f4.plugin = p /\ f4.method = m /\ f4.type = t
    BY <2>2, <2>5, ZenonT(120) DEF FrmUi
  <2> HIDE DEF f4
  <2>7. g \in FrmUi /\ g.plugin = p /\ g.method = m /\ g.type = t /\ g.scoped = s
    BY <2>2, <2>6, ZenonT(120) DEF FrmUi
  <2> HIDE DEF g
  <2>8. FrmForm(g, past.touched \cup {"plugin"})
    BY <2>1, <2>2, <2>7 DEF FrmForm
  <2> QED
    BY <2>1, <2>7, <2>8, FrmEdits DEF FrmParts
<1>4. ASSUME NEW m \in Form!Methods \cup {Form!NoAuth}, Form!handleAuthRadioButtonChange(m) PROVE FrmInv'
  <2> DEFINE b == ui.psName = "" /\ ui.psCreds = ""
             Like(f) == /\ f \in FrmUi /\ f.plugin = ui.plugin /\ f.type = ui.type /\ f.scoped = ui.scoped
                        /\ f.url = ui.url /\ f.oci = ui.oci /\ f.validation = ui.validation
                        /\ f.skip = ui.skip /\ f.pass = ui.pass
                        /\ FrmTls(f) = FrmTls(ui) /\ FrmFilter(f) = FrmFilter(ui)
             f1 == [ui EXCEPT !.method = m]
             f2 == [f1 EXCEPT !.showProvider = FALSE]
             f3 == [f2 EXCEPT !.provider = ""]
             f4 == [f3 EXCEPT !.same = FALSE]
             f5 == [f4 EXCEPT !.psMethod = "docker"]
             f6 == [f5 EXCEPT !.same = b]
             g  == IF m # "docker" THEN f4 ELSE f6
  <2>1. Form!Edit("auth", g)
    BY <1>4, ZenonT(60) DEF Form!handleAuthRadioButtonChange
  <2>2. m \in Form!Supported(ui.plugin, ui.type) \cup {Form!NoAuth}
    BY <1>4 DEF Form!handleAuthRadioButtonChange
  <2>3. b \in BOOLEAN
    OBVIOUS
  <2> HIDE DEF b
  <2>4. Like(f1) /\ f1.method = m
    BY <1>0, ZenonT(60) DEF FrmUi, FrmTls, FrmFilter
  <2> HIDE DEF f1
  <2>5. Like(f2) /\ f2.method = m
    BY <2>4, ZenonT(120) DEF FrmUi, FrmTls, FrmFilter
  <2> HIDE DEF f2
  <2>6. Like(f3) /\ f3.method = m
    BY <2>5, ZenonT(60) DEF FrmUi, FrmTls, FrmFilter
  <2> HIDE DEF f3
  <2>7. Like(f4) /\ f4.method = m
    BY <2>6, ZenonT(120) DEF FrmUi, FrmTls, FrmFilter
  <2> HIDE DEF f4
  <2>8. Like(f5) /\ f5.method = m
    BY <2>7, ZenonT(60) DEF FrmUi, FrmTls, FrmFilter
  <2> HIDE DEF f5
  <2>9. Like(f6) /\ f6.method = m
    BY <2>3, <2>8, ZenonT(120) DEF FrmUi, FrmTls, FrmFilter
  <2> HIDE DEF f6
  <2>10. Like(g) /\ g.method = m
    BY <2>7, <2>9
  <2> HIDE DEF g
  <2>11. FrmTouches("auth", ui, g)
    BY <2>10 DEF FrmTouches
  <2>12. store # None => FrmKept(g, past.touched \cup {"auth"})
    BY <1>0, <2>11, FrmCarries
  <2>13. FrmForm(g, past.touched \cup {"auth"})
    BY <1>0, <2>2, <2>10, <2>12 DEF FrmForm
  <2> QED
    BY <2>1, <2>10, <2>13, FrmEdits DEF FrmParts
<1>5. CASE Form!handleFluxAuthProviderAuthChange
  <2> DEFINE v == IF ui.provider = "" THEN "generic" ELSE ui.provider
             Like(f) == /\ f \in FrmUi /\ f.plugin = ui.plugin /\ f.type = ui.type /\ f.scoped = ui.scoped
                        /\ f.url = ui.url /\ f.oci = ui.oci /\ f.validation = ui.validation
                        /\ f.skip = ui.skip /\ f.pass = ui.pass /\ f.method = Form!NoAuth
                        /\ FrmTls(f) = FrmTls(ui) /\ FrmFilter(f) = FrmFilter(ui)
             f1 == [ui EXCEPT !.method = Form!NoAuth]
             f2 == [f1 EXCEPT !.showProvider = TRUE]
             g  == [f2 EXCEPT !.provider = v]
  <2>1. Form!Edit("auth", g)
    BY <1>5 DEF Form!handleFluxAuthProviderAuthChange
  <2>2. v \in {"", "generic"} \cup Form!Clouds
    BY <1>0 DEF FrmUi
  <2> HIDE DEF v
  <2>3. Like(f1)
    BY <1>0, ZenonT(60) DEF FrmUi, FrmTls, FrmFilter
  <2> HIDE DEF f1
  <2>4. Like(f2)
    BY <2>3, ZenonT(120) DEF FrmUi, FrmTls, FrmFilter
  <2> HIDE DEF f2
  <2>5. Like(g)
    BY <2>2, <2>4, ZenonT(120) DEF FrmUi, FrmTls, FrmFilter
  <2> HIDE DEF g
  <2>6. FrmTouches("auth", ui, g)
    BY <2>5 DEF FrmTouches
  <2>7. store # None => FrmKept(g, past.touched \cup {"auth"})
    BY <1>0, <2>6, FrmCarries
  <2>8. FrmForm(g, past.touched \cup {"auth"})
    BY <1>0, <2>5, <2>7 DEF FrmForm
  <2> QED
    BY <2>1, <2>5, <2>8, FrmEdits DEF FrmParts
<1> QED
  BY <1>1, <1>2, <1>3, <1>4, <1>5







\* The form of a new repository, and of one that exists.
LEMMA FrmFresh == Form!Fresh \in FrmUi
  BY DEF FrmUi, Form!Fresh, FrmTexts

\* a form stays one when one of its fields gets a value of the field
LEMMA FrmSets ==
    ASSUME NEW f \in FrmUi
    PROVE  /\ \A v \in {"none", "helm", "flux"} : [f EXCEPT !.plugin = v] \in FrmUi
           /\ \A v \in {"none", "helm", "oci"} : [f EXCEPT !.type = v] \in FrmUi
           /\ \A v \in BOOLEAN : [f EXCEPT !.scoped = v] \in FrmUi
           /\ \A v \in BOOLEAN : [f EXCEPT !.skip = v] \in FrmUi
           /\ \A v \in BOOLEAN : [f EXCEPT !.pass = v] \in FrmUi
           /\ \A v \in FrmTexts \cup {"bare"} : [f EXCEPT !.url = v] \in FrmUi
           /\ \A v \in FrmTexts \cup {"10m"} : [f EXCEPT !.interval = v] \in FrmUi
           /\ \A v \in Form!Methods \cup {Form!NoAuth} : [f EXCEPT !.method = v] \in FrmUi
           /\ \A v \in [Form!Methods -> FrmTexts] : [f EXCEPT !.creds = v] \in FrmUi
           /\ \A v \in BOOLEAN : [f EXCEPT !.managed = v] \in FrmUi
           /\ \A v \in FrmTexts : [f EXCEPT !.secretAuthName = v] \in FrmUi
           /\ \A v \in FrmTexts : [f EXCEPT !.customCA = v] \in FrmUi
           /\ \A v \in BOOLEAN : [f EXCEPT !.caManaged = v] \in FrmUi
           /\ \A v \in FrmTexts : [f EXCEPT !.secretTLSName = v] \in FrmUi
<1>1. ASSUME NEW v \in {"none", "helm", "flux"} PROVE [f EXCEPT !.plugin = v] \in FrmUi
  BY ZenonT(60) DEF FrmUi
<1>2. ASSUME NEW v \in {"none", "helm", "oci"} PROVE [f EXCEPT !.type = v] \in FrmUi
  BY ZenonT(60) DEF FrmUi
<1>3. ASSUME NEW v \in BOOLEAN PROVE [f EXCEPT !.scoped = v] \in FrmUi
  BY ZenonT(60) DEF FrmUi
<1>4. ASSUME NEW v \in BOOLEAN PROVE [f EXCEPT !.skip = v] \in FrmUi
  BY ZenonT(60) DEF FrmUi
<1>5. ASSUME NEW v \in BOOLEAN PROVE [f EXCEPT !.pass = v] \in FrmUi
  BY ZenonT(60) DEF FrmUi
<1>6. ASSUME NEW v \in FrmTexts \cup {"bare"} PROVE [f EXCEPT !.url = v] \in FrmUi
  BY ZenonT(60) DEF FrmUi
<1>7. ASSUME NEW v \in FrmTexts \cup {"10m"} PROVE [f EXCEPT !.interval = v] \in FrmUi
  BY ZenonT(60) DEF FrmUi
<1>8. ASSUME NEW v \in Form!Methods \cup {Form!NoAuth} PROVE [f EXCEPT !.method = v] \in FrmUi
  BY ZenonT(60) DEF FrmUi
<1>9. ASSUME NEW v \in [Form!Methods -> FrmTexts] PROVE [f EXCEPT !.creds = v] \in FrmUi
  BY ZenonT(60) DEF FrmUi
<1>10. ASSUME NEW v \in BOOLEAN PROVE [f EXCEPT !.managed = v] \in FrmUi
  BY ZenonT(60) DEF FrmUi
<1>11. ASSUME NEW v \in FrmTexts PROVE [f EXCEPT !.secretAuthName = v] \in FrmUi
  BY ZenonT(60) DEF FrmUi
<1>12. ASSUME NEW v \in FrmTexts PROVE [f EXCEPT !.customCA = v] \in FrmUi
  BY ZenonT(60) DEF FrmUi
<1>13. ASSUME NEW v \in BOOLEAN PROVE [f EXCEPT !.caManaged = v] \in FrmUi
  BY ZenonT(60) DEF FrmUi
<1>14. ASSUME NEW v \in FrmTexts PROVE [f EXCEPT !.secretTLSName = v] \in FrmUi
  BY ZenonT(60) DEF FrmUi
<1> QED
  BY <1>1, <1>2, <1>3, <1>4, <1>5, <1>6, <1>7, <1>8, <1>9, <1>10, <1>11, <1>12, <1>13, <1>14

\* What the basic data of a repository make of a form that is mounted.
FrmBasic(f, d) ==
    /\ f \in FrmUi /\ f.plugin = d.plugin /\ f.type = d.type /\ f.scoped = d.scoped
    /\ f.skip = d.skip /\ f.pass = d.pass /\ f.url = "old" /\ f.method = d.method
    /\ f.creds = Form!Secrets(d)
    /\ d.auth = "secretRef" => f.managed = TRUE /\ f.secretAuthName = "old"
    /\ d.auth = "creds" => f.managed = FALSE
    /\ FrmTls(f) = <<FrmOld(d.tls = "certAuthority"), d.tls = "secretRef", FrmOld(d.tls = "secretRef")>>
    /\ f.psMethod = Form!NoAuth /\ f.names = "" /\ f.provider = "" /\ f.oci = ""
    /\ f.validation = TRUE

\* the effect that fills the form takes from the repository what both plugins have
LEMMA FrmLoadsBasic ==
    ASSUME NEW d \in Form!Details
    PROVE  FrmBasic(Form!LoadBasic(Form!Fresh, d), d)
<1> DEFINE c   == Form!Secrets(d)
           mg  == d.auth = "secretRef"
           san == IF d.auth = "secretRef" THEN "old" ELSE ""
           ca  == IF d.tls = "certAuthority" THEN "old" ELSE ""
           cam == d.tls = "secretRef"
           stn == IF d.tls = "secretRef" THEN "old" ELSE ""
           Rest(f) == /\ f.psMethod = Form!NoAuth /\ f.names = "" /\ f.provider = "" /\ f.oci = ""
                      /\ f.validation = TRUE
           f1 == [Form!Fresh EXCEPT !.plugin = d.plugin]
           f2 == [f1 EXCEPT !.type = d.type]
           f3 == [f2 EXCEPT !.scoped = d.scoped]
           f4 == [f3 EXCEPT !.skip = d.skip]
           f5 == [f4 EXCEPT !.pass = d.pass]
           f6 == [f5 EXCEPT !.url = "old"]
           f7 == [f6 EXCEPT !.interval = "old"]
           f8 == [f7 EXCEPT !.method = d.method]
           f9 == [f8 EXCEPT !.creds = c]
           f10 == [f9 EXCEPT !.managed = mg]
           f11 == [f10 EXCEPT !.secretAuthName = san]
           f12 == [f11 EXCEPT !.customCA = ca]
           f13 == [f12 EXCEPT !.caManaged = cam]
           f14 == [f13 EXCEPT !.secretTLSName = stn]
<1>1. Form!LoadBasic(Form!Fresh, d) = f14
  BY DEF Form!LoadBasic
<1>2. /\ d.auth = "secretRef" => mg = TRUE /\ san = "old"
      /\ d.auth = "creds" => mg = FALSE
      /\ <<ca, cam, stn>> = <<FrmOld(d.tls = "certAuthority"), d.tls = "secretRef", FrmOld(d.tls = "secretRef")>>
  BY DEF FrmOld
<1>3. Form!Fresh \in FrmUi /\ Rest(Form!Fresh)
  BY FrmFresh DEF Form!Fresh
<1>4. d.plugin \in {"none", "helm", "flux"}
  BY FrmDetails DEF Form!Secrets, FrmTexts
<1>5. d.type \in {"none", "helm", "oci"}
  BY FrmDetails DEF Form!Secrets, FrmTexts
<1>6. d.scoped \in BOOLEAN
  BY FrmDetails DEF Form!Secrets, FrmTexts
<1>7. d.skip \in BOOLEAN
  BY FrmDetails DEF Form!Secrets, FrmTexts
<1>8. d.pass \in BOOLEAN
  BY FrmDetails DEF Form!Secrets, FrmTexts
<1>9. "old" \in FrmTexts \cup {"bare"}
  BY FrmDetails DEF Form!Secrets, FrmTexts
<1>10. "old" \in FrmTexts \cup {"10m"}
  BY FrmDetails DEF Form!Secrets, FrmTexts
<1>11. d.method \in Form!Methods \cup {Form!NoAuth}
  BY FrmDetails DEF Form!Secrets, FrmTexts
<1>12. c \in [Form!Methods -> FrmTexts]
  BY FrmDetails DEF Form!Secrets, FrmTexts
<1>13. mg \in BOOLEAN
  BY FrmDetails DEF Form!Secrets, FrmTexts
<1>14. san \in FrmTexts
  BY FrmDetails DEF Form!Secrets, FrmTexts
<1>15. ca \in FrmTexts
  BY FrmDetails DEF Form!Secrets, FrmTexts
<1>16. cam \in BOOLEAN
  BY FrmDetails DEF Form!Secrets, FrmTexts
<1>17. stn \in FrmTexts
  BY FrmDetails DEF Form!Secrets, FrmTexts
<1> HIDE DEF c, mg, san, ca, cam, stn
<1>18. f1 \in FrmUi
  BY <1>4, <1>3, FrmSets
<1>19. /\ f1 \in FrmUi /\ Rest(f1)
       /\ f1.plugin = d.plugin
  BY <1>18, <1>3 DEF FrmUi
<1> HIDE DEF f1
<1>20. f2 \in FrmUi
  BY <1>5, <1>19, FrmSets
<1>21. /\ f2 \in FrmUi /\ Rest(f2)
       /\ f2.plugin = d.plugin /\ f2.type = d.type
  BY <1>20, <1>19, ZenonT(60) DEF FrmUi
<1> HIDE DEF f2
<1>22. f3 \in FrmUi
  BY <1>6, <1>21, FrmSets
<1>23. /\ f3 \in FrmUi /\ Rest(f3)
       /\ f3.plugin = d.plugin /\ f3.type = d.type /\ f3.scoped = d.scoped
  BY <1>22, <1>21, ZenonT(60) DEF FrmUi
<1> HIDE DEF f3
<1>24. f4 \in FrmUi
  BY <1>7, <1>23, FrmSets
<1>25. /\ f4 \in FrmUi /\ Rest(f4)
       /\ f4.plugin = d.plugin /\ f4.type = d.type /\ f4.scoped = d.scoped /\ f4.skip = d.skip
  BY <1>24, <1>23, ZenonT(60) DEF FrmUi
<1> HIDE DEF f4
<1>26. f5 \in FrmUi
  BY <1>8, <1>25, FrmSets
<1>27. /\ f5 \in FrmUi /\ Rest(f5)
       /\ f5.plugin = d.plugin /\ f5.type = d.type /\ f5.scoped = d.scoped /\ f5.skip = d.skip
       /\ f5.pass = d.pass
  BY <1>26, <1>25, ZenonT(60) DEF FrmUi
<1> HIDE DEF f5
<1>28. f6 \in FrmUi
  BY <1>9, <1>27, FrmSets
<1>29. /\ f6 \in FrmUi /\ Rest(f6)
       /\ f6.plugin = d.plugin /\ f6.type = d.type /\ f6.scoped = d.scoped /\ f6.skip = d.skip
       /\ f6.pass = d.pass /\ f6.url = "old"
  BY <1>28, <1>27, ZenonT(60) DEF FrmUi
<1> HIDE DEF f6
<1>30. f7 \in FrmUi
  BY <1>10, <1>29, FrmSets
<1>31. /\ f7 \in FrmUi /\ Rest(f7)
       /\ f7.plugin = d.plugin /\ f7.type = d.type /\ f7.scoped = d.scoped /\ f7.skip = d.skip
       /\ f7.pass = d.pass /\ f7.url = "old" /\ f7.interval = "old"
  BY <1>30, <1>29, ZenonT(60) DEF FrmUi
<1> HIDE DEF f7
<1>32. f8 \in FrmUi
  BY <1>11, <1>31, FrmSets
<1>33. /\ f8 \in FrmUi /\ Rest(f8)
       /\ f8.plugin = d.plugin /\ f8.type = d.type /\ f8.scoped = d.scoped /\ f8.skip = d.skip
       /\ f8.pass = d.pass /\ f8.url = "old" /\ f8.interval = "old" /\ f8.method = d.method
  BY <1>32, <1>31, ZenonT(60) DEF FrmUi
<1> HIDE DEF f8
<1>34. f9 \in FrmUi
  BY <1>12, <1>33, FrmSets
<1>35. /\ f9 \in FrmUi /\ Rest(f9)
       /\ f9.plugin = d.plugin /\ f9.type = d.type /\ f9.scoped = d.scoped /\ f9.skip = d.skip
       /\ f9.pass = d.pass /\ f9.url = "old" /\ f9.interval = "old" /\ f9.method = d.method
       /\ f9.creds = c
  BY <1>34, <1>33, ZenonT(60) DEF FrmUi
<1> HIDE DEF f9
<1>36. f10 \in FrmUi
  BY <1>13, <1>35, FrmSets
<1>37. /\ f10 \in FrmUi /\ Rest(f10)
       /\ f10.plugin = d.plugin /\ f10.type = d.type /\ f10.scoped = d.scoped /\ f10.skip = d.skip
       /\ f10.pass = d.pass /\ f10.url = "old" /\ f10.interval = "old" /\ f10.method = d.method
       /\ f10.creds = c /\ f10.managed = mg
  BY <1>36, <1>35, ZenonT(60) DEF FrmUi
<1> HIDE DEF f10
<1>38. f11 \in FrmUi
  BY <1>14, <1>37, FrmSets
<1>39. /\ f11 \in FrmUi /\ Rest(f11)
       /\ f11.plugin = d.plugin /\ f11.type = d.type /\ f11.scoped = d.scoped /\ f11.skip = d.skip
       /\ f11.pass = d.pass /\ f11.url = "old" /\ f11.interval = "old" /\ f11.method = d.method
       /\ f11.creds = c /\ f11.managed = mg /\ f11.secretAuthName = san
  BY <1>38, <1>37, ZenonT(60) DEF FrmUi
<1> HIDE DEF f11
<1>40. f12 \in FrmUi
  BY <1>15, <1>39, FrmSets
<1>41. /\ f12 \in FrmUi /\ Rest(f12)
       /\ f12.plugin = d.plugin /\ f12.type = d.type /\ f12.scoped = d.scoped /\ f12.skip = d.skip
       /\ f12.pass = d.pass /\ f12.url = "old" /\ f12.interval = "old" /\ f12.method = d.method
       /\ f12.creds = c /\ f12.managed = mg /\ f12.secretAuthName = san /\ f12.customCA = ca
  BY <1>40, <1>39, ZenonT(60) DEF FrmUi
<1> HIDE DEF f12
<1>42. f13 \in FrmUi
  BY <1>16, <1>41, FrmSets
<1>43. /\ f13 \in FrmUi /\ Rest(f13)
       /\ f13.plugin = d.plugin /\ f13.type = d.type /\ f13.scoped = d.scoped /\ f13.skip = d.skip
       /\ f13.pass = d.pass /\ f13.url = "old" /\ f13.interval = "old" /\ f13.method = d.method
       /\ f13.creds = c /\ f13.managed = mg /\ f13.secretAuthName = san /\ f13.customCA = ca
       /\ f13.caManaged = cam
  BY <1>42, <1>41, ZenonT(60) DEF FrmUi
<1> HIDE DEF f13
<1>44. f14 \in FrmUi
  BY <1>17, <1>43, FrmSets
<1>45. /\ f14 \in FrmUi /\ Rest(f14)
       /\ f14.plugin = d.plugin /\ f14.type = d.type /\ f14.scoped = d.scoped /\ f14.skip = d.skip
       /\ f14.pass = d.pass /\ f14.url = "old" /\ f14.interval = "old" /\ f14.method = d.method
       /\ f14.creds = c /\ f14.managed = mg /\ f14.secretAuthName = san /\ f14.customCA = ca
       /\ f14.caManaged = cam /\ f14.secretTLSName = stn
  BY <1>44, <1>43, ZenonT(60) DEF FrmUi
<1> HIDE DEF f14
<1>46. FrmTls(f14) = <<ca, cam, stn>>
  BY <1>45 DEF FrmTls
<1>47. /\ d.auth = "secretRef" => f14.managed = TRUE /\ f14.secretAuthName = "old"
       /\ d.auth = "creds" => f14.managed = FALSE
  BY <1>2, <1>45
<1>48. f14.creds = Form!Secrets(d)
  BY <1>45 DEF c
<1>49. FrmTls(f14) = <<FrmOld(d.tls = "certAuthority"), d.tls = "secretRef", FrmOld(d.tls = "secretRef")>>
  BY <1>2, <1>46
<1>50. FrmBasic(f14, d)
  BY <1>45, <1>47, <1>48, <1>49 DEF FrmBasic
<1> QED
  BY <1>1, <1>50

\* What the Helm plugin adds to it.
FrmLike(f, g) ==
    /\ g.plugin = f.plugin /\ g.type = f.type /\ g.scoped = f.scoped /\ g.skip = f.skip
    /\ g.pass = f.pass /\ g.url = f.url /\ FrmAuth(g) = FrmAuth(f) /\ FrmTls(g) = FrmTls(f)

LEMMA FrmFilters ==
    ASSUME NEW r \in Form!Filters
    PROVE  /\ r.variables \in FrmTexts /\ r.test \in BOOLEAN /\ r.not \in BOOLEAN
           /\ r # Form!NoFilter => r.variables = "old"
<1>1. CASE r = Form!NoFilter
  BY <1>1 DEF Form!NoFilter, FrmTexts
<1>2. CASE r = [test |-> FALSE, not |-> TRUE, variables |-> "old"]
  BY <1>2 DEF FrmTexts
<1>3. CASE r = [test |-> TRUE, not |-> FALSE, variables |-> "old"]
  BY <1>3 DEF FrmTexts
<1> QED
  BY <1>1, <1>2, <1>3 DEF Form!Filters

\* an input of an area that only helm has, in the form that is being filled
LEMMA FrmLikes ==
    ASSUME NEW f \in FrmUi, NEW p \in {"oci", "validation", "proxy", "filter", "pull"}, NEW g, FrmEdit(p, f, g)
    PROVE  /\ g \in FrmUi /\ FrmLike(f, g)
           /\ p = "oci" \/ g.oci = f.oci
           /\ p = "validation" \/ g.validation = f.validation
           /\ p = "filter" \/ (FrmFilter(g) = FrmFilter(f) /\ g.names = f.names)
           /\ p = "pull" \/ g.psMethod = f.psMethod
<1>1. g \in FrmUi /\ g.scoped = f.scoped /\ FrmTouches(p, f, g)
  BY FrmField
<1>2. p # "filter" => g.names = f.names
  BY <1>1 DEF FrmTouches, FrmFilter
<1>3. p # "pull" => g.psMethod = f.psMethod
  BY <1>1 DEF FrmTouches, FrmPull
<1> QED
  BY <1>1, <1>2, <1>3 DEF FrmTouches, FrmLike

\* the form is left with what any repository has, if there is no custom detail
LEMMA FrmLoadsPlain ==
    ASSUME NEW d \in Form!Details, store = d, ~Form!Custom(d), NEW b, FrmBasic(b, d)
    PROVE  b \in FrmUi /\ FrmForm(b, {})
<1>1. /\ d.pull = "none" /\ d.filter = Form!NoFilter /\ d.oci = "" /\ d.provider = ""
      /\ d.method \in Form!Supported(d.plugin, d.type) \cup {Form!NoAuth}
      /\ d.plugin = "flux" => d.scoped
      /\ d.auth = "creds" => d.method \in Form!Methods
  BY FrmDetails DEF Form!Custom
<1>2. d.auth = "creds" => b.creds[d.method] = "old"
  <2>1. b.creds = Form!Secrets(d)
    BY DEF FrmBasic
  <2> QED
    BY <1>1, <2>1, ZenonT(60) DEF Form!Secrets
<1>3. FrmKept(b, {})
  BY <1>1, <1>2, ZenonT(60) DEF FrmKept, FrmBasic
<1> QED
  BY <1>1, <1>3 DEF FrmForm, FrmBasic

\* the form is filled with the custom detail of a repository of the helm plugin
LEMMA FrmLoadsHelm ==
    ASSUME NEW d \in Form!Details, store = d, d.plugin = "helm", Form!Custom(d), NEW b, FrmBasic(b, d),
           d.provider # "" => d.method = Form!NoAuth
    PROVE  Form!LoadHelm(b, d) \in FrmUi /\ FrmForm(Form!LoadHelm(b, d), {})
<1> DEFINE t == d.filter.test
           x == d.filter.not
           m == d.pull = "secretRef"
           psn == IF d.pull = "secretRef" THEN "old" ELSE ""
           psc == IF d.pull = "credentials" THEN "old" ELSE ""
           Set(e)   == e.oci = d.oci /\ e.validation = FALSE
           Rule(e)  == IF d.filter = Form!NoFilter THEN e.names = "" ELSE FrmFilter(e) = <<"old", t, x>>
           Pulls(e) == IF d.pull = "none" THEN e.psMethod = Form!NoAuth
                       ELSE FrmPull(e) = <<"docker", FALSE, m, psn, psc>>
           a1 == [b EXCEPT !.oci = d.oci]
           a2 == [a1 EXCEPT !.validation = FALSE]
           n1 == [a2 EXCEPT !.names = d.filter.variables]
           n2 == [n1 EXCEPT !.regex = t]
           n3 == [n2 EXCEPT !.exclude = x]
           e  == IF d.filter = Form!NoFilter THEN a2 ELSE n3
           p1 == [e EXCEPT !.same = FALSE]
           p2 == [p1 EXCEPT !.psMethod = "docker"]
           p3 == [p2 EXCEPT !.psManaged = m]
           p4 == [p3 EXCEPT !.psName = psn]
           p5 == [p4 EXCEPT !.psCreds = psc]
           g  == IF d.pull = "none" THEN e ELSE p5
<1>1. Form!LoadHelm(b, d) = g
  BY DEF Form!LoadHelm, Form!toParams
<1>2. d.oci \in FrmTexts /\ d.filter \in Form!Filters
  BY FrmDetails DEF FrmTexts
<1>3. /\ d.filter.variables \in FrmTexts /\ t \in BOOLEAN /\ x \in BOOLEAN
      /\ d.filter # Form!NoFilter => d.filter.variables = "old"
  BY <1>2, FrmFilters
<1>4. m \in BOOLEAN /\ psn \in FrmTexts /\ psc \in FrmTexts
  BY DEF FrmTexts
<1>5. b \in FrmUi /\ b.names = "" /\ b.psMethod = Form!NoAuth
  BY DEF FrmBasic
<1> HIDE DEF t, x, m, psn, psc
<1>6. a1 \in FrmUi /\ FrmLike(b, a1) /\ a1.names = "" /\ a1.psMethod = Form!NoAuth /\ a1.oci = d.oci
  <2>1. FrmEdit("oci", b, a1)
    BY <1>2 DEF FrmEdit
  <2>2. a1.oci = d.oci
    BY <1>5 DEF FrmUi
  <2> HIDE DEF a1
  <2> QED
    BY <2>1, <2>2, <1>5, FrmLikes DEF FrmFilter, FrmPull
<1> HIDE DEF a1
<1>7. a2 \in FrmUi /\ FrmLike(a1, a2) /\ a2.names = "" /\ a2.psMethod = Form!NoAuth /\ Set(a2)
  <2>1. FrmEdit("validation", a1, a2)
    BY <1>2 DEF FrmEdit
  <2>2. a2.validation = FALSE
    BY <1>6 DEF FrmUi
  <2> HIDE DEF a2
  <2> QED
    BY <2>1, <2>2, <1>6, FrmLikes DEF FrmFilter, FrmPull
<1> HIDE DEF a2
<1>9. n1 \in FrmUi /\ FrmLike(a2, n1) /\ n1.names = d.filter.variables
      /\ n1.psMethod = Form!NoAuth /\ Set(n1)
  <2>1. FrmEdit("filter", a2, n1)
    BY <1>3 DEF FrmEdit
  <2>2. n1.names = d.filter.variables
    BY <1>7 DEF FrmUi
  <2> HIDE DEF n1
  <2> QED
    BY <2>1, <2>2, <1>7, FrmLikes DEF FrmFilter, FrmPull
<1> HIDE DEF n1
<1>10. n2 \in FrmUi /\ FrmLike(n1, n2) /\ n2.names = d.filter.variables
       /\ n2.regex = t /\ n2.psMethod = Form!NoAuth /\ Set(n2)
  <2>1. FrmEdit("filter", n1, n2)
    BY <1>3 DEF FrmEdit
  <2>2. n2.names = d.filter.variables /\ n2.regex = t
    BY <1>9 DEF FrmUi
  <2> HIDE DEF n2
  <2> QED
    BY <2>1, <2>2, <1>9, FrmLikes DEF FrmFilter, FrmPull
<1> HIDE DEF n2
<1>11. n3 \in FrmUi /\ FrmLike(n2, n3) /\ FrmFilter(n3) = <<d.filter.variables, t, x>>
       /\ n3.psMethod = Form!NoAuth /\ Set(n3)
  <2>1. FrmEdit("filter", n2, n3)
    BY <1>3 DEF FrmEdit
  <2>2. n3.names = d.filter.variables /\ n3.regex = t /\ n3.exclude = x
    BY <1>10 DEF FrmUi
  <2> HIDE DEF n3
  <2> QED
    BY <2>1, <2>2, <1>10, FrmLikes DEF FrmFilter, FrmPull
<1> HIDE DEF n3
<1>12. FrmLike(b, a2) /\ FrmLike(b, n3)
  BY <1>6, <1>7, <1>9, <1>10, <1>11, ZenonT(120) DEF FrmLike
<1>13. e \in FrmUi /\ FrmLike(b, e) /\ e.psMethod = Form!NoAuth /\ Set(e) /\ Rule(e)
  BY <1>3, <1>7, <1>11, <1>12
<1> HIDE DEF e, Set, Rule
<1>14. p1 \in FrmUi /\ FrmLike(e, p1) /\ FrmFilter(p1) = FrmFilter(e) /\ p1.names = e.names
       /\ p1.oci = e.oci /\ p1.validation = e.validation
       /\ p1.same = FALSE
  <2>1. FrmEdit("pull", e, p1)
    BY DEF FrmEdit
  <2>2. p1.same = FALSE
    BY <1>13 DEF FrmUi
  <2> HIDE DEF p1
  <2> QED
    BY <2>1, <2>2, <1>13, FrmLikes DEF FrmFilter, FrmPull
<1> HIDE DEF p1
<1>15. p2 \in FrmUi /\ FrmLike(p1, p2) /\ FrmFilter(p2) = FrmFilter(p1) /\ p2.names = p1.names
       /\ p2.oci = p1.oci /\ p2.validation = p1.validation
       /\ p2.same = FALSE /\ p2.psMethod = "docker"
  <2>1. FrmEdit("pull", p1, p2)
    BY DEF FrmEdit
  <2>2. p2.same = FALSE /\ p2.psMethod = "docker"
    BY <1>14 DEF FrmUi
  <2> HIDE DEF p2
  <2> QED
    BY <2>1, <2>2, <1>14, FrmLikes, ZenonT(60) DEF FrmFilter, FrmPull
<1> HIDE DEF p2
<1>16. p3 \in FrmUi /\ FrmLike(p2, p3) /\ FrmFilter(p3) = FrmFilter(p2) /\ p3.names = p2.names
       /\ p3.oci = p2.oci /\ p3.validation = p2.validation
       /\ p3.same = FALSE /\ p3.psMethod = "docker" /\ p3.psManaged = m
  <2>1. FrmEdit("pull", p2, p3)
    BY <1>4 DEF FrmEdit
  <2>2. p3.same = FALSE /\ p3.psMethod = "docker" /\ p3.psManaged = m
    BY <1>15 DEF FrmUi
  <2> HIDE DEF p3
  <2> QED
    BY <2>1, <2>2, <1>15, FrmLikes, ZenonT(60) DEF FrmFilter, FrmPull
<1> HIDE DEF p3
<1>17. p4 \in FrmUi /\ FrmLike(p3, p4) /\ FrmFilter(p4) = FrmFilter(p3) /\ p4.names = p3.names
       /\ p4.oci = p3.oci /\ p4.validation = p3.validation
       /\ p4.same = FALSE /\ p4.psMethod = "docker" /\ p4.psManaged = m /\ p4.psName = psn
  <2>1. FrmEdit("pull", p3, p4)
    BY <1>4 DEF FrmEdit
  <2>2. p4.same = FALSE /\ p4.psMethod = "docker" /\ p4.psManaged = m /\ p4.psName = psn
    BY <1>16 DEF FrmUi
  <2> HIDE DEF p4
  <2> QED
    BY <2>1, <2>2, <1>16, FrmLikes, ZenonT(60) DEF FrmFilter, FrmPull
<1> HIDE DEF p4
<1>18. p5 \in FrmUi /\ FrmLike(p4, p5) /\ FrmFilter(p5) = FrmFilter(p4) /\ p5.names = p4.names
       /\ p5.oci = p4.oci /\ p5.validation = p4.validation
       /\ FrmPull(p5) = <<"docker", FALSE, m, psn, psc>>
  <2>1. FrmEdit("pull", p4, p5)
    BY <1>4 DEF FrmEdit
  <2>2. p5.same = FALSE /\ p5.psMethod = "docker" /\ p5.psManaged = m /\ p5.psName = psn /\ p5.psCreds = psc
    BY <1>17 DEF FrmUi
  <2> HIDE DEF p5
  <2> QED
    BY <2>1, <2>2, <1>17, FrmLikes, ZenonT(60) DEF FrmFilter, FrmPull
<1> HIDE DEF p5
<1>19. FrmLike(e, p5) /\ FrmFilter(p5) = FrmFilter(e) /\ p5.names = e.names
       /\ p5.oci = e.oci /\ p5.validation = e.validation
  BY <1>14, <1>15, <1>16, <1>17, <1>18, ZenonT(120) DEF FrmLike
<1>20. Set(p5) /\ Rule(p5) /\ FrmLike(b, p5)
  BY <1>13, <1>19 DEF Set, Rule, FrmLike
<1>21. g \in FrmUi /\ FrmLike(b, g) /\ Set(g) /\ Rule(g) /\ Pulls(g)
  BY <1>13, <1>18, <1>20
<1> HIDE DEF g, Pulls
<1>22. FrmForm(g, {})
  <2>1. /\ g.plugin = d.plugin /\ g.type = d.type /\ g.url = "old" /\ g.method = d.method
        /\ g.skip = d.skip /\ g.pass = d.pass /\ g.provider = "" /\ g.creds = Form!Secrets(d)
        /\ g.managed = b.managed /\ g.secretAuthName = b.secretAuthName
    BY <1>21 DEF FrmLike, FrmBasic, FrmAuth
  <2>2. /\ d.provider = "" /\ d.method \in Form!Supported(d.plugin, d.type) \cup {Form!NoAuth}
        /\ d.auth = "creds" => d.method \in Form!Methods
    BY FrmDetails
  <2>3. /\ d.auth = "secretRef" => g.managed = TRUE /\ g.secretAuthName = "old"
        /\ d.auth = "creds" => g.managed = FALSE
    BY <2>1 DEF FrmBasic
  <2>4. d.auth = "creds" => g.creds[d.method] = "old"
    BY <2>1, <2>2 DEF Form!Secrets
  <2>5. FrmTls(g) = <<FrmOld(d.tls = "certAuthority"), d.tls = "secretRef", FrmOld(d.tls = "secretRef")>>
    BY <1>21 DEF FrmLike, FrmBasic
  <2>6. IF d.pull = "none" THEN g.psMethod = Form!NoAuth
        ELSE FrmPull(g) = <<"docker", FALSE, d.pull = "secretRef", FrmOld(d.pull = "secretRef"),
                            FrmOld(d.pull = "credentials")>>
    BY <1>21 DEF Pulls, m, psn, psc, FrmOld
  <2>7. IF d.filter = Form!NoFilter THEN g.names = ""
        ELSE FrmFilter(g) = <<"old", d.filter.test, d.filter.not>>
    BY <1>21 DEF Rule, t, x
  <2>8. FrmKept(g, {})
    BY <1>21, <2>1, <2>2, <2>3, <2>4, <2>5, <2>6, <2>7 DEF FrmKept, Set
  <2> QED
    BY <2>1, <2>2, <2>8 DEF FrmForm
<1> QED
  BY <1>1, <1>21, <1>22

\* the form is filled with the custom detail of a repository of the flux plugin
LEMMA FrmLoadsFlux ==
    ASSUME NEW d \in Form!Details, store = d, d.plugin = "flux", Form!Custom(d), NEW b, FrmBasic(b, d)
    PROVE  [b EXCEPT !.provider = d.provider] \in FrmUi /\ FrmForm([b EXCEPT !.provider = d.provider], {})
<1> DEFINE g == [b EXCEPT !.provider = d.provider]
<1>1. /\ d.provider \in {"", "generic"} \cup Form!Clouds /\ d.pull = "none" /\ d.filter = Form!NoFilter
      /\ d.oci = "" /\ d.scoped = TRUE /\ d.method \in Form!Supported(d.plugin, d.type) \cup {Form!NoAuth}
      /\ d.auth = "creds" => d.method \in Form!Methods
  BY FrmDetails DEF Form!Clouds
<1>2. b \in FrmUi
  BY DEF FrmBasic
<1>3. /\ g \in FrmUi /\ g.plugin = b.plugin /\ g.type = b.type /\ g.scoped = b.scoped /\ g.method = b.method
      /\ g.url = b.url /\ g.oci = b.oci /\ g.names = b.names /\ g.psMethod = b.psMethod
      /\ g.skip = b.skip /\ g.pass = b.pass /\ FrmTls(g) = FrmTls(b) /\ g.provider = d.provider
      /\ g.managed = b.managed /\ g.secretAuthName = b.secretAuthName /\ g.creds = b.creds
  BY <1>1, <1>2, ZenonT(60) DEF FrmUi, FrmTls
<1> HIDE DEF g
<1>4. /\ d.auth = "secretRef" => g.managed = TRUE /\ g.secretAuthName = "old"
      /\ d.auth = "creds" => g.managed = FALSE
  BY <1>3 DEF FrmBasic
<1>5. d.auth = "creds" => g.creds[d.method] = "old"
  <2>1. g.creds = Form!Secrets(d)
    BY <1>3 DEF FrmBasic
  <2> QED
    BY <1>1, <2>1, ZenonT(60) DEF Form!Secrets
<1>6. FrmTls(g) = <<FrmOld(d.tls = "certAuthority"), d.tls = "secretRef", FrmOld(d.tls = "secretRef")>>
  BY <1>3 DEF FrmBasic
<1>7. FrmKept(g, {})
  BY <1>1, <1>3, <1>4, <1>5, <1>6, ZenonT(60) DEF FrmKept, FrmBasic
<1>8. FrmForm(g, {})
  BY <1>1, <1>3, <1>7 DEF FrmForm, FrmBasic
<1> QED
  BY <1>3, <1>8 DEF g

LEMMA FrmInitHolds == ASSUME Form!ConstantsAssumption, Form!Init PROVE FrmInv
<1>1. past \in FrmPast /\ past.touched = {} /\ calls = {}
  <2>1. PICK g \in BOOLEAN : past = [edits |-> 0, touched |-> {}, global |-> g]
    BY DEF Form!Init
  <2> QED
    BY <2>1 DEF Form!Init, FrmPast
<1>2. CASE store = None
  <2> DEFINE f == [Form!Fresh EXCEPT !.scoped = FALSE]
             g == [f EXCEPT !.interval = ""]
  <2>1. ui = g
    BY <1>2 DEF Form!Init, Form!Load
  <2>2. f \in FrmUi /\ f.method = Form!NoAuth /\ f.plugin = "none"
    BY FrmFresh, ZenonT(120) DEF FrmUi, Form!Fresh
  <2> HIDE DEF f
  <2>0. "" \in FrmTexts \cup {"10m"}
    BY DEF FrmTexts
  <2>3. g \in FrmUi /\ g.method = Form!NoAuth /\ g.plugin = "none"
    BY <2>0, <2>2, ZenonT(120) DEF FrmUi
  <2> HIDE DEF g
  <2> QED
    BY <1>1, <1>2, <2>1, <2>3 DEF FrmInv, FrmTyped, FrmSent, FrmForm
<1>3. CASE store \in Form!Details /\ Form!Likely(store)
  <2> DEFINE b == Form!LoadBasic(Form!Fresh, store)
             f == CASE store.plugin = "helm" /\ Form!Custom(store) -> Form!LoadHelm(b, store)
                    [] store.plugin = "flux" /\ Form!Custom(store) -> [b EXCEPT !.provider = store.provider]
                    [] OTHER -> b
  <2>1. store # None /\ (store.provider # "" => store.method = Form!NoAuth)
    BY <1>3 DEF Form!ConstantsAssumption, Form!Likely
  <2>2. ui = Form!Settle(f)
    BY <2>1 DEF Form!Init, Form!Load
  <2>3. FrmBasic(b, store)
    BY <1>3, FrmLoadsBasic
  <2>4. store.plugin \in {"helm", "flux"}
    BY <1>3, FrmDetails
  <2> HIDE DEF b
  <2>5. f \in FrmUi /\ FrmForm(f, {})
    <3>1. CASE store.plugin = "helm" /\ Form!Custom(store)
      <4>1. f = Form!LoadHelm(b, store)
        BY <3>1
      <4> QED
        BY <1>3, <2>1, <2>3, <3>1, <4>1, FrmLoadsHelm
    <3>2. CASE store.plugin = "flux" /\ Form!Custom(store)
      <4>1. f = [b EXCEPT !.provider = store.provider]
        BY <3>2
      <4> QED
        BY <1>3, <2>3, <3>2, <4>1, FrmLoadsFlux
    <3>3. CASE ~Form!Custom(store)
      <4>1. f = b
        BY <3>3
      <4> QED
        BY <1>3, <2>3, <3>3, <4>1, FrmLoadsPlain
    <3> QED
      BY <2>4, <3>1, <3>2, <3>3
  <2> HIDE DEF f
  <2>6. FrmForm(f, past.touched)
    BY <1>1, <2>5
  <2>8. /\ Form!Settle(f) \in FrmUi /\ FrmForm(Form!Settle(f), past.touched)
        /\ Form!Settle(f).method # Form!NoAuth => Form!Settle(f).provider = ""
    BY <2>1, <2>5, <2>6, FrmSettle
  <2> QED
    BY <1>1, <1>3, <2>1, <2>2, <2>8 DEF FrmInv, FrmTyped, FrmSent
<1> QED
  BY <1>2, <1>3 DEF Form!Init

-----------------------------------------------------------------------------
(* The request *)

LEMMA FrmInstallHolds == ASSUME FrmInv, Form!install PROVE FrmInv'
<1>1. /\ calls' = {Form!buildAddOrUpdateRequest(Form!FormData(ui), Form!CustomDetail(ui))}
      /\ Form!Complete(ui) /\ store' = store /\ ui' = ui /\ past' = past
  BY DEF Form!install
<1>2. FrmSent'
  BY <1>1 DEF FrmSent
<1>3. FrmTyped'
  BY <1>1 DEF FrmInv, FrmTyped
<1>4. FrmKept(ui, past.touched) <=> FrmKept(ui, past.touched)'
  BY <1>1 DEF FrmKept, FrmTls, FrmPull, FrmFilter
<1>5. FrmForm(ui, past.touched)'
  BY <1>1, <1>4 DEF FrmInv, FrmForm
<1> QED
  BY <1>1, <1>2, <1>3, <1>5 DEF FrmInv

LEMMA FrmNextHolds == ASSUME FrmInv, [Form!Next]_(Form!vars) PROVE FrmInv'
<1>1. CASE Form!Next
  BY <1>1, FrmOneInput, FrmChoices, FrmInstallHolds DEF Form!Next
<1>2. CASE UNCHANGED Form!vars
  <2>1. store' = store /\ ui' = ui /\ calls' = calls /\ past' = past
    BY <1>2 DEF Form!vars
  <2>2. FrmKept(ui, past.touched) <=> FrmKept(ui, past.touched)'
    BY <2>1 DEF FrmKept, FrmTls, FrmPull, FrmFilter
  <2>3. FrmForm(ui, past.touched)'
    BY <2>1, <2>2, ZenonT(120) DEF FrmInv, FrmForm
  <2> QED
    BY <2>1, <2>3 DEF FrmInv, FrmTyped, FrmSent
<1> QED
  BY <1>1, <1>2

\* The request in terms of the form.
LEMMA FrmRequest ==
    ASSUME NEW f \in FrmUi
    PROVE  LET q == Form!buildAddOrUpdateRequest(Form!FormData(f), Form!CustomDetail(f))
           IN /\ q.plugin = f.plugin /\ q.type = f.type /\ q.scoped = f.scoped
              /\ q.namespace = (IF ~f.scoped /\ f.plugin = "helm" THEN "global" ELSE "own")
              /\ q.url = (IF f.plugin = "helm" /\ f.url = "bare" THEN "new" ELSE f.url)
              /\ q.method = (IF f.plugin = "flux" /\ f.provider # "" THEN Form!NoAuth ELSE f.method)
              /\ q.skip = f.skip /\ q.pass = f.pass
              /\ q.oci = (IF f.plugin = "helm" THEN f.oci ELSE "")
              /\ q.validation = (f.plugin = "helm" /\ f.validation)
              /\ q.filter = Form!FilterRule(f) /\ q.pull = Form!PullSecret(f)
  BY DEF Form!buildAddOrUpdateRequest, Form!FormData, Form!CustomDetail

\* what the request sends for authentication, as a function of the form
LEMMA FrmRequestAuth ==
    ASSUME NEW f \in FrmUi
    PROVE  LET q == Form!buildAddOrUpdateRequest(Form!FormData(f), Form!CustomDetail(f))
               m == IF f.plugin = "flux" /\ f.provider # "" THEN Form!NoAuth ELSE f.method
           IN q.auth = (IF f.managed
                        THEN IF m # Form!NoAuth /\ f.secretAuthName # ""
                             THEN <<"secretRef", f.secretAuthName>> ELSE <<"none", "">>
                        ELSE IF m \in Form!Methods \ {"header"} /\ f.creds[m] # ""
                             THEN <<m, f.creds[m]>> ELSE <<"none", "">>)
  BY DEF Form!buildAddOrUpdateRequest, Form!FormData, Form!CustomDetail, Form!OwnAuth, Form!ManagedAuth

\* what the request sends for TLS, as a function of the form
LEMMA FrmRequestTls ==
    ASSUME NEW f \in FrmUi
    PROVE  LET q == Form!buildAddOrUpdateRequest(Form!FormData(f), Form!CustomDetail(f))
           IN q.tls = (IF ~f.managed /\ ~f.caManaged /\ f.customCA # "" THEN <<"certAuthority", f.customCA>>
                       ELSE IF f.managed /\ f.caManaged /\ f.secretTLSName # ""
                       THEN <<"secretRef", f.secretTLSName>> ELSE <<"none", "">>)
  BY DEF Form!buildAddOrUpdateRequest, Form!FormData, Form!CustomDetail, Form!TlsConfig

\* a request is what the form shows
LEMMA FrmAnswer ==
    ASSUME FrmInv, NEW q \in calls
    PROVE  /\ q = Form!buildAddOrUpdateRequest(Form!FormData(ui), Form!CustomDetail(ui))
           /\ Form!Complete(ui) /\ ui \in FrmUi /\ FrmForm(ui, past.touched)
           /\ ui.plugin \in {"helm", "flux"} /\ ui.type \in {"helm", "oci"}
           /\ ui.method # Form!NoAuth => ui.provider = ""
<1>1. Form!Complete(ui) /\ q = Form!buildAddOrUpdateRequest(Form!FormData(ui), Form!CustomDetail(ui))
  BY DEF FrmInv, FrmSent
<1>2. ui \in FrmUi /\ FrmForm(ui, past.touched) /\ (ui.method # Form!NoAuth => ui.provider = "")
  BY DEF FrmInv, FrmTyped
<1>3. ui.plugin \in {"helm", "flux"} /\ ui.type \in {"helm", "oci"}
  BY <1>1, <1>2 DEF FrmUi, Form!Complete
<1> QED
  BY <1>1, <1>2, <1>3

\* the three properties, one lemma each
LEMMA FrmSupports == ASSUME FrmInv PROVE Form!SendsSupported
<1> SUFFICES ASSUME NEW q \in calls
             PROVE  /\ q.method \in Form!Supported(q.plugin, q.type) \cup {Form!NoAuth}
                    /\ ui.provider # "" => q.method = Form!NoAuth
                    /\ q.plugin = "flux" => q.scoped
                    /\ q.namespace = "own" => q.scoped
  BY DEF Form!SendsSupported
<1>1. /\ q.plugin = ui.plugin /\ q.type = ui.type /\ q.scoped = ui.scoped
      /\ q.namespace = (IF ~ui.scoped /\ ui.plugin = "helm" THEN "global" ELSE "own")
      /\ q.method = (IF ui.plugin = "flux" /\ ui.provider # "" THEN Form!NoAuth ELSE ui.method)
  BY FrmAnswer, FrmRequest, ZenonT(60)
<1> QED
  BY <1>1, FrmAnswer DEF FrmForm

LEMMA FrmShows == ASSUME FrmInv PROVE Form!SendsWhatIsShown
<1> SUFFICES ASSUME NEW q \in calls
             PROVE  /\ ui.method # Form!NoAuth /\ ui.managed => q.auth = <<"secretRef", ui.secretAuthName>>
                    /\ ui.method \in Form!Methods \ {"header"} /\ ~ui.managed =>
                          q.auth = <<ui.method, ui.creds[ui.method]>>
                    /\ ui.method = Form!NoAuth => q.auth = <<"none", "">>
                    /\ Form!HasPull /\ ~ui.same =>
                          q.pull[2] = (IF ui.psManaged THEN ui.psName ELSE ui.psCreds)
                    /\ Form!HasPull /\ ui.same /\ ui.psManaged = ui.managed =>
                          q.pull[2] = (IF ui.managed THEN ui.secretAuthName ELSE ui.creds["docker"])
                    /\ ui.plugin = "helm" /\ ui.type = "helm" /\ ui.names # "" =>
                          Form!toParams(q.filter) = [names |-> ui.names, regex |-> ui.regex, exclude |-> ui.exclude]
  BY DEF Form!SendsWhatIsShown
<1>1. /\ ui \in FrmUi /\ Form!Complete(ui) /\ (ui.method # Form!NoAuth => ui.provider = "")
      /\ q = Form!buildAddOrUpdateRequest(Form!FormData(ui), Form!CustomDetail(ui))
  BY FrmAnswer
<1> DEFINE m == IF ui.plugin = "flux" /\ ui.provider # "" THEN Form!NoAuth ELSE ui.method
<1>2. q.auth = (IF ui.managed
                THEN IF m # Form!NoAuth /\ ui.secretAuthName # ""
                     THEN <<"secretRef", ui.secretAuthName>> ELSE <<"none", "">>
                ELSE IF m \in Form!Methods \ {"header"} /\ ui.creds[m] # ""
                     THEN <<m, ui.creds[m]>> ELSE <<"none", "">>)
  BY <1>1, FrmRequestAuth
<1>3. m = ui.method
  BY <1>1
<1> HIDE DEF m
<1>4. Form!NoAuth \notin Form!Methods
  BY DEF Form!NoAuth, Form!Methods
<1>5. /\ ui.method # Form!NoAuth /\ ui.managed => q.auth = <<"secretRef", ui.secretAuthName>>
      /\ ui.method \in Form!Methods \ {"header"} /\ ~ui.managed => q.auth = <<ui.method, ui.creds[ui.method]>>
      /\ ui.method = Form!NoAuth => q.auth = <<"none", "">>
  BY <1>1, <1>2, <1>3, <1>4 DEF Form!Complete
<1>6. q.pull = Form!PullSecret(ui) /\ q.filter = Form!FilterRule(ui)
  BY <1>1, FrmRequest
<1>7. /\ Form!HasPull /\ ~ui.same => q.pull[2] = (IF ui.psManaged THEN ui.psName ELSE ui.psCreds)
      /\ Form!HasPull /\ ui.same /\ ui.psManaged = ui.managed =>
            q.pull[2] = (IF ui.managed THEN ui.secretAuthName ELSE ui.creds["docker"])
  <2> DEFINE v == IF ui.same THEN ui.creds["docker"] ELSE ui.psCreds
  <2>1. CASE Form!HasPull /\ ui.psManaged
    <3>1. q.pull = <<"secretRef", IF ui.same THEN ui.secretAuthName ELSE ui.psName>>
      BY <1>6, <2>1 DEF Form!PullSecret, Form!HasPull, Form!IsHelm
    <3>2. q.pull[2] = IF ui.same THEN ui.secretAuthName ELSE ui.psName
      BY <3>1
    <3> QED
      BY <2>1, <3>2
  <2>2. CASE Form!HasPull /\ ~ui.psManaged
    <3>1. /\ v = "" => q.pull = <<"none", "">>
          /\ v # "" => q.pull = <<"credentials", v>>
      BY <1>6, <2>2 DEF Form!PullSecret, Form!HasPull, Form!IsHelm
    <3>2. q.pull[2] = v
      <4> HIDE DEF v
      <4>1. <<"none", v>>[2] = v /\ <<"credentials", v>>[2] = v
        OBVIOUS
      <4>2. CASE v = ""
        <5>1. q.pull = <<"none", v>>
          BY <3>1, <4>2, Zenon
        <5> QED
          BY <4>1, <5>1, Zenon
      <4>3. CASE v # ""
        <5>1. q.pull = <<"credentials", v>>
          BY <3>1, <4>3, Zenon
        <5> QED
          BY <4>1, <5>1, Zenon
      <4> QED
        BY <4>2, <4>3
    <3> QED
      BY <2>2, <3>2
  <2> QED
    BY <2>1, <2>2
<1>8. ASSUME ui.plugin = "helm" /\ ui.type = "helm" /\ ui.names # ""
      PROVE  Form!toParams(q.filter) = [names |-> ui.names, regex |-> ui.regex, exclude |-> ui.exclude]
  <2> DEFINE n == ui.names
             r == ui.regex
             x == ui.exclude
  <2>1. q.filter = [test |-> r, not |-> x, variables |-> n]
    BY <1>6, <1>8 DEF Form!FilterRule, Form!toFilterRule
  <2>2. Form!toParams([test |-> r, not |-> x, variables |-> n]) = [names |-> n, regex |-> r, exclude |-> x]
    <3>1. r \in BOOLEAN /\ x \in BOOLEAN
      BY <1>1 DEF FrmUi
    <3> HIDE DEF r, x, n
    <3> QED
      BY <3>1 DEF Form!toParams
  <2> QED
    BY <2>1, <2>2
<1> QED
  BY <1>5, <1>7, <1>8

LEMMA FrmKeeps == ASSUME FrmInv, Form!ConstantsAssumption PROVE Form!KeepsUntouched
<1> SUFFICES ASSUME NEW q \in calls, ~Form!New
             PROVE  /\ "url" \notin past.touched => q.url = "old"
                    /\ "auth" \notin past.touched =>
                          /\ q.method = store.method
                          /\ store.auth = "secretRef" => q.auth = <<"secretRef", "old">>
                          /\ store.auth = "creds" /\ store.method # "header" => q.auth = <<store.method, "old">>
                    /\ "tls" \notin past.touched /\ (store.tls = "secretRef") = ui.managed =>
                          q.tls = (IF store.tls = "none" THEN <<"none", "">> ELSE <<store.tls, "old">>)
                    /\ {"auth", "pull"} \cap past.touched = {} =>
                          q.pull = (IF store.pull = "none" THEN <<"none", "">> ELSE <<store.pull, "old">>)
                    /\ "filter" \notin past.touched /\ store.type = "helm" => q.filter = store.filter
                    /\ "validation" \notin past.touched =>
                          q.validation = (store.plugin = "helm" /\ ~Form!Custom(store))
                    /\ \A p \in {"oci", "skip", "pass"} \ past.touched : q[p] = store[p]
  BY DEF Form!KeepsUntouched
<1> DEFINE t == past.touched
<1>1. /\ ui \in FrmUi /\ (ui.method # Form!NoAuth => ui.provider = "")
      /\ q = Form!buildAddOrUpdateRequest(Form!FormData(ui), Form!CustomDetail(ui))
      /\ FrmForm(ui, t)
  BY FrmAnswer
<1>2. store \in Form!Details /\ FrmKept(ui, t) /\ (store.provider # "" => store.method = Form!NoAuth)
  BY <1>1 DEF FrmInv, FrmTyped, FrmForm, Form!New
<1> HIDE DEF t
<1>3. ui.plugin = store.plugin /\ ui.type = store.type /\ store.plugin \in {"helm", "flux"}
  BY <1>2, FrmDetails DEF FrmKept
<1>4. "url" \notin t => q.url = "old"
  <2>1. q.url = (IF ui.plugin = "helm" /\ ui.url = "bare" THEN "new" ELSE ui.url)
    BY <1>1, FrmRequest
  <2> QED
    BY <1>2, <2>1 DEF FrmKept
<1>5. ASSUME "auth" \notin t
      PROVE  /\ q.method = store.method
             /\ store.auth = "secretRef" => q.auth = <<"secretRef", "old">>
             /\ store.auth = "creds" /\ store.method # "header" => q.auth = <<store.method, "old">>
  <2> DEFINE m == IF ui.plugin = "flux" /\ ui.provider # "" THEN Form!NoAuth ELSE ui.method
  <2>1. /\ q.method = m
        /\ q.auth = (IF ui.managed
                     THEN IF m # Form!NoAuth /\ ui.secretAuthName # ""
                          THEN <<"secretRef", ui.secretAuthName>> ELSE <<"none", "">>
                     ELSE IF m \in Form!Methods \ {"header"} /\ ui.creds[m] # ""
                          THEN <<m, ui.creds[m]>> ELSE <<"none", "">>)
    BY <1>1, FrmRequest, FrmRequestAuth
  <2>2. ui.method = store.method /\ ui.provider = store.provider
    BY <1>2, <1>5 DEF FrmKept
  <2>3. m = store.method
    BY <1>1, <2>2
  <2> HIDE DEF m
  <2>4. store.auth # "none" => store.method # Form!NoAuth /\ store.method \in Form!Methods
    BY <1>2, FrmDetails
  <2>5. ASSUME store.auth = "secretRef" PROVE q.auth = <<"secretRef", "old">>
    <3>1. ui.managed = TRUE /\ ui.secretAuthName = "old"
      BY <1>2, <1>5, <2>5 DEF FrmKept
    <3> QED
      BY <2>1, <2>3, <2>4, <2>5, <3>1
  <2>6. ASSUME store.auth = "creds", store.method # "header" PROVE q.auth = <<store.method, "old">>
    <3>1. ui.managed = FALSE /\ ui.creds[store.method] = "old"
      BY <1>2, <1>5, <2>6 DEF FrmKept
    <3> QED
      BY <2>1, <2>3, <2>4, <2>6, <3>1
  <2> QED
    BY <1>3, <2>1, <2>2, <2>3, <2>4, <2>5, <2>6
<1>6. ASSUME "tls" \notin t, (store.tls = "secretRef") = ui.managed
      PROVE  q.tls = (IF store.tls = "none" THEN <<"none", "">> ELSE <<store.tls, "old">>)
  <2>1. q.tls = (IF ~ui.managed /\ ~ui.caManaged /\ ui.customCA # "" THEN <<"certAuthority", ui.customCA>>
                 ELSE IF ui.managed /\ ui.caManaged /\ ui.secretTLSName # ""
                 THEN <<"secretRef", ui.secretTLSName>> ELSE <<"none", "">>)
    BY <1>1, FrmRequestTls
  <2>2. FrmTls(ui) = <<FrmOld(store.tls = "certAuthority"), store.tls = "secretRef",
                       FrmOld(store.tls = "secretRef")>>
    BY <1>2, <1>6 DEF FrmKept
  <2>3. /\ ui.customCA = FrmOld(store.tls = "certAuthority") /\ ui.caManaged = (store.tls = "secretRef")
        /\ ui.secretTLSName = FrmOld(store.tls = "secretRef")
    BY <2>2 DEF FrmTls
  <2>4. store.tls \in {"none", "certAuthority", "secretRef"}
    BY <1>2, FrmDetails
  <2>5. CASE store.tls = "none"
    BY <1>6, <2>1, <2>3, <2>5 DEF FrmOld
  <2>6. CASE store.tls = "certAuthority"
    BY <1>6, <2>1, <2>3, <2>6 DEF FrmOld
  <2>7. CASE store.tls = "secretRef"
    BY <1>6, <2>1, <2>3, <2>7 DEF FrmOld
  <2> QED
    BY <2>4, <2>5, <2>6, <2>7
<1>7. ASSUME {"auth", "pull"} \cap t = {}
      PROVE  q.pull = (IF store.pull = "none" THEN <<"none", "">> ELSE <<store.pull, "old">>)
  <2>1. q.pull = Form!PullSecret(ui)
    BY <1>1, FrmRequest
  <2>2. "auth" \notin t /\ "pull" \notin t
    BY <1>7
  <2>3. store.pull \in {"none", "secretRef", "credentials"} /\ (store.plugin = "flux" => store.pull = "none")
    BY <1>2, FrmDetails
  <2>4. CASE store.pull = "none"
    <3>1. ui.psMethod = Form!NoAuth
      BY <1>2, <2>2, <2>4 DEF FrmKept
    <3> QED
      BY <2>1, <2>4, <3>1 DEF Form!PullSecret, Form!NoAuth
  <2>5. CASE store.pull # "none"
    <3>1. FrmPull(ui) = <<"docker", FALSE, store.pull = "secretRef", FrmOld(store.pull = "secretRef"),
                          FrmOld(store.pull = "credentials")>>
      BY <1>2, <2>2, <2>5 DEF FrmKept
    <3>2. /\ ui.psMethod = "docker" /\ ui.same = FALSE /\ ui.psManaged = (store.pull = "secretRef")
          /\ ui.psName = FrmOld(store.pull = "secretRef") /\ ui.psCreds = FrmOld(store.pull = "credentials")
      BY <3>1 DEF FrmPull
    <3>3. CASE store.pull = "secretRef"
      BY <1>3, <2>1, <2>3, <3>2, <3>3 DEF Form!PullSecret, FrmOld
    <3>4. CASE store.pull = "credentials"
      BY <1>3, <2>1, <2>3, <3>2, <3>4 DEF Form!PullSecret, FrmOld
    <3> QED
      BY <2>3, <2>5, <3>3, <3>4
  <2> QED
    BY <2>4, <2>5
<1>8. ASSUME "filter" \notin t, store.type = "helm" PROVE q.filter = store.filter
  <2>1. q.filter = Form!FilterRule(ui)
    BY <1>1, FrmRequest
  <2>2. store.filter \in Form!Filters /\ (store.plugin = "flux" => store.filter = Form!NoFilter)
    BY <1>2, FrmDetails
  <2>3. CASE store.filter = Form!NoFilter
    <3>1. ui.names = ""
      BY <1>2, <1>8, <2>3 DEF FrmKept
    <3> QED
      BY <2>1, <2>3, <3>1 DEF Form!FilterRule
  <2>4. CASE store.filter # Form!NoFilter
    <3>1. FrmFilter(ui) = <<"old", store.filter.test, store.filter.not>>
      BY <1>2, <1>8, <2>4 DEF FrmKept
    <3>2. ui.names = "old" /\ ui.regex = store.filter.test /\ ui.exclude = store.filter.not
      BY <3>1 DEF FrmFilter
    <3>3. q.filter = [test |-> ui.regex, not |-> ui.exclude, variables |-> "old"]
      BY <1>3, <1>8, <2>1, <2>2, <2>4, <3>2 DEF Form!FilterRule, Form!toFilterRule
    <3> QED
      BY <2>2, <2>4, <3>2, <3>3 DEF Form!Filters
  <2> QED
    BY <2>3, <2>4
<1>9. ASSUME NEW p \in {"oci", "skip", "pass"} \ t PROVE q[p] = store[p]
  <2>1. q.skip = ui.skip /\ q.pass = ui.pass /\ q.oci = (IF ui.plugin = "helm" THEN ui.oci ELSE "")
    BY <1>1, FrmRequest
  <2>2. store.plugin = "flux" => store.oci = ""
    BY <1>2, FrmDetails
  <2>3. CASE p = "oci"
    BY <1>2, <1>3, <1>9, <2>1, <2>2, <2>3 DEF FrmKept
  <2>4. CASE p = "skip"
    BY <1>2, <1>9, <2>1, <2>4 DEF FrmKept
  <2>5. CASE p = "pass"
    BY <1>2, <1>9, <2>1, <2>5 DEF FrmKept
  <2> QED
    BY <1>9, <2>3, <2>4, <2>5
<1>10. ASSUME "validation" \notin t
       PROVE  q.validation = (store.plugin = "helm" /\ ~Form!Custom(store))
  <2>1. q.validation = (ui.plugin = "helm" /\ ui.validation)
    BY <1>1, FrmRequest
  <2>2. store.plugin = "helm" => ui.validation = ~Form!Custom(store)
    BY <1>2, <1>10 DEF FrmKept
  <2> QED
    BY <1>3, <2>1, <2>2
<1> QED
  BY <1>4, <1>5, <1>6, <1>7, <1>8, <1>9, <1>10 DEF t

\* the invariant says what the properties do
LEMMA FrmHolds ==
    ASSUME FrmInv, Form!ConstantsAssumption
    PROVE  /\ Form!TypeOK /\ Form!KeepsUntouched /\ Form!SendsWhatIsShown /\ Form!SendsSupported
<1>1. store # None => store.method \in Form!Supported(store.plugin, store.type) \cup {Form!NoAuth}
  BY FrmDetails DEF FrmInv, FrmTyped
<1>2. ui \in FrmUi
  BY DEF FrmInv, FrmTyped
<1>3. DOMAIN ui = DOMAIN Form!Fresh
  BY <1>2, FrmFresh DEF FrmUi
<1>4. ui.method \in Form!Methods \cup {Form!NoAuth} /\ ui.psMethod \in {"docker", Form!NoAuth}
  BY <1>2 DEF FrmUi
<1>5. Form!Cardinality(calls) <= 1
  <2>1. Form!Cardinality(calls) = Cardinality(calls)
    BY DEF Form!Cardinality, Cardinality
  <2>2. calls = {} \/ \E q : calls = {q}
    BY DEF FrmInv, FrmSent
  <2> QED
    <3>1. CASE calls = {}
      BY <2>1, <3>1, FS_EmptySet
    <3>2. CASE \E q : calls = {q}
      <4>1. PICK q : calls = {q}
        BY <3>2
      <4>2. Cardinality({q}) = 1
        BY FS_Singleton
      <4> QED
        BY <2>1, <4>1, <4>2
    <3> QED
      BY <2>2, <3>1, <3>2
<1>6. Form!TypeOK
  BY <1>1, <1>3, <1>4, <1>5 DEF Form!TypeOK
<1> QED
  BY <1>6, FrmKeeps, FrmShows, FrmSupports

-----------------------------------------------------------------------------
(* The Jobs of the asset-syncer: the invariant is SynTyped and SyncInv. *)

(* Types *)

SynPublished == {Indexes[i] : i \in 1..store.next - 1}

SynStoreTyped ==
    /\ store = [index |-> store.index, next |-> store.next, checksum |-> store.checksum,
                charts |-> store.charts, files |-> store.files]
    /\ store.next \in 2..Len(Indexes) + 1 /\ store.index = Indexes[store.next - 1]
    /\ store.checksum \in {None, Blank} \cup SynPublished
    /\ store.charts \in [Syn!Charts -> SUBSET Syn!Versions] /\ store.files \subseteq Syn!Charts \X Syn!Versions

\* The passes of a Job: the shallow and the full one, and the full one.
SynBoth == <<TRUE, FALSE>>
SynFull == <<FALSE>>

SynAt(j, pcs) == procs[j].pc \in pcs
SynWorks(j)   == SynAt(j, {"list", "sync", "remove", "wait", "check"})

SynJobTyped(j) ==
    /\ procs[j] = [pc |-> procs[j].pc, index |-> procs[j].index, passes |-> procs[j].passes,
                   todo |-> procs[j].todo, gone |-> procs[j].gone, imports |-> procs[j].imports]
    /\ procs[j].pc \in {"fetched", "list", "sync", "remove", "wait", "check", "dead", "ended"}
    /\ procs[j].pc \in {"dead", "ended"} => procs[j] = [Syn!Ended EXCEPT !.pc = procs[j].pc]
    /\ procs[j].pc = "fetched" \/ SynWorks(j) => procs[j].index \in SynPublished
    /\ procs[j].pc = "fetched" => procs[j].passes = <<>>
    /\ SynWorks(j) => procs[j].passes \in {SynBoth, SynFull}
    /\ procs[j].pc = "check" => procs[j].passes = SynFull
    /\ procs[j].todo \subseteq Syn!Listed(procs[j].index)
    /\ procs[j].gone \subseteq Syn!Charts \ Syn!Listed(procs[j].index)
    /\ procs[j].imports \subseteq Syn!FilesOf(procs[j].index)
    /\ ~SynAt(j, {"remove", "wait"}) => procs[j].imports = {}

SynPastTyped ==
    past = [starts |-> past.starts, errors |-> past.errors, cleanups |-> past.cleanups,
            together |-> past.together, excused |-> past.excused]
    /\ past.together \in BOOLEAN /\ past.excused \in BOOLEAN

SynTyped ==
    /\ SynStoreTyped /\ SynPastTyped
    /\ procs = [j \in Jobs |-> procs[j]] /\ \A j \in Jobs : SynJobTyped(j)

(* Jobs that run together have the same index, and none has died. *)

SynApart ==
    \A j, k \in Jobs : j # k /\ Syn!Running(j) /\ Syn!Running(k) =>
        /\ procs[j].pc # "dead" /\ procs[j].index = procs[k].index /\ past.together

\* A chart that has gone by a Job, in its pass.
SynBy(j, c) ==
    /\ c \in Syn!Listed(procs[j].index)
    /\ SynAt(j, {"remove", "wait", "check"}) \/ (procs[j].pc = "sync" /\ c \notin procs[j].todo)

\* A Job that will write all versions of a chart.
SynOwes(j, c) ==
    \/ SynWorks(j) /\ procs[j].passes = SynBoth
    \/ procs[j].pc = "list"
    \/ procs[j].pc = "sync" /\ c \in procs[j].todo

SynWritten(index, c) == store.charts[c] = index[c] \/ \E j \in Jobs : procs[j].index = index /\ SynOwes(j, c)

SynJobHas(j, index) ==
    /\ ~past.together => store.checksum # index
    /\ \A c \in Syn!Charts \ Syn!Listed(index) :
          /\ SynAt(j, {"sync", "remove"}) => store.charts[c] = {} \/ c \in procs[j].gone
          /\ SynAt(j, {"wait", "check"}) => store.charts[c] = {}
    /\ \A c \in Syn!Charts : SynBy(j, c) => store.charts[c] # {}
    /\ procs[j].passes = SynFull => \A c \in Syn!Charts : SynBy(j, c) => SynWritten(index, c)
    /\ procs[j].passes = SynFull /\ SynAt(j, {"remove", "wait", "check"}) =>
          Syn!FilesOf(index) \subseteq store.files \cup procs[j].imports

SynJobInv(j) == SynWorks(j) => SynJobHas(j, procs[j].index)

\* The checksum is that of a repository that is there, or on its way; or another one is.
SynStands(index) ==
    /\ \A j \in Jobs : Syn!Running(j) /\ procs[j].pc # "dead" => procs[j].index = index
    /\ \A c \in Syn!Charts : SynWritten(index, c) /\ (c \notin Syn!Listed(index) => store.charts[c] = {})
    /\ Syn!FilesOf(index) \subseteq store.files

SynMovedOn(index) ==
    /\ \E j \in Jobs : Syn!Running(j)
    /\ \A j \in Jobs : Syn!Running(j) /\ procs[j].pc # "dead" => procs[j].index # index
    /\ store.index # index

SynChecksumInv ==
    /\ store.checksum = Blank => \E j \in Jobs : Syn!Running(j)
    /\ store.checksum \in SynPublished => SynStands(store.checksum) \/ SynMovedOn(store.checksum)

SyncInv == ~past.excused => SynApart /\ SynChecksumInv /\ \A j \in Jobs : SynJobInv(j)

LEMMA SynPassesFacts ==
  /\ SynBoth # SynFull /\ SynBoth # <<>> /\ SynFull # <<>> /\ Head(SynBoth) = TRUE /\ Head(SynFull) = FALSE
  /\ Tail(SynBoth) = SynFull /\ Len(SynBoth) = 2 /\ Len(SynFull) = 1
<1>1. \A x, y : /\ Len(<<x, y>>) = 2 /\ Head(<<x, y>>) = x /\ Tail(<<x, y>>) = <<y>>
                /\ Len(<<x>>) = 1 /\ Head(<<x>>) = x
  OBVIOUS
<1>2. Len(<<>>) = 0 /\ 2 # 1 /\ 2 # 0 /\ 1 # 0
  OBVIOUS
<1> QED
  BY <1>1, <1>2, Zenon DEF SynBoth, SynFull

LEMMA SynIndexFacts ==
  ASSUME Syn!IndexesAssumption
  PROVE  /\ Len(Indexes) \in Nat \ {0} /\ DOMAIN Indexes = 1..Len(Indexes)
         /\ \A i \in 1..Len(Indexes) :
               /\ Indexes[i] \in [Syn!Charts -> SUBSET Syn!Versions] /\ Syn!Listed(Indexes[i]) # {}
               /\ Indexes[i] \notin {None, Blank}
               /\ \A c \in Syn!Charts : Indexes[i][c] # {} =>
                     \E v \in Indexes[i][c] : \A w \in Indexes[i][c] : w <= v
<1>1. Len(Indexes) \in Nat \ {0} /\ DOMAIN Indexes = 1..Len(Indexes)
  BY EmptySeq, LenProperties DEF Syn!IndexesAssumption
<1>2. \A i \in 1..Len(Indexes) : Indexes[i] \in [Syn!Charts -> SUBSET Nat]
  BY ElementOfSeq DEF Syn!IndexesAssumption
<1>3. \A i \in 1..Len(Indexes) : Indexes[i] \in [Syn!Charts -> SUBSET Syn!Versions]
  <2> SUFFICES ASSUME NEW i \in 1..Len(Indexes), NEW c \in Syn!Charts, NEW v \in Indexes[i][c] PROVE v \in Syn!Versions
    BY <1>2
  <2> QED
    BY <1>1 DEF Syn!Versions
<1>4. \A i \in 1..Len(Indexes) : Syn!Listed(Indexes[i]) # {}
  <2> SUFFICES ASSUME NEW i \in 1..Len(Indexes), Syn!Listed(Indexes[i]) = {} PROVE FALSE
    OBVIOUS
  <2>1. \A c \in Syn!Charts : Indexes[i][c] = {}
    BY DEF Syn!Listed
  <2>2. Indexes[i] = [c \in Syn!Charts |-> Indexes[i][c]]
    BY <1>2
  <2>3. Indexes[i] = Syn!NoCharts
    BY <2>1, <2>2 DEF Syn!NoCharts
  <2> QED
    BY <1>1, <2>3 DEF Syn!IndexesAssumption
<1> QED
  BY <1>1, <1>3, <1>4 DEF Syn!IndexesAssumption

\* What a pass takes from an index.
LEMMA SynPassFacts ==
  ASSUME Syn!IndexesAssumption, NEW i \in 1..Len(Indexes), NEW b \in BOOLEAN
  PROVE  LET pass == Syn!ChartsFromIndex(Indexes[i], b) IN
         /\ pass \in [Syn!Charts -> SUBSET Syn!Versions]
         /\ \A c \in Syn!Charts : pass[c] \subseteq Indexes[i][c]
         /\ \A c \in Syn!Charts : Indexes[i][c] # {} => pass[c] # {}
         /\ ~b => pass = Indexes[i]
<1> DEFINE x == Indexes[i]
           pass == Syn!ChartsFromIndex(x, b)
<1>1. x \in [Syn!Charts -> SUBSET Syn!Versions]
      /\ \A c \in Syn!Charts : x[c] # {} => \E v \in x[c] : \A w \in x[c] : w <= v
  BY SynIndexFacts
<1> HIDE DEF x
<1>2. \A c \in Syn!Charts : pass[c] = {v \in x[c] : b => \A w \in x[c] : w <= v}
  BY DEF Syn!ChartsFromIndex
<1>3. pass \in [Syn!Charts -> SUBSET Syn!Versions]
  BY <1>1 DEF Syn!ChartsFromIndex
<1>4. \A c \in Syn!Charts : x[c] # {} => pass[c] # {}
  BY <1>1, <1>2
<1>5. ASSUME ~b PROVE pass = x
  <2>1. \A c \in Syn!Charts : pass[c] = x[c]
    BY <1>2, <1>5
  <2>2. pass = [c \in Syn!Charts |-> pass[c]] /\ x = [c \in Syn!Charts |-> x[c]]
    BY <1>1, <1>3
  <2> HIDE DEF pass
  <2>3. [c \in Syn!Charts |-> pass[c]] = [c \in Syn!Charts |-> x[c]]
    BY <2>1
  <2> QED
    BY <2>2, <2>3, Zenon
<1> QED
  BY <1>2, <1>3, <1>4, <1>5 DEF x

LEMMA SynPublishedFacts ==
  ASSUME Syn!IndexesAssumption, SynTyped
  PROVE  /\ \A x \in SynPublished : \E i \in 1..Len(Indexes) : x = Indexes[i]
         /\ \A x \in SynPublished :
               /\ x \in [Syn!Charts -> SUBSET Syn!Versions] /\ x \notin {None, Blank} /\ Syn!Listed(x) # {}
         /\ store.index \in SynPublished
<1>1. store.next \in 2..Len(Indexes) + 1 /\ store.index = Indexes[store.next - 1]
  BY DEF SynTyped, SynStoreTyped
<1>2. Len(Indexes) \in Nat
  BY SynIndexFacts
<1>3. store.next - 1 \in 1..store.next - 1 /\ 1..store.next - 1 \subseteq 1..Len(Indexes)
  BY <1>1, <1>2
<1> QED
  BY <1>1, <1>3, SynIndexFacts DEF SynPublished

\* A step of one Job, as to types.
LEMMA SynJobsTyped ==
  ASSUME SynTyped, NEW j \in Jobs, procs' = [procs EXCEPT ![j] = procs'[j]], SynPublished \subseteq SynPublished',
         SynJobTyped(j)'
  PROVE  /\ procs' = [k \in Jobs |-> procs'[k]] /\ \A k \in Jobs : SynJobTyped(k)'
         /\ \A k \in Jobs \ {j} : procs'[k] = procs[k]
<1>1. procs = [k \in Jobs |-> procs[k]] /\ \A k \in Jobs : SynJobTyped(k)
  BY DEF SynTyped
<1>2. procs' = [k \in Jobs |-> procs'[k]] /\ \A k \in Jobs \ {j} : procs'[k] = procs[k]
  BY <1>1
<1>3. ASSUME NEW k \in Jobs \ {j} PROVE SynJobTyped(k)'
  <2>1. procs'[k] = procs[k] /\ SynJobTyped(k)
    BY <1>1, <1>2
  <2> QED
    BY <2>1 DEF SynJobTyped, SynAt, SynWorks
<1> QED
  BY <1>2, <1>3

\* The same without a change of the store, but for the checksum, the charts and the files.
LEMMA SynStoreStaysTyped ==
  ASSUME SynTyped, NEW x, x \in {None, Blank} \cup SynPublished,
         NEW y, y \in [Syn!Charts -> SUBSET Syn!Versions], NEW z, z \subseteq Syn!Charts \X Syn!Versions,
         store' = [store EXCEPT !.checksum = x, !.charts = y, !.files = z]
  PROVE  /\ SynStoreTyped' /\ SynPublished' = SynPublished
         /\ store'.checksum = x /\ store'.charts = y /\ store'.files = z
         /\ store'.index = store.index /\ store'.next = store.next
<1>1. store = [index |-> store.index, next |-> store.next, checksum |-> store.checksum,
                charts |-> store.charts, files |-> store.files]
  BY DEF SynTyped, SynStoreTyped
<1>2. store' = [index |-> store.index, next |-> store.next, checksum |-> x, charts |-> y, files |-> z]
  BY <1>1
<1>3. SynPublished' = SynPublished
  BY <1>2 DEF SynPublished
<1> QED
  BY <1>2, <1>3 DEF SynTyped, SynStoreTyped

(* What each step of a Job does, and that it keeps the types.                *)

SynRest(j) == \A k \in Jobs \ {j} : procs'[k] = procs[k]

\* A Job that goes on has its index, and more.
SynMoves(j, pc) ==
    procs'[j].pc = pc /\ procs'[j].index = procs[j].index /\ SynRest(j)

SynJobFields(j) ==
    procs[j] = [pc |-> procs[j].pc, index |-> procs[j].index, passes |-> procs[j].passes,
                todo |-> procs[j].todo, gone |-> procs[j].gone, imports |-> procs[j].imports]

LEMMA SynStartDoes ==
  ASSUME Syn!IndexesAssumption, SynTyped, NEW j \in Jobs, Syn!Start(j)
  PROVE  /\ SynTyped' /\ store' = store /\ SynRest(j) /\ procs'[j].pc = "fetched" /\ procs'[j].index = store.index
         /\ past'.together = (past.together \/ Syn!Others(j) # {})
         /\ past'.excused =
               (past.excused \/ \E k \in Syn!Others(j) : procs[k].pc = "dead" \/ procs[k].index # store.index)
<1>1. procs'[j] = [pc |-> "fetched", index |-> store.index, passes |-> <<>>, todo |-> {}, gone |-> {}, imports |-> {}]
      /\ procs' = [procs EXCEPT ![j] = procs'[j]] /\ store' = store
  BY DEF Syn!Start, Syn!Ended, SynTyped
<1>2. SynPublished' = SynPublished
  BY <1>1 DEF SynPublished
<1>3. SynJobTyped(j)'
  BY <1>1, <1>2, SynPublishedFacts DEF SynJobTyped, SynAt, SynWorks, Syn!Ended
<1>4. SynPastTyped' /\ past'.together = (past.together \/ Syn!Others(j) # {})
      /\ past'.excused =
            (past.excused \/ \E k \in Syn!Others(j) : procs[k].pc = "dead" \/ procs[k].index # store.index)
  BY DEF Syn!Start, Syn!Excuse, SynTyped, SynPastTyped
<1>5. SynStoreTyped'
  BY <1>1, <1>2 DEF SynTyped, SynStoreTyped
<1> QED
  BY <1>1, <1>2, <1>3, <1>4, <1>5, SynJobsTyped DEF SynTyped, SynRest

LEMMA SynLastChecksumDoes ==
  ASSUME Syn!IndexesAssumption, SynTyped, NEW j \in Jobs, Syn!LastChecksum(j)
  PROVE  /\ SynTyped' /\ store' = store /\ past' = past /\ procs[j].pc = "fetched"
         /\ \/ store.checksum = procs[j].index /\ procs'[j] = Syn!Ended /\ SynRest(j)
            \/ store.checksum # procs[j].index /\ SynMoves(j, "list")
<1>1. store' = store /\ past' = past /\ procs[j].pc = "fetched" /\ procs' = [procs EXCEPT ![j] = procs'[j]]
  BY DEF Syn!LastChecksum, SynTyped
<1>2. SynPublished' = SynPublished /\ SynStoreTyped' /\ SynPastTyped'
  BY <1>1 DEF SynPublished, SynTyped, SynStoreTyped, SynPastTyped
<1>3. SynJobTyped(j)
  BY DEF SynTyped
<1>4. CASE store.checksum = procs[j].index
  <2>1. procs'[j] = Syn!Ended
    BY <1>4 DEF Syn!LastChecksum, SynTyped
  <2>2. SynJobTyped(j)'
    <3>1. procs'[j] = [pc |-> "ended", index |-> Syn!NoCharts, passes |-> <<>>, todo |-> {}, gone |-> {}, imports |-> {}]
      BY <2>1 DEF Syn!Ended
    <3>2. procs'[j] = [Syn!Ended EXCEPT !.pc = procs'[j].pc]
      BY <3>1 DEF Syn!Ended
    <3>3. procs'[j].todo = {} /\ procs'[j].gone = {} /\ procs'[j].imports = {} /\ procs'[j].pc = "ended"
      BY <3>1
    <3> QED
      BY <3>1, <3>2, <3>3 DEF SynJobTyped, SynAt, SynWorks
  <2> QED
    BY <1>1, <1>2, <1>4, <2>1, <2>2, SynJobsTyped DEF SynTyped, SynRest
<1>5. CASE store.checksum # procs[j].index
  <2>1. /\ procs'[j].pc = "list" /\ procs'[j].passes \in {SynBoth, SynFull}
        /\ procs'[j] = [pc |-> "list", index |-> procs[j].index, passes |-> procs'[j].passes,
                        todo |-> procs[j].todo, gone |-> procs[j].gone, imports |-> procs[j].imports]
    BY <1>3, <1>5 DEF Syn!LastChecksum, SynTyped, SynJobTyped, SynBoth, SynFull
  <2>2. SynJobTyped(j)'
    BY <1>1, <1>2, <1>3, <2>1 DEF SynJobTyped, SynAt, SynWorks
  <2> QED
    BY <1>1, <1>2, <1>5, <2>1, <2>2, SynJobsTyped DEF SynTyped, SynRest, SynMoves
<1> QED
  BY <1>4, <1>5

LEMMA SynListChartsDoes ==
  ASSUME Syn!IndexesAssumption, SynTyped, NEW j \in Jobs, Syn!ListCharts(j)
  PROVE  /\ SynTyped' /\ store' = store /\ past' = past /\ procs[j].pc = "list" /\ SynMoves(j, "sync")
         /\ procs'[j].passes = procs[j].passes /\ procs'[j].todo = Syn!Listed(procs[j].index)
         /\ procs'[j].gone = Syn!Listed(store.charts) \ Syn!Listed(procs[j].index)
<1>1. store' = store /\ past' = past /\ procs[j].pc = "list" /\ procs' = [procs EXCEPT ![j] = procs'[j]]
  BY DEF Syn!ListCharts, SynTyped
<1>2. SynPublished' = SynPublished /\ SynStoreTyped' /\ SynPastTyped'
  BY <1>1 DEF SynPublished, SynTyped, SynStoreTyped, SynPastTyped
<1>3. SynJobTyped(j)
  BY DEF SynTyped
<1>4. Syn!Listed(procs[j].index) # {}
  BY <1>1, <1>3, SynPublishedFacts DEF SynJobTyped, SynWorks, SynAt
<1>5. procs'[j] = [pc |-> "sync", index |-> procs[j].index, passes |-> procs[j].passes,
                   todo |-> Syn!Listed(procs[j].index), gone |-> Syn!Listed(store.charts) \ Syn!Listed(procs[j].index),
                   imports |-> procs[j].imports]
  BY <1>3, <1>4 DEF Syn!ListCharts, SynTyped, SynJobTyped
<1>6. Syn!Listed(store.charts) \subseteq Syn!Charts
  BY DEF Syn!Listed
<1>7. SynJobTyped(j)'
  BY <1>1, <1>2, <1>3, <1>5, <1>6 DEF SynJobTyped, SynAt, SynWorks
<1> QED
  BY <1>1, <1>2, <1>5, <1>7, SynJobsTyped DEF SynTyped, SynRest, SynMoves

LEMMA SynSyncDoes ==
  ASSUME Syn!IndexesAssumption, SynTyped, NEW j \in Jobs, Syn!Sync(j)
  PROVE  /\ SynTyped' /\ past' = past /\ procs[j].pc = "sync" /\ SynMoves(j, "sync")
         /\ procs'[j].passes = procs[j].passes /\ procs'[j].gone = procs[j].gone
         /\ store'.index = store.index /\ store'.next = store.next /\ store'.files = store.files
         /\ store'.checksum = (IF store.checksum = None THEN Blank ELSE store.checksum)
         /\ \E c \in procs[j].todo :
               /\ procs'[j].todo = procs[j].todo \ {c} /\ store'.charts[c] # {}
               /\ procs[j].passes = SynFull => store'.charts[c] = procs[j].index[c]
               /\ \A d \in Syn!Charts \ {c} : store'.charts[d] = store.charts[d]
<1>1. past' = past /\ procs[j].pc = "sync" /\ procs' = [procs EXCEPT ![j] = procs'[j]] /\ SynJobTyped(j)
  BY DEF Syn!Sync, SynTyped
<1>2. PICK c \in procs[j].todo :
         /\ store' = [store EXCEPT !.charts[c] = Syn!Pass(j)[c],
                         !.checksum = IF @ = None THEN Blank ELSE @]
         /\ procs' = [procs EXCEPT ![j].todo = @ \ {c}]
  BY DEF Syn!Sync
<1>3. procs'[j] = [pc |-> procs[j].pc, index |-> procs[j].index, passes |-> procs[j].passes,
                   todo |-> procs[j].todo \ {c}, gone |-> procs[j].gone, imports |-> procs[j].imports]
  BY <1>1, <1>2 DEF SynTyped, SynJobTyped
<1>4. procs[j].index \in SynPublished /\ procs[j].passes \in {SynBoth, SynFull}
      /\ procs[j].todo \subseteq Syn!Listed(procs[j].index)
  BY <1>1 DEF SynJobTyped, SynWorks, SynAt
<1>5. c \in Syn!Charts /\ procs[j].index[c] # {}
  BY <1>4 DEF Syn!Listed
<1>6. PICK i \in 1..Len(Indexes) : procs[j].index = Indexes[i]
  BY <1>4, SynPublishedFacts
<1>7. Head(procs[j].passes) \in BOOLEAN /\ (procs[j].passes = SynFull => Head(procs[j].passes) = FALSE)
  BY <1>4, SynPassesFacts
<1>8. /\ Syn!Pass(j) \in [Syn!Charts -> SUBSET Syn!Versions] /\ Syn!Pass(j)[c] # {}
      /\ procs[j].passes = SynFull => Syn!Pass(j) = procs[j].index
  BY <1>5, <1>6, <1>7, SynPassFacts, ZenonT(60) DEF Syn!Pass
<1> DEFINE y == [store.charts EXCEPT ![c] = Syn!Pass(j)[c]]
           x == IF store.checksum = None THEN Blank ELSE store.checksum
<1>9. /\ store.charts \in [Syn!Charts -> SUBSET Syn!Versions] /\ store.checksum \in {None, Blank} \cup SynPublished
      /\ store.files \subseteq Syn!Charts \X Syn!Versions
      /\ store = [index |-> store.index, next |-> store.next, checksum |-> store.checksum,
                  charts |-> store.charts, files |-> store.files]
  BY DEF SynTyped, SynStoreTyped
<1>10. y \in [Syn!Charts -> SUBSET Syn!Versions] /\ x \in {None, Blank} \cup SynPublished
  BY <1>5, <1>8, <1>9
<1>11. store' = [store EXCEPT !.checksum = x, !.charts = y, !.files = store.files]
  BY <1>2, <1>9
<1>12. y[c] = Syn!Pass(j)[c] /\ \A d \in Syn!Charts \ {c} : y[d] = store.charts[d]
  BY <1>5, <1>9
<1> HIDE DEF x, y
<1>13. /\ SynStoreTyped' /\ SynPublished' = SynPublished
       /\ store'.checksum = x /\ store'.charts = y /\ store'.files = store.files
       /\ store'.index = store.index /\ store'.next = store.next
  BY <1>9, <1>10, <1>11, SynStoreStaysTyped
<1>14. SynJobTyped(j)'
  BY <1>1, <1>3, <1>13 DEF SynJobTyped, SynAt, SynWorks
<1>15. SynTyped' /\ SynRest(j)
  BY <1>1, <1>13, <1>14, SynJobsTyped DEF SynTyped, SynPastTyped, SynRest
<1> QED
  BY <1>1, <1>3, <1>8, <1>12, <1>13, <1>15 DEF SynMoves, x

LEMMA SynAllSyncedDoes ==
  ASSUME Syn!IndexesAssumption, SynTyped, NEW j \in Jobs, Syn!AllSynced(j)
  PROVE  /\ SynTyped' /\ store' = store /\ past' = past /\ procs[j].pc = "sync" /\ SynMoves(j, "remove")
         /\ procs[j].todo = {} /\ procs'[j].passes = procs[j].passes /\ procs'[j].gone = procs[j].gone
         /\ procs[j].passes = SynFull => procs'[j].imports = Syn!FilesOf(procs[j].index)
<1>1. /\ store' = store /\ past' = past /\ procs[j].pc = "sync" /\ procs[j].todo = {}
      /\ procs' = [procs EXCEPT ![j] = procs'[j]] /\ SynJobTyped(j)
  BY DEF Syn!AllSynced, SynTyped
<1>2. SynPublished' = SynPublished /\ SynStoreTyped' /\ SynPastTyped'
  BY <1>1 DEF SynPublished, SynTyped, SynStoreTyped, SynPastTyped
<1>3. procs'[j] = [pc |-> "remove", index |-> procs[j].index, passes |-> procs[j].passes,
                   todo |-> procs[j].todo, gone |-> procs[j].gone, imports |-> Syn!FilesOf(Syn!Pass(j))]
  BY <1>1 DEF Syn!AllSynced, SynTyped, SynJobTyped
<1>4. procs[j].index \in SynPublished /\ procs[j].passes \in {SynBoth, SynFull}
  BY <1>1 DEF SynJobTyped, SynWorks, SynAt
<1>5. PICK i \in 1..Len(Indexes) : procs[j].index = Indexes[i]
  BY <1>4, SynPublishedFacts
<1>6. Head(procs[j].passes) \in BOOLEAN /\ (procs[j].passes = SynFull => Head(procs[j].passes) = FALSE)
  BY <1>4, SynPassesFacts
<1>7. /\ \A c \in Syn!Charts : Syn!Pass(j)[c] \subseteq procs[j].index[c]
      /\ procs[j].passes = SynFull => Syn!Pass(j) = procs[j].index
  BY <1>5, <1>6, SynPassFacts DEF Syn!Pass
<1>8. Syn!FilesOf(Syn!Pass(j)) \subseteq Syn!FilesOf(procs[j].index)
  BY <1>7 DEF Syn!FilesOf
<1>9. SynJobTyped(j)'
  BY <1>1, <1>2, <1>3, <1>8 DEF SynJobTyped, SynAt, SynWorks
<1> QED
  BY <1>1, <1>2, <1>3, <1>7, <1>9, SynJobsTyped DEF SynTyped, SynRest, SynMoves

LEMMA SynImportFilesDoes ==
  ASSUME Syn!IndexesAssumption, SynTyped, NEW j \in Jobs, Syn!ImportFiles(j)
  PROVE  /\ SynTyped' /\ SynAt(j, {"remove", "wait"}) /\ SynMoves(j, procs[j].pc)
         /\ procs'[j].passes = procs[j].passes /\ procs'[j].gone = procs[j].gone
         /\ procs'[j].todo = procs[j].todo
         /\ past'.excused \/
              /\ past' = past /\ UNCHANGED <<store.index, store.next, store.checksum, store.charts>>
              /\ \E f \in procs[j].imports :
                    /\ procs'[j].imports = procs[j].imports \ {f}
                    /\ store'.files = IF store.charts[f[1]] = {} THEN store.files ELSE store.files \cup {f}
<1>1. PICK f \in procs[j].imports :
         /\ procs' = [procs EXCEPT ![j].imports = @ \ {f}]
         /\ \/ /\ store' = [store EXCEPT !.files = IF store.charts[f[1]] = {} THEN @ ELSE @ \cup {f}]
               /\ UNCHANGED past
            \/ /\ f \notin store.files /\ past.errors < Max.syncer.errors
               /\ past' = Syn!Excuse([past EXCEPT !.errors = @ + 1], TRUE)
               /\ UNCHANGED store
  BY DEF Syn!ImportFiles
<1>2. SynJobTyped(j) /\ SynAt(j, {"remove", "wait"})
  BY <1>1 DEF SynTyped, SynJobTyped
<1>3. /\ procs' = [procs EXCEPT ![j] = procs'[j]]
      /\ procs'[j] = [pc |-> procs[j].pc, index |-> procs[j].index, passes |-> procs[j].passes,
                      todo |-> procs[j].todo, gone |-> procs[j].gone, imports |-> procs[j].imports \ {f}]
  BY <1>1, <1>2 DEF SynTyped, SynJobTyped
<1>4. f \in Syn!Charts \X Syn!Versions
  BY <1>2 DEF SynJobTyped, Syn!FilesOf
<1>5. ASSUME SynPublished' = SynPublished PROVE SynJobTyped(j)'
  BY <1>2, <1>3, <1>5 DEF SynJobTyped, SynAt, SynWorks
<1>6. CASE UNCHANGED past
  <2> DEFINE z == IF store.charts[f[1]] = {} THEN store.files ELSE store.files \cup {f}
  <2>1. /\ store.charts \in [Syn!Charts -> SUBSET Syn!Versions] /\ store.checksum \in {None, Blank} \cup SynPublished
        /\ store.files \subseteq Syn!Charts \X Syn!Versions
        /\ store = [index |-> store.index, next |-> store.next, checksum |-> store.checksum,
                    charts |-> store.charts, files |-> store.files]
    BY DEF SynTyped, SynStoreTyped
  <2>2. z \subseteq Syn!Charts \X Syn!Versions
    BY <1>4, <2>1
  <2>3. store' = [store EXCEPT !.checksum = store.checksum, !.charts = store.charts, !.files = z]
        \/ past'.excused
    BY <1>1, <2>1 DEF Syn!Excuse, SynTyped, SynPastTyped
  <2>4. CASE past'.excused
    <3>1. past.excused /\ (store' = store \/ store' = [store EXCEPT !.files = z])
      BY <1>1, <1>6, <2>4
    <3>2. store' = [store EXCEPT !.checksum = store.checksum, !.charts = store.charts, !.files = store'.files]
          /\ store'.files \subseteq Syn!Charts \X Syn!Versions
      BY <2>1, <2>2, <3>1
    <3>3. SynStoreTyped' /\ SynPublished' = SynPublished
      BY <2>1, <3>2, SynStoreStaysTyped
    <3> QED
      BY <1>2, <1>3, <1>5, <1>6, <2>4, <3>3, SynJobsTyped DEF SynTyped, SynPastTyped, SynRest, SynMoves
  <2>5. CASE store' = [store EXCEPT !.checksum = store.checksum, !.charts = store.charts, !.files = z]
    <3> HIDE DEF z
    <3>1. /\ SynStoreTyped' /\ SynPublished' = SynPublished
          /\ store'.checksum = store.checksum /\ store'.charts = store.charts /\ store'.files = z
          /\ store'.index = store.index /\ store'.next = store.next
      BY <2>1, <2>2, <2>5, SynStoreStaysTyped
    <3>2. SynTyped' /\ SynRest(j)
      BY <1>3, <1>5, <1>6, <3>1, SynJobsTyped DEF SynTyped, SynPastTyped, SynRest
    <3>3. SynMoves(j, procs[j].pc)
      BY <1>3, <3>2 DEF SynMoves
    <3>4. procs'[j].imports = procs[j].imports \ {f}
          /\ store'.files = IF store.charts[f[1]] = {} THEN store.files ELSE store.files \cup {f}
      BY <1>3, <3>1 DEF z
    <3>5. past' = past /\ UNCHANGED <<store.index, store.next, store.checksum, store.charts>>
      BY <1>6, <3>1
    <3>6. procs'[j].passes = procs[j].passes /\ procs'[j].gone = procs[j].gone /\ procs'[j].todo = procs[j].todo
      BY <1>3
    <3> QED
      BY <1>2, <3>2, <3>3, <3>4, <3>5, <3>6, Zenon
  <2> QED
    BY <2>3, <2>4, <2>5
<1>7. CASE past' = Syn!Excuse([past EXCEPT !.errors = @ + 1], TRUE) /\ UNCHANGED store
  <2>1. SynPastTyped' /\ past'.excused
    BY <1>7 DEF Syn!Excuse, SynTyped, SynPastTyped
  <2>2. SynPublished' = SynPublished /\ SynStoreTyped'
    BY <1>7 DEF SynPublished, SynTyped, SynStoreTyped
  <2> QED
    BY <1>2, <1>3, <1>5, <2>1, <2>2, SynJobsTyped DEF SynTyped, SynRest, SynMoves
<1> QED
  BY <1>1, <1>6, <1>7

LEMMA SynWithoutDoes ==
  ASSUME SynTyped, NEW gone, NEW x, x \in {None, Blank} \cup SynPublished,
         store' = [Syn!Without(gone) EXCEPT !.checksum = x]
  PROVE  /\ SynStoreTyped' /\ SynPublished' = SynPublished
         /\ store'.checksum = x /\ store'.index = store.index /\ store'.next = store.next
         /\ \A c \in Syn!Charts : store'.charts[c] = IF c \in gone THEN {} ELSE store.charts[c]
         /\ store'.files = {f \in store.files : f[1] \notin gone}
<1>1. /\ store.charts \in [Syn!Charts -> SUBSET Syn!Versions] /\ store.files \subseteq Syn!Charts \X Syn!Versions
      /\ store = [index |-> store.index, next |-> store.next, checksum |-> store.checksum,
                  charts |-> store.charts, files |-> store.files]
  BY DEF SynTyped, SynStoreTyped
<1> DEFINE y == [c \in Syn!Charts |-> IF c \in gone THEN {} ELSE store.charts[c]]
           z == {f \in store.files : f[1] \notin gone}
<1>2. store' = [store EXCEPT !.checksum = x, !.charts = y, !.files = z]
  BY <1>1 DEF Syn!Without
<1>3. y \in [Syn!Charts -> SUBSET Syn!Versions] /\ z \subseteq Syn!Charts \X Syn!Versions
  BY <1>1
<1> HIDE DEF y, z
<1>4. /\ SynStoreTyped' /\ SynPublished' = SynPublished
      /\ store'.checksum = x /\ store'.charts = y /\ store'.files = z
      /\ store'.index = store.index /\ store'.next = store.next
  BY <1>2, <1>3, SynStoreStaysTyped
<1> QED
  BY <1>4 DEF y, z

LEMMA SynRemoveMissingChartsDoes ==
  ASSUME Syn!IndexesAssumption, SynTyped, NEW j \in Jobs, Syn!RemoveMissingCharts(j)
  PROVE  /\ SynTyped' /\ past' = past /\ procs[j].pc = "remove" /\ SynMoves(j, "wait")
         /\ procs'[j].passes = procs[j].passes /\ procs'[j].imports = procs[j].imports
         /\ UNCHANGED <<store.index, store.next, store.checksum>>
         /\ \A c \in Syn!Charts : store'.charts[c] = IF c \in procs[j].gone THEN {} ELSE store.charts[c]
         /\ store'.files = {f \in store.files : f[1] \notin procs[j].gone}
<1>1. /\ past' = past /\ procs[j].pc = "remove" /\ SynJobTyped(j)
      /\ procs' = [procs EXCEPT ![j] = procs'[j]] /\ store' = Syn!Without(procs[j].gone)
  BY DEF Syn!RemoveMissingCharts, Syn!Goes, SynTyped
<1>2. store' = [Syn!Without(procs[j].gone) EXCEPT !.checksum = store.checksum]
      /\ store.checksum \in {None, Blank} \cup SynPublished
  BY <1>1 DEF Syn!Without, SynTyped, SynStoreTyped
<1>3. procs'[j] = [pc |-> "wait", index |-> procs[j].index, passes |-> procs[j].passes,
                   todo |-> procs[j].todo, gone |-> procs[j].gone, imports |-> procs[j].imports]
  BY <1>1 DEF Syn!RemoveMissingCharts, Syn!Goes, SynTyped, SynJobTyped
<1>4. /\ SynStoreTyped' /\ SynPublished' = SynPublished
      /\ UNCHANGED <<store.index, store.next, store.checksum>>
      /\ \A c \in Syn!Charts : store'.charts[c] = IF c \in procs[j].gone THEN {} ELSE store.charts[c]
      /\ store'.files = {f \in store.files : f[1] \notin procs[j].gone}
  <2> DEFINE gone == procs[j].gone
             x == store.checksum
  <2>1. store' = [Syn!Without(gone) EXCEPT !.checksum = x] /\ x \in {None, Blank} \cup SynPublished
    BY <1>2
  <2> HIDE DEF gone, x
  <2>2. /\ SynStoreTyped' /\ SynPublished' = SynPublished
        /\ store'.checksum = x /\ store'.index = store.index /\ store'.next = store.next
        /\ \A c \in Syn!Charts : store'.charts[c] = IF c \in gone THEN {} ELSE store.charts[c]
        /\ store'.files = {f \in store.files : f[1] \notin gone}
    BY <2>1, SynWithoutDoes
  <2> QED
    BY <2>2 DEF gone, x
<1>5. SynJobTyped(j)'
  BY <1>1, <1>3, <1>4 DEF SynJobTyped, SynAt, SynWorks
<1>6. SynTyped' /\ SynRest(j)
  BY <1>1, <1>4, <1>5, SynJobsTyped DEF SynTyped, SynPastTyped, SynRest
<1> QED
  BY <1>1, <1>3, <1>4, <1>6 DEF SynMoves

LEMMA SynFilesImportedDoes ==
  ASSUME Syn!IndexesAssumption, SynTyped, NEW j \in Jobs, Syn!FilesImported(j)
  PROVE  /\ SynTyped' /\ store' = store /\ past' = past /\ procs[j].pc = "wait" /\ procs[j].imports = {}
         /\ \/ procs[j].passes = SynBoth /\ SynMoves(j, "list")
            \/ procs[j].passes = SynFull /\ procs'[j].passes = SynFull /\ SynMoves(j, "check")
<1>1. /\ store' = store /\ past' = past /\ procs[j].pc = "wait" /\ procs[j].imports = {} /\ SynJobTyped(j)
      /\ procs' = [procs EXCEPT ![j] = procs'[j]]
  BY DEF Syn!FilesImported, Syn!Goes, SynTyped
<1>2. SynPublished' = SynPublished /\ SynStoreTyped' /\ SynPastTyped'
  BY <1>1 DEF SynPublished, SynTyped, SynStoreTyped, SynPastTyped
<1>3. procs[j].passes \in {SynBoth, SynFull}
  BY <1>1 DEF SynJobTyped, SynWorks, SynAt
<1>4. CASE procs[j].passes = SynBoth
  <2>1. procs'[j] = [pc |-> "list", index |-> procs[j].index, passes |-> SynFull,
                     todo |-> procs[j].todo, gone |-> procs[j].gone, imports |-> procs[j].imports]
    <3>1. Len(procs[j].passes) > 1 /\ Tail(procs[j].passes) = SynFull
      <4>1. 2 > 1
        OBVIOUS
      <4> QED
        BY <1>4, <4>1, SynPassesFacts, Zenon
    <3>2. procs' = [procs EXCEPT ![j].pc = "list", ![j].passes = SynFull]
      BY <3>1 DEF Syn!FilesImported
    <3> QED
      BY <1>1, <3>2 DEF SynTyped, SynJobTyped
  <2>2. SynJobTyped(j)'
    BY <1>1, <1>2, <2>1 DEF SynJobTyped, SynAt, SynWorks
  <2> QED
    BY <1>1, <1>2, <1>4, <2>1, <2>2, SynJobsTyped DEF SynTyped, SynRest, SynMoves
<1>5. CASE procs[j].passes = SynFull
  <2>1. procs'[j] = [pc |-> "check", index |-> procs[j].index, passes |-> procs[j].passes,
                     todo |-> procs[j].todo, gone |-> procs[j].gone, imports |-> procs[j].imports]
    <3>1. ~(Len(procs[j].passes) > 1)
      <4>1. ~(1 > 1)
        OBVIOUS
      <4> QED
        BY <1>5, <4>1, SynPassesFacts, Zenon
    <3> QED
      BY <1>1, <3>1 DEF Syn!FilesImported, Syn!Goes, SynTyped, SynJobTyped
  <2>2. SynJobTyped(j)'
    BY <1>1, <1>2, <1>5, <2>1 DEF SynJobTyped, SynAt, SynWorks
  <2> QED
    BY <1>1, <1>2, <1>5, <2>1, <2>2, SynJobsTyped DEF SynTyped, SynRest, SynMoves
<1> QED
  BY <1>3, <1>4, <1>5

LEMMA SynUpdateLastCheckDoes ==
  ASSUME Syn!IndexesAssumption, SynTyped, NEW j \in Jobs, Syn!UpdateLastCheck(j)
  PROVE  /\ SynTyped' /\ past' = past /\ procs[j].pc = "check" /\ procs'[j] = Syn!Ended /\ SynRest(j)
         /\ procs[j].index \in SynPublished /\ procs[j].passes = SynFull
         /\ UNCHANGED <<store.index, store.next, store.charts, store.files>>
         /\ store'.checksum = procs[j].index
<1>1. /\ past' = past /\ procs[j].pc = "check" /\ SynJobTyped(j)
      /\ procs' = [procs EXCEPT ![j] = procs'[j]] /\ store' = [store EXCEPT !.checksum = procs[j].index]
      /\ procs'[j] = Syn!Ended
  BY DEF Syn!UpdateLastCheck, SynTyped
<1>2. procs[j].index \in SynPublished /\ procs[j].passes = SynFull
  BY <1>1 DEF SynJobTyped, SynWorks, SynAt
<1>3. /\ store.charts \in [Syn!Charts -> SUBSET Syn!Versions] /\ store.files \subseteq Syn!Charts \X Syn!Versions
      /\ store' = [store EXCEPT !.checksum = procs[j].index, !.charts = store.charts, !.files = store.files]
  BY <1>1 DEF SynTyped, SynStoreTyped
<1>4. /\ SynStoreTyped' /\ SynPublished' = SynPublished /\ store'.checksum = procs[j].index
      /\ UNCHANGED <<store.index, store.next, store.charts, store.files>>
  BY <1>2, <1>3, SynStoreStaysTyped, ZenonT(60)
<1>5. SynJobTyped(j)'
  <2>1. procs'[j] = [pc |-> "ended", index |-> Syn!NoCharts, passes |-> <<>>, todo |-> {}, gone |-> {}, imports |-> {}]
    BY <1>1 DEF Syn!Ended
  <2>2. procs'[j] = [Syn!Ended EXCEPT !.pc = procs'[j].pc]
    <3>1. procs'[j].pc = "ended"
      BY <2>1
    <3> QED
      BY <2>1, <3>1 DEF Syn!Ended
  <2>3. procs'[j].todo = {} /\ procs'[j].gone = {} /\ procs'[j].imports = {} /\ procs'[j].pc = "ended"
    BY <2>1
  <2> QED
    BY <2>1, <2>2, <2>3 DEF SynJobTyped, SynAt, SynWorks
<1>6. SynTyped' /\ SynRest(j)
  BY <1>1, <1>4, <1>5, SynJobsTyped DEF SynTyped, SynPastTyped, SynRest
<1> QED
  BY <1>1, <1>2, <1>4, <1>6

LEMMA SynDieDoes ==
  ASSUME Syn!IndexesAssumption, SynTyped, NEW j \in Jobs, Syn!Die(j)
  PROVE  /\ SynTyped' /\ store' = store /\ SynRest(j)
         /\ Syn!Running(j) /\ procs[j].pc # "dead" /\ procs'[j].pc = "dead"
         /\ past'.together = past.together /\ past'.excused = (past.excused \/ past.together)
<1>1. /\ store' = store /\ Syn!Running(j) /\ procs[j].pc # "dead" /\ procs' = [procs EXCEPT ![j] = procs'[j]]
      /\ procs'[j] = [pc |-> "dead", index |-> Syn!NoCharts, passes |-> <<>>, todo |-> {}, gone |-> {}, imports |-> {}]
  BY DEF Syn!Die, Syn!Ended, SynTyped
<1>2. SynPublished' = SynPublished /\ SynStoreTyped'
  BY <1>1 DEF SynPublished, SynTyped, SynStoreTyped
<1>3. SynPastTyped' /\ past'.together = past.together /\ past'.excused = (past.excused \/ past.together)
  BY DEF Syn!Die, Syn!Excuse, SynTyped, SynPastTyped
<1>4. SynJobTyped(j)'
  <2>1. procs'[j] = [Syn!Ended EXCEPT !.pc = procs'[j].pc]
    <3>1. procs'[j] = [Syn!Ended EXCEPT !.pc = "dead"]
      BY DEF Syn!Die, SynTyped
    <3>2. procs'[j].pc = "dead"
      BY <1>1
    <3> QED
      BY <3>1, <3>2
  <2>2. procs'[j].todo = {} /\ procs'[j].gone = {} /\ procs'[j].imports = {} /\ procs'[j].pc = "dead"
    BY <1>1
  <2> QED
    BY <1>1, <2>1, <2>2 DEF SynJobTyped, SynAt, SynWorks
<1> QED
  BY <1>1, <1>2, <1>3, <1>4, SynJobsTyped DEF SynTyped, SynRest

LEMMA SynCleanUpDoes ==
  ASSUME Syn!IndexesAssumption, SynTyped, Syn!CleanUp
  PROVE  /\ SynTyped' /\ procs' = procs /\ store'.checksum = None /\ past'.together = past.together
         /\ past'.excused = (past.excused \/ \E j \in Jobs : Syn!Running(j))
         /\ UNCHANGED <<store.index, store.next>>
<1>1. /\ procs' = procs /\ store' = [Syn!Without(Syn!Charts) EXCEPT !.checksum = None]
  BY DEF Syn!CleanUp
<1>2. SynPastTyped' /\ past'.together = past.together
      /\ past'.excused = (past.excused \/ \E j \in Jobs : Syn!Running(j))
  BY DEF Syn!CleanUp, Syn!Excuse, SynTyped, SynPastTyped
<1>3. /\ SynStoreTyped' /\ SynPublished' = SynPublished /\ store'.checksum = None
      /\ UNCHANGED <<store.index, store.next>>
  BY <1>1, SynWithoutDoes
<1>4. \A j \in Jobs : SynJobTyped(j)'
  BY <1>1, <1>3 DEF SynTyped, SynJobTyped, SynAt, SynWorks
<1> QED
  BY <1>1, <1>2, <1>3, <1>4 DEF SynTyped

LEMMA SynPublishDoes ==
  ASSUME Syn!IndexesAssumption, SynTyped, Syn!Publish
  PROVE  /\ SynTyped' /\ procs' = procs /\ past' = past /\ UNCHANGED <<store.checksum, store.charts, store.files>>
         /\ SynPublished \subseteq SynPublished' /\ store'.index \notin SynPublished
<1>1. /\ store.next \in 2..Len(Indexes) /\ Len(Indexes) \in Nat /\ procs' = procs /\ past' = past
      /\ store' = [store EXCEPT !.index = Indexes[store.next], !.next = store.next + 1]
  BY SynIndexFacts DEF Syn!Publish, SynTyped, SynStoreTyped
<1>2. /\ store'.index = Indexes[store.next] /\ store'.next = store.next + 1
      /\ UNCHANGED <<store.checksum, store.charts, store.files>>
      /\ store' = [index |-> store'.index, next |-> store'.next, checksum |-> store'.checksum,
                   charts |-> store'.charts, files |-> store'.files]
  BY <1>1 DEF SynTyped, SynStoreTyped
<1>3. 1..store.next - 1 \subseteq 1..store'.next - 1 /\ store'.next - 1 = store.next
  BY <1>1, <1>2
<1>4. SynPublished \subseteq SynPublished'
  BY <1>3 DEF SynPublished
<1>5. store'.index \notin SynPublished
  <2> SUFFICES ASSUME NEW i \in 1..store.next - 1, Indexes[store.next] = Indexes[i] PROVE FALSE
    BY <1>2 DEF SynPublished
  <2>1. i \in DOMAIN Indexes /\ store.next \in DOMAIN Indexes /\ i # store.next
    BY <1>1, SynIndexFacts
  <2> QED
    BY <2>1 DEF Syn!IndexesAssumption
<1>6. SynStoreTyped'
  BY <1>1, <1>2, <1>3, <1>4 DEF SynTyped, SynStoreTyped
<1>7. \A j \in Jobs : SynJobTyped(j)'
  BY <1>1, <1>4 DEF SynTyped, SynJobTyped, SynAt, SynWorks
<1> QED
  BY <1>1, <1>2, <1>4, <1>5, <1>6, <1>7 DEF SynTyped, SynPastTyped

(* The invariant: what a step leaves of it.                                  *)

SyncParts == SynApart /\ SynChecksumInv /\ \A j \in Jobs : SynJobInv(j)

\* What a Job with an index has done is not undone.
SynKept(x) ==
    /\ \A c \in Syn!Charts \ Syn!Listed(x) : store'.charts[c] = store.charts[c] \/ store'.charts[c] = {}
    /\ \A c \in Syn!Listed(x) : /\ store.charts[c] # {} => store'.charts[c] # {}
                                /\ SynWritten(x, c) => SynWritten(x, c)'
    /\ \A f \in Syn!FilesOf(x) : f \in store.files => f \in store'.files

\* The parts of the invariant, of the next state, with the index by a name.
LEMMA SynJobNext ==
  ASSUME NEW j \in Jobs, NEW x, procs'[j].index = x, SynWorks(j)' => SynJobHas(j, x)'
  PROVE  SynJobInv(j)'
BY DEF SynJobInv, SynJobHas, SynWritten

LEMMA SynChecksumNext ==
  ASSUME NEW x, store'.checksum = x,
         x = Blank => \E j \in Jobs : Syn!Running(j)',
         x \in SynPublished' => SynStands(x)' \/ SynMovedOn(x)'
  PROVE  SynChecksumInv'
BY DEF SynChecksumInv, SynStands, SynMovedOn, SynWritten, Syn!Running

\* A Job that does nothing.
LEMMA SynJobKeeps ==
  ASSUME NEW k \in Jobs, NEW x, procs[k].index = x, procs'[k] = procs[k], SynJobInv(k), SynWorks(k) => SynKept(x),
         SynWorks(k) /\ ~past'.together => store'.checksum # x
  PROVE  SynJobInv(k)'
<1>1. ASSUME SynWorks(k) PROVE SynJobHas(k, x)'
  <2>1. SynJobHas(k, x) /\ SynKept(x)
    BY <1>1 DEF SynJobInv
  <2>2. /\ \A c : SynBy(k, c)' = SynBy(k, c) /\ (SynBy(k, c) => c \in Syn!Listed(x))
        /\ procs'[k].passes = procs[k].passes /\ procs'[k].gone = procs[k].gone
        /\ procs'[k].imports = procs[k].imports /\ \A s : SynAt(k, s)' = SynAt(k, s)
    BY DEF SynBy, SynAt
  <2>3. \A c \in Syn!Charts : SynBy(k, c) => store'.charts[c] # {}
    BY <2>1, <2>2 DEF SynJobHas, SynKept
  <2>4. procs[k].passes = SynFull => \A c \in Syn!Charts : SynBy(k, c) => SynWritten(x, c)'
    BY <2>1, <2>2 DEF SynJobHas, SynKept
  <2>5. procs[k].passes = SynFull /\ SynAt(k, {"remove", "wait", "check"}) =>
           Syn!FilesOf(x) \subseteq store'.files \cup procs[k].imports
    BY <2>1 DEF SynJobHas, SynKept
  <2>6. \A c \in Syn!Charts \ Syn!Listed(x) :
           /\ SynAt(k, {"sync", "remove"}) => store'.charts[c] = {} \/ c \in procs[k].gone
           /\ SynAt(k, {"wait", "check"}) => store'.charts[c] = {}
    BY <2>1 DEF SynJobHas, SynKept
  <2> QED
    BY <1>1, <2>2, <2>3, <2>4, <2>5, <2>6 DEF SynJobHas
<1>2. SynWorks(k)' => SynWorks(k)
  BY DEF SynWorks, SynAt
<1> QED
  BY <1>1, <1>2, SynJobNext

LEMMA SynStandsStays ==
  ASSUME NEW x, SynStands(x), SynKept(x),
         \A k \in Jobs : (Syn!Running(k) /\ procs[k].pc # "dead" => procs[k].index = x)'
  PROVE  SynStands(x)'
<1>1. \A c \in Syn!Charts : SynWritten(x, c) /\ (c \notin Syn!Listed(x) => store.charts[c] = {})
  BY DEF SynStands
<1>2. \A c \in Syn!Charts : c \notin Syn!Listed(x) => store'.charts[c] = {} /\ x[c] = {}
  BY <1>1 DEF SynKept, Syn!Listed
<1>3. \A c \in Syn!Charts : SynWritten(x, c)'
  <2> TAKE c \in Syn!Charts
  <2>1. CASE c \in Syn!Listed(x)
    BY <1>1, <2>1 DEF SynKept
  <2>2. CASE c \notin Syn!Listed(x)
    BY <1>2, <2>2 DEF SynWritten
  <2> QED
    BY <2>1, <2>2
<1>4. Syn!FilesOf(x) \subseteq store'.files
  BY DEF SynStands, SynKept
<1> QED
  BY <1>2, <1>3, <1>4 DEF SynStands

\* A Job that runs on.
LEMMA SynJobRunsOn ==
  ASSUME Syn!IndexesAssumption, SynTyped, SyncParts, NEW j \in Jobs, NEW pc,
         SynMoves(j, pc), pc \notin {"dead", "ended"},
         procs[j].pc \notin {"dead", "ended"}, past' = past,
         store'.index = store.index, store'.next = store.next,
         store'.checksum = store.checksum \/ store'.checksum = Blank,
         NEW x, x = procs[j].index, SynKept(x), SynJobInv(j)'
  PROVE  SyncParts'
<1>1. Syn!Running(j) /\ Syn!Running(j)' /\ procs'[j].index = x /\ procs'[j].pc = pc
      /\ \A k \in Jobs \ {j} : procs'[k] = procs[k]
  BY DEF Syn!Running, SynMoves, SynRest
<1>2. SynApart'
  BY <1>1 DEF SyncParts, SynApart, Syn!Running
<1>3. Blank \notin SynPublished /\ SynPublished' = SynPublished /\ x \in SynPublished
  <2>1. x \in SynPublished
    BY DEF SynTyped, SynJobTyped, SynWorks, SynAt
  <2> QED
    BY <2>1, SynPublishedFacts DEF SynPublished
<1>4. ASSUME NEW k \in Jobs \ {j} PROVE SynJobInv(k)'
  <2>1. CASE SynWorks(k)
    <3>1. Syn!Running(k)
      BY <2>1 DEF SynWorks, SynAt, Syn!Running
    <3>2. procs[k].index = x
      BY <1>1, <3>1 DEF SyncParts, SynApart
    <3>3. ~past'.together => store'.checksum # x
      BY <1>3, <2>1, <3>2 DEF SyncParts, SynJobInv, SynJobHas
    <3> QED
      BY <1>1, <3>2, <3>3, SynJobKeeps DEF SyncParts
  <2>2. CASE ~SynWorks(k)
    BY <1>1, <2>2 DEF SynJobInv, SynWorks, SynAt
  <2> QED
    BY <2>1, <2>2
<1>5. SynChecksumInv'
  <2>1. PICK y : y = store'.checksum
    OBVIOUS
  <2>2. ASSUME y \in SynPublished, SynStands(y) PROVE SynStands(y)'
    <3>1. y = x
      BY <1>1, <2>2 DEF SynStands
    <3>2. \A k \in Jobs : (Syn!Running(k) /\ procs[k].pc # "dead" => procs[k].index = x)'
      BY <1>1, <2>2, <3>1 DEF SynStands, Syn!Running
    <3> QED
      BY <2>2, <3>1, <3>2, SynStandsStays
  <2>3. ASSUME y \in SynPublished, SynMovedOn(y) PROVE SynMovedOn(y)'
    <3>1. \A k \in Jobs : (Syn!Running(k) /\ procs[k].pc # "dead")' => Syn!Running(k) /\ procs[k].pc # "dead"
      BY <1>1 DEF Syn!Running
    <3>2. \A k \in Jobs : procs'[k].index = procs[k].index
      BY <1>1
    <3> QED
      BY <1>1, <2>3, <3>1, <3>2 DEF SynMovedOn
  <2>4. y \in SynPublished' => SynStands(y)' \/ SynMovedOn(y)'
    <3> SUFFICES ASSUME y \in SynPublished' PROVE SynStands(y)' \/ SynMovedOn(y)'
      OBVIOUS
    <3>1. y \in SynPublished /\ y = store.checksum
      BY <1>3, <2>1
    <3>2. SynStands(y) \/ SynMovedOn(y)
      BY <3>1 DEF SyncParts, SynChecksumInv
    <3> QED
      BY <2>2, <2>3, <3>1, <3>2
  <2>5. y = Blank => \E k \in Jobs : Syn!Running(k)'
    BY <1>1
  <2> QED
    BY <2>1, <2>4, <2>5, SynChecksumNext
<1> QED
  BY <1>2, <1>4, <1>5 DEF SyncParts

\* What is written, and what others owe, in a step of a Job that writes nothing.
LEMMA SynNothingWritten ==
  ASSUME NEW j \in Jobs, UNCHANGED <<store.charts, store.files>>, \A k \in Jobs \ {j} : procs'[k] = procs[k],
         NEW x, \A c \in Syn!Listed(x) : procs[j].index = x /\ SynOwes(j, c) => (procs[j].index = x /\ SynOwes(j, c))'
  PROVE  SynKept(x)
<1>1. ASSUME NEW c \in Syn!Listed(x), SynWritten(x, c) PROVE SynWritten(x, c)'
  <2>1. ASSUME NEW k \in Jobs, procs[k].index = x, SynOwes(k, c) PROVE (procs[k].index = x /\ SynOwes(k, c))'
    <3>1. CASE k = j
      BY <2>1, <3>1
    <3>2. CASE k # j
      BY <2>1, <3>2 DEF SynOwes, SynWorks, SynAt
    <3> QED
      BY <3>1, <3>2
  <2> QED
    BY <1>1, <2>1 DEF SynWritten
<1> QED
  BY <1>1 DEF SynKept

LEMMA SynListChartsKeeps ==
  ASSUME Syn!IndexesAssumption, SynTyped, SyncParts, NEW j \in Jobs, Syn!ListCharts(j) PROVE SyncParts'
<1>0. PICK x : x = procs[j].index
  OBVIOUS
<1>1. /\ store' = store /\ past' = past /\ procs[j].pc = "list" /\ SynMoves(j, "sync")
      /\ procs'[j].passes = procs[j].passes /\ procs'[j].todo = Syn!Listed(x)
      /\ procs'[j].gone = Syn!Listed(store.charts) \ Syn!Listed(x)
  BY <1>0, SynListChartsDoes
<1>2. procs'[j].index = x /\ procs'[j].pc = "sync" /\ \A k \in Jobs \ {j} : procs'[k] = procs[k]
  BY <1>0, <1>1 DEF SynMoves, SynRest
<1>3. SynKept(x)
  <2>1. \A c \in Syn!Listed(x) : SynOwes(j, c)'
    BY <1>1, <1>2 DEF SynOwes
  <2> QED
    BY <1>1, <1>2, <2>1, SynNothingWritten
<1>4. SynJobHas(j, x)'
  <2>1. SynJobHas(j, x)
    BY <1>0, <1>1 DEF SynWorks, SynAt, SyncParts, SynJobInv
  <2>2. \A c : ~SynBy(j, c)'
    BY <1>1, <1>2 DEF SynBy, SynAt
  <2>3. \A c \in Syn!Charts : store.charts[c] = {} \/ c \in Syn!Listed(store.charts)
    BY DEF Syn!Listed
  <2> QED
    BY <1>1, <1>2, <2>1, <2>2, <2>3 DEF SynJobHas, SynAt
<1> QED
  BY <1>0, <1>1, <1>2, <1>3, <1>4, SynJobNext, SynJobRunsOn

LEMMA SynSyncKeeps ==
  ASSUME Syn!IndexesAssumption, SynTyped, SyncParts, NEW j \in Jobs, Syn!Sync(j) PROVE SyncParts'
<1>0. PICK x : x = procs[j].index
  OBVIOUS
<1>1. /\ past' = past /\ procs[j].pc = "sync" /\ SynMoves(j, "sync")
      /\ procs'[j].passes = procs[j].passes /\ procs'[j].gone = procs[j].gone
      /\ store'.index = store.index /\ store'.next = store.next /\ store'.files = store.files
      /\ store'.checksum = (IF store.checksum = None THEN Blank ELSE store.checksum)
  BY SynSyncDoes
<1>2. PICK c \in procs[j].todo :
         /\ procs'[j].todo = procs[j].todo \ {c} /\ store'.charts[c] # {}
         /\ procs[j].passes = SynFull => store'.charts[c] = x[c]
         /\ \A d \in Syn!Charts \ {c} : store'.charts[d] = store.charts[d]
  BY <1>0, SynSyncDoes
<1>3. x \in SynPublished /\ procs[j].passes \in {SynBoth, SynFull} /\ c \in Syn!Listed(x) /\ Blank \notin SynPublished
      /\ Syn!Listed(x) \subseteq Syn!Charts
  BY <1>0, <1>1, SynPublishedFacts DEF SynTyped, SynJobTyped, SynWorks, SynAt, Syn!Listed
<1>4. procs'[j].index = x /\ procs'[j].pc = "sync" /\ \A k \in Jobs \ {j} : procs'[k] = procs[k]
  BY <1>0, <1>1 DEF SynMoves, SynRest
<1>5. SynJobHas(j, x)
  BY <1>0, <1>1 DEF SynWorks, SynAt, SyncParts, SynJobInv
<1>6. SynWritten(x, c)'
  <2>1. CASE procs[j].passes = SynFull
    BY <1>2, <2>1 DEF SynWritten
  <2>2. CASE procs[j].passes = SynBoth
    BY <1>1, <1>4, <2>2 DEF SynWritten, SynOwes, SynWorks, SynAt
  <2> QED
    BY <1>3, <2>1, <2>2
<1>7. ASSUME NEW d \in Syn!Charts, SynWritten(x, d), d # c PROVE SynWritten(x, d)'
  <2>1. ASSUME NEW k \in Jobs, procs[k].index = x, SynOwes(k, d) PROVE (procs[k].index = x /\ SynOwes(k, d))'
    <3>1. CASE k = j
      BY <1>1, <1>2, <1>4, <1>7, <2>1, <3>1 DEF SynOwes, SynWorks, SynAt
    <3>2. CASE k # j
      BY <1>4, <2>1, <3>2 DEF SynOwes, SynWorks, SynAt
    <3> QED
      BY <3>1, <3>2
  <2> QED
    BY <1>2, <1>7, <2>1 DEF SynWritten
<1>8. SynKept(x)
  BY <1>1, <1>2, <1>3, <1>6, <1>7 DEF SynKept
<1>9. SynJobHas(j, x)'
  <2>1. \A d \in Syn!Charts : SynBy(j, d)' => d = c \/ SynBy(j, d)
    BY <1>0, <1>1, <1>2, <1>4 DEF SynBy, SynAt
  <2>2. \A d \in Syn!Charts : SynBy(j, d)' => store'.charts[d] # {}
    BY <1>2, <1>5, <2>1 DEF SynJobHas
  <2>3. procs[j].passes = SynFull => \A d \in Syn!Charts : SynBy(j, d)' => SynWritten(x, d)'
    BY <1>5, <1>6, <1>7, <2>1 DEF SynJobHas
  <2>4. \A d \in Syn!Charts \ Syn!Listed(x) : store'.charts[d] = {} \/ d \in procs[j].gone
    BY <1>1, <1>2, <1>3, <1>5 DEF SynJobHas, SynAt
  <2>5. ~past'.together => store'.checksum # x
    BY <1>1, <1>3, <1>5 DEF SynJobHas
  <2> QED
    BY <1>1, <1>4, <2>2, <2>3, <2>4, <2>5 DEF SynJobHas, SynAt
<1>10. store'.checksum = store.checksum \/ store'.checksum = Blank
  BY <1>1
<1> QED
  BY <1>0, <1>1, <1>4, <1>8, <1>9, <1>10, SynJobNext, SynJobRunsOn

LEMMA SynAllSyncedKeeps ==
  ASSUME Syn!IndexesAssumption, SynTyped, SyncParts, NEW j \in Jobs, Syn!AllSynced(j) PROVE SyncParts'
<1>0. PICK x : x = procs[j].index
  OBVIOUS
<1>1. /\ store' = store /\ past' = past /\ procs[j].pc = "sync" /\ SynMoves(j, "remove")
      /\ procs[j].todo = {} /\ procs'[j].passes = procs[j].passes /\ procs'[j].gone = procs[j].gone
      /\ procs[j].passes = SynFull => procs'[j].imports = Syn!FilesOf(x)
  BY <1>0, SynAllSyncedDoes
<1>2. procs'[j].index = x /\ procs'[j].pc = "remove" /\ \A k \in Jobs \ {j} : procs'[k] = procs[k]
  BY <1>0, <1>1 DEF SynMoves, SynRest
<1>3. \A c : SynOwes(j, c) => SynOwes(j, c)'
  BY <1>1, <1>2 DEF SynOwes, SynWorks, SynAt
<1>4. SynKept(x)
  BY <1>1, <1>2, <1>3, SynNothingWritten
<1>5. SynJobHas(j, x)
  BY <1>0, <1>1 DEF SynWorks, SynAt, SyncParts, SynJobInv
<1>6. SynJobHas(j, x)'
  <2>1. \A d \in Syn!Charts : SynBy(j, d)' => SynBy(j, d) /\ d \in Syn!Listed(x)
    BY <1>0, <1>1, <1>2 DEF SynBy, SynAt
  <2>2. \A d \in Syn!Charts : SynBy(j, d)' => store'.charts[d] # {}
    BY <1>1, <1>5, <2>1 DEF SynJobHas
  <2>3. procs[j].passes = SynFull => \A d \in Syn!Charts : SynBy(j, d)' => SynWritten(x, d)'
    BY <1>4, <1>5, <2>1 DEF SynJobHas, SynKept
  <2>4. \A d \in Syn!Charts \ Syn!Listed(x) : store'.charts[d] = {} \/ d \in procs[j].gone
    BY <1>1, <1>5 DEF SynJobHas, SynAt
  <2>5. ~past'.together => store'.checksum # x
    BY <1>1, <1>5 DEF SynJobHas
  <2>6. procs[j].passes = SynFull => Syn!FilesOf(x) \subseteq store'.files \cup procs'[j].imports
    BY <1>1
  <2> QED
    BY <1>1, <1>2, <2>2, <2>3, <2>4, <2>5, <2>6 DEF SynJobHas, SynAt
<1> QED
  BY <1>0, <1>1, <1>2, <1>4, <1>6, SynJobNext, SynJobRunsOn

LEMMA SynImportFilesKeeps ==
  ASSUME Syn!IndexesAssumption, SynTyped, SyncParts, NEW j \in Jobs, Syn!ImportFiles(j), ~past'.excused
  PROVE  SyncParts'
<1>0. PICK x : x = procs[j].index
  OBVIOUS
<1>1. /\ SynAt(j, {"remove", "wait"}) /\ SynMoves(j, procs[j].pc)
      /\ procs'[j].passes = procs[j].passes /\ procs'[j].gone = procs[j].gone
      /\ procs'[j].todo = procs[j].todo
      /\ past' = past /\ UNCHANGED <<store.index, store.next, store.checksum, store.charts>>
  BY SynImportFilesDoes
<1>2. PICK f \in procs[j].imports :
         /\ procs'[j].imports = procs[j].imports \ {f}
         /\ store'.files = IF store.charts[f[1]] = {} THEN store.files ELSE store.files \cup {f}
  BY SynImportFilesDoes
<1>3. procs'[j].index = x /\ procs'[j].pc = procs[j].pc /\ \A k \in Jobs \ {j} : procs'[k] = procs[k]
  BY <1>0, <1>1 DEF SynMoves, SynRest
<1>4. SynJobHas(j, x) /\ procs[j].pc \notin {"dead", "ended"}
  BY <1>0, <1>1 DEF SynWorks, SynAt, SyncParts, SynJobInv
<1>5. f[1] \in Syn!Charts /\ f[1] \in Syn!Listed(x) /\ f \in Syn!FilesOf(x)
  <2>1. f \in Syn!FilesOf(x)
    BY <1>0 DEF SynTyped, SynJobTyped
  <2> QED
    BY <2>1 DEF Syn!FilesOf, Syn!Listed
<1>6. store'.files = store.files \cup {f}
  <2>1. SynBy(j, f[1])
    BY <1>0, <1>1, <1>5 DEF SynBy, SynAt
  <2> QED
    BY <1>2, <1>4, <1>5, <2>1 DEF SynJobHas
<1>7. \A c : SynOwes(j, c)' = SynOwes(j, c) /\ SynBy(j, c)' = SynBy(j, c)
  BY <1>0, <1>1, <1>3 DEF SynOwes, SynBy, SynWorks, SynAt
<1>8. ASSUME NEW c, SynWritten(x, c) PROVE SynWritten(x, c)'
  <2>1. ASSUME NEW k \in Jobs, procs[k].index = x, SynOwes(k, c) PROVE (procs[k].index = x /\ SynOwes(k, c))'
    <3>1. CASE k = j
      BY <1>3, <1>7, <2>1, <3>1
    <3>2. CASE k # j
      BY <1>3, <2>1, <3>2 DEF SynOwes, SynWorks, SynAt
    <3> QED
      BY <3>1, <3>2
  <2> QED
    BY <1>1, <1>8, <2>1 DEF SynWritten
<1>9. SynKept(x)
  BY <1>1, <1>6, <1>8 DEF SynKept
<1>10. SynJobHas(j, x)'
  <2>1. \A c : SynBy(j, c) => c \in Syn!Listed(x)
    BY <1>0 DEF SynBy
  <2>2. procs[j].passes = SynFull => \A d \in Syn!Charts : SynBy(j, d)' => SynWritten(x, d)'
    BY <1>4, <1>7, <1>8 DEF SynJobHas
  <2>3. procs[j].passes = SynFull => Syn!FilesOf(x) \subseteq store'.files \cup procs'[j].imports
    BY <1>1, <1>2, <1>4, <1>6 DEF SynJobHas, SynAt
  <2>4. \A d \in Syn!Charts : SynBy(j, d)' => store'.charts[d] # {}
    BY <1>1, <1>4, <1>7 DEF SynJobHas
  <2>5. /\ \A d \in Syn!Charts \ Syn!Listed(x) :
              /\ SynAt(j, {"sync", "remove"}) => store'.charts[d] = {} \/ d \in procs[j].gone
              /\ SynAt(j, {"wait", "check"}) => store'.charts[d] = {}
        /\ ~past'.together => store'.checksum # x
    BY <1>1, <1>4 DEF SynJobHas
  <2>6. \A s : SynAt(j, s)' = SynAt(j, s)
    BY <1>3 DEF SynAt
  <2> QED
    BY <1>1, <1>3, <2>2, <2>3, <2>4, <2>5, <2>6 DEF SynJobHas
<1>11. SynJobInv(j)'
  BY <1>3, <1>10, SynJobNext
<1> QED
  BY <1>0, <1>1, <1>4, <1>9, <1>11, SynJobRunsOn

LEMMA SynRemoveMissingChartsKeeps ==
  ASSUME Syn!IndexesAssumption, SynTyped, SyncParts, NEW j \in Jobs, Syn!RemoveMissingCharts(j) PROVE SyncParts'
<1>0. PICK x : x = procs[j].index
  OBVIOUS
<1>1. /\ past' = past /\ procs[j].pc = "remove" /\ SynMoves(j, "wait")
      /\ procs'[j].passes = procs[j].passes /\ procs'[j].imports = procs[j].imports
      /\ UNCHANGED <<store.index, store.next, store.checksum>>
      /\ \A c \in Syn!Charts : store'.charts[c] = IF c \in procs[j].gone THEN {} ELSE store.charts[c]
      /\ store'.files = {f \in store.files : f[1] \notin procs[j].gone}
  BY SynRemoveMissingChartsDoes
<1>2. procs'[j].index = x /\ procs'[j].pc = "wait" /\ \A k \in Jobs \ {j} : procs'[k] = procs[k]
  BY <1>0, <1>1 DEF SynMoves, SynRest
<1>3. SynJobHas(j, x)
  BY <1>0, <1>1 DEF SynWorks, SynAt, SyncParts, SynJobInv
<1>4. procs[j].gone \subseteq Syn!Charts \ Syn!Listed(x) /\ Syn!Listed(x) \subseteq Syn!Charts
  BY <1>0 DEF SynTyped, SynJobTyped, Syn!Listed
<1>5. \A c \in Syn!Listed(x) : store'.charts[c] = store.charts[c]
  BY <1>1, <1>4
<1>6. \A f \in Syn!FilesOf(x) : f \in store.files => f \in store'.files
  <2>1. \A f \in Syn!FilesOf(x) : f[1] \in Syn!Listed(x)
    BY DEF Syn!FilesOf, Syn!Listed
  <2> QED
    BY <1>1, <1>4, <2>1
<1>7. \A c : SynOwes(j, c) => SynOwes(j, c)'
  BY <1>1, <1>2 DEF SynOwes, SynWorks, SynAt
<1>8. ASSUME NEW c \in Syn!Listed(x), SynWritten(x, c) PROVE SynWritten(x, c)'
  <2>1. ASSUME NEW k \in Jobs, procs[k].index = x, SynOwes(k, c) PROVE (procs[k].index = x /\ SynOwes(k, c))'
    <3>1. CASE k = j
      BY <1>2, <1>7, <2>1, <3>1
    <3>2. CASE k # j
      BY <1>2, <2>1, <3>2 DEF SynOwes, SynWorks, SynAt
    <3> QED
      BY <3>1, <3>2
  <2> QED
    BY <1>5, <1>8, <2>1 DEF SynWritten
<1>9. SynKept(x)
  BY <1>1, <1>5, <1>6, <1>8 DEF SynKept
<1>10. SynJobHas(j, x)'
  <2>1. \A c \in Syn!Charts : SynBy(j, c)' => SynBy(j, c) /\ c \in Syn!Listed(x)
    BY <1>0, <1>1, <1>2 DEF SynBy, SynAt
  <2>2. \A c \in Syn!Charts : SynBy(j, c)' => store'.charts[c] # {}
    BY <1>3, <1>5, <2>1 DEF SynJobHas
  <2>3. procs[j].passes = SynFull => \A c \in Syn!Charts : SynBy(j, c)' => SynWritten(x, c)'
    BY <1>3, <1>8, <2>1 DEF SynJobHas
  <2>4. \A c \in Syn!Charts \ Syn!Listed(x) : store'.charts[c] = {}
    BY <1>1, <1>3 DEF SynJobHas, SynAt
  <2>5. ~past'.together => store'.checksum # x
    BY <1>1, <1>3 DEF SynJobHas
  <2>6. procs[j].passes = SynFull => Syn!FilesOf(x) \subseteq store'.files \cup procs'[j].imports
    BY <1>1, <1>3, <1>6 DEF SynJobHas, SynAt
  <2> QED
    BY <1>1, <1>2, <2>2, <2>3, <2>4, <2>5, <2>6 DEF SynJobHas, SynAt
<1>11. SynJobInv(j)'
  BY <1>2, <1>10, SynJobNext
<1> QED
  BY <1>0, <1>1, <1>9, <1>11, SynJobRunsOn

LEMMA SynFilesImportedKeeps ==
  ASSUME Syn!IndexesAssumption, SynTyped, SyncParts, NEW j \in Jobs, Syn!FilesImported(j) PROVE SyncParts'
<1>0. PICK x : x = procs[j].index
  OBVIOUS
<1>1. /\ store' = store /\ past' = past /\ procs[j].pc = "wait" /\ procs[j].imports = {}
      /\ \/ procs[j].passes = SynBoth /\ SynMoves(j, "list")
         \/ procs[j].passes = SynFull /\ procs'[j].passes = SynFull /\ SynMoves(j, "check")
  BY SynFilesImportedDoes
<1>2. procs'[j].index = x /\ \A k \in Jobs \ {j} : procs'[k] = procs[k]
  BY <1>0, <1>1 DEF SynMoves, SynRest
<1>3. SynJobHas(j, x)
  BY <1>0, <1>1 DEF SynWorks, SynAt, SyncParts, SynJobInv
<1>4. \A c : SynOwes(j, c) => SynOwes(j, c)'
  BY <1>1, SynPassesFacts DEF SynOwes, SynWorks, SynAt, SynMoves
<1>5. SynKept(x)
  BY <1>1, <1>2, <1>4, SynNothingWritten
<1>6. CASE SynMoves(j, "list")
  <2>1. \A c : ~SynBy(j, c)'
    BY <1>6 DEF SynBy, SynAt, SynMoves
  <2>2. ~past'.together => store'.checksum # x
    BY <1>1, <1>3 DEF SynJobHas
  <2>3. SynJobHas(j, x)'
    BY <1>6, <2>1, <2>2 DEF SynJobHas, SynAt, SynMoves
  <2>4. SynJobInv(j)'
    BY <1>2, <2>3, SynJobNext
  <2> QED
    BY <1>0, <1>1, <1>5, <1>6, <2>4, SynJobRunsOn
<1>7. CASE procs[j].passes = SynFull /\ procs'[j].passes = SynFull /\ SynMoves(j, "check")
  <2>1. \A c \in Syn!Charts : SynBy(j, c)' => SynBy(j, c) /\ c \in Syn!Listed(x)
    BY <1>0, <1>1, <1>7 DEF SynBy, SynAt, SynMoves
  <2>2. \A c \in Syn!Charts : SynBy(j, c)' => store'.charts[c] # {}
    BY <1>1, <1>3, <2>1 DEF SynJobHas
  <2>3. \A c \in Syn!Charts : SynBy(j, c)' => SynWritten(x, c)'
    BY <1>3, <1>5, <1>7, <2>1 DEF SynJobHas, SynKept
  <2>4. \A c \in Syn!Charts \ Syn!Listed(x) : store'.charts[c] = {}
    BY <1>1, <1>3 DEF SynJobHas, SynAt
  <2>5. ~past'.together => store'.checksum # x
    BY <1>1, <1>3 DEF SynJobHas
  <2>6. Syn!FilesOf(x) \subseteq store'.files
    BY <1>1, <1>3, <1>7 DEF SynJobHas, SynAt
  <2>7. SynJobHas(j, x)'
    BY <1>7, <2>2, <2>3, <2>4, <2>5, <2>6 DEF SynJobHas, SynAt, SynMoves
  <2>8. SynJobInv(j)'
    BY <1>2, <2>7, SynJobNext
  <2> QED
    BY <1>0, <1>1, <1>5, <1>7, <2>8, SynJobRunsOn
<1> QED
  BY <1>1, <1>6, <1>7

LEMMA SynLastChecksumKeeps ==
  ASSUME Syn!IndexesAssumption, SynTyped, SyncParts, NEW j \in Jobs, Syn!LastChecksum(j) PROVE SyncParts'
<1>0. PICK x : x = procs[j].index
  OBVIOUS
<1>1. /\ store' = store /\ past' = past /\ procs[j].pc = "fetched"
      /\ \/ store.checksum = x /\ procs'[j] = Syn!Ended /\ SynRest(j)
         \/ store.checksum # x /\ SynMoves(j, "list")
  BY <1>0, SynLastChecksumDoes
<1>2. \A c : ~SynOwes(j, c)
  BY <1>1 DEF SynOwes, SynWorks, SynAt
<1>3. \A k \in Jobs \ {j} : procs'[k] = procs[k]
  BY <1>1 DEF SynRest, SynMoves
<1>4. SynKept(x)
  BY <1>1, <1>2, <1>3, SynNothingWritten
<1>5. CASE store.checksum # x /\ SynMoves(j, "list")
  <2>1. \A c : ~SynBy(j, c)'
    BY <1>5 DEF SynBy, SynAt, SynMoves
  <2>2. SynJobHas(j, x)'
    BY <1>1, <1>5, <2>1 DEF SynJobHas, SynAt, SynMoves
  <2>3. SynJobInv(j)'
    BY <1>0, <1>5, <2>2, SynJobNext DEF SynMoves
  <2> QED
    BY <1>0, <1>1, <1>4, <1>5, <2>3, SynJobRunsOn
<1>6. CASE store.checksum = x /\ procs'[j] = Syn!Ended
  <2>1. x \in SynPublished /\ x \notin {None, Blank}
    BY <1>0, <1>1, SynPublishedFacts DEF SynTyped, SynJobTyped
  <2>2. Syn!Running(j) /\ procs[j].pc # "dead"
    BY <1>1 DEF Syn!Running
  <2>3. SynStands(x)
    BY <1>0, <1>6, <2>1, <2>2 DEF SyncParts, SynChecksumInv, SynMovedOn
  <2>4. procs'[j].pc = "ended"
    BY <1>6 DEF Syn!Ended
  <2>5. \A k \in Jobs : (Syn!Running(k) /\ procs[k].pc # "dead" => procs[k].index = x)'
    BY <1>3, <2>3, <2>4 DEF SynStands, Syn!Running
  <2>6. SynStands(x)'
    BY <1>4, <2>3, <2>5, SynStandsStays
  <2>7. SynChecksumInv'
    <3>1. store'.checksum = x
      BY <1>1, <1>6
    <3> QED
      BY <2>1, <2>6, <3>1, SynChecksumNext
  <2>8. ASSUME NEW k \in Jobs PROVE SynJobInv(k)'
    <3>1. CASE k = j
      BY <2>4, <3>1 DEF SynJobInv, SynWorks, SynAt
    <3>2. CASE k # j /\ SynWorks(k)
      <4>1. Syn!Running(k)
        BY <3>2 DEF Syn!Running, SynWorks, SynAt
      <4>2. procs[k].index = x /\ past.together
        BY <1>0, <2>2, <3>2, <4>1 DEF SyncParts, SynApart
      <4> QED
        BY <1>1, <1>3, <1>4, <3>2, <4>2, SynJobKeeps DEF SyncParts
    <3>3. CASE k # j /\ ~SynWorks(k)
      BY <1>3, <3>3 DEF SynJobInv, SynWorks, SynAt
    <3> QED
      BY <3>1, <3>2, <3>3
  <2>9. SynApart'
    BY <1>1, <1>3, <2>4 DEF SyncParts, SynApart, Syn!Running
  <2> QED
    BY <2>7, <2>8, <2>9 DEF SyncParts
<1> QED
  BY <1>1, <1>5, <1>6

LEMMA SynUpdateLastCheckKeeps ==
  ASSUME Syn!IndexesAssumption, SynTyped, SyncParts, NEW j \in Jobs, Syn!UpdateLastCheck(j) PROVE SyncParts'
<1>0. PICK x : x = procs[j].index
  OBVIOUS
<1>1. /\ past' = past /\ procs[j].pc = "check" /\ procs'[j] = Syn!Ended
      /\ x \in SynPublished /\ procs[j].passes = SynFull
      /\ UNCHANGED <<store.charts, store.files>> /\ store'.checksum = x
  BY <1>0, SynUpdateLastCheckDoes
<1>2. \A k \in Jobs \ {j} : procs'[k] = procs[k]
  BY SynUpdateLastCheckDoes DEF SynRest
<1>3. Syn!Running(j) /\ procs[j].pc # "dead" /\ SynWorks(j) /\ procs'[j].pc = "ended"
  BY <1>1 DEF Syn!Running, SynWorks, SynAt, Syn!Ended
<1>4. SynJobHas(j, x)
  BY <1>0, <1>3 DEF SyncParts, SynJobInv
<1>5. \A c : ~SynOwes(j, c)
  BY <1>1, SynPassesFacts DEF SynOwes
<1>6. SynKept(x)
  BY <1>1, <1>2, <1>5, SynNothingWritten
<1>7. SynStands(x)'
  <2>1. ASSUME NEW c \in Syn!Charts PROVE SynWritten(x, c)' /\ (c \notin Syn!Listed(x) => store'.charts[c] = {})
    <3>1. CASE c \in Syn!Listed(x)
      <4>1. SynBy(j, c)
        BY <1>0, <1>1, <3>1 DEF SynBy, SynAt
      <4> QED
        BY <1>1, <1>4, <1>6, <3>1, <4>1 DEF SynJobHas, SynKept
    <3>2. CASE c \notin Syn!Listed(x)
      <4>1. store'.charts[c] = {} /\ x[c] = {}
        BY <1>1, <1>4, <2>1, <3>2 DEF SynJobHas, SynAt, Syn!Listed
      <4> QED
        BY <4>1 DEF SynWritten
    <3> QED
      BY <3>1, <3>2
  <2>2. Syn!FilesOf(x) \subseteq store'.files
    <3>1. procs[j].imports = {}
      BY <1>1 DEF SynTyped, SynJobTyped, SynAt
    <3> QED
      BY <1>1, <1>4, <3>1 DEF SynJobHas, SynAt
  <2>3. \A k \in Jobs : (Syn!Running(k) /\ procs[k].pc # "dead" => procs[k].index = x)'
    BY <1>0, <1>2, <1>3 DEF SyncParts, SynApart, Syn!Running
  <2> QED
    BY <2>1, <2>2, <2>3 DEF SynStands
<1>8. SynChecksumInv'
  <2>1. x # Blank
    BY <1>1, SynPublishedFacts
  <2> QED
    BY <1>1, <1>7, <2>1, SynChecksumNext
<1>9. ASSUME NEW k \in Jobs PROVE SynJobInv(k)'
  <2>1. CASE k = j
    BY <1>3, <2>1 DEF SynJobInv, SynWorks, SynAt
  <2>2. CASE k # j /\ SynWorks(k)
    <3>1. Syn!Running(k)
      BY <2>2 DEF Syn!Running, SynWorks, SynAt
    <3>2. procs[k].index = x /\ past.together
      BY <1>0, <1>3, <2>2, <3>1 DEF SyncParts, SynApart
    <3> QED
      BY <1>1, <1>2, <1>6, <2>2, <3>2, SynJobKeeps DEF SyncParts
  <2>3. CASE k # j /\ ~SynWorks(k)
    BY <1>2, <2>3 DEF SynJobInv, SynWorks, SynAt
  <2> QED
    BY <2>1, <2>2, <2>3
<1>10. SynApart'
  BY <1>1, <1>2, <1>3 DEF SyncParts, SynApart, Syn!Running
<1> QED
  BY <1>8, <1>9, <1>10 DEF SyncParts

LEMMA SynStartKeeps ==
  ASSUME Syn!IndexesAssumption, SynTyped, SyncParts, NEW j \in Jobs, Syn!Start(j), ~past'.excused PROVE SyncParts'
<1>0. PICK x : x = store.index
  OBVIOUS
<1>1. /\ store' = store /\ procs'[j].pc = "fetched" /\ procs'[j].index = x
      /\ past'.together = (past.together \/ Syn!Others(j) # {})
      /\ past'.excused = (past.excused \/ \E k \in Syn!Others(j) : procs[k].pc = "dead" \/ procs[k].index # x)
  BY <1>0, SynStartDoes
<1>2. \A k \in Jobs \ {j} : procs'[k] = procs[k]
  BY SynStartDoes DEF SynRest
<1>3. \A k \in Jobs \ {j} : Syn!Running(k) => procs[k].pc # "dead" /\ procs[k].index = x /\ past'.together
  BY <1>1 DEF Syn!Others
<1>4. \A c : ~SynOwes(j, c)
  BY DEF Syn!Start, Syn!Running, SynOwes, SynWorks, SynAt
<1>5. ASSUME NEW y PROVE SynKept(y)
  BY <1>1, <1>2, <1>4, SynNothingWritten
<1>6. SynApart'
  BY <1>1, <1>2, <1>3 DEF SynApart, Syn!Running
<1>7. ASSUME NEW k \in Jobs PROVE SynJobInv(k)'
  <2>1. CASE k = j
    BY <1>1, <2>1 DEF SynJobInv, SynWorks, SynAt
  <2>2. CASE k # j /\ SynWorks(k)
    <3>1. Syn!Running(k)
      BY <2>2 DEF Syn!Running, SynWorks, SynAt
    <3> QED
      BY <1>2, <1>3, <1>5, <2>2, <3>1, SynJobKeeps DEF SyncParts
  <2>3. CASE k # j /\ ~SynWorks(k)
    BY <1>2, <2>3 DEF SynJobInv, SynWorks, SynAt
  <2> QED
    BY <2>1, <2>2, <2>3
<1>8. SynChecksumInv'
  <2>1. PICK y : y = store'.checksum
    OBVIOUS
  <2>2. Syn!Running(j)' /\ SynPublished' = SynPublished /\ y = store.checksum
    BY <1>1, <2>1 DEF Syn!Running, SynPublished
  <2>3. ASSUME y \in SynPublished PROVE SynStands(y)' \/ SynMovedOn(y)'
    <3>1. CASE y = x
      <4>1. SynStands(y)
        BY <1>0, <2>2, <2>3, <3>1 DEF SyncParts, SynChecksumInv, SynMovedOn
      <4>2. \A k \in Jobs : (Syn!Running(k) /\ procs[k].pc # "dead" => procs[k].index = y)'
        BY <1>1, <1>2, <1>3, <3>1 DEF Syn!Running
      <4> QED
        BY <1>5, <4>1, <4>2, SynStandsStays
    <3>2. CASE y # x
      <4>1. \A k \in Jobs : (Syn!Running(k) /\ procs[k].pc # "dead" => procs[k].index # y)'
        BY <1>1, <1>2, <1>3, <3>2 DEF Syn!Running
      <4> QED
        BY <1>0, <1>1, <2>2, <3>2, <4>1 DEF SynMovedOn
    <3> QED
      BY <3>1, <3>2
  <2> QED
    BY <2>1, <2>2, <2>3, SynChecksumNext
<1> QED
  BY <1>6, <1>7, <1>8 DEF SyncParts

LEMMA SynDieKeeps ==
  ASSUME Syn!IndexesAssumption, SynTyped, SyncParts, NEW j \in Jobs, Syn!Die(j), ~past'.excused PROVE SyncParts'
<1>1. /\ store' = store /\ Syn!Running(j) /\ procs[j].pc # "dead" /\ procs'[j].pc = "dead"
      /\ past'.together = past.together /\ ~past.together
  BY SynDieDoes
<1>2. \A k \in Jobs \ {j} : procs'[k] = procs[k]
  BY SynDieDoes DEF SynRest
<1>3. \A k \in Jobs \ {j} : ~Syn!Running(k) /\ ~Syn!Running(k)'
  BY <1>1, <1>2 DEF SyncParts, SynApart, Syn!Running
<1>4. SynApart'
  BY <1>3 DEF SynApart
<1>5. \A k \in Jobs : SynJobInv(k)'
  BY <1>1, <1>3 DEF SynJobInv, SynWorks, SynAt, Syn!Running
<1>6. SynChecksumInv'
  <2>1. PICK y : y = store'.checksum
    OBVIOUS
  <2>2. Syn!Running(j)' /\ SynPublished' = SynPublished /\ y = store.checksum
    BY <1>1, <2>1 DEF Syn!Running, SynPublished
  <2>3. \A k \in Jobs : ~(Syn!Running(k) /\ procs[k].pc # "dead")'
    BY <1>1, <1>3 DEF Syn!Running
  <2>4. ASSUME SynStands(y) PROVE SynStands(y)'
    <3>1. procs[j].index = y
      BY <1>1, <2>4 DEF SynStands
    <3>2. ~SynWorks(j)
      BY <1>1, <2>2, <3>1 DEF SyncParts, SynJobInv, SynJobHas
    <3>3. \A c : ~SynOwes(j, c)
      BY <3>2 DEF SynOwes, SynWorks, SynAt
    <3>4. SynKept(y)
      BY <1>1, <1>2, <3>3, SynNothingWritten
    <3> QED
      BY <2>3, <2>4, <3>4, SynStandsStays
  <2>5. ASSUME SynMovedOn(y) PROVE SynMovedOn(y)'
    BY <1>1, <2>2, <2>3, <2>5 DEF SynMovedOn
  <2>6. y \in SynPublished => SynStands(y) \/ SynMovedOn(y)
    BY <2>2 DEF SyncParts, SynChecksumInv
  <2> QED
    BY <2>1, <2>2, <2>4, <2>5, <2>6, SynChecksumNext
<1> QED
  BY <1>4, <1>5, <1>6 DEF SyncParts

LEMMA SynCleanUpKeeps ==
  ASSUME Syn!IndexesAssumption, SynTyped, Syn!CleanUp, ~past'.excused PROVE SyncParts'
<1>1. procs' = procs /\ store'.checksum = None /\ \A j \in Jobs : ~Syn!Running(j)
  BY SynCleanUpDoes
<1>2. \A j \in Jobs : ~Syn!Running(j)' /\ ~SynWorks(j)'
  BY <1>1 DEF Syn!Running, SynWorks, SynAt
<1>3. SynTyped' /\ None # Blank
  BY SynCleanUpDoes DEF Syn!IndexesAssumption
<1>4. None \notin SynPublished'
  <2>1. \A i \in 1..Len(Indexes) : Indexes[i] # None
    BY SynIndexFacts
  <2>2. store'.next \in 2..Len(Indexes) + 1 /\ Len(Indexes) \in Nat
    BY <1>3, SynIndexFacts DEF SynTyped, SynStoreTyped
  <2> QED
    BY <2>1, <2>2 DEF SynPublished
<1>5. SynChecksumInv'
  BY <1>1, <1>3, <1>4, SynChecksumNext
<1> QED
  BY <1>2, <1>5 DEF SyncParts, SynApart, SynJobInv

LEMMA SynPublishKeeps ==
  ASSUME Syn!IndexesAssumption, SynTyped, SyncParts, Syn!Publish PROVE SyncParts'
<1>1. /\ procs' = procs /\ past' = past /\ UNCHANGED <<store.checksum, store.charts, store.files>>
      /\ store'.index \notin SynPublished
  BY SynPublishDoes
<1>2. \A x, c : SynWritten(x, c)' <=> SynWritten(x, c)
  BY <1>1 DEF SynWritten, SynOwes, SynWorks, SynAt
<1>3. \A x : SynStands(x) => SynStands(x)'
  BY <1>1, <1>2 DEF SynStands, Syn!Running
<1>4. \A x \in SynPublished : SynMovedOn(x) => SynMovedOn(x)'
  BY <1>1 DEF SynMovedOn, Syn!Running
<1>5. SynChecksumInv'
  <2>1. PICK y : y = store'.checksum
    OBVIOUS
  <2>2. y = store.checksum /\ y \in {None, Blank} \cup SynPublished
    BY <1>1, <2>1 DEF SynTyped, SynStoreTyped
  <2>3. y = Blank => \E j \in Jobs : Syn!Running(j)'
    BY <1>1, <2>2 DEF SyncParts, SynChecksumInv, Syn!Running
  <2>4. None \notin SynPublished' /\ Blank \notin SynPublished'
    <3>1. SynTyped'
      BY SynPublishDoes
    <3>2. \A i \in 1..Len(Indexes) : Indexes[i] \notin {None, Blank}
      BY SynIndexFacts
    <3>3. store'.next \in 2..Len(Indexes) + 1 /\ Len(Indexes) \in Nat
      BY <3>1, SynIndexFacts DEF SynTyped, SynStoreTyped
    <3> QED
      BY <3>2, <3>3 DEF SynPublished
  <2>5. y \in SynPublished' => SynStands(y) \/ SynMovedOn(y)
    BY <2>2, <2>4 DEF SyncParts, SynChecksumInv
  <2>6. y \in SynPublished' => SynStands(y)' \/ SynMovedOn(y)'
    BY <1>3, <1>4, <2>2, <2>4, <2>5
  <2> QED
    BY <2>1, <2>3, <2>6, SynChecksumNext
<1>6. SynApart'
  BY <1>1 DEF SyncParts, SynApart, Syn!Running
<1>7. ASSUME NEW k \in Jobs PROVE SynJobInv(k)'
  <2>1. PICK x : x = procs[k].index
    OBVIOUS
  <2>2. SynKept(x)
    BY <1>1, <1>2 DEF SynKept
  <2>3. SynWorks(k) /\ ~past'.together => store'.checksum # x
    BY <1>1, <2>1 DEF SyncParts, SynJobInv, SynJobHas
  <2> QED
    BY <1>1, <2>1, <2>2, <2>3, SynJobKeeps DEF SyncParts
<1> QED
  BY <1>5, <1>6, <1>7 DEF SyncParts

(* The theorems.                                                             *)

LEMMA SynInitTyped == ASSUME Syn!IndexesAssumption, Syn!Init PROVE SynTyped /\ SyncInv
<1>1. Len(Indexes) \in Nat \ {0} /\ Indexes[1] \in [Syn!Charts -> SUBSET Syn!Versions]
  BY SynIndexFacts
<1>2. SynPublished = {Indexes[1]}
  BY DEF Syn!Init, SynPublished
<1>3. Syn!NoCharts \in [Syn!Charts -> SUBSET Syn!Versions]
  BY DEF Syn!NoCharts
<1>4. SynStoreTyped
  BY <1>1, <1>2, <1>3 DEF Syn!Init, SynStoreTyped
<1>5. SynPastTyped
  BY DEF Syn!Init, SynPastTyped
<1>6. ASSUME NEW j \in Jobs PROVE SynJobTyped(j) /\ ~Syn!Running(j) /\ ~SynWorks(j)
  <2>1. procs[j] = [pc |-> "ended", index |-> Syn!NoCharts, passes |-> <<>>, todo |-> {}, gone |-> {}, imports |-> {}]
    BY DEF Syn!Init, Syn!Ended
  <2>2. procs[j] = [Syn!Ended EXCEPT !.pc = procs[j].pc]
    <3>1. procs[j].pc = "ended"
      BY <2>1
    <3> QED
      BY <2>1, <3>1 DEF Syn!Ended
  <2>3. procs[j].todo = {} /\ procs[j].gone = {} /\ procs[j].imports = {} /\ procs[j].pc = "ended"
    BY <2>1
  <2> QED
    BY <2>1, <2>2, <2>3 DEF SynJobTyped, SynAt, SynWorks, Syn!Running
<1>7. procs = [j \in Jobs |-> procs[j]]
  BY DEF Syn!Init
<1>8. SynTyped
  BY <1>4, <1>5, <1>6, <1>7 DEF SynTyped
<1>9. store.checksum = None /\ None # Blank /\ None \notin SynPublished
  BY <1>8, SynPublishedFacts DEF Syn!Init, Syn!IndexesAssumption
<1>10. SynApart /\ SynChecksumInv /\ \A j \in Jobs : SynJobInv(j)
  BY <1>6, <1>9 DEF SynApart, SynChecksumInv, SynJobInv
<1> QED
  BY <1>8, <1>10 DEF SyncInv

LEMMA SynNextTyped ==
  ASSUME Syn!IndexesAssumption, SynTyped, [Syn!Next]_(Syn!vars)
  PROVE  SynTyped' /\ (past.excused => past'.excused)
<1>1. ASSUME NEW j \in Jobs, Syn!Start(j) PROVE SynTyped' /\ (past.excused => past'.excused)
  BY <1>1, SynStartDoes
<1>2. ASSUME NEW j \in Jobs, Syn!LastChecksum(j) PROVE SynTyped' /\ past' = past
  BY <1>2, SynLastChecksumDoes
<1>3. ASSUME NEW j \in Jobs, Syn!ListCharts(j) PROVE SynTyped' /\ past' = past
  BY <1>3, SynListChartsDoes
<1>4. ASSUME NEW j \in Jobs, Syn!Sync(j) PROVE SynTyped' /\ past' = past
  BY <1>4, SynSyncDoes
<1>5. ASSUME NEW j \in Jobs, Syn!AllSynced(j) PROVE SynTyped' /\ past' = past
  BY <1>5, SynAllSyncedDoes
<1>6. ASSUME NEW j \in Jobs, Syn!ImportFiles(j) PROVE SynTyped' /\ (past.excused => past'.excused)
  BY <1>6, SynImportFilesDoes
<1>7. ASSUME NEW j \in Jobs, Syn!RemoveMissingCharts(j) PROVE SynTyped' /\ past' = past
  BY <1>7, SynRemoveMissingChartsDoes
<1>8. ASSUME NEW j \in Jobs, Syn!FilesImported(j) PROVE SynTyped' /\ past' = past
  BY <1>8, SynFilesImportedDoes
<1>9. ASSUME NEW j \in Jobs, Syn!UpdateLastCheck(j) PROVE SynTyped' /\ past' = past
  BY <1>9, SynUpdateLastCheckDoes
<1>10. ASSUME NEW j \in Jobs, Syn!Die(j) PROVE SynTyped' /\ (past.excused => past'.excused)
  BY <1>10, SynDieDoes
<1>11. ASSUME Syn!CleanUp PROVE SynTyped' /\ (past.excused => past'.excused)
  BY <1>11, SynCleanUpDoes
<1>12. ASSUME Syn!Publish PROVE SynTyped' /\ past' = past
  BY <1>12, SynPublishDoes
<1>13. ASSUME UNCHANGED Syn!vars PROVE SynTyped' /\ past' = past
  BY <1>13 DEF Syn!vars, SynTyped, SynStoreTyped, SynPastTyped, SynJobTyped, SynPublished, SynAt, SynWorks
<1> QED
  BY <1>1, <1>2, <1>3, <1>4, <1>5, <1>6, <1>7, <1>8, <1>9, <1>10, <1>11, <1>12, <1>13 DEF Syn!Next

LEMMA SynNextKeeps == ASSUME Syn!IndexesAssumption, SynTyped, SyncInv, [Syn!Next]_(Syn!vars) PROVE SyncInv'
<1> SUFFICES ASSUME ~past'.excused PROVE SyncParts'
  BY DEF SyncInv, SyncParts
<1>1. SyncParts
  BY SynNextTyped DEF SyncInv, SyncParts
<1>2. ASSUME UNCHANGED Syn!vars PROVE SyncParts'
  BY <1>1, <1>2 DEF Syn!vars, SyncParts, SynApart, SynChecksumInv, SynJobInv, SynJobHas, SynStands,
     SynMovedOn, SynWritten, SynOwes,
     SynBy, SynAt, SynWorks, Syn!Running, SynPublished
<1> QED
  BY <1>1, <1>2, SynStartKeeps, SynLastChecksumKeeps, SynListChartsKeeps, SynSyncKeeps,
     SynAllSyncedKeeps, SynImportFilesKeeps,
     SynRemoveMissingChartsKeeps, SynFilesImportedKeeps, SynUpdateLastCheckKeeps, SynDieKeeps,
     SynCleanUpKeeps, SynPublishKeeps
     DEF Syn!Next

LEMMA SynInvTypes == ASSUME Syn!IndexesAssumption, SynTyped PROVE Syn!TypeOK
<1>1. \A x \in SynPublished : x \in [Syn!Charts -> SUBSET Syn!Versions] /\ \E i \in DOMAIN Indexes : x = Indexes[i]
  BY SynPublishedFacts, SynIndexFacts
<1>2. /\ store.checksum \in {None, Blank} \cup {Indexes[i] : i \in DOMAIN Indexes}
      /\ store.charts \in [Syn!Charts -> SUBSET Syn!Versions] /\ store.files \subseteq Syn!Charts \X Syn!Versions
  BY <1>1 DEF SynTyped, SynStoreTyped
<1>3. ASSUME NEW j \in Jobs
      PROVE  /\ procs[j].pc \in {"fetched", "list", "sync", "remove", "wait", "check", "dead", "ended"}
             /\ procs[j].index \in [Syn!Charts -> SUBSET Syn!Versions] /\ Len(procs[j].passes) <= 2
             /\ procs[j].todo \cup procs[j].gone \subseteq Syn!Charts
             /\ procs[j].imports \subseteq Syn!Charts \X Syn!Versions
  <2>1. SynJobTyped(j)
    BY DEF SynTyped
  <2>2. procs[j].pc \in {"dead", "ended"} => procs[j].index = Syn!NoCharts /\ procs[j].passes = <<>>
    <3> SUFFICES ASSUME procs[j].pc \in {"dead", "ended"}
                 PROVE procs[j].index = Syn!NoCharts /\ procs[j].passes = <<>>
      OBVIOUS
    <3>1. procs[j] = [Syn!Ended EXCEPT !.pc = procs[j].pc]
      BY <2>1 DEF SynJobTyped
    <3>2. \A p : LET e == [Syn!Ended EXCEPT !.pc = p] IN e.index = Syn!NoCharts /\ e.passes = <<>>
      BY DEF Syn!Ended
    <3> QED
      BY <3>1, <3>2
  <2>3. Syn!NoCharts \in [Syn!Charts -> SUBSET Syn!Versions]
    BY DEF Syn!NoCharts
  <2>4. procs[j].index \in [Syn!Charts -> SUBSET Syn!Versions]
    BY <1>1, <2>1, <2>2, <2>3 DEF SynJobTyped, SynWorks, SynAt
  <2>5. Len(procs[j].passes) <= 2
    <3>1. procs[j].passes \in {<<>>, SynBoth, SynFull}
      BY <2>1, <2>2 DEF SynJobTyped, SynWorks, SynAt
    <3>2. Len(<<>>) <= 2 /\ 1 <= 2 /\ 2 <= 2
      OBVIOUS
    <3> QED
      BY <3>1, <3>2, SynPassesFacts, Zenon
  <2>6. Syn!Listed(procs[j].index) \subseteq Syn!Charts /\ Syn!FilesOf(procs[j].index) \subseteq Syn!Charts \X Syn!Versions
    BY DEF Syn!Listed, Syn!FilesOf
  <2> QED
    BY <2>1, <2>4, <2>5, <2>6 DEF SynJobTyped
<1> QED
  BY <1>2, <1>3 DEF Syn!TypeOK

LEMMA SynInvTells == ASSUME Syn!IndexesAssumption, SynTyped, SyncInv PROVE Syn!ChecksumTells
<1> SUFFICES ASSUME SynTyped, SyncInv, \A j \in Jobs : ~Syn!Running(j), ~past.excused
             PROVE  /\ store.checksum # Blank
                    /\ store.checksum # None =>
                          store.charts = store.checksum /\ Syn!FilesOf(store.checksum) \subseteq store.files
  BY DEF Syn!ChecksumTells
<1>1. SynChecksumInv
  BY DEF SyncInv
<1>2. store.checksum # Blank
  BY <1>1 DEF SynChecksumInv
<1>3. ASSUME store.checksum # None
      PROVE  store.charts = store.checksum /\ Syn!FilesOf(store.checksum) \subseteq store.files
  <2>1. PICK x : x = store.checksum
    OBVIOUS
  <2>2. x \in SynPublished
    BY <1>2, <1>3, <2>1 DEF SynTyped, SynStoreTyped
  <2>3. SynStands(x)
    BY <1>1, <2>1, <2>2 DEF SynChecksumInv, SynMovedOn
  <2>4. \A c : \A j \in Jobs : ~SynOwes(j, c)
    BY DEF SynOwes, SynWorks, SynAt, Syn!Running
  <2>5. \A c \in Syn!Charts : store.charts[c] = x[c]
    BY <2>3, <2>4 DEF SynStands, SynWritten
  <2>6. x \in [Syn!Charts -> SUBSET Syn!Versions] /\ store.charts \in [Syn!Charts -> SUBSET Syn!Versions]
    BY <2>2, SynPublishedFacts DEF SynTyped, SynStoreTyped
  <2>7. store.charts = x
    BY <2>5, <2>6
  <2> QED
    BY <2>1, <2>3, <2>7 DEF SynStands
<1> QED
  BY <1>2, <1>3

-----------------------------------------------------------------------------
(* The cluster *)

ResourcesInv    == part = "resources" => ResInv
RepositoriesInv == part = "repositories" => RepInv
FormInv         == part = "form" => FrmInv
InstancesInv    == part = "instances" => InsInv
OperatorsInv    == part = "operators" => OpInv
SessionInv    == part = "session" => Ses!Inv
ControllerInv == part = "controller" => Ctl!IInv
SyncerInv     == part = "syncer" => SynTyped /\ SyncInv

\* a behaviour that starts with a part keeps the invariant of the part, and the others have none
LEMMA ResourcesAlways == Res!ConstantsAssumption => (Spec => []ResourcesInv)
<1> SUFFICES ASSUME Res!ConstantsAssumption PROVE Spec => []ResourcesInv
  OBVIOUS
<1>1. Init => ResourcesInv
  BY ResInitHolds DEF Init, Pages, ResourcesInv
<1>2. ResourcesInv /\ [Next]_vars => ResourcesInv'
  BY ResNextHolds DEF ResourcesInv, Next, On, vars, Res!vars
<1> QED
  BY <1>1, <1>2, PTL DEF Spec

LEMMA RepositoriesAlways == Repos!ConstantsAssumption => (Spec => []RepositoriesInv)
<1> SUFFICES ASSUME Repos!ConstantsAssumption PROVE Spec => []RepositoriesInv
  OBVIOUS
<1>1. Init => RepositoriesInv
  BY RepInitHolds DEF Init, Pages, RepositoriesInv
<1>2. RepositoriesInv /\ [Next]_vars => RepositoriesInv'
  BY RepNextHolds DEF RepositoriesInv, Next, On, vars, Repos!vars
<1> QED
  BY <1>1, <1>2, PTL DEF Spec

LEMMA InstancesAlways == Inst!ConstantsAssumption => (Spec => []InstancesInv)
<1> SUFFICES ASSUME Inst!ConstantsAssumption PROVE Spec => []InstancesInv
  OBVIOUS
<1>1. Init => InstancesInv
  BY InsInitHolds DEF Init, Pages, InstancesInv
<1>2. InstancesInv /\ [Next]_vars => InstancesInv'
  BY InsNextHolds DEF InstancesInv, Next, On, vars, Inst!vars
<1> QED
  BY <1>1, <1>2, PTL DEF Spec

LEMMA OperatorsAlways == Op!ConstantsAssumption => (Spec => []OperatorsInv)
<1> SUFFICES ASSUME Op!ConstantsAssumption PROVE Spec => []OperatorsInv
  OBVIOUS
<1>1. Init => OperatorsInv
  BY OpInitHolds DEF Init, Pages, OperatorsInv
<1>2. OperatorsInv /\ [Next]_vars => OperatorsInv'
  BY OpNextHolds DEF OperatorsInv, Next, On, vars, Op!vars
<1> QED
  BY <1>1, <1>2, PTL DEF Spec

LEMMA FormAlways == Form!ConstantsAssumption => (Spec => []FormInv)
<1> SUFFICES ASSUME Form!ConstantsAssumption PROVE Spec => []FormInv
  OBVIOUS
<1>1. Init => FormInv
  BY FrmInitHolds DEF Init, Pages, FormInv
<1>2. FormInv /\ [Next]_vars => FormInv'
  BY FrmNextHolds DEF FormInv, Next, On, vars, Form!vars
<1> QED
  BY <1>1, <1>2, PTL DEF Spec

LEMMA SessionAlways == Ses!ConstantsAssumption => (Spec => []SessionInv)
<1> SUFFICES ASSUME Ses!ConstantsAssumption PROVE Spec => []SessionInv
  OBVIOUS
<1>1. Init => SessionInv
  BY Ses!InitKeeps DEF Init, Pages, SessionInv
<1>2. SessionInv /\ [Next]_vars => SessionInv'
  BY Ses!NextKeeps DEF SessionInv, Next, On, vars, Ses!vars
<1> QED
  BY <1>1, <1>2, PTL DEF Spec

LEMMA ControllerAlways == Ctl!NoneAssumption => (Spec => []ControllerInv)
<1> SUFFICES ASSUME Ctl!NoneAssumption PROVE Spec => []ControllerInv
  OBVIOUS
<1>1. Init => ControllerInv
  BY Ctl!InitHolds DEF Init, Pages, ControllerInv
<1>2. ControllerInv /\ [Next]_vars => ControllerInv'
  BY Ctl!StepKeeps DEF ControllerInv, Next, On, vars, Ctl!vars
<1> QED
  BY <1>1, <1>2, PTL DEF Spec

LEMMA SyncerAlways == Syn!IndexesAssumption => (Spec => []SyncerInv)
<1> SUFFICES ASSUME Syn!IndexesAssumption PROVE Spec => []SyncerInv
  OBVIOUS
<1>1. Init => SyncerInv
  BY SynInitTyped DEF Init, Pages, SyncerInv
<1>2. SyncerInv /\ [Next]_vars => SyncerInv'
  BY SynNextTyped, SynNextKeeps DEF SyncerInv, Next, On, vars, Syn!vars
<1> QED
  BY <1>1, <1>2, PTL DEF Spec

\* Every variable keeps its type, on each page and behind it, for any constants that the parts
\* may have.
THEOREM ClusterTypes == ConstantsAssumption => (Spec => []TypeOK)
<1> SUFFICES ASSUME ConstantsAssumption PROVE Spec => []TypeOK
  OBVIOUS
<1> DEFINE All8 == /\ ResourcesInv /\ RepositoriesInv /\ FormInv /\ InstancesInv /\ OperatorsInv
                   /\ SessionInv /\ ControllerInv /\ SyncerInv
<1>1. All8 => TypeOK
  <2> USE DEF ConstantsAssumption
  <2>1. /\ ResourcesInv => (part = "resources" => Res!TypeOK)
        /\ RepositoriesInv => (part = "repositories" => Repos!TypeOK)
        /\ FormInv => (part = "form" => Form!TypeOK)
    BY ResTypes, RepHolds, FrmHolds DEF ResourcesInv, RepositoriesInv, FormInv
  <2>2. /\ InstancesInv => (part = "instances" => Inst!TypeOK)
        /\ OperatorsInv => (part = "operators" => Op!TypeOK)
    BY InsHolds, OpHolds DEF InstancesInv, OperatorsInv
  <2>3. /\ SessionInv => (part = "session" => Ses!TypeOK)
        /\ ControllerInv => (part = "controller" => Ctl!TypeOK)
        /\ SyncerInv => (part = "syncer" => Syn!TypeOK)
    BY Ses!InvTypes, Ctl!InvTypes, SynInvTypes DEF SessionInv, ControllerInv, SyncerInv
  <2> QED
    BY <2>1, <2>2, <2>3 DEF TypeOK
<1>2. Spec => []ResourcesInv /\ []RepositoriesInv /\ []FormInv /\ []InstancesInv /\ []OperatorsInv
  BY ResourcesAlways, RepositoriesAlways, FormAlways, InstancesAlways, OperatorsAlways, SMTT(60)
     DEF ConstantsAssumption
<1>3. Spec => []SessionInv /\ []ControllerInv /\ []SyncerInv
  BY SessionAlways, ControllerAlways, SyncerAlways DEF ConstantsAssumption
<1> QED
  BY <1>1, <1>2, <1>3, PTL

\* The page of an application that shows its resources without a message shows them as they are,
\* with a status that is not older, when nothing is on its way: for any applications, through
\* streams that break, changes while a stream is opened again, and pages that are left.
THEOREM ClusterResources == Res!ConstantsAssumption => (Spec => []ResourcesAreCurrent)
<1> SUFFICES ASSUME Res!ConstantsAssumption PROVE Spec => []ResourcesAreCurrent
  OBVIOUS
<1>1. ResourcesInv => ResourcesAreCurrent
  BY ResHolds DEF ResourcesInv, ResourcesAreCurrent
<1> QED
  BY <1>1, ResourcesAlways, PTL

\* An update, a deletion or a subscription is sent for what its page was opened for, in any order
\* of pages, late answers and failures, a subscription only where there is an operator group, and
\* a form keeps what was typed when its request fails.
THEOREM ClusterRequests ==
    Repos!ConstantsAssumption /\ Inst!ConstantsAssumption /\ Op!ConstantsAssumption
        => (Spec => []RequestsMatchPages)
<1> SUFFICES ASSUME Repos!ConstantsAssumption, Inst!ConstantsAssumption, Op!ConstantsAssumption
             PROVE  Spec => []RequestsMatchPages
  OBVIOUS
<1>1. RepositoriesInv /\ InstancesInv /\ OperatorsInv => RequestsMatchPages
  BY RepHolds, InsHolds, OpHolds DEF RepositoriesInv, InstancesInv, OperatorsInv, RequestsMatchPages
<1> QED
  BY <1>1, RepositoriesAlways, InstancesAlways, OperatorsAlways, PTL

\* When every request is answered the lists agree with the cluster and no page is left loading.
THEOREM ClusterLists ==
    Repos!ConstantsAssumption /\ Inst!ConstantsAssumption /\ Op!ConstantsAssumption
        => (Spec => []ListsSettle)
<1> SUFFICES ASSUME Repos!ConstantsAssumption, Inst!ConstantsAssumption, Op!ConstantsAssumption
             PROVE  Spec => []ListsSettle
  OBVIOUS
<1>1. RepositoriesInv /\ InstancesInv /\ OperatorsInv => ListsSettle
  BY RepHolds, InsHolds, OpHolds DEF RepositoriesInv, InstancesInv, OperatorsInv, ListsSettle
<1> QED
  BY <1>1, RepositoriesAlways, InstancesAlways, OperatorsAlways, PTL

\* The form of a repository sends what it shows, something its plugin supports, and what the user
\* left alone as it was: for every repository the form can load and any number of edits.
THEOREM ClusterRepoForm == Form!ConstantsAssumption => (Spec => []RepoFormSends)
<1> SUFFICES ASSUME Form!ConstantsAssumption PROVE Spec => []RepoFormSends
  OBVIOUS
<1>1. FormInv => RepoFormSends
  BY FrmHolds DEF FormInv, RepoFormSends
<1> QED
  BY <1>1, FormAlways, PTL

\* Whoever is logged in has the token that his requests carry, and once everything is answered
\* the context is his, or one that a URL named, or he is told that he has none; neither a login
\* nor a context is waited for in vain.  So it goes for any users, clusters and namespaces, through
\* logouts, reloads, expired tokens, URLs of any context, namespaces that are created, and the
\* answers to requests of whoever was logged in before.
THEOREM ClusterSession == Ses!ConstantsAssumption => (Spec => []SessionHolds)
<1> SUFFICES ASSUME Ses!ConstantsAssumption PROVE Spec => []SessionHolds
  OBVIOUS
<1>1. SessionInv => SessionHolds
  BY Ses!InvHolds DEF SessionInv, SessionHolds
<1> QED
  BY <1>1, SessionAlways, PTL

\* When the controller has nothing left to do, an AppRepository has its finalizer, the CronJob of
\* its spec and had a Job for it, and one that is gone left nothing: for any number of changes,
\* breaks of the watch and restarts, but for the named exceptions.
THEOREM ClusterController == Ctl!NoneAssumption => (Spec => []ControllerConverges)
<1> SUFFICES ASSUME Ctl!NoneAssumption PROVE Spec => []ControllerConverges
  OBVIOUS
<1>1. ControllerInv => ControllerConverges
  BY Ctl!InvConverges DEF ControllerInv, ControllerConverges
<1> QED
  BY <1>1, ControllerAlways, PTL

\* When no Job runs, the database has the charts and the files of the index whose checksum it
\* has, wherever Jobs died and whatever was published meanwhile, but for the named exceptions.
THEOREM ClusterJobs == Syn!IndexesAssumption => (Spec => []ChecksumTells)
<1> SUFFICES ASSUME Syn!IndexesAssumption PROVE Spec => []ChecksumTells
  OBVIOUS
<1>1. SyncerInv => ChecksumTells
  BY SynInvTells DEF SyncerInv, ChecksumTells
<1> QED
  BY <1>1, SyncerAlways, PTL
=============================================================================

--------------------------- MODULE ControllerProofs ---------------------------
(***************************************************************************)
(* That the controller converges: for any number of changes, breaks of the *)
(* watch, restarts and specs.                                              *)
(*                                                                         *)
(* A state in which nothing is left to do says nothing of how it was       *)
(* reached, so the invariant says of every state what is still to come.    *)
(* While there is an AppRepository that is not being deleted, its key is   *)
(* on its way to the worker, or news of the loss of its CronJob is, or     *)
(* the worker is at, or done with, the right spec (CourseInv).  The key is *)
(* on its way because of all that the informer was told and did not handle *)
(* yet, some note leads from an out of date version to one that is not     *)
(* (NotesInv).  While one is deleted, a clean-up of it is on its way.      *)
(*                                                                         *)
(* Of each action it is said first what it does to each variable (...Does),*)
(* so that the proofs about the invariant need not expand it again.        *)
(***************************************************************************)
EXTENDS AppRepoController, SequenceTheorems, TLAPS

-----------------------------------------------------------------------------
(* Types *)

Objects == [gen : Nat, spec : Specs, deleting : BOOLEAN, fin : BOOLEAN]
Crons   == [gen : Nat, spec : Specs]
Notes   == [old : Nat, new : Nat]
Pcs     == {"idle", "cronjob", "job", "finalize", "clean", "cron", "unfinalize"}
Whos    == {"worker", "handler"}
Works   == [pc : Pcs, obj : Nat, found : BOOLEAN]

Stores == [own : BOOLEAN, versions : Seq({None} \cup Objects), cron : {None} \cup Crons]
Procs  == [cached : Nat, notes : Seq(Notes), touched : SUBSET Nat, cron : BOOLEAN, cronNews : Seq(BOOLEAN),
           lost : Nat, delayed : BOOLEAN, queued : BOOLEAN, worker : Works, handler : Works]
Pasts  == [ops : Nat, breaks : Nat, crashes : Nat, faults : Nat, gens : Nat,
           synced : SUBSET (Nat \X Specs), cleaned : SUBSET Nat, excused : BOOLEAN]

\* Versions that are talked of are there.
Bounded ==
    /\ Latest >= 1
    /\ procs.cached \in 1..Latest /\ procs.touched \subseteq 1..Latest
    /\ procs.worker.obj \in 1..Latest /\ procs.handler.obj \in 1..Latest
    /\ \A k \in 1..Len(procs.notes) : procs.notes[k].old \in 1..Latest /\ procs.notes[k].new \in 1..Latest
    /\ \A i \in 1..Latest : store.versions[i] # None => store.versions[i].gen \in 1..past.gens
    /\ store.cron # None => store.cron.gen \in 1..past.gens
    /\ \A s \in past.synced : s[1] \in 1..past.gens
    /\ past.cleaned \subseteq 1..past.gens

Typed == store \in Stores /\ procs \in Procs /\ past \in Pasts /\ Bounded

\* What an action may leave alone.
Views == <<procs.cached, procs.notes>>
Keys      == <<procs.delayed, procs.queued>>
CronNews  == <<procs.cronNews, procs.lost>>
Done      == <<past.gens, past.synced, past.cleaned>>

\* News that there is no CronJob, and what comes of it.
CronGone == \E k \in 1..Len(procs.cronNews) : ~procs.cronNews[k]
Lost     == store.own /\ (procs.lost > 0 \/ CronGone)

LEMMA TypedFacts ==
  ASSUME Typed
  PROVE  /\ store.versions \in Seq({None} \cup Objects) /\ Latest \in Nat \ {0} /\ Current \in {None} \cup Objects
         /\ \A i \in 1..Latest : store.versions[i] \in {None} \cup Objects
         /\ procs.notes \in Seq(Notes) /\ \A k \in 1..Len(procs.notes) : procs.notes[k] \in Notes
         /\ procs.cronNews \in Seq(BOOLEAN)
<1>1. store.versions \in Seq({None} \cup Objects) /\ procs.notes \in Seq(Notes) /\ procs.cronNews \in Seq(BOOLEAN)
  BY DEF Typed, Stores, Procs
<1>2. Latest \in Nat \ {0}
  BY <1>1, LenProperties DEF Typed, Bounded, Latest
<1>3. \A i \in 1..Latest : store.versions[i] \in {None} \cup Objects
  BY <1>1, <1>2, ElementOfSeq DEF Latest
<1>4. \A k \in 1..Len(procs.notes) : procs.notes[k] \in Notes
  BY <1>1, ElementOfSeq
<1> QED
  BY <1>1, <1>2, <1>3, <1>4 DEF Current

\* What the cluster has is an object of some generation that was.
LEMMA CurrentFacts ==
  ASSUME Typed, Current # None
  PROVE  Current \in Objects /\ Current.gen \in 1..past.gens /\ past \in Pasts /\ past.gens \in Nat
<1>1. Latest \in Nat \ {0} /\ Current \in Objects
  BY TypedFacts
<1>2. past \in Pasts /\ past.gens \in Nat
  BY DEF Typed, Pasts
<1>3. Latest \in 1..Latest
  BY <1>1
<1>4. Current.gen \in 1..past.gens
  BY <1>3 DEF Typed, Bounded, Current
<1> QED
  BY <1>1, <1>2, <1>4

\* What a write does.
Wrote(v) ==
    /\ Latest' = Latest + 1 /\ Current' = v
    /\ \A i \in 1..Latest : store'.versions[i] = store.versions[i]

LEMMA WriteDoes ==
  ASSUME Typed, NEW v \in {None} \cup Objects, Write(v)
  PROVE  /\ store' \in Stores /\ store'.own = store.own /\ store'.cron = store.cron /\ Wrote(v)
<1>1. store.versions \in Seq({None} \cup Objects)
  BY TypedFacts
<1>2. store' = [store EXCEPT !.versions = Append(store.versions, v)]
  BY DEF Write
<1>3. /\ Append(store.versions, v) \in Seq({None} \cup Objects)
      /\ Len(Append(store.versions, v)) = Len(store.versions) + 1
      /\ \A i \in 1..Len(store.versions) : Append(store.versions, v)[i] = store.versions[i]
      /\ Append(store.versions, v)[Len(store.versions) + 1] = v
  BY <1>1, AppendProperties
<1>4. store'.versions = Append(store.versions, v) /\ store' \in Stores
      /\ store'.own = store.own /\ store'.cron = store.cron
  BY <1>2, <1>3 DEF Typed, Stores
<1> QED
  BY <1>3, <1>4 DEF Wrote, Latest, Current

\* What users do is counted.
LEMMA DidDoes ==
  ASSUME NEW h \in Pasts, Did(h)
  PROVE  /\ past' \in Pasts /\ past'.gens = h.gens /\ past'.synced = h.synced /\ past'.cleaned = h.cleaned
         /\ past'.excused = h.excused
<1>1. past' = [h EXCEPT !.ops = h.ops + 1] /\ h.ops + 1 \in Nat
  BY DEF Did, Pasts
<1> QED
  BY <1>1 DEF Pasts

\* One more version is there.
LEMMA WroteBounded ==
  ASSUME Typed, NEW v \in {None} \cup Objects, Wrote(v), past'.gens \in Nat, past'.gens >= past.gens,
         v # None => v.gen \in 1..past'.gens
  PROVE  /\ 1..past.gens \subseteq 1..past'.gens /\ Latest' \in Nat /\ Latest' >= 1
         /\ 1..Latest \subseteq 1..Latest' /\ 1..Latest' = 1..Latest \cup {Latest'} /\ Latest' = Latest + 1
         /\ store'.versions[Latest'] = v
         /\ \A i \in 1..Latest' : (store.versions[i] # None => store.versions[i].gen \in 1..past.gens)'
<1>1. past.gens \in Nat /\ Latest \in Nat /\ Latest' = Latest + 1
  BY TypedFacts DEF Typed, Pasts, Wrote
<1>2. /\ 1..past.gens \subseteq 1..past'.gens /\ Latest' \in Nat /\ Latest' >= 1
      /\ 1..Latest \subseteq 1..Latest' /\ 1..Latest' = 1..Latest \cup {Latest'}
  BY <1>1
<1>3. store'.versions[Latest'] = v
  BY DEF Wrote, Current
<1>4. \A i \in 1..Latest : (store.versions[i] # None => store.versions[i].gen \in 1..past.gens)'
  BY <1>2 DEF Wrote, Typed, Bounded
<1> QED
  BY <1>1, <1>2, <1>3, <1>4

LEMMA CreateDoes ==
  ASSUME NoneAssumption, Typed, NEW s \in Specs, Create(s)
  PROVE  /\ Typed' /\ procs' = procs /\ Current = None
         /\ UNCHANGED <<store.own, store.cron, past.synced, past.cleaned, past.excused>>
         /\ past'.gens = past.gens + 1 /\ \E v \in Objects :
               Wrote(v) /\ v.gen = past.gens + 1 /\ v.spec = s /\ ~v.deleting /\ ~v.fin
<1> DEFINE v == Version(past.gens + 1, s, FALSE, FALSE)
           h == [past EXCEPT !.gens = past.gens + 1]
<1>1. procs' = procs /\ Current = None /\ Did(h) /\ Write(v)
  BY DEF Create
<1>2. /\ h \in Pasts /\ h.gens = past.gens + 1 /\ h.synced = past.synced /\ h.cleaned = past.cleaned
      /\ h.excused = past.excused /\ past.gens \in Nat
  BY DEF Typed, Pasts
<1>3. v \in Objects /\ v.gen = past.gens + 1 /\ v.spec = s /\ ~v.deleting /\ ~v.fin
  BY <1>2 DEF Version, Objects
<1> HIDE DEF h, v
<1>4. /\ past' \in Pasts /\ past'.gens = past.gens + 1
      /\ UNCHANGED <<past.synced, past.cleaned, past.excused>>
  BY <1>1, <1>2, DidDoes
<1>5. /\ store' \in Stores /\ store'.own = store.own /\ store'.cron = store.cron /\ Wrote(v)
  BY <1>1, <1>3, WriteDoes
<1>6. Bounded'
  <2>1. past'.gens \in Nat /\ past'.gens >= past.gens /\ v.gen \in 1..past'.gens
    BY <1>2, <1>3, <1>4
  <2> QED
    BY <1>1, <1>3, <1>4, <1>5, <2>1, WroteBounded DEF Typed, Bounded
<1> QED
  BY <1>1, <1>3, <1>4, <1>5, <1>6 DEF Typed

LEMMA ChangeDoes ==
  ASSUME NoneAssumption, Typed, NEW s \in Specs, Change(s)
  PROVE  /\ Typed' /\ procs' = procs /\ Current # None /\ Current.spec # s
         /\ UNCHANGED <<store.own, store.cron, Done, past.excused>>
         /\ \E v \in Objects : /\ Wrote(v) /\ v.gen = Current.gen /\ v.spec = s
                               /\ v.deleting = Current.deleting /\ (v.fin <=> Current.fin)
<1> DEFINE v == [Current EXCEPT !.spec = s]
<1>1. procs' = procs /\ Current # None /\ Current.spec # s /\ Did(past) /\ Write(v)
  BY DEF Change
<1>2. Current \in Objects /\ Current.gen \in 1..past.gens /\ past \in Pasts /\ past.gens \in Nat
  BY <1>1, CurrentFacts
<1>3. /\ v \in Objects /\ v.gen = Current.gen /\ v.spec = s
      /\ v.deleting = Current.deleting /\ (v.fin <=> Current.fin)
  BY <1>1, <1>2 DEF Objects
<1> HIDE DEF v
<1>4. past' \in Pasts /\ UNCHANGED <<Done, past.excused>>
  BY <1>1, <1>2, DidDoes DEF Done
<1>5. /\ store' \in Stores /\ store'.own = store.own /\ store'.cron = store.cron /\ Wrote(v)
  BY <1>1, <1>3, WriteDoes
<1>6. Bounded'
  <2>1. past'.gens = past.gens /\ past'.synced = past.synced /\ past'.cleaned = past.cleaned
    BY <1>4 DEF Done
  <2>2. past'.gens \in Nat /\ past'.gens >= past.gens /\ v.gen \in 1..past'.gens
    BY <1>2, <1>3, <2>1
  <2> QED
    BY <1>1, <1>3, <1>5, <2>1, <2>2, WroteBounded DEF Typed, Bounded
<1> QED
  BY <1>1, <1>3, <1>4, <1>5, <1>6 DEF Typed

LEMMA DeleteDoes ==
  ASSUME NoneAssumption, Typed, Delete
  PROVE  /\ Typed' /\ procs' = procs /\ Current # None /\ ~Current.deleting
         /\ UNCHANGED <<store.own, store.cron, Done>>
         /\ past'.excused = (past.excused \/ ~Current.fin)
         /\ Current.fin => \E v \in Objects :
               Wrote(v) /\ v.gen = Current.gen /\ v.spec = Current.spec /\ v.deleting /\ v.fin
<1> DEFINE v == IF Current.fin THEN [Current EXCEPT !.deleting = TRUE] ELSE None
           h == [past EXCEPT !.excused = past.excused \/ ~Current.fin]
<1>1. procs' = procs /\ Current # None /\ ~Current.deleting /\ Did(h) /\ Write(v)
  BY DEF Delete
<1>2. Current \in Objects /\ Current.gen \in 1..past.gens /\ past \in Pasts /\ past.gens \in Nat
  BY <1>1, CurrentFacts
<1>3. /\ v \in {None} \cup Objects /\ (v # None => v.gen = Current.gen)
      /\ Current.fin => v \in Objects /\ v.gen = Current.gen /\ v.spec = Current.spec /\ v.deleting /\ v.fin
  BY <1>2 DEF Objects
<1>4. /\ h \in Pasts /\ h.gens = past.gens /\ h.synced = past.synced /\ h.cleaned = past.cleaned
      /\ h.excused = (past.excused \/ ~Current.fin)
  BY <1>2 DEF Pasts
<1> HIDE DEF h, v
<1>5. /\ past' \in Pasts /\ UNCHANGED Done /\ past'.excused = (past.excused \/ ~Current.fin)
  BY <1>1, <1>4, DidDoes DEF Done
<1>6. /\ store' \in Stores /\ store'.own = store.own /\ store'.cron = store.cron /\ Wrote(v)
  BY <1>1, <1>3, WriteDoes
<1>7. Bounded'
  <2>1. past'.gens = past.gens /\ past'.synced = past.synced /\ past'.cleaned = past.cleaned
    BY <1>5 DEF Done
  <2>2. past'.gens \in Nat /\ past'.gens >= past.gens /\ (v # None => v.gen \in 1..past'.gens)
    BY <1>2, <1>3, <2>1
  <2> QED
    BY <1>1, <1>3, <1>6, <2>1, <2>2, WroteBounded DEF Typed, Bounded
<1> QED
  BY <1>1, <1>3, <1>5, <1>6, <1>7 DEF Typed

\* The CronJob is written or deleted: what the API server tells of it.
LEMMA CronWrites ==
  ASSUME Typed, NEW c \in {None} \cup Crons, cronWritten(c), NEW q, q = NewsOf(procs, c)
  PROVE  /\ store' \in Stores /\ store'.own = store.own /\ store'.versions = store.versions /\ store'.cron = c
         /\ q \in Procs /\ q.cached = procs.cached /\ q.notes = procs.notes /\ q.touched = procs.touched
         /\ q.lost = procs.lost /\ q.delayed = procs.delayed /\ q.queued = procs.queued
         /\ q.worker = procs.worker /\ q.handler = procs.handler
         /\ q.cronNews = IF (store.cron = None) = (c = None) THEN procs.cronNews
                         ELSE Append(procs.cronNews, c # None)
<1>1. store \in Stores /\ procs \in Procs /\ procs.cronNews \in Seq(BOOLEAN)
  BY DEF Typed, Procs
<1>2. store' = [store EXCEPT !.cron = c]
  BY DEF cronWritten
<1>3. Append(procs.cronNews, c # None) \in Seq(BOOLEAN)
  BY <1>1, AppendProperties
<1>4. q = IF (store.cron = None) = (c = None) THEN procs
          ELSE [procs EXCEPT !.cronNews = Append(procs.cronNews, c # None)]
  BY DEF NewsOf
<1>5. /\ store' \in Stores /\ store'.own = store.own /\ store'.versions = store.versions /\ store'.cron = c
  BY <1>1, <1>2 DEF Stores
<1>6. CASE (store.cron = None) = (c = None)
  BY <1>1, <1>4, <1>5, <1>6, Zenon
<1>7. CASE (store.cron = None) # (c = None)
  <2> DEFINE news == Append(procs.cronNews, c # None)
  <2>1. q = [procs EXCEPT !.cronNews = news]
    BY <1>4, <1>7, Zenon
  <2>2. news \in Seq(BOOLEAN)
    BY <1>3
  <2> HIDE DEF news
  <2>3. /\ q \in Procs /\ q.cached = procs.cached /\ q.notes = procs.notes /\ q.touched = procs.touched
        /\ q.lost = procs.lost /\ q.delayed = procs.delayed /\ q.queued = procs.queued
        /\ q.worker = procs.worker /\ q.handler = procs.handler /\ q.cronNews = news
    BY <1>1, <2>1, <2>2 DEF Procs
  <2>4. q.cronNews = IF (store.cron = None) = (c = None) THEN procs.cronNews
                     ELSE Append(procs.cronNews, c # None)
    BY <1>7, <2>3, Zenon DEF news
  <2> QED
    BY <1>5, <2>3, <2>4
<1> QED
  BY <1>6, <1>7

LEMMA GoesDoes ==
  ASSUME NEW p \in Procs, NEW who \in Whos, NEW pc \in Pcs, NEW q, q = Goes(p, who, pc)
  PROVE  /\ q \in Procs /\ q[who].pc = pc /\ q[who].obj = (IF pc = "idle" THEN 1 ELSE p[who].obj)
         /\ \A w \in Whos \ {who} : q[w] = p[w]
         /\ q.cached = p.cached /\ q.notes = p.notes /\ q.touched = p.touched
         /\ q.cronNews = p.cronNews /\ q.lost = p.lost /\ q.delayed = p.delayed /\ q.queued = p.queued
<1>1. Idle \in Works /\ Idle.pc = "idle" /\ Idle.obj = 1
  BY DEF Idle, Works, Pcs
<1>2. PICK t : t = IF pc = "idle" THEN Idle ELSE [p[who] EXCEPT !.pc = pc]
  OBVIOUS
<1>3. p[who] \in Works
  BY DEF Procs, Whos
<1>4. t \in Works /\ t.pc = pc /\ t.obj = (IF pc = "idle" THEN 1 ELSE p[who].obj)
  BY <1>1, <1>2, <1>3 DEF Works
<1>5. q = [p EXCEPT ![who] = t]
  BY <1>2 DEF Goes
<1>6. CASE who = "worker"
  BY <1>4, <1>5, <1>6 DEF Procs, Whos
<1>7. CASE who = "handler"
  BY <1>4, <1>5, <1>7 DEF Procs, Whos
<1> QED
  BY <1>6, <1>7 DEF Whos

LEMMA NewsTell ==
  ASSUME Typed, NEW c, NEW q, q = NewsOf(procs, c), procs'.cronNews = q.cronNews
  PROVE  (CronGone => CronGone') /\ (c = None /\ store.cron # None => CronGone')
<1>1. procs.cronNews \in Seq(BOOLEAN) /\ procs \in Procs
  BY DEF Typed, Procs
<1>2. CASE (store.cron = None) = (c = None)
  <2>1. q = procs
    BY <1>2 DEF NewsOf
  <2> QED
    BY <1>2, <2>1 DEF CronGone
<1>3. CASE (store.cron = None) # (c = None)
  <2> DEFINE b == c # None
  <2>1. q = [procs EXCEPT !.cronNews = Append(procs.cronNews, b)]
    BY <1>3 DEF NewsOf
  <2>2. b \in BOOLEAN /\ (c = None => b = FALSE)
    OBVIOUS
  <2> HIDE DEF b
  <2>3. procs'.cronNews = Append(procs.cronNews, b)
    BY <1>1, <2>1 DEF Procs
  <2>4. /\ Len(procs'.cronNews) = Len(procs.cronNews) + 1 /\ Len(procs.cronNews) \in Nat
        /\ \A i \in 1..Len(procs.cronNews) : procs'.cronNews[i] = procs.cronNews[i]
        /\ procs'.cronNews[Len(procs.cronNews) + 1] = b
    BY <1>1, <2>2, <2>3, AppendProperties, LenProperties
  <2>5. 1..Len(procs.cronNews) \subseteq 1..Len(procs'.cronNews)
        /\ Len(procs.cronNews) + 1 \in 1..Len(procs'.cronNews)
    BY <2>4
  <2>6. CronGone => CronGone'
    BY <2>4, <2>5, Zenon DEF CronGone
  <2>7. c = None => CronGone'
    BY <2>2, <2>4, <2>5, Zenon DEF CronGone
  <2> QED
    BY <2>6, <2>7
<1> QED
  BY <1>2, <1>3

LEMMA DeleteCronJobDoes ==
  ASSUME NoneAssumption, Typed, DeleteCronJob
  PROVE  /\ Typed' /\ store'.cron = None /\ past'.excused = (past.excused \/ ~store.own) /\ CronGone'
         /\ UNCHANGED <<store.own, store.versions, Views, Keys, procs.touched, procs.worker, procs.handler, Done>>
<1> DEFINE h == [past EXCEPT !.excused = past.excused \/ ~store.own]
<1>1. store.cron # None /\ cronWritten(None) /\ procs' = NewsOf(procs, None) /\ Did(h)
  BY DEF DeleteCronJob
<1>2. /\ h \in Pasts /\ h.gens = past.gens /\ h.synced = past.synced /\ h.cleaned = past.cleaned
      /\ h.excused = (past.excused \/ ~store.own)
  BY DEF Typed, Pasts
<1> HIDE DEF h
<1>3. past' \in Pasts /\ UNCHANGED Done /\ past'.excused = (past.excused \/ ~store.own)
  BY <1>1, <1>2, DidDoes DEF Done
<1>4. /\ store' \in Stores /\ store'.own = store.own /\ store'.versions = store.versions /\ store'.cron = None
      /\ procs' \in Procs /\ procs'.cached = procs.cached /\ procs'.notes = procs.notes
      /\ procs'.touched = procs.touched /\ procs'.delayed = procs.delayed /\ procs'.queued = procs.queued
      /\ procs'.worker = procs.worker /\ procs'.handler = procs.handler
  BY <1>1, CronWrites
<1>5. CronGone'
  BY <1>1, NewsTell
<1>6. Typed'
  BY <1>3, <1>4 DEF Typed, Bounded, Latest, Done
<1> QED
  BY <1>3, <1>4, <1>5, <1>6 DEF Views, Keys

LEMMA CollectDoes ==
  ASSUME NoneAssumption, Typed, Collect
  PROVE  /\ Typed' /\ Orphaned /\ past' = past
<1>1. Orphaned /\ cronWritten(None) /\ procs' = NewsOf(procs, None) /\ past' = past
  BY DEF Collect
<1>2. /\ store' \in Stores /\ store'.own = store.own /\ store'.versions = store.versions /\ store'.cron = None
      /\ procs' \in Procs /\ procs'.cached = procs.cached /\ procs'.notes = procs.notes
      /\ procs'.touched = procs.touched /\ procs'.worker = procs.worker /\ procs'.handler = procs.handler
  BY <1>1, CronWrites
<1>3. Typed'
  BY <1>1, <1>2 DEF Typed, Bounded, Latest
<1> QED
  BY <1>1, <1>3

LEMMA DeliverDoes ==
  ASSUME NoneAssumption, Typed, Deliver
  PROVE  /\ Typed' /\ store' = store /\ procs.cached < Latest
         /\ UNCHANGED <<Keys, CronNews, procs.touched, procs.worker, procs.handler, Done>>
         /\ past.excused => past'.excused
         /\ procs'.cached \in procs.cached + 1..Latest
         /\ ~past'.excused => \/ procs'.cached = procs.cached + 1
                              \/ procs'.cached = Latest /\ ~LooksUnchanged(procs.cached, Latest)
         /\ procs'.notes = Append(procs.notes, [old |-> procs.cached, new |-> procs'.cached])
<1>1. store' = store /\ procs.cached < Latest
  BY DEF Deliver
<1>2. PICK i \in {procs.cached + 1} \cup {Latest} :
         /\ procs' = [procs EXCEPT !.cached = i, !.notes = Append(@, [old |-> procs.cached, new |-> i])]
         /\ past' = IF i = procs.cached + 1 THEN past
                    ELSE [past EXCEPT !.breaks = @ + 1, !.excused = @ \/ LooksUnchanged(procs.cached, i)]
  BY DEF Deliver
<1>3. procs.cached \in Nat /\ Latest \in Nat /\ procs.cached >= 1 /\ procs.notes \in Seq(Notes)
      /\ procs \in Procs /\ past \in Pasts
  BY TypedFacts DEF Typed, Procs, Bounded
<1>4. i \in procs.cached + 1..Latest /\ i \in 1..Latest /\ i \in Nat
  BY <1>1, <1>2, <1>3
<1> DEFINE note == [old |-> procs.cached, new |-> i]
           notes == Append(procs.notes, note)
<1>5. note \in Notes /\ note.old = procs.cached /\ note.new = i
  BY <1>3, <1>4 DEF Notes
<1> HIDE DEF note
<1>6. /\ notes \in Seq(Notes) /\ Len(notes) = Len(procs.notes) + 1 /\ Len(procs.notes) \in Nat
      /\ \A k \in 1..Len(procs.notes) : notes[k] = procs.notes[k]
      /\ notes[Len(procs.notes) + 1] = note
  BY <1>3, <1>5, AppendProperties, LenProperties
<1> HIDE DEF notes
<1> DEFINE p1 == [procs EXCEPT !.cached = i]
<1>7. /\ p1 \in Procs /\ p1.cached = i /\ p1.notes = procs.notes /\ p1.touched = procs.touched /\ p1.lost = procs.lost
      /\ p1.cronNews = procs.cronNews
      /\ p1.delayed = procs.delayed /\ p1.queued = procs.queued
      /\ p1.worker = procs.worker /\ p1.handler = procs.handler
  BY <1>3, <1>4 DEF Procs
<1>8. procs' = [p1 EXCEPT !.notes = notes]
  BY <1>2, <1>3 DEF notes, note, Procs
<1> HIDE DEF p1
<1>9. /\ procs' \in Procs /\ procs'.cached = i /\ procs'.notes = notes
      /\ procs'.touched = p1.touched /\ procs'.lost = p1.lost /\ procs'.cronNews = p1.cronNews
      /\ procs'.delayed = p1.delayed /\ procs'.queued = p1.queued
      /\ procs'.worker = p1.worker /\ procs'.handler = p1.handler
  BY <1>6, <1>7, <1>8 DEF Procs
<1>10. past' \in Pasts /\ UNCHANGED Done /\ (past.excused => past'.excused)
       /\ (~past'.excused => i = procs.cached + 1 \/ ~LooksUnchanged(procs.cached, i))
  <2>1. CASE i = procs.cached + 1
    BY <1>2, <1>3, <2>1 DEF Done
  <2>2. CASE i # procs.cached + 1
    <3> DEFINE u == LooksUnchanged(procs.cached, i)
               h1 == [past EXCEPT !.breaks = past.breaks + 1]
    <3>1. u \in BOOLEAN
      BY DEF LooksUnchanged
    <3> HIDE DEF u
    <3>2. h1 \in Pasts /\ h1.gens = past.gens /\ h1.synced = past.synced /\ h1.cleaned = past.cleaned
          /\ h1.excused = past.excused
      BY <1>3, SMTT(60) DEF Pasts
    <3>3. past' = [h1 EXCEPT !.excused = past.excused \/ u]
      BY <1>2, <1>3, <2>2 DEF Pasts, u
    <3> HIDE DEF h1
    <3>4. past' \in Pasts /\ past'.gens = h1.gens /\ past'.synced = h1.synced /\ past'.cleaned = h1.cleaned
          /\ past'.excused = (past.excused \/ u)
      BY <3>1, <3>2, <3>3 DEF Pasts
    <3> QED
      BY <3>2, <3>4 DEF u, Done
  <2> QED
    BY <2>1, <2>2
<1>11. Typed'
  <2>1. \A k \in 1..Len(notes) : notes[k].old \in 1..Latest /\ notes[k].new \in 1..Latest
    <3>1. \A k \in 1..Len(notes) : k \in 1..Len(procs.notes) \/ k = Len(procs.notes) + 1
      BY <1>6
    <3> QED
      BY <1>3, <1>4, <1>5, <1>6, <3>1 DEF Typed, Bounded
  <2> QED
    BY <1>1, <1>3, <1>4, <1>7, <1>9, <1>10, <2>1 DEF Typed, Bounded, Done, Latest
<1>12. procs'.notes = Append(procs.notes, [old |-> procs.cached, new |-> procs'.cached])
  BY <1>9 DEF notes, note
<1>13. UNCHANGED <<Keys, CronNews, procs.touched, procs.worker, procs.handler, Done>>
  BY <1>7, <1>9, <1>10 DEF Keys, CronNews
<1>14. /\ procs'.cached \in procs.cached + 1..Latest
       /\ ~past'.excused => \/ procs'.cached = procs.cached + 1
                            \/ procs'.cached = Latest /\ ~LooksUnchanged(procs.cached, Latest)
  <2>1. i # procs.cached + 1 => i = Latest
    BY <1>2
  <2>2. procs'.cached = i
    BY <1>9
  <2>3. ~past'.excused /\ i = Latest => i = procs.cached + 1 \/ ~LooksUnchanged(procs.cached, Latest)
    BY <1>10, Zenon
  <2>4. procs'.cached \in procs.cached + 1..Latest
    BY <1>4, <2>2
  <2> QED
    BY <2>1, <2>2, <2>3, <2>4
<1>15. past.excused => past'.excused
  BY <1>10
<1> QED
  BY <1>1, <1>11, <1>12, <1>13, <1>14, <1>15

LEMMA RestartDoes ==
  ASSUME NoneAssumption, Typed, Restart
  PROVE  /\ Typed' /\ store' = store /\ past'.excused = past.excused /\ UNCHANGED Done
         /\ procs'.cached = Latest /\ procs'.touched = {} /\ procs'.lost = 0
         /\ procs'.worker.pc = "idle" /\ procs'.handler.pc = "idle"
         /\ procs'.notes = IF Current = None THEN <<>> ELSE <<[old |-> 1, new |-> Latest]>>
<1>1. store' = store /\ procs \in Procs /\ past \in Pasts
  BY DEF Restart, Typed
<1>2. past' \in Pasts /\ UNCHANGED Done /\ past'.excused = past.excused
  <2>1. past' = [past EXCEPT !.crashes = past.crashes + 1]
    BY DEF Restart
  <2>2. past' \in Pasts /\ past'.gens = past.gens /\ past'.synced = past.synced /\ past'.cleaned = past.cleaned
        /\ past'.excused = past.excused
    BY <1>1, <2>1 DEF Pasts
  <2> QED
    BY <2>2 DEF Done
<1> DEFINE notes == IF Current = None THEN <<>> ELSE <<[old |-> 1, new |-> Latest]>>
           cron  == store.cron # None
<1>3. procs' = [cached |-> Latest, notes |-> notes, touched |-> {}, cron |-> cron, cronNews |-> <<>>,
                lost |-> 0, delayed |-> FALSE, queued |-> FALSE, worker |-> Idle, handler |-> Idle]
  <2>1. procs' = [procs EXCEPT
                    !.cached = Latest, !.touched = {}, !.cron = cron, !.cronNews = <<>>,
                    !.notes = notes,
                    !.lost = 0, !.delayed = FALSE, !.queued = FALSE, !.worker = Idle, !.handler = Idle]
    BY DEF Restart
  <2>2. procs = [cached |-> procs.cached, notes |-> procs.notes, touched |-> procs.touched, cron |-> procs.cron,
                 cronNews |-> procs.cronNews, lost |-> procs.lost, delayed |-> procs.delayed,
                 queued |-> procs.queued, worker |-> procs.worker, handler |-> procs.handler]
    BY <1>1 DEF Procs
  <2> HIDE DEF notes, cron
  <2> QED
    BY <2>1, <2>2
<1>4. Idle \in Works /\ Idle.pc = "idle" /\ Idle.obj = 1
  BY DEF Idle, Works, Pcs
<1>5. Latest \in Nat /\ Latest >= 1 /\ cron \in BOOLEAN
  BY TypedFacts
<1>6. notes \in Seq(Notes) /\ \A k \in 1..Len(notes) : notes[k].old = 1 /\ notes[k].new = Latest
  <2> DEFINE note == [old |-> 1, new |-> Latest]
  <2>1. note \in Notes /\ note.old = 1 /\ note.new = Latest
    BY <1>5 DEF Notes
  <2>2. CASE Current = None
    BY <2>2
  <2>3. CASE Current # None
    <3> HIDE DEF note
    <3>1. <<note>> \in Seq(Notes) /\ Len(<<note>>) = 1 /\ <<note>>[1] = note
      BY <2>1
    <3>2. notes = <<note>>
      BY <2>3 DEF note
    <3> HIDE DEF notes
    <3> QED
      BY <2>1, <3>1, <3>2
  <2> QED
    BY <2>2, <2>3
<1> HIDE DEF notes, cron
<1>7. <<>> \in Seq(BOOLEAN)
  OBVIOUS
<1>8. procs' \in Procs
  BY <1>3, <1>4, <1>5, <1>6, <1>7 DEF Procs
<1>9. /\ procs'.cached = Latest /\ procs'.touched = {} /\ procs'.lost = 0 /\ procs'.notes = notes
      /\ procs'.worker = Idle /\ procs'.handler = Idle
  BY <1>3
<1>10. Typed'
  BY <1>1, <1>2, <1>4, <1>5, <1>6, <1>8, <1>9, SMTT(60) DEF Typed, Bounded, Latest, Done
<1> QED
  BY <1>1, <1>2, <1>4, <1>9, <1>10 DEF notes

LEMMA DelayElapsesDoes ==
  ASSUME NoneAssumption, Typed, DelayElapses
  PROVE  /\ Typed' /\ store' = store /\ past' = past /\ procs'.queued
         /\ UNCHANGED <<Views, CronNews, procs.touched, procs.worker, procs.handler>>
<1> DEFINE p1 == [procs EXCEPT !.delayed = FALSE]
<1>1. store' = store /\ past' = past /\ procs \in Procs /\ procs' = [p1 EXCEPT !.queued = TRUE]
  BY DEF DelayElapses, Typed
<1>2. /\ p1 \in Procs /\ p1.cached = procs.cached /\ p1.notes = procs.notes /\ p1.touched = procs.touched
      /\ p1.cronNews = procs.cronNews /\ p1.lost = procs.lost
      /\ p1.worker = procs.worker /\ p1.handler = procs.handler
  BY <1>1 DEF Procs
<1> HIDE DEF p1
<1>3. /\ procs' \in Procs /\ procs'.cached = p1.cached /\ procs'.notes = p1.notes /\ procs'.touched = p1.touched
      /\ procs'.cronNews = p1.cronNews /\ procs'.lost = p1.lost
      /\ procs'.worker = p1.worker /\ procs'.handler = p1.handler /\ procs'.queued
  BY <1>1, <1>2 DEF Procs
<1> QED
  BY <1>1, <1>2, <1>3, SMTT(60) DEF Typed, Bounded, Latest, Views, CronNews

LEMMA GetKeyDoes ==
  ASSUME NoneAssumption, Typed, GetKey
  PROVE  /\ Typed' /\ store' = store /\ past' = past /\ procs.worker.pc = "idle"
         /\ UNCHANGED <<Views, CronNews, procs.delayed, procs.touched, procs.handler>>
         /\ \/ store.versions[procs.cached] = None /\ procs'.worker.pc = "idle"
            \/ /\ store.versions[procs.cached] # None
               /\ procs'.worker.pc = "cronjob" /\ procs'.worker.obj = procs.cached
<1> DEFINE t == IF store.versions[procs.cached] = None THEN Idle
                ELSE [pc |-> "cronjob", obj |-> procs.cached, found |-> procs.cron]
           p1 == [procs EXCEPT !.queued = FALSE]
<1>1. store' = store /\ past' = past /\ procs.worker.pc = "idle" /\ procs' = [p1 EXCEPT !.worker = t]
      /\ procs \in Procs
  BY DEF GetKey, Typed
<1>2. /\ p1 \in Procs /\ p1.cached = procs.cached /\ p1.notes = procs.notes /\ p1.touched = procs.touched
      /\ p1.cronNews = procs.cronNews /\ p1.lost = procs.lost /\ p1.delayed = procs.delayed
      /\ p1.handler = procs.handler
  BY <1>1 DEF Procs
<1>3. procs.cached \in Nat /\ procs.cron \in BOOLEAN /\ procs.cached \in 1..Latest /\ Latest \in Nat /\ Latest >= 1
  BY <1>1, TypedFacts DEF Procs, Typed, Bounded
<1>4. t \in Works /\ t.obj \in 1..Latest /\
      \/ store.versions[procs.cached] = None /\ t.pc = "idle"
      \/ store.versions[procs.cached] # None /\ t.pc = "cronjob" /\ t.obj = procs.cached
  BY <1>3 DEF Works, Pcs, Idle
<1> HIDE DEF p1, t
<1>5. /\ procs' \in Procs /\ procs'.cached = p1.cached /\ procs'.notes = p1.notes /\ procs'.touched = p1.touched
      /\ procs'.cronNews = p1.cronNews /\ procs'.lost = p1.lost /\ procs'.delayed = p1.delayed
      /\ procs'.worker = t /\ procs'.handler = p1.handler
  BY <1>1, <1>2, <1>4 DEF Procs
<1>6. Typed'
  BY <1>1, <1>2, <1>4, <1>5, SMTT(60) DEF Typed, Bounded, Latest
<1>7. UNCHANGED <<Views, CronNews, procs.delayed, procs.touched, procs.handler>>
  BY <1>2, <1>5 DEF Views, CronNews
<1> QED
  BY <1>1, <1>4, <1>5, <1>6, <1>7

LEMMA TailDoes ==
  ASSUME NEW S, NEW s \in Seq(S), s # <<>>
  PROVE  /\ Tail(s) \in Seq(S) /\ Head(s) = s[1] /\ Len(s) \in Nat \ {0} /\ Len(Tail(s)) = Len(s) - 1
         /\ \A k \in 1..Len(Tail(s)) : Tail(s)[k] = s[k + 1] /\ k + 1 \in 1..Len(s)
<1>1. Len(s) \in Nat \ {0}
  BY EmptySeq, LenProperties
<1> QED
  BY <1>1, HeadTailProperties

LEMMA NotifyDoes ==
  ASSUME NoneAssumption, Typed, Notify
  PROVE  /\ Typed' /\ store' = store /\ past' = past /\ procs.handler.pc = "idle" /\ procs.notes # <<>>
         /\ UNCHANGED <<procs.cached, procs.queued, CronNews, procs.touched, procs.worker>>
         /\ procs'.notes = Tail(procs.notes) /\ (procs.delayed => procs'.delayed)
         /\ LET note == procs.notes[1]
                old  == store.versions[note.old]
                new  == store.versions[note.new]
            IN /\ new # None /\ (old = None \/ specDiffers(old, new)) => procs'.delayed
               /\ \/ procs'.handler = procs.handler
                  \/ /\ new # None /\ new.deleting
                     /\ procs'.handler.pc = "clean" /\ procs'.handler.obj = note.new
               /\ new # None /\ old # None /\ ~specDiffers(old, new) /\ new.deleting /\ HasFinalizer(note.new) =>
                     procs'.handler.pc = "clean" /\ procs'.handler.obj = note.new
<1> DEFINE note == procs.notes[1]
           old  == store.versions[note.old]
           new  == store.versions[note.new]
           p    == [procs EXCEPT !.notes = Tail(procs.notes)]
           hand == [Idle EXCEPT !.pc = "clean", !.obj = note.new]
<1>1. /\ store' = store /\ past' = past /\ procs.handler.pc = "idle" /\ procs.notes # <<>>
      /\ procs \in Procs /\ procs.notes \in Seq(Notes)
  BY DEF Notify, Typed, Procs
<1>2. /\ Tail(procs.notes) \in Seq(Notes) /\ Head(procs.notes) = note /\ Len(procs.notes) \in Nat \ {0}
      /\ Len(Tail(procs.notes)) = Len(procs.notes) - 1
      /\ \A k \in 1..Len(Tail(procs.notes)) :
            Tail(procs.notes)[k] = procs.notes[k + 1] /\ k + 1 \in 1..Len(procs.notes)
  BY <1>1, TailDoes
<1>3. note.new \in 1..Latest /\ note.new \in Nat /\ note \in Notes
  <2>1. 1 \in 1..Len(procs.notes)
    BY <1>2
  <2> QED
    BY <2>1, TypedFacts DEF Typed, Bounded, Notes
<1>4. procs' = IF new = None THEN p
               ELSE IF old = None \/ specDiffers(old, new) THEN enqueueAppRepo(p)
               ELSE IF new.deleting /\ HasFinalizer(note.new) THEN [p EXCEPT !.handler = hand]
               ELSE p
  BY <1>2 DEF Notify
<1>5. hand \in Works /\ hand.pc = "clean" /\ hand.obj = note.new
  <2>1. Idle \in Works
    BY DEF Idle, Works, Pcs
  <2>2. PICK e : e = [Idle EXCEPT !.pc = "clean"]
    OBVIOUS
  <2>3. e \in Works /\ e.pc = "clean"
    BY <2>1, <2>2 DEF Works, Pcs
  <2>4. hand = [e EXCEPT !.obj = note.new]
    BY <2>2
  <2> HIDE DEF hand, note
  <2> QED
    BY <1>3, <2>3, <2>4 DEF Works
<1>6. /\ p \in Procs /\ p.cached = procs.cached /\ p.notes = Tail(procs.notes) /\ p.touched = procs.touched
      /\ p.cronNews = procs.cronNews /\ p.lost = procs.lost /\ p.delayed = procs.delayed
      /\ p.queued = procs.queued /\ p.worker = procs.worker /\ p.handler = procs.handler
  BY <1>1, <1>2 DEF Procs
<1> DEFINE Rest(q) == /\ q \in Procs /\ q.cached = p.cached /\ q.notes = p.notes /\ q.touched = p.touched
                      /\ q.cronNews = p.cronNews /\ q.lost = p.lost
                      /\ q.queued = p.queued /\ q.worker = p.worker
<1>7. Rest(enqueueAppRepo(p)) /\ enqueueAppRepo(p).delayed /\ enqueueAppRepo(p).handler = p.handler
  <2> HIDE DEF p
  <2> QED
    BY <1>6 DEF Procs, enqueueAppRepo
<1>8. LET q == [p EXCEPT !.handler = hand] IN Rest(q) /\ q.delayed = p.delayed /\ q.handler = hand
  <2> HIDE DEF p, hand
  <2> QED
    BY <1>5, <1>6 DEF Procs
<1>9. Rest(p)
  BY <1>6
<1> HIDE DEF p, hand, note, old, new
<1>10. Rest(procs') /\ (procs.delayed => procs'.delayed)
       /\ (new # None /\ (old = None \/ specDiffers(old, new)) => procs'.delayed)
       /\ (procs'.handler = procs.handler \/ (new # None /\ new.deleting /\ procs'.handler = hand))
       /\ (new # None /\ old # None /\ ~specDiffers(old, new) /\ new.deleting /\ HasFinalizer(note.new) =>
             procs'.handler = hand)
  <2>1. CASE new = None
    <3>1. procs' = p
      BY <1>4, <2>1
    <3> QED
      BY <1>6, <1>9, <2>1, <3>1
  <2>2. CASE new # None /\ (old = None \/ specDiffers(old, new))
    <3>1. procs' = enqueueAppRepo(p)
      BY <1>4, <2>2
    <3> QED
      BY <1>6, <1>7, <2>2, <3>1
  <2>3. CASE new # None /\ ~(old = None \/ specDiffers(old, new)) /\ new.deleting /\ HasFinalizer(note.new)
    <3>1. procs' = [p EXCEPT !.handler = hand]
      BY <1>4, <2>3
    <3> QED
      BY <1>6, <1>8, <2>3, <3>1
  <2>4. CASE new # None /\ ~(old = None \/ specDiffers(old, new)) /\ ~(new.deleting /\ HasFinalizer(note.new))
    <3>1. procs' = p
      BY <1>4, <2>4
    <3> QED
      BY <1>6, <1>9, <2>4, <3>1
  <2> QED
    BY <2>1, <2>2, <2>3, <2>4, Zenon
<1> HIDE DEF Rest
<1>11. Typed' /\ UNCHANGED <<procs.cached, procs.queued, CronNews, procs.touched, procs.worker>>
       /\ procs'.notes = Tail(procs.notes)
  <2>1. /\ procs' \in Procs /\ procs'.cached = procs.cached /\ procs'.notes = Tail(procs.notes)
        /\ procs'.touched = procs.touched /\ procs'.cronNews = procs.cronNews /\ procs'.lost = procs.lost
        /\ procs'.queued = procs.queued /\ procs'.worker = procs.worker
    BY <1>6, <1>10 DEF Rest
  <2>2. procs'.handler.obj \in 1..Latest
    BY <1>3, <1>5, <1>10 DEF Typed, Bounded
  <2>3. \A k \in 1..Len(procs'.notes) : procs'.notes[k].old \in 1..Latest /\ procs'.notes[k].new \in 1..Latest
    BY <1>2, <2>1 DEF Typed, Bounded
  <2>4. Typed'
    BY <1>1, <2>1, <2>2, <2>3 DEF Typed, Bounded, Latest
  <2> QED
    BY <2>1, <2>4 DEF CronNews
<1> QED
  BY <1>1, <1>5, <1>10, <1>11 DEF note, old, new

\* A work is on an object.
Busy == \A who \in Whos : procs[who].pc # "idle" => store.versions[procs[who].obj] # None

LEMMA ObjectIs ==
  ASSUME Typed, Busy, NEW who \in Whos, procs[who].pc # "idle"
  PROVE  Object(who) \in Objects /\ Object(who) # None /\ Object(who).gen \in 1..past.gens
         /\ procs[who].obj \in 1..Latest /\ Object(who) = store.versions[procs[who].obj]
<1>1. procs[who].obj \in 1..Latest
  BY DEF Typed, Bounded, Whos
<1> QED
  BY <1>1, TypedFacts DEF Typed, Bounded, Busy, Object

LEMMA ExcusedDoes ==
  ASSUME past \in Pasts, NEW b \in BOOLEAN, past' = [past EXCEPT !.excused = past.excused \/ b]
  PROVE  /\ past' \in Pasts /\ UNCHANGED Done
         /\ past'.gens = past.gens /\ past'.synced = past.synced /\ past'.cleaned = past.cleaned
         /\ past.excused => past'.excused
         /\ b => past'.excused
<1>1. past' \in Pasts /\ past'.gens = past.gens /\ past'.synced = past.synced /\ past'.cleaned = past.cleaned
      /\ past'.excused = (past.excused \/ b)
  BY DEF Pasts
<1> QED
  BY <1>1 DEF Done

LEMMA DeliverCronJobDoes ==
  ASSUME NoneAssumption, Typed, DeliverCronJob
  PROVE  /\ Typed' /\ store' = store /\ past' = past /\ (Lost => Lost')
         /\ UNCHANGED <<Views, Keys, procs.touched, procs.worker, procs.handler>>
<1> DEFINE news == Tail(procs.cronNews)
           cron == Head(procs.cronNews)
           lost == IF store.own /\ ~Head(procs.cronNews) THEN procs.lost + 1 ELSE procs.lost
           p1   == [procs EXCEPT !.cronNews = news]
<1>1. store' = store /\ past' = past /\ procs \in Procs /\ procs.cronNews \in Seq(BOOLEAN) /\ procs.cronNews # <<>>
      /\ procs.lost \in Nat /\ store.own \in BOOLEAN
  BY DEF DeliverCronJob, Typed, Procs, Stores
<1>2. /\ news \in Seq(BOOLEAN) /\ cron = procs.cronNews[1]
      /\ Len(procs.cronNews) \in Nat \ {0} /\ Len(news) = Len(procs.cronNews) - 1
      /\ \A k \in 1..Len(news) : news[k] = procs.cronNews[k + 1]
  BY <1>1, TailDoes
<1>3. cron \in BOOLEAN
  <2>1. 1 \in 1..Len(procs.cronNews)
    BY <1>2
  <2> QED
    BY <1>1, <1>2, <2>1, ElementOfSeq
<1>4. lost \in Nat /\ (procs.lost > 0 => lost > 0) /\ (store.own /\ ~cron => lost > 0)
  <2> DEFINE b == store.own /\ ~cron
  <2>1. lost = IF b THEN procs.lost + 1 ELSE procs.lost
    OBVIOUS
  <2> HIDE DEF lost, b
  <2>2. lost \in Nat /\ (procs.lost > 0 => lost > 0) /\ (b => lost > 0)
    BY <1>1, <2>1
  <2> QED
    BY <2>2 DEF b
<1>5. procs' = [procs EXCEPT !.cronNews = news, !.cron = cron, !.lost = lost]
  BY DEF DeliverCronJob
<1> HIDE DEF news, cron, lost
<1>7. /\ p1 \in Procs /\ p1.cached = procs.cached /\ p1.notes = procs.notes /\ p1.touched = procs.touched
      /\ p1.cronNews = news /\ p1.lost = procs.lost /\ p1.delayed = procs.delayed /\ p1.queued = procs.queued
      /\ p1.worker = procs.worker /\ p1.handler = procs.handler
  BY <1>1, <1>2 DEF Procs
<1> DEFINE p2 == [p1 EXCEPT !.cron = cron]
<1>8. procs' = [p2 EXCEPT !.lost = lost]
  BY <1>5
<1> HIDE DEF p1
<1>9. /\ p2 \in Procs /\ p2.cached = p1.cached /\ p2.notes = p1.notes /\ p2.touched = p1.touched
      /\ p2.cronNews = p1.cronNews /\ p2.lost = p1.lost /\ p2.delayed = p1.delayed /\ p2.queued = p1.queued
      /\ p2.worker = p1.worker /\ p2.handler = p1.handler
  BY <1>3, <1>7 DEF Procs
<1> HIDE DEF p2
<1>10. /\ procs' \in Procs /\ procs'.cached = p2.cached /\ procs'.notes = p2.notes /\ procs'.touched = p2.touched
       /\ procs'.cronNews = p2.cronNews /\ procs'.lost = lost /\ procs'.delayed = p2.delayed
       /\ procs'.queued = p2.queued /\ procs'.worker = p2.worker /\ procs'.handler = p2.handler
  BY <1>4, <1>8, <1>9 DEF Procs
<1>11. Typed'
  BY <1>1, <1>7, <1>9, <1>10 DEF Typed, Bounded, Latest
<1>12. UNCHANGED <<Views, Keys, procs.touched, procs.worker, procs.handler>>
  BY <1>7, <1>9, <1>10 DEF Views, Keys
<1>13. procs'.cronNews = news /\ procs'.lost = lost
  BY <1>7, <1>9, <1>10
<1>14. CronGone => ~cron \/ CronGone'
  <2> SUFFICES ASSUME NEW k \in 1..Len(procs.cronNews), ~procs.cronNews[k], cron
               PROVE  CronGone'
    BY DEF CronGone
  <2>1. k # 1
    BY <1>2
  <2>2. k - 1 \in 1..Len(news) /\ (k - 1) + 1 = k
    BY <1>2, <2>1
  <2>3. ~news[k - 1]
    BY <1>2, <2>2
  <2> QED
    BY <1>13, <2>2, <2>3 DEF CronGone
<1>15. Lost => Lost'
  <2>1. store'.own = store.own
    BY <1>1
  <2> QED
    BY <1>4, <1>13, <1>14, <2>1 DEF Lost
<1> QED
  BY <1>1, <1>11, <1>12, <1>15

LEMMA handleAppRepoOwnedObjectDoes ==
  ASSUME NoneAssumption, Typed, handleAppRepoOwnedObject
  PROVE  /\ Typed' /\ store' = store /\ past' = past /\ (procs.delayed => procs'.delayed)
         /\ store.versions[procs.cached] # None /\ ~store.versions[procs.cached].deleting => procs'.delayed
         /\ UNCHANGED <<Views, procs.queued, procs.cronNews, procs.touched, procs.worker, procs.handler>>
<1> DEFINE p == [procs EXCEPT !.lost = procs.lost - 1]
           b == store.versions[procs.cached] # None /\ ~store.versions[procs.cached].deleting
           q == [p EXCEPT !.delayed = TRUE]
<1>1. store' = store /\ past' = past /\ procs \in Procs /\ procs.lost > 0
      /\ procs' = IF b THEN q ELSE p
  BY DEF handleAppRepoOwnedObject, enqueueAppRepo, Typed
<1>2. /\ p \in Procs /\ p.cached = procs.cached /\ p.notes = procs.notes /\ p.touched = procs.touched
      /\ p.cronNews = procs.cronNews /\ p.delayed = procs.delayed /\ p.queued = procs.queued
      /\ p.worker = procs.worker /\ p.handler = procs.handler
  <2>1. procs.lost - 1 \in Nat
    BY <1>1 DEF Procs
  <2> QED
    BY <1>1, <2>1 DEF Procs
<1> HIDE DEF p
<1>3. /\ q \in Procs /\ q.cached = p.cached /\ q.notes = p.notes /\ q.touched = p.touched
      /\ q.cronNews = p.cronNews /\ q.delayed /\ q.queued = p.queued
      /\ q.worker = p.worker /\ q.handler = p.handler
  BY <1>2 DEF Procs
<1> HIDE DEF q, b
<1>4. /\ procs' \in Procs /\ procs'.cached = procs.cached /\ procs'.notes = procs.notes
      /\ procs'.touched = procs.touched /\ procs'.cronNews = procs.cronNews /\ procs'.queued = procs.queued
      /\ procs'.worker = procs.worker /\ procs'.handler = procs.handler
  BY <1>1, <1>2, <1>3
<1>5. Typed'
  BY <1>1, <1>4 DEF Typed, Bounded, Latest
<1>6. (procs.delayed => procs'.delayed) /\ (b => procs'.delayed)
  BY <1>1, <1>2, <1>3
<1> QED
  BY <1>1, <1>4, <1>5, <1>6 DEF b, Views

LEMMA WriteCronJobDoes ==
  ASSUME NoneAssumption, Typed, Busy, WriteCronJob
  PROVE  /\ Typed' /\ procs.worker.pc = "cronjob" /\ (past.excused => past'.excused)
         /\ UNCHANGED <<store.own, store.versions, Views, Keys, procs.lost, procs.touched, procs.handler, Done>>
         /\ (procs'.worker.pc = "idle" \/ procs'.worker.obj = procs.worker.obj) /\ (CronGone => CronGone')
         /\ ~past'.excused => /\ procs'.worker.pc = "job"
                              /\ Object("worker").gen \notin past.cleaned
                              /\ store'.cron = [gen |-> Object("worker").gen, spec |-> Object("worker").spec]
<1>0. PICK repo : repo = Object("worker")
  OBVIOUS
<1>1. procs.worker.pc = "cronjob"
  BY DEF WriteCronJob, At
<1>2. repo \in Objects /\ repo.gen \in 1..past.gens
  <2>1. procs["worker"].pc # "idle" /\ "worker" \in Whos
    BY <1>1 DEF Whos
  <2> QED
    BY <1>0, <2>1, ObjectIs
<1> DEFINE cron == [gen |-> repo.gen, spec |-> repo.spec]
           b    == procs.worker.found # (store.cron # None) \/ repo.gen \in past.cleaned
<1>3. cron \in Crons /\ cron # None /\ cron.gen \in 1..past.gens
  BY <1>2 DEF Objects, Crons, NoneAssumption
<1>4. past \in Pasts /\ procs \in Procs /\ store \in Stores /\ b \in BOOLEAN
      /\ past' = [past EXCEPT !.excused = past.excused \/ b]
  BY <1>0 DEF Typed, WriteCronJob
<1>5. /\ past' \in Pasts /\ UNCHANGED Done /\ (past.excused => past'.excused) /\ (b => past'.excused)
      /\ past'.gens = past.gens /\ past'.synced = past.synced /\ past'.cleaned = past.cleaned
  BY <1>4, ExcusedDoes
<1>6. \/ procs.worker.found = (store.cron # None) /\ cronWritten(cron)
         /\ procs' = Goes(NewsOf(procs, cron), "worker", "job")
      \/ procs.worker.found # (store.cron # None) /\ store' = store /\ procs' = Goes(procs, "worker", "idle")
  BY <1>0 DEF WriteCronJob
<1>7. "worker" \in Whos /\ "handler" \in Whos \ {"worker"} /\ "idle" \in Pcs /\ "job" \in Pcs /\ "job" # "idle"
  BY DEF Whos, Pcs
<1>8. 1 \in 1..Latest
  BY TypedFacts
<1> HIDE DEF cron, b
<1>9. CASE /\ procs.worker.found = (store.cron # None) /\ cronWritten(cron)
           /\ procs' = Goes(NewsOf(procs, cron), "worker", "job")
  <2>1. PICK p : p = NewsOf(procs, cron)
    OBVIOUS
  <2>2. /\ store' \in Stores /\ store'.own = store.own /\ store'.versions = store.versions /\ store'.cron = cron
        /\ p \in Procs /\ p.cached = procs.cached /\ p.notes = procs.notes /\ p.touched = procs.touched
        /\ p.lost = procs.lost /\ p.delayed = procs.delayed /\ p.queued = procs.queued
        /\ p.worker = procs.worker /\ p.handler = procs.handler
    BY <1>3, <1>9, <2>1, CronWrites
  <2>3. procs' = Goes(p, "worker", "job")
    BY <1>9, <2>1
  <2>4. /\ procs' \in Procs /\ procs'.worker.pc = "job" /\ procs'.worker.obj = p.worker.obj
        /\ procs'.handler = p.handler
        /\ procs'.cached = p.cached /\ procs'.notes = p.notes /\ procs'.touched = p.touched
        /\ procs'.cronNews = p.cronNews /\ procs'.lost = p.lost /\ procs'.delayed = p.delayed
        /\ procs'.queued = p.queued
    BY <1>7, <2>2, <2>3, GoesDoes, SMTT(60)
  <2>5. CronGone => CronGone'
    BY <2>1, <2>4, NewsTell
  <2>6. Typed'
    BY <1>3, <1>5, <2>2, <2>4 DEF Typed, Bounded, Latest
  <2>7. ~past'.excused => repo.gen \notin past.cleaned
    BY <1>5 DEF b
  <2> QED
    BY <1>0, <1>1, <1>5, <2>2, <2>4, <2>5, <2>6, <2>7 DEF Views, Keys, cron
<1>10. CASE procs.worker.found # (store.cron # None) /\ store' = store /\ procs' = Goes(procs, "worker", "idle")
  <2>1. /\ procs' \in Procs /\ procs'.worker.pc = "idle" /\ procs'.worker.obj = 1
        /\ procs'.handler = procs.handler
        /\ procs'.cached = procs.cached /\ procs'.notes = procs.notes /\ procs'.touched = procs.touched
        /\ procs'.cronNews = procs.cronNews /\ procs'.lost = procs.lost /\ procs'.delayed = procs.delayed
        /\ procs'.queued = procs.queued
    BY <1>4, <1>7, <1>10, GoesDoes, SMTT(60)
  <2>2. past'.excused
    BY <1>5, <1>10 DEF b
  <2>3. Typed'
    BY <1>4, <1>5, <1>8, <1>10, <2>1 DEF Typed, Bounded, Latest
  <2>4. CronGone => CronGone'
    BY <2>1 DEF CronGone
  <2> QED
    BY <1>1, <1>5, <1>10, <2>1, <2>2, <2>3, <2>4 DEF Views, Keys
<1> QED
  BY <1>6, <1>9, <1>10

LEMMA CreateJobDoes ==
  ASSUME NoneAssumption, Typed, Busy, CreateJob
  PROVE  /\ Typed' /\ store' = store /\ procs.worker.pc = "job" /\ (past.excused => past'.excused)
         /\ UNCHANGED <<Views, Keys, CronNews, procs.handler, past.gens, past.cleaned>>
         /\ past'.synced = past.synced \cup {<<Object("worker").gen, Object("worker").spec>>}
         /\ ~past'.excused => Object("worker").gen \notin past.cleaned
         /\ \/ /\ Object("worker").deleting
               /\ procs'.worker.pc = "clean" /\ procs'.worker.obj = procs.worker.obj
               /\ procs'.touched = procs.touched
            \/ /\ ~Object("worker").deleting /\ ~HasFinalizer(procs.worker.obj)
               /\ procs'.worker.pc = "finalize" /\ procs'.worker.obj = procs.worker.obj
               /\ procs'.touched = procs.touched \cup {procs.worker.obj}
            \/ /\ Object("worker").deleting = ~HasFinalizer(procs.worker.obj)
               /\ procs'.worker.pc = "idle" /\ procs'.touched = procs.touched
<1>0. PICK repo : repo = Object("worker")
  OBVIOUS
<1>1. procs.worker.pc = "job"
  BY DEF CreateJob, At
<1>2. repo \in Objects /\ repo.gen \in 1..past.gens /\ procs.worker.obj \in 1..Latest
      /\ repo = store.versions[procs.worker.obj]
  <2>1. procs["worker"].pc # "idle" /\ "worker" \in Whos
    BY <1>1 DEF Whos
  <2> QED
    BY <1>0, <2>1, ObjectIs
<1> DEFINE has    == HasFinalizer(procs.worker.obj)
           next   == IF repo.deleting = has THEN IF repo.deleting THEN "clean" ELSE "finalize" ELSE "idle"
           b      == repo.gen \in past.cleaned
           synced == past.synced \cup {<<repo.gen, repo.spec>>}
           h      == [past EXCEPT !.synced = synced]
           touched == IF next = "finalize" THEN procs.touched \cup {procs.worker.obj} ELSE procs.touched
<1>3. past \in Pasts /\ procs \in Procs /\ store \in Stores /\ store' = store
      /\ past' = [past EXCEPT !.synced = synced, !.excused = past.excused \/ b]
      /\ procs' = [Goes(procs, "worker", next) EXCEPT
                      !.touched = IF next = "finalize" THEN @ \cup {procs.worker.obj} ELSE @]
  BY <1>0, SMTT(60) DEF Typed, CreateJob
<1>4. synced \in SUBSET (Nat \X Specs) /\ \A s \in synced : s[1] \in 1..past.gens
  <2>1. repo.gen \in Nat /\ repo.spec \in Specs
    BY <1>2 DEF Objects
  <2>2. past.synced \in SUBSET (Nat \X Specs) /\ \A s \in past.synced : s[1] \in 1..past.gens
    BY <1>3 DEF Typed, Bounded, Pasts
  <2>3. <<repo.gen, repo.spec>> \in Nat \X Specs /\ <<repo.gen, repo.spec>>[1] = repo.gen
    BY <2>1
  <2> QED
    BY <1>2, <2>2, <2>3
<1> HIDE DEF synced
<1>5. /\ h \in Pasts /\ h.gens = past.gens /\ h.synced = synced /\ h.cleaned = past.cleaned
      /\ h.excused = past.excused
  BY <1>3, <1>4 DEF Pasts
<1>6. past' = [h EXCEPT !.excused = past.excused \/ b] /\ b \in BOOLEAN
  BY <1>3
<1> HIDE DEF h, b
<1>7. /\ past' \in Pasts /\ past'.gens = h.gens /\ past'.synced = h.synced /\ past'.cleaned = h.cleaned
      /\ past'.excused = (past.excused \/ b)
  BY <1>5, <1>6 DEF Pasts
<1>8. has \in BOOLEAN /\ next \in Pcs
      /\ \/ next = "clean" /\ repo.deleting
         \/ next = "finalize" /\ ~repo.deleting /\ ~has
         \/ next = "idle" /\ repo.deleting = ~has
  <2>1. has \in BOOLEAN /\ repo.deleting \in BOOLEAN
    BY <1>2 DEF HasFinalizer, Objects
  <2> HIDE DEF has
  <2> QED
    BY <2>1 DEF Pcs
<1> HIDE DEF has, next
<1>9. PICK p : p = Goes(procs, "worker", next)
  OBVIOUS
<1>10. /\ p \in Procs /\ p.worker.pc = next /\ p.worker.obj = (IF next = "idle" THEN 1 ELSE procs.worker.obj)
       /\ p.handler = procs.handler
       /\ p.cached = procs.cached /\ p.notes = procs.notes /\ p.touched = procs.touched
       /\ p.cronNews = procs.cronNews /\ p.lost = procs.lost /\ p.delayed = procs.delayed /\ p.queued = procs.queued
  <2>1. "worker" \in Whos /\ "handler" \in Whos \ {"worker"}
    BY DEF Whos
  <2> QED
    BY <1>3, <1>8, <1>9, <2>1, GoesDoes
<1>11. touched \in SUBSET Nat /\ touched \subseteq 1..Latest
       /\ touched = (IF next = "finalize" THEN procs.touched \cup {procs.worker.obj} ELSE procs.touched)
  BY <1>2, <1>3 DEF Typed, Bounded, Procs
<1>12. procs' = [p EXCEPT !.touched = touched]
  BY <1>3, <1>9, <1>10
<1> HIDE DEF touched
<1>13. /\ procs' \in Procs /\ procs'.worker = p.worker /\ procs'.handler = p.handler
       /\ procs'.cached = p.cached /\ procs'.notes = p.notes /\ procs'.touched = touched
       /\ procs'.cronNews = p.cronNews /\ procs'.lost = p.lost /\ procs'.delayed = p.delayed
       /\ procs'.queued = p.queued
  BY <1>10, <1>11, <1>12, SMTT(60) DEF Procs
<1>14. Typed'
  <2>1. procs'.worker.obj \in 1..Latest
    BY <1>2, <1>10, <1>13, TypedFacts
  <2> QED
    BY <1>3, <1>4, <1>5, <1>7, <1>10, <1>11, <1>13, <2>1, ZenonT(120) DEF Typed, Bounded, Latest
<1>15. UNCHANGED <<Views, Keys, CronNews, procs.handler, past.gens, past.cleaned>>
  BY <1>5, <1>7, <1>10, <1>13 DEF Views, Keys, CronNews
<1>16. (past.excused => past'.excused) /\ (~past'.excused => repo.gen \notin past.cleaned)
       /\ past'.synced = past.synced \cup {<<repo.gen, repo.spec>>}
  BY <1>5, <1>7 DEF b, synced
<1>17. \/ /\ repo.deleting
          /\ procs'.worker.pc = "clean" /\ procs'.worker.obj = procs.worker.obj
          /\ procs'.touched = procs.touched
       \/ /\ ~repo.deleting /\ ~has
          /\ procs'.worker.pc = "finalize" /\ procs'.worker.obj = procs.worker.obj
          /\ procs'.touched = procs.touched \cup {procs.worker.obj}
       \/ /\ repo.deleting = ~has
          /\ procs'.worker.pc = "idle" /\ procs'.touched = procs.touched
  BY <1>8, <1>10, <1>11, <1>13
<1> QED
  BY <1>0, <1>1, <1>3, <1>14, <1>15, <1>16, <1>17 DEF has

LEMMA AddFinalizerDoes ==
  ASSUME NoneAssumption, Typed, Busy, AddFinalizer
  PROVE  /\ Typed' /\ past' = past /\ procs.worker.pc = "finalize" /\ procs'.worker.pc = "idle"
         /\ UNCHANGED <<store.own, store.cron, Views, Keys, CronNews, procs.touched, procs.handler>>
         /\ procs.worker.obj # Latest => store' = store
         /\ procs.worker.obj = Latest => \E v \in Objects :
               /\ Wrote(v) /\ v.gen = Current.gen /\ v.spec = Current.spec
               /\ (v.deleting <=> Current.deleting) /\ v.fin
<1>1. procs.worker.pc = "finalize" /\ past' = past /\ procs' = Goes(procs, "worker", "idle")
      /\ procs \in Procs /\ past \in Pasts /\ store \in Stores
  BY DEF AddFinalizer, At, Typed
<1>2. Object("worker") \in Objects /\ Object("worker").gen \in 1..past.gens
      /\ Object("worker") = store.versions[procs.worker.obj]
  <2>1. procs["worker"].pc # "idle" /\ "worker" \in Whos
    BY <1>1 DEF Whos
  <2> QED
    BY <2>1, ObjectIs
<1>3. /\ procs' \in Procs /\ procs'.worker.pc = "idle" /\ procs'.worker.obj = 1
      /\ procs'.handler = procs.handler
      /\ procs'.cached = procs.cached /\ procs'.notes = procs.notes /\ procs'.touched = procs.touched
      /\ procs'.cronNews = procs.cronNews /\ procs'.lost = procs.lost /\ procs'.delayed = procs.delayed
      /\ procs'.queued = procs.queued
  <2>1. "worker" \in Whos /\ "handler" \in Whos \ {"worker"} /\ "idle" \in Pcs
    BY DEF Whos, Pcs
  <2> QED
    BY <1>1, <2>1, GoesDoes
<1>4. UNCHANGED <<Views, Keys, CronNews, procs.touched, procs.handler>>
  BY <1>3 DEF Views, Keys, CronNews
<1>5. 1 \in 1..Latest
  BY TypedFacts
<1>6. CASE procs.worker.obj = Latest
  <2> DEFINE v == [Object("worker") EXCEPT !.fin = TRUE]
  <2>1. Write(v)
    BY <1>6 DEF AddFinalizer
  <2>2. Current = Object("worker")
    BY <1>2, <1>6 DEF Current
  <2>3. v \in Objects /\ v.gen = Current.gen /\ v.spec = Current.spec
        /\ (v.deleting <=> Current.deleting) /\ v.fin
    BY <1>2, <2>2 DEF Objects
  <2> HIDE DEF v
  <2>4. store' \in Stores /\ store'.own = store.own /\ store'.cron = store.cron /\ Wrote(v)
    BY <2>1, <2>3, WriteDoes
  <2>5. past'.gens \in Nat /\ past'.gens >= past.gens /\ v.gen \in 1..past'.gens
    BY <1>1, <1>2, <2>2, <2>3 DEF Pasts
  <2>6. Typed'
    BY <1>1, <1>3, <1>5, <2>3, <2>4, <2>5, WroteBounded DEF Typed, Bounded
  <2> QED
    BY <1>1, <1>3, <1>4, <1>6, <2>3, <2>4, <2>6
<1>7. CASE procs.worker.obj # Latest
  <2>1. store' = store
    BY <1>7 DEF AddFinalizer
  <2>2. Typed'
    BY <1>1, <1>3, <1>5, <2>1 DEF Typed, Bounded, Latest
  <2> QED
    BY <1>1, <1>3, <1>4, <1>7, <2>1, <2>2
<1> QED
  BY <1>6, <1>7

LEMMA CreateCleanupJobDoes ==
  ASSUME NoneAssumption, Typed, Busy, NEW who \in Whos, CreateCleanupJob(who)
  PROVE  /\ Typed' /\ store' = store /\ procs[who].pc = "clean"
         /\ procs'[who].pc = "cron" /\ procs'[who].obj = procs[who].obj
         /\ \A w \in Whos \ {who} : procs'[w] = procs[w]
         /\ UNCHANGED <<Views, Keys, CronNews, procs.touched, past.gens, past.synced, past.excused>>
         /\ past'.cleaned = past.cleaned \cup {Object(who).gen}
<1>1. procs[who].pc = "clean" /\ store' = store /\ procs' = Goes(procs, who, "cron")
      /\ past' = [past EXCEPT !.cleaned = past.cleaned \cup {Object(who).gen}]
      /\ procs \in Procs /\ past \in Pasts /\ store \in Stores
  BY DEF CreateCleanupJob, At, Typed
<1>2. PICK gen : gen = Object(who).gen
  OBVIOUS
<1>3. gen \in Nat /\ gen \in 1..past.gens
  BY <1>1, <1>2, ObjectIs DEF Objects
<1>4. /\ procs' \in Procs /\ procs'[who].pc = "cron" /\ procs'[who].obj = procs[who].obj
      /\ \A w \in Whos \ {who} : procs'[w] = procs[w]
      /\ procs'.cached = procs.cached /\ procs'.notes = procs.notes /\ procs'.touched = procs.touched
      /\ procs'.cronNews = procs.cronNews /\ procs'.lost = procs.lost /\ procs'.delayed = procs.delayed
      /\ procs'.queued = procs.queued
  <2>1. "cron" \in Pcs /\ "cron" # "idle"
    BY DEF Pcs
  <2> QED
    BY <1>1, <2>1, GoesDoes
<1>5. /\ past' \in Pasts /\ past'.gens = past.gens /\ past'.synced = past.synced
      /\ past'.cleaned = past.cleaned \cup {gen} /\ past'.excused = past.excused
  BY <1>1, <1>2, <1>3 DEF Pasts
<1>6. procs'.worker.obj = procs.worker.obj /\ procs'.handler.obj = procs.handler.obj
  BY <1>4 DEF Whos
<1>7. Typed'
  BY <1>1, <1>3, <1>4, <1>5, <1>6 DEF Typed, Bounded, Latest
<1> QED
  BY <1>1, <1>2, <1>4, <1>5, <1>7 DEF Views, Keys, CronNews

LEMMA CleanUpCronJobDoes ==
  ASSUME NoneAssumption, Typed, Busy, NEW who \in Whos, CleanUpCronJob(who)
  PROVE  /\ Typed' /\ past' = past /\ procs[who].pc = "cron"
         /\ procs'[who].pc = "unfinalize" /\ procs'[who].obj = procs[who].obj
         /\ \A w \in Whos \ {who} : procs'[w] = procs[w]
         /\ UNCHANGED <<store.own, store.versions, Views, Keys, procs.touched, procs.lost>>
         /\ store'.cron = None /\ (CronGone => CronGone') /\ (store.cron # None => CronGone')
<1>1. procs[who].pc = "cron" /\ past' = past /\ cronWritten(None)
      /\ procs' = Goes(NewsOf(procs, None), who, "unfinalize")
      /\ procs \in Procs /\ past \in Pasts /\ store \in Stores
  BY DEF CleanUpCronJob, At, Typed
<1>2. PICK p : p = NewsOf(procs, None)
  OBVIOUS
<1>3. /\ store' \in Stores /\ store'.own = store.own /\ store'.versions = store.versions /\ store'.cron = None
      /\ p \in Procs /\ p.cached = procs.cached /\ p.notes = procs.notes /\ p.touched = procs.touched
      /\ p.lost = procs.lost /\ p.delayed = procs.delayed /\ p.queued = procs.queued
      /\ p.worker = procs.worker /\ p.handler = procs.handler
  BY <1>1, <1>2, CronWrites
<1>4. /\ procs' \in Procs /\ procs'[who].pc = "unfinalize" /\ procs'[who].obj = p[who].obj
      /\ \A w \in Whos \ {who} : procs'[w] = p[w]
      /\ procs'.cached = p.cached /\ procs'.notes = p.notes /\ procs'.touched = p.touched
      /\ procs'.cronNews = p.cronNews /\ procs'.lost = p.lost /\ procs'.delayed = p.delayed
      /\ procs'.queued = p.queued
  <2>1. "unfinalize" \in Pcs /\ "unfinalize" # "idle" /\ procs' = Goes(p, who, "unfinalize")
    BY <1>1, <1>2 DEF Pcs
  <2> QED
    BY <1>3, <2>1, GoesDoes
<1>5. \A w \in Whos : p[w] = procs[w]
  BY <1>3 DEF Whos
<1>6. procs'.worker.obj = procs.worker.obj /\ procs'.handler.obj = procs.handler.obj
  BY <1>4, <1>5 DEF Whos
<1>7. Typed'
  BY <1>1, <1>3, <1>4, <1>6, SMTT(60) DEF Typed, Bounded, Latest
<1>8. (CronGone => CronGone') /\ (store.cron # None => CronGone')
  BY <1>2, <1>4, NewsTell
<1> QED
  BY <1>1, <1>3, <1>4, <1>5, <1>7, <1>8 DEF Views, Keys

LEMMA RemoveFinalizerDoes ==
  ASSUME NoneAssumption, Typed, Busy, NEW who \in Whos, RemoveFinalizer(who)
  PROVE  /\ Typed' /\ past' = past /\ procs[who].pc = "unfinalize" /\ procs'[who].pc = "idle"
         /\ \A w \in Whos \ {who} : procs'[w] = procs[w]
         /\ UNCHANGED <<store.own, store.cron, Views, Keys, CronNews>>
         /\ procs'.touched = IF HasFinalizer(procs[who].obj) THEN procs.touched \cup {procs[who].obj} ELSE procs.touched
         /\ IF HasFinalizer(procs[who].obj) /\ procs[who].obj = Latest THEN Wrote(None) ELSE store' = store
<1> DEFINE i == procs[who].obj
           touched == IF HasFinalizer(i) THEN procs.touched \cup {i} ELSE procs.touched
           b == HasFinalizer(i) /\ i = Latest
<1>1. procs[who].pc = "unfinalize" /\ past' = past
      /\ (IF b THEN Write(None) ELSE store' = store)
      /\ procs' = [Goes(procs, who, "idle") EXCEPT !.touched = IF HasFinalizer(i) THEN @ \cup {i} ELSE @]
      /\ procs \in Procs /\ past \in Pasts /\ store \in Stores
  BY DEF RemoveFinalizer, At, Typed
<1>2. i \in 1..Latest /\ Latest \in Nat /\ 1 \in 1..Latest
  BY <1>1, ObjectIs, TypedFacts
<1>3. PICK p : p = Goes(procs, who, "idle")
  OBVIOUS
<1>4. /\ p \in Procs /\ p[who].pc = "idle" /\ p[who].obj = 1
      /\ \A w \in Whos \ {who} : p[w] = procs[w]
      /\ p.cached = procs.cached /\ p.notes = procs.notes /\ p.touched = procs.touched
      /\ p.cronNews = procs.cronNews /\ p.lost = procs.lost /\ p.delayed = procs.delayed
      /\ p.queued = procs.queued
  <2>1. "idle" \in Pcs
    BY DEF Pcs
  <2> QED
    BY <1>1, <1>3, <2>1, GoesDoes
<1>5. touched \in SUBSET Nat /\ touched \subseteq 1..Latest
  BY <1>1, <1>2, SMTT(60) DEF Typed, Bounded, Procs
<1>6. procs' = [p EXCEPT !.touched = touched]
  BY <1>1, <1>3, <1>4
<1> HIDE DEF touched, b
<1>7. /\ procs' \in Procs /\ procs'.worker = p.worker /\ procs'.handler = p.handler
      /\ procs'.cached = p.cached /\ procs'.notes = p.notes /\ procs'.touched = touched
      /\ procs'.cronNews = p.cronNews /\ procs'.lost = p.lost /\ procs'.delayed = p.delayed
      /\ procs'.queued = p.queued
  BY <1>4, <1>5, <1>6 DEF Procs
<1>8. \A w \in Whos : procs'[w] = p[w]
  BY <1>7 DEF Whos
<1>9. procs'.worker.obj \in 1..Latest /\ procs'.handler.obj \in 1..Latest
  <2>1. procs.worker.obj \in 1..Latest /\ procs.handler.obj \in 1..Latest
    BY DEF Typed, Bounded
  <2>2. \A w \in Whos : p[w].obj \in 1..Latest
    BY <1>2, <1>4, <2>1 DEF Whos
  <2> QED
    BY <1>7, <2>2 DEF Whos
<1>10. Typed' /\ store'.own = store.own /\ store'.cron = store.cron /\ (IF b THEN Wrote(None) ELSE store' = store)
  <2>1. CASE b
    <3>1. store' \in Stores /\ store'.own = store.own /\ store'.cron = store.cron /\ Wrote(None)
      BY <1>1, <2>1, WriteDoes
    <3>2. past'.gens \in Nat /\ past'.gens >= past.gens
      BY <1>1 DEF Pasts
    <3>3. Typed'
      BY <1>1, <1>4, <1>5, <1>7, <1>9, <3>1, <3>2, WroteBounded, SMTT(60) DEF Typed, Bounded
    <3> QED
      BY <2>1, <3>1, <3>3
  <2>2. CASE ~b
    <3>1. store' = store
      BY <1>1, <2>2
    <3>2. Typed'
      BY <1>1, <1>4, <1>5, <1>7, <1>9, <3>1, SMTT(60) DEF Typed, Bounded, Latest
    <3> QED
      BY <2>2, <3>1, <3>2
  <2> QED
    BY <2>1, <2>2
<1>11. UNCHANGED <<Views, Keys, CronNews>>
  BY <1>4, <1>7 DEF Views, Keys, CronNews
<1>12. procs'[who].pc = "idle" /\ \A w \in Whos \ {who} : procs'[w] = procs[w]
  BY <1>4, <1>8
<1> QED
  BY <1>1, <1>7, <1>10, <1>11, <1>12 DEF touched, b

\* A refused call is excused.
LEMMA RefusesDoes ==
  ASSUME NoneAssumption, Typed, Busy, NEW who \in Whos, NEW at, NEW next \in Pcs, at # "idle", Refuses(who, at, next)
  PROVE  /\ Typed' /\ store' = store /\ past'.excused /\ procs[who].pc # "idle"
         /\ procs'[who].pc = "idle" \/ procs'[who].obj = procs[who].obj
         /\ \A w \in Whos \ {who} : procs'[w] = procs[w]
<1> DEFINE i == procs[who].obj
           touched == IF at = "unfinalize" THEN procs.touched \cup {i} ELSE procs.touched
           h == [past EXCEPT !.faults = past.faults + 1]
<1>1. procs[who].pc # "idle" /\ store' = store
      /\ procs' = [Goes(procs, who, next) EXCEPT !.touched = IF at = "unfinalize" THEN @ \cup {i} ELSE @]
      /\ past' = [h EXCEPT !.excused = TRUE]
      /\ procs \in Procs /\ past \in Pasts /\ store \in Stores
  BY DEF Refuses, At, Typed
<1>2. i \in 1..Latest /\ Latest \in Nat /\ 1 \in 1..Latest
  BY <1>1, ObjectIs, TypedFacts
<1>3. PICK p : p = Goes(procs, who, next)
  OBVIOUS
<1>4. /\ p \in Procs /\ p[who].pc = next /\ p[who].obj = (IF next = "idle" THEN 1 ELSE procs[who].obj)
      /\ \A w \in Whos \ {who} : p[w] = procs[w]
      /\ p.cached = procs.cached /\ p.notes = procs.notes /\ p.touched = procs.touched
  BY <1>1, <1>3, GoesDoes
<1>5. touched \in SUBSET Nat /\ touched \subseteq 1..Latest
  BY <1>1, <1>2 DEF Typed, Bounded, Procs
<1>6. procs' = [p EXCEPT !.touched = touched]
  BY <1>1, <1>3, <1>4
<1> HIDE DEF touched
<1>7. /\ procs' \in Procs /\ procs'.worker = p.worker /\ procs'.handler = p.handler
      /\ procs'.cached = p.cached /\ procs'.notes = p.notes /\ procs'.touched = touched
  BY <1>4, <1>5, <1>6 DEF Procs
<1>8. \A w \in Whos : procs'[w] = p[w]
  BY <1>7 DEF Whos
<1>9. procs'.worker.obj \in 1..Latest /\ procs'.handler.obj \in 1..Latest
  <2>1. procs.worker.obj \in 1..Latest /\ procs.handler.obj \in 1..Latest
    BY DEF Typed, Bounded
  <2>2. \A w \in Whos : p[w].obj \in 1..Latest
    BY <1>2, <1>4, <2>1 DEF Whos
  <2> QED
    BY <1>7, <2>2 DEF Whos
<1>10. /\ h \in Pasts /\ h.gens = past.gens /\ h.synced = past.synced /\ h.cleaned = past.cleaned
  BY <1>1 DEF Pasts
<1> HIDE DEF h
<1>11. past' \in Pasts /\ past'.gens = h.gens /\ past'.synced = h.synced /\ past'.cleaned = h.cleaned /\ past'.excused
  BY <1>1, <1>10 DEF Pasts
<1>12. Typed'
  BY <1>1, <1>4, <1>5, <1>7, <1>9, <1>10, <1>11 DEF Typed, Bounded, Latest
<1> QED
  BY <1>1, <1>4, <1>8, <1>11, <1>12, SMTT(60)

-----------------------------------------------------------------------------
(* The invariant.  Up to date is what has the spec of what there is.  A note turns if *)
(* it leads from what is not up to date to what is: it makes the informer queue the   *)
(* key.  So, while there is an AppRepository, its key is on its way, or the loss of   *)
(* its CronJob is, or what the worker does, or did, is right; and while one is        *)
(* deleted, a clean-up of it is on its way.                                           *)

\* i is of what there is, with the spec it has.
Fresh(i) == /\ Current # None /\ i \in 1..Latest
            /\ \A j \in i..Latest : /\ store.versions[j] # None
                                    /\ store.versions[j].gen = Current.gen
                                    /\ store.versions[j].spec = Current.spec

VersionsInv ==
    /\ store.versions[1] = None
    /\ Current # None => Current.gen = past.gens
    /\ \A i \in 1..Latest : \A j \in 1..Latest :
          j = i + 1 /\ store.versions[i] # None /\ store.versions[j] # None =>
             store.versions[i].gen = store.versions[j].gen
    /\ Current # None =>
          \A i \in 1..Latest : /\ store.versions[i] # None /\ store.versions[i].gen = Current.gen
                                /\ store.versions[i].deleting
                                => Current.deleting
    /\ \A i \in 1..Latest :
          i + 1 = Latest /\ store.versions[i] # None /\ Current # None /\ store.versions[i].spec = Current.spec =>
             Current.fin
    /\ \A i \in 1..Latest : store.versions[i] # None /\ store.versions[i].deleting => store.versions[i].fin
    /\ \A g \in 1..past.gens : Current = None \/ g < past.gens => g \in past.cleaned

CronInv == store.cron # None => Current # None /\ store.cron.gen = Current.gen

Thread(who) ==
    LET t == procs[who]
        v == store.versions[t.obj]
    IN /\ t.pc = "finalize" => ~v.deleting
       /\ t.pc \in {"clean", "cron", "unfinalize"} => v.deleting
       /\ t.pc \in {"cron", "unfinalize"} => v.gen \in past.cleaned
       /\ t.pc = "unfinalize" => store.cron = None \/ store.cron.gen # v.gen

ThreadsInv == Thread("worker") /\ Thread("handler")

\* What was not given a finalizer is not taken to have one but by the worker that is giving it.
TouchedInv ==
    Current # None =>
       /\ Current.deleting => Latest \notin procs.touched
       /\ ~Current.fin /\ Latest \in procs.touched => procs.worker.pc = "finalize" /\ procs.worker.obj = Latest

Turns(n)   == ~Fresh(n.old) /\ Fresh(n.new)
Reaches(k) == \E l \in 1..Len(procs.notes) : l > k /\ Turns(procs.notes[l])

NotesInv ==
    /\ \A k \in 1..Len(procs.notes) :
          /\ Turns(procs.notes[k]) =>
                \/ store.versions[procs.notes[k].old] = None
                \/ specDiffers(store.versions[procs.notes[k].old], store.versions[procs.notes[k].new])
          /\ Fresh(procs.cached) /\ ~Fresh(procs.notes[k].new) => Reaches(k)
    /\ procs.handler.pc # "idle" /\ Fresh(procs.cached) /\ ~Fresh(procs.handler.obj) => Reaches(0)

CronRight == store.cron = [gen |-> Current.gen, spec |-> Current.spec]
Synced    == <<Current.gen, Current.spec>> \in past.synced

Comes == ~Fresh(procs.cached) \/ Reaches(0) \/ procs.delayed \/ procs.queued
OnIt  == /\ procs.worker.pc = "idle" \/ Fresh(procs.worker.obj)
         /\ \/ procs.worker.pc = "cronjob"
            \/ procs.worker.pc = "job" /\ CronRight
            \/ /\ CronRight /\ Synced
               /\ Current.fin \/ (procs.worker.pc = "finalize" /\ procs.worker.obj = Latest)

Leaving == \/ procs.cached < Latest
           \/ \E k \in 1..Len(procs.notes) : procs.notes[k].new = Latest
           \/ procs.delayed \/ procs.queued
           \/ procs.worker.pc \notin {"idle", "finalize"} /\ procs.worker.obj = Latest
           \/ procs.handler.pc # "idle" /\ procs.handler.obj = Latest

CourseInv ==
    Current # None => /\ Current.deleting => Leaving
                      /\ ~Current.deleting => Comes \/ Lost \/ OnIt

Sound == VersionsInv /\ CronInv /\ ThreadsInv /\ TouchedInv /\ NotesInv /\ CourseInv

IInv == Typed /\ Busy /\ (~past.excused => Sound)

-----------------------------------------------------------------------------
(* What is up to date *)

LEMMA SameVersions ==
  ASSUME store'.versions = store.versions
  PROVE  Latest' = Latest /\ Current' = Current /\ \A i : Fresh(i)' <=> Fresh(i)
BY DEF Latest, Current, Fresh

LEMMA FreshLatest ==
  ASSUME Typed, Current # None
  PROVE  Fresh(Latest)
<1>1. Latest \in Nat \ {0}
  BY TypedFacts
<1> QED
  BY <1>1 DEF Fresh, Current

\* What is up to date is not being deleted, if what there is is not.
LEMMA FreshLives ==
  ASSUME Typed, VersionsInv, NEW i, Fresh(i), ~Current.deleting
  PROVE  store.versions[i] # None /\ ~store.versions[i].deleting
         /\ store.versions[i].gen = Current.gen /\ store.versions[i].spec = Current.spec
<1>1. Latest \in Nat \ {0} /\ i \in 1..Latest
  BY TypedFacts DEF Fresh
<1>2. store.versions[i] # None /\ store.versions[i].gen = Current.gen /\ store.versions[i].spec = Current.spec
  BY <1>1 DEF Fresh
<1> QED
  BY <1>1, <1>2 DEF VersionsInv, Fresh

\* Without its finalizer, nothing before it is up to date.
LEMMA FreshFirst ==
  ASSUME Typed, VersionsInv, NEW i, Fresh(i), ~Current.fin
  PROVE  i = Latest
<1>1. Latest \in Nat \ {0} /\ i \in 1..Latest
  BY TypedFacts DEF Fresh
<1> SUFFICES ASSUME i # Latest
             PROVE  FALSE
  OBVIOUS
<1>2. Latest - 1 \in i..Latest /\ Latest - 1 \in 1..Latest /\ (Latest - 1) + 1 = Latest
  BY <1>1
<1> QED
  BY <1>2 DEF Fresh, VersionsInv

\* What is being deleted has its finalizer.
LEMMA LeavesLast ==
  ASSUME Typed, VersionsInv, TouchedInv, Current # None, Current.deleting
  PROVE  HasFinalizer(Latest)
<1>1. Latest \in 1..Latest /\ Current \in Objects
  BY TypedFacts
<1>2. Current.fin /\ Current.fin \in BOOLEAN
  BY <1>1 DEF VersionsInv, Current, Objects
<1>3. Latest \notin procs.touched
  BY DEF TouchedInv
<1> QED
  BY <1>2, <1>3 DEF HasFinalizer, Current

\* After a write that changes gen or spec, nothing older is up to date.
LEMMA FreshNew ==
  ASSUME Typed, NEW v \in {None} \cup Objects, Wrote(v),
         v # None /\ Current # None => v.gen # Current.gen \/ v.spec # Current.spec
  PROVE  \A i \in 1..Latest : ~Fresh(i)'
<1> SUFFICES ASSUME NEW i \in 1..Latest, Fresh(i)'
             PROVE  FALSE
  OBVIOUS
<1>1. Latest \in Nat \ {0} /\ Latest' = Latest + 1 /\ Current' = v
  BY TypedFacts DEF Wrote
<1>2. Latest \in i..Latest' /\ Latest \in 1..Latest
  BY <1>1
<1>3. v # None /\ store'.versions[Latest] # None
      /\ store'.versions[Latest].gen = v.gen /\ store'.versions[Latest].spec = v.spec
  BY <1>1, <1>2 DEF Fresh
<1>4. store'.versions[Latest] = Current
  BY <1>2 DEF Wrote, Current
<1> QED
  BY <1>3, <1>4

\* After one that does not, what was is.
LEMMA FreshSame ==
  ASSUME Typed, NEW v \in Objects, v # None, Current # None, Wrote(v), v.gen = Current.gen, v.spec = Current.spec
  PROVE  \A i \in 1..Latest : Fresh(i)' <=> Fresh(i)
<1> SUFFICES ASSUME NEW i \in 1..Latest
             PROVE  Fresh(i)' <=> Fresh(i)
  OBVIOUS
<1>1. Latest \in Nat \ {0} /\ Latest' = Latest + 1 /\ Current' = v /\ store'.versions[Latest'] = v
      /\ \A j \in 1..Latest : store'.versions[j] = store.versions[j]
  BY TypedFacts DEF Wrote, Current
<1>2. i..Latest' = i..Latest \cup {Latest'} /\ i..Latest \subseteq 1..Latest /\ i \in 1..Latest'
  BY <1>1
<1> QED
  BY <1>1, <1>2 DEF Fresh

-----------------------------------------------------------------------------
(* How each part of the invariant is kept *)

LEMMA VersionsStay ==
  ASSUME VersionsInv, store'.versions = store.versions, past'.gens = past.gens, past.cleaned \subseteq past'.cleaned
  PROVE  VersionsInv'
<1>1. Latest' = Latest /\ Current' = Current
  BY DEF Latest, Current
<1> QED
  BY <1>1 DEF VersionsInv

LEMMA VersionsWritten ==
  ASSUME Typed, VersionsInv, NEW v \in {None} \cup Objects, Wrote(v),
         v # None => v.gen = past'.gens,
         Current # None /\ v # None => Current.gen = v.gen /\ (Current.deleting => v.deleting),
         Current = None /\ v # None => v.gen = past.gens + 1,
         Current # None /\ v # None /\ Current.spec = v.spec => v.fin,
         v # None /\ v.deleting => v.fin,
         \A g \in 1..past'.gens : v = None \/ g < past'.gens => g \in past'.cleaned
  PROVE  VersionsInv'
<1>1. Latest \in Nat \ {0} /\ Latest' = Latest + 1 /\ Current' = v /\ store'.versions[Latest'] = v
      /\ \A j \in 1..Latest : store'.versions[j] = store.versions[j]
  BY TypedFacts DEF Wrote, Current
<1>2. 1..Latest' = 1..Latest \cup {Latest'} /\ 1 \in 1..Latest /\ Latest \in 1..Latest
      /\ \A i \in 1..Latest : i + 1 = Latest' => i = Latest
  BY <1>1
<1>3. store'.versions[Latest] = Current
  BY <1>1, <1>2 DEF Current
<1>4. (store.versions[1] = None)'
  BY <1>1, <1>2 DEF VersionsInv
<1>5. ASSUME NEW i \in 1..Latest', NEW j \in 1..Latest', j = i + 1,
             store'.versions[i] # None, store'.versions[j] # None
      PROVE  store'.versions[i].gen = store'.versions[j].gen
  <2>1. CASE j \in 1..Latest
    <3>1. i \in 1..Latest
      BY <1>1, <1>5, <2>1
    <3> QED
      BY <1>1, <1>5, <2>1, <3>1 DEF VersionsInv
  <2>2. CASE j = Latest'
    <3>1. i = Latest
      BY <1>1, <1>5, <2>2
    <3> QED
      BY <1>1, <1>3, <1>5, <2>2, <3>1
  <2> QED
    BY <1>2, <2>1, <2>2
<1>6. ASSUME NEW i \in 1..Latest', i + 1 = Latest', store'.versions[i] # None, v # None,
             store'.versions[i].spec = v.spec
      PROVE  v.fin
  <2>1. i = Latest
    BY <1>1, <1>6
  <2> QED
    BY <1>3, <1>6, <2>1
<1>7. ASSUME NEW i \in 1..Latest', store'.versions[i] # None, store'.versions[i].deleting
      PROVE  store'.versions[i].fin
  BY <1>1, <1>2, <1>7 DEF VersionsInv
<1>8. ASSUME v # None, NEW i \in 1..Latest', store'.versions[i] # None,
             store'.versions[i].gen = v.gen, store'.versions[i].deleting
      PROVE  v.deleting
  <2>1. CASE i = Latest'
    BY <1>1, <1>8, <2>1
  <2>2. CASE i \in 1..Latest /\ Current # None
    BY <1>1, <1>8, <2>2 DEF VersionsInv
  <2>3. CASE i \in 1..Latest /\ Current = None
    <3>1. store.versions[i].gen \in 1..past.gens /\ past.gens \in Nat
      BY <1>1, <1>8, <2>3 DEF Typed, Bounded, Pasts
    <3> QED
      BY <1>1, <1>8, <2>3, <3>1
  <2> QED
    BY <1>2, <2>1, <2>2, <2>3
<1> QED
  BY <1>1, <1>4, <1>5, <1>6, <1>7, <1>8 DEF VersionsInv

LEMMA BusyStays ==
  ASSUME Typed, Busy, NEW who \in Whos,
         procs'[who].pc # "idle" => procs[who].pc # "idle" /\ procs'[who].obj = procs[who].obj,
         \A i \in 1..Latest : store'.versions[i] = store.versions[i]
  PROVE  procs'[who].pc # "idle" => store'.versions[procs'[who].obj] # None
<1>1. procs[who].obj \in 1..Latest
  BY DEF Typed, Bounded, Whos
<1> QED
  BY <1>1 DEF Busy

LEMMA ThreadStays ==
  ASSUME Typed, NEW who \in Whos, Thread(who), procs'[who] = procs[who],
         \A i \in 1..Latest : store'.versions[i] = store.versions[i], past.cleaned \subseteq past'.cleaned,
         \/ store'.cron = store.cron
         \/ store'.cron = None
         \/ store'.cron.gen \notin past.cleaned
  PROVE  Thread(who)'
<1>1. PICK t : t = procs[who]
  OBVIOUS
<1>2. t.obj \in 1..Latest /\ procs'[who] = t
  BY <1>1 DEF Typed, Bounded, Whos
<1>3. store'.versions[t.obj] = store.versions[t.obj]
  BY <1>2
<1> QED
  BY <1>1, <1>2, <1>3 DEF Thread

LEMMA TouchedStays ==
  ASSUME TouchedInv, Latest' = Latest, Current' = Current,
         Latest \in procs'.touched => Latest \in procs.touched,
         procs'.worker = procs.worker \/ procs.worker.pc # "finalize" \/ procs.worker.obj # Latest
  PROVE  TouchedInv'
BY DEF TouchedInv

LEMMA TouchedWritten ==
  ASSUME Typed, NEW v, Wrote(v), procs'.touched \subseteq 1..Latest
  PROVE  TouchedInv'
<1>1. Latest \in Nat /\ Latest' = Latest + 1
  BY TypedFacts DEF Wrote
<1> QED
  BY <1>1 DEF TouchedInv

LEMMA ReachesStays ==
  ASSUME Typed, UNCHANGED Views, \A i \in 1..Latest : Fresh(i)' <=> Fresh(i)
  PROVE  \A k : Reaches(k)' <=> Reaches(k)
<1>1. \A l \in 1..Len(procs.notes) : procs.notes[l].old \in 1..Latest /\ procs.notes[l].new \in 1..Latest
  BY DEF Typed, Bounded
<1>2. procs'.notes = procs.notes
  BY DEF Views
<1>3. \A l \in 1..Len(procs.notes) : Turns(procs.notes[l])' <=> Turns(procs.notes[l])
  BY <1>1, <1>2 DEF Turns
<1> QED
  BY <1>2, <1>3 DEF Reaches

LEMMA NotesStay ==
  ASSUME Typed, NotesInv, UNCHANGED Views, \A i \in 1..Latest : Fresh(i)' <=> Fresh(i),
         \A i \in 1..Latest : store'.versions[i] = store.versions[i],
         procs'.handler.pc # "idle" => procs.handler.pc # "idle" /\ procs'.handler.obj = procs.handler.obj
  PROVE  NotesInv'
<1>1. \A l \in 1..Len(procs.notes) : procs.notes[l].old \in 1..Latest /\ procs.notes[l].new \in 1..Latest
  BY DEF Typed, Bounded
<1>2. procs'.notes = procs.notes /\ procs'.cached = procs.cached
      /\ procs.cached \in 1..Latest /\ procs.handler.obj \in 1..Latest
  BY DEF Views, Typed, Bounded
<1>3. \A k : Reaches(k)' <=> Reaches(k)
  BY ReachesStays
<1>4. ASSUME NEW k \in 1..Len(procs.notes)
      PROVE  /\ (Turns(procs.notes[k]) =>
                   \/ store.versions[procs.notes[k].old] = None
                   \/ specDiffers(store.versions[procs.notes[k].old], store.versions[procs.notes[k].new]))'
             /\ (Fresh(procs.cached) /\ ~Fresh(procs.notes[k].new) => Reaches(k))'
  <2>1. PICK old, new : old = procs.notes[k].old /\ new = procs.notes[k].new
    OBVIOUS
  <2>2. old \in 1..Latest /\ new \in 1..Latest /\ procs'.notes[k].old = old /\ procs'.notes[k].new = new
    BY <1>1, <1>2, <2>1
  <2>3. (Fresh(old)' <=> Fresh(old)) /\ (Fresh(new)' <=> Fresh(new))
        /\ (Fresh(procs.cached)' <=> Fresh(procs.cached))
    BY <1>2, <2>2
  <2> QED
    BY <1>2, <1>3, <2>1, <2>2, <2>3, ZenonT(120) DEF NotesInv, Turns, specDiffers
<1>5. (procs.handler.pc # "idle" /\ Fresh(procs.cached) /\ ~Fresh(procs.handler.obj) => Reaches(0))'
  BY <1>2, <1>3 DEF NotesInv
<1> QED
  BY <1>2, <1>4, <1>5 DEF NotesInv

\* Where nothing told is up to date any more, nothing is asked of the notes.
LEMMA NotesAnew ==
  ASSUME Typed, UNCHANGED Views, \A i \in 1..Latest : ~Fresh(i)'
  PROVE  NotesInv' /\ ~Fresh(procs.cached)'
<1>1. \A l \in 1..Len(procs.notes) : procs.notes[l].new \in 1..Latest
  BY DEF Typed, Bounded
<1>2. procs'.notes = procs.notes /\ procs'.cached = procs.cached /\ procs.cached \in 1..Latest
  BY DEF Views, Typed, Bounded
<1>3. ~Fresh(procs.cached)'
  BY <1>2
<1>4. \A k \in 1..Len(procs.notes) : ~Turns(procs.notes[k])'
  BY <1>1, <1>2 DEF Turns
<1> QED
  BY <1>2, <1>3, <1>4 DEF NotesInv

\* Who is told of nothing, and has nothing done, is where it was.
LEMMA CourseStays ==
  ASSUME Typed, CourseInv, store'.versions = store.versions, UNCHANGED Views,
         procs.delayed => procs'.delayed, procs.queued => procs'.queued,
         procs.handler.pc # "idle" /\ procs.handler.obj = Latest =>
            procs'.handler.pc # "idle" /\ procs'.handler.obj = Latest,
         procs.worker.pc \notin {"idle", "finalize"} /\ procs.worker.obj = Latest =>
            procs'.worker.pc \notin {"idle", "finalize"} /\ procs'.worker.obj = Latest,
         Current # None /\ ~Current.deleting /\ Lost => Comes' \/ Lost',
         Current # None /\ ~Current.deleting /\ OnIt => Comes' \/ Lost' \/ OnIt'
  PROVE  CourseInv'
<1>1. Latest' = Latest /\ Current' = Current /\ \A i : Fresh(i)' <=> Fresh(i)
  BY SameVersions
<1>2. procs'.notes = procs.notes /\ procs'.cached = procs.cached
  BY DEF Views
<1>3. \A k : Reaches(k)' <=> Reaches(k)
  BY <1>1, ReachesStays
<1>4. Leaving => Leaving'
  BY <1>1, <1>2 DEF Leaving
<1>5. Comes => Comes'
  BY <1>1, <1>2, <1>3 DEF Comes
<1> QED
  BY <1>1, <1>4, <1>5 DEF CourseInv

-----------------------------------------------------------------------------
(* Types, of every step; and what is excused stays so *)

Kept == Typed' /\ Busy' /\ (past.excused => past'.excused)

LEMMA VersionWrittenKeeps ==
  ASSUME Typed, Busy, NEW v, Wrote(v), procs' = procs
  PROVE  Busy'
<1>1. \A i \in 1..Latest : store'.versions[i] = store.versions[i]
  BY DEF Wrote
<1>2. ASSUME NEW who \in Whos
      PROVE  procs'[who].pc # "idle" => store'.versions[procs'[who].obj] # None
  BY <1>1, BusyStays
<1> QED
  BY <1>2 DEF Busy

LEMMA OthersKeep ==
  ASSUME Typed, Busy, NEW me \in Whos, \A w \in Whos \ {me} : procs'[w] = procs[w],
         \A i \in 1..Latest : store'.versions[i] = store.versions[i],
         procs'[me].pc # "idle" => store'.versions[procs'[me].obj] # None
  PROVE  Busy'
<1>1. ASSUME NEW who \in Whos
      PROVE  procs'[who].pc # "idle" => store'.versions[procs'[who].obj] # None
  <2>1. CASE who = me
    BY <2>1
  <2>2. CASE who # me
    <3>1. procs'[who] = procs[who]
      BY <2>2
    <3> QED
      BY <3>1, BusyStays
  <2> QED
    BY <2>1, <2>2
<1> QED
  BY <1>1 DEF Busy

\* Who goes on is on what it was on.
LEMMA MoverKeeps ==
  ASSUME Typed, Busy, NEW me \in Whos, \A w \in Whos \ {me} : procs'[w] = procs[w],
         \A i \in 1..Latest : store'.versions[i] = store.versions[i],
         procs[me].pc # "idle", procs'[me].pc = "idle" \/ procs'[me].obj = procs[me].obj
  PROVE  Busy'
<1>1. procs[me].obj \in 1..Latest /\ store.versions[procs[me].obj] # None
  BY DEF Typed, Bounded, Whos, Busy
<1>2. procs'[me].pc # "idle" => store'.versions[procs'[me].obj] # None
  BY <1>1
<1> QED
  BY <1>2, OthersKeep

LEMMA NobodyMoves ==
  ASSUME Typed, Busy, procs'.worker = procs.worker, procs'.handler = procs.handler,
         store'.versions = store.versions
  PROVE  Busy'
<1>1. \A who \in Whos : procs'[who] = procs[who]
  BY DEF Whos
<1> QED
  BY <1>1 DEF Busy

LEMMA UsersKeep ==
  ASSUME NoneAssumption, Typed, Busy, Users
  PROVE  Kept
<1>1. ASSUME NEW s \in Specs, Create(s)
      PROVE  Kept
  BY <1>1, CreateDoes, VersionWrittenKeeps DEF Kept
<1>2. ASSUME NEW s \in Specs, Change(s)
      PROVE  Kept
  BY <1>2, ChangeDoes, VersionWrittenKeeps DEF Kept
<1>3. ASSUME Delete
      PROVE  Kept
  <2>1. Typed' /\ procs' = procs /\ (past.excused => past'.excused)
    BY <1>3, DeleteDoes
  <2>2. \E v \in {None} \cup Objects : Wrote(v)
    <3>1. CASE Current.fin
      BY <1>3, <3>1, DeleteDoes
    <3>2. CASE ~Current.fin
      <4>1. Write(None)
        BY <1>3, <3>2 DEF Delete
      <4> QED
        BY <4>1, WriteDoes
    <3> QED
      BY <3>1, <3>2
  <2> QED
    BY <2>1, <2>2, VersionWrittenKeeps DEF Kept
<1>4. ASSUME DeleteCronJob
      PROVE  Kept
  BY <1>4, DeleteCronJobDoes, NobodyMoves DEF Kept
<1> QED
  BY <1>1, <1>2, <1>3, <1>4 DEF Users

LEMMA InformersKeep ==
  ASSUME NoneAssumption, Typed, Busy, Informers
  PROVE  Kept
<1>1. ASSUME Deliver
      PROVE  Kept
  BY <1>1, DeliverDoes, NobodyMoves DEF Kept
<1>2. ASSUME Restart
      PROVE  Kept
  <2>1. Typed' /\ past'.excused = past.excused /\ procs'.worker.pc = "idle" /\ procs'.handler.pc = "idle"
    BY <1>2, RestartDoes
  <2> QED
    BY <2>1 DEF Kept, Busy, Whos
<1>3. ASSUME Notify
      PROVE  Kept
  <2>1. PICK i : i = procs.notes[1].new
    OBVIOUS
  <2>2. /\ Typed' /\ store' = store /\ past' = past /\ procs'.worker = procs.worker
        /\ \/ procs'.handler = procs.handler
           \/ store.versions[i] # None /\ procs'.handler.obj = i
    BY <1>3, <2>1, NotifyDoes
  <2>3. CASE procs'.handler = procs.handler
    BY <2>2, <2>3, NobodyMoves DEF Kept
  <2>4. CASE store.versions[i] # None /\ procs'.handler.obj = i
    <3>1. "handler" \in Whos /\ \A w \in Whos \ {"handler"} : procs'[w] = procs[w]
      BY <2>2 DEF Whos
    <3> QED
      BY <2>2, <2>4, <3>1, OthersKeep DEF Kept
  <2> QED
    BY <2>2, <2>3, <2>4
<1>4. ASSUME DeliverCronJob
      PROVE  Kept
  BY <1>4, DeliverCronJobDoes, NobodyMoves DEF Kept
<1>5. ASSUME handleAppRepoOwnedObject
      PROVE  Kept
  BY <1>5, handleAppRepoOwnedObjectDoes, NobodyMoves DEF Kept
<1> QED
  BY <1>1, <1>2, <1>3, <1>4, <1>5 DEF Informers

LEMMA WorkerKeeps ==
  ASSUME NoneAssumption, Typed, Busy, Worker
  PROVE  Kept
<1>0. "worker" \in Whos /\ ((\A w \in Whos \ {"worker"} : procs'[w] = procs[w]) <=> procs'.handler = procs.handler)
  BY DEF Whos
<1>1. ASSUME DelayElapses
      PROVE  Kept
  BY <1>1, DelayElapsesDoes, NobodyMoves DEF Kept
<1>2. ASSUME GetKey
      PROVE  Kept
  <2>1. /\ Typed' /\ store' = store /\ past' = past /\ procs'.handler = procs.handler
        /\ procs'.worker.pc # "idle" => store'.versions[procs'.worker.obj] # None
    BY <1>2, GetKeyDoes
  <2> QED
    BY <1>0, <2>1, OthersKeep DEF Kept
<1>3. ASSUME WriteCronJob
      PROVE  Kept
  <2>1. /\ Typed' /\ store'.versions = store.versions /\ (past.excused => past'.excused)
        /\ procs'.handler = procs.handler /\ procs.worker.pc # "idle"
        /\ procs'.worker.pc = "idle" \/ procs'.worker.obj = procs.worker.obj
    BY <1>3, WriteCronJobDoes
  <2> QED
    BY <1>0, <2>1, MoverKeeps DEF Kept
<1>4. ASSUME CreateJob
      PROVE  Kept
  <2>1. /\ Typed' /\ store'.versions = store.versions /\ (past.excused => past'.excused)
        /\ procs'.handler = procs.handler /\ procs.worker.pc # "idle"
        /\ procs'.worker.pc = "idle" \/ procs'.worker.obj = procs.worker.obj
    BY <1>4, CreateJobDoes
  <2> QED
    BY <1>0, <2>1, MoverKeeps DEF Kept
<1>5. ASSUME AddFinalizer
      PROVE  Kept
  <2>1. /\ Typed' /\ past' = past /\ procs'.handler = procs.handler /\ procs.worker.pc # "idle"
        /\ procs'.worker.pc = "idle"
        /\ \A i \in 1..Latest : store'.versions[i] = store.versions[i]
    <3>1. \A i \in 1..Latest : store'.versions[i] = store.versions[i]
      BY <1>5, AddFinalizerDoes DEF Wrote
    <3> QED
      BY <1>5, <3>1, AddFinalizerDoes
  <2> QED
    BY <1>0, <2>1, MoverKeeps DEF Kept
<1> QED
  BY <1>1, <1>2, <1>3, <1>4, <1>5 DEF Worker

LEMMA CleanerKeeps ==
  ASSUME NoneAssumption, Typed, Busy, NEW who \in Whos, Cleaner(who)
  PROVE  Kept
<1>1. ASSUME CreateCleanupJob(who)
      PROVE  Kept
  <2>1. /\ Typed' /\ store' = store /\ past'.excused = past.excused /\ procs[who].pc # "idle"
        /\ procs'[who].obj = procs[who].obj /\ \A w \in Whos \ {who} : procs'[w] = procs[w]
    BY <1>1, CreateCleanupJobDoes
  <2> QED
    BY <2>1, MoverKeeps DEF Kept
<1>2. ASSUME CleanUpCronJob(who)
      PROVE  Kept
  <2>1. /\ Typed' /\ store'.versions = store.versions /\ past' = past /\ procs[who].pc # "idle"
        /\ procs'[who].obj = procs[who].obj /\ \A w \in Whos \ {who} : procs'[w] = procs[w]
    BY <1>2, CleanUpCronJobDoes
  <2> QED
    BY <2>1, MoverKeeps DEF Kept
<1>3. ASSUME RemoveFinalizer(who)
      PROVE  Kept
  <2>1. /\ Typed' /\ past' = past /\ procs[who].pc # "idle"
        /\ procs'[who].pc = "idle" /\ \A w \in Whos \ {who} : procs'[w] = procs[w]
    BY <1>3, RemoveFinalizerDoes
  <2>2. \A i \in 1..Latest : store'.versions[i] = store.versions[i]
    BY <1>3, RemoveFinalizerDoes DEF Wrote
  <2> QED
    BY <2>1, <2>2, MoverKeeps DEF Kept
<1> QED
  BY <1>1, <1>2, <1>3 DEF Cleaner

LEMMA RefusalKeeps ==
  ASSUME NoneAssumption, Typed, Busy, Refusal
  PROVE  Kept /\ past'.excused
<1>1. PICK who \in Whos, at \in Pcs, next \in Pcs : at # "idle" /\ Refuses(who, at, next)
  BY DEF Refusal, Whos, Pcs
<1>2. /\ Typed' /\ store' = store /\ past'.excused /\ procs[who].pc # "idle"
      /\ procs'[who].pc = "idle" \/ procs'[who].obj = procs[who].obj
      /\ \A w \in Whos \ {who} : procs'[w] = procs[w]
  BY <1>1, RefusesDoes
<1> QED
  BY <1>2, MoverKeeps DEF Kept

LEMMA NextKeeps ==
  ASSUME NoneAssumption, Typed, Busy, Next
  PROVE  Kept
<1>1. "worker" \in Whos /\ "handler" \in Whos
  BY DEF Whos
<1>2. ASSUME Collect
      PROVE  Kept
  <2>1. Typed' /\ past' = past
    BY <1>2, CollectDoes
  <2>2. store'.versions = store.versions /\ procs'.worker = procs.worker /\ procs'.handler = procs.handler
    <3>1. cronWritten(None) /\ procs' = NewsOf(procs, None)
      BY <1>2 DEF Collect
    <3> QED
      BY <3>1, CronWrites
  <2> QED
    BY <2>1, <2>2, NobodyMoves DEF Kept
<1> QED
  BY <1>1, <1>2, UsersKeep, InformersKeep, WorkerKeeps, CleanerKeeps, RefusalKeeps DEF Next

-----------------------------------------------------------------------------
(* The invariant, of every step that is not excused *)

LEMMA NoneIsNoObject ==
  ASSUME NoneAssumption
  PROVE  None \notin Objects /\ None \notin Crons
BY DEF NoneAssumption, Objects, Crons

LEMMA ThreadsStay ==
  ASSUME Typed, ThreadsInv, procs'.worker = procs.worker, procs'.handler = procs.handler,
         \A i \in 1..Latest : store'.versions[i] = store.versions[i], past.cleaned \subseteq past'.cleaned,
         \/ store'.cron = store.cron
         \/ store'.cron = None
         \/ store'.cron.gen \notin past.cleaned
  PROVE  ThreadsInv'
<1>1. "worker" \in Whos /\ "handler" \in Whos
  BY DEF Whos
<1>2. Thread("worker")'
  BY <1>1, ThreadStays DEF ThreadsInv
<1>3. Thread("handler")'
  BY <1>1, ThreadStays DEF ThreadsInv
<1> QED
  BY <1>2, <1>3 DEF ThreadsInv

LEMMA CreateKeepsSound ==
  ASSUME NoneAssumption, Typed, Busy, Sound, NEW s \in Specs, Create(s)
  PROVE  Sound'
<1>1. /\ procs' = procs /\ Current = None /\ past'.gens = past.gens + 1
      /\ store'.cron = store.cron /\ past'.cleaned = past.cleaned
  BY CreateDoes
<1>2. PICK v \in Objects : Wrote(v) /\ v.gen = past.gens + 1 /\ v.spec = s /\ ~v.deleting /\ ~v.fin
  BY CreateDoes
<1>3. v # None /\ past.gens \in Nat /\ Latest' = Latest + 1 /\ Current' = v
      /\ \A i \in 1..Latest : store'.versions[i] = store.versions[i]
  BY <1>2, NoneIsNoObject DEF Typed, Pasts, Wrote
<1>4. VersionsInv'
  <2>1. \A g \in 1..past'.gens : g < past'.gens => g \in past'.cleaned
    <3>1. \A g \in 1..past'.gens : g < past'.gens => g \in 1..past.gens
      BY <1>1, <1>3
    <3> QED
      BY <1>1, <3>1 DEF Sound, VersionsInv
  <2> QED
    BY <1>1, <1>2, <1>3, <2>1, VersionsWritten DEF Sound
<1>5. CronInv'
  BY <1>1 DEF Sound, CronInv
<1>6. ThreadsInv'
  BY <1>1, <1>3, ThreadsStay DEF Sound
<1>7. TouchedInv'
  BY <1>1, <1>2, TouchedWritten DEF Typed, Bounded
<1>8. NotesInv' /\ ~Fresh(procs.cached)'
  <2>1. \A i \in 1..Latest : ~Fresh(i)'
    BY <1>1, <1>2, FreshNew
  <2> QED
    BY <1>1, <2>1, NotesAnew DEF Views
<1>9. CourseInv'
  BY <1>2, <1>3, <1>8 DEF CourseInv, Comes
<1> QED
  BY <1>4, <1>5, <1>6, <1>7, <1>8, <1>9 DEF Sound

LEMMA ChangeKeepsSound ==
  ASSUME NoneAssumption, Typed, Busy, Sound, NEW s \in Specs, Change(s)
  PROVE  Sound'
<1>1. /\ procs' = procs /\ Current # None /\ Current.spec # s /\ past'.gens = past.gens
      /\ store'.cron = store.cron /\ past'.cleaned = past.cleaned
  BY ChangeDoes DEF Done
<1>2. PICK v \in Objects :
         /\ Wrote(v) /\ v.gen = Current.gen /\ v.spec = s
         /\ v.deleting = Current.deleting /\ (v.fin <=> Current.fin)
  BY ChangeDoes
<1>3. v # None /\ past.gens \in Nat /\ Latest' = Latest + 1 /\ Current' = v
      /\ \A i \in 1..Latest : store'.versions[i] = store.versions[i]
  BY <1>2, NoneIsNoObject DEF Typed, Pasts, Wrote
<1>4. VersionsInv'
  <2>1. Current.gen = past.gens
    BY <1>1 DEF Sound, VersionsInv
  <2>2. \A g \in 1..past'.gens : g < past'.gens => g \in past'.cleaned
    BY <1>1 DEF Sound, VersionsInv
  <2>3. v.deleting => v.fin
    <3>1. Latest \in 1..Latest
      BY TypedFacts
    <3>2. Current.deleting => Current.fin
      BY <1>1, <3>1 DEF Sound, VersionsInv, Current
    <3> QED
      BY <1>2, <3>2
  <2> QED
    BY <1>1, <1>2, <1>3, <2>1, <2>2, <2>3, VersionsWritten DEF Sound
<1>5. CronInv'
  BY <1>1, <1>2, <1>3 DEF Sound, CronInv
<1>6. ThreadsInv'
  BY <1>1, <1>3, ThreadsStay DEF Sound
<1>7. TouchedInv'
  BY <1>1, <1>2, TouchedWritten DEF Typed, Bounded
<1>8. NotesInv' /\ ~Fresh(procs.cached)'
  <2>1. \A i \in 1..Latest : ~Fresh(i)'
    BY <1>1, <1>2, FreshNew
  <2> QED
    BY <1>1, <2>1, NotesAnew DEF Views
<1>9. CourseInv'
  <2>1. procs'.cached < Latest'
    BY <1>1, <1>3, TypedFacts DEF Typed, Bounded
  <2> QED
    BY <1>3, <1>8, <2>1 DEF CourseInv, Comes, Leaving
<1> QED
  BY <1>4, <1>5, <1>6, <1>7, <1>8, <1>9 DEF Sound

LEMMA DeleteKeepsSound ==
  ASSUME NoneAssumption, Typed, Busy, Sound, Delete, ~past'.excused
  PROVE  Sound'
<1>1. /\ procs' = procs /\ Current # None /\ ~Current.deleting /\ Current.fin /\ past'.gens = past.gens
      /\ store'.cron = store.cron /\ past'.cleaned = past.cleaned
  BY DeleteDoes DEF Done
<1>2. PICK v \in Objects :
         Wrote(v) /\ v.gen = Current.gen /\ v.spec = Current.spec /\ v.deleting /\ v.fin
  BY <1>1, DeleteDoes
<1>3. v # None /\ past.gens \in Nat /\ Latest \in Nat /\ Latest' = Latest + 1 /\ Current' = v
      /\ \A i \in 1..Latest : store'.versions[i] = store.versions[i]
  BY <1>2, NoneIsNoObject, TypedFacts DEF Typed, Pasts, Wrote
<1>4. VersionsInv'
  <2>1. Current.gen = past.gens
    BY <1>1 DEF Sound, VersionsInv
  <2>2. \A g \in 1..past'.gens : g < past'.gens => g \in past'.cleaned
    BY <1>1 DEF Sound, VersionsInv
  <2> QED
    BY <1>1, <1>2, <1>3, <2>1, <2>2, VersionsWritten DEF Sound
<1>5. CronInv'
  BY <1>1, <1>2, <1>3 DEF Sound, CronInv
<1>6. ThreadsInv'
  BY <1>1, <1>3, ThreadsStay DEF Sound
<1>7. TouchedInv'
  BY <1>1, <1>2, TouchedWritten DEF Typed, Bounded
<1>8. NotesInv'
  <2>1. \A i \in 1..Latest : Fresh(i)' <=> Fresh(i)
    BY <1>1, <1>2, <1>3, FreshSame
  <2> QED
    BY <1>1, <1>3, <2>1, NotesStay DEF Sound, Views
<1>9. CourseInv'
  <2>1. procs.cached < Latest'
    BY <1>3 DEF Typed, Bounded
  <2> QED
    BY <1>1, <1>2, <1>3, <2>1 DEF CourseInv, Leaving
<1> QED
  BY <1>4, <1>5, <1>6, <1>7, <1>8, <1>9 DEF Sound

LEMMA DeleteCronJobKeepsSound ==
  ASSUME NoneAssumption, Typed, Busy, Sound, DeleteCronJob, ~past'.excused
  PROVE  Sound'
<1>1. /\ store'.cron = None /\ store.own /\ store'.own = store.own /\ store'.versions = store.versions
      /\ procs'.worker = procs.worker /\ procs'.handler = procs.handler /\ procs'.touched = procs.touched
      /\ UNCHANGED <<Views, Keys, Done>> /\ CronGone'
  BY DeleteCronJobDoes DEF Typed, Stores
<1>2. /\ Latest' = Latest /\ Current' = Current /\ \A i : Fresh(i)' <=> Fresh(i)
  BY <1>1, SameVersions
<1>3. past'.gens = past.gens /\ past'.cleaned = past.cleaned
      /\ procs'.delayed = procs.delayed /\ procs'.queued = procs.queued
  BY <1>1 DEF Done, Keys
<1>4. VersionsInv'
  BY <1>1, <1>3, VersionsStay DEF Sound
<1>5. CronInv'
  BY <1>1 DEF CronInv
<1>6. ThreadsInv'
  BY <1>1, <1>3, ThreadsStay DEF Sound
<1>7. TouchedInv'
  BY <1>1, <1>2, TouchedStays DEF Sound
<1>8. NotesInv'
  BY <1>1, <1>2, NotesStay DEF Sound
<1>9. CourseInv'
  <2>1. Lost'
    BY <1>1 DEF Lost
  <2> QED
    BY <1>1, <1>3, <2>1, CourseStays DEF Sound
<1> QED
  BY <1>4, <1>5, <1>6, <1>7, <1>8, <1>9 DEF Sound

\* Nothing is left behind for the garbage collection.
LEMMA NoneOrphaned ==
  ASSUME CronInv
  PROVE  ~Orphaned
BY DEF CronInv, Orphaned, Owned

\* What the informer is told next.
LEMMA DeliverKeepsSound ==
  ASSUME NoneAssumption, Typed, Busy, Sound, Deliver, ~past'.excused
  PROVE  Sound'
<1>0. PICK c, d : c = procs.cached /\ d = procs'.cached
  OBVIOUS
<1>1. /\ store' = store /\ UNCHANGED <<Keys, CronNews, Done>>
      /\ procs'.worker = procs.worker /\ procs'.handler = procs.handler /\ procs'.touched = procs.touched
      /\ c < Latest /\ d \in c + 1..Latest
      /\ \/ d = c + 1
         \/ d = Latest /\ ~LooksUnchanged(c, Latest)
      /\ procs'.notes = Append(procs.notes, [old |-> c, new |-> d])
  BY <1>0, DeliverDoes
<1>2. /\ Latest' = Latest /\ Current' = Current /\ \A i : Fresh(i)' <=> Fresh(i)
  BY <1>1, SameVersions
<1>3. past'.gens = past.gens /\ past'.cleaned = past.cleaned /\ past'.synced = past.synced
      /\ procs'.delayed = procs.delayed /\ procs'.queued = procs.queued
      /\ procs'.lost = procs.lost /\ procs'.cronNews = procs.cronNews
  BY <1>1 DEF Done, Keys, CronNews
<1>4. c \in 1..Latest /\ d \in 1..Latest /\ Latest \in Nat /\ c \in Nat /\ d \in Nat
  BY <1>0, <1>1, TypedFacts, SMTT(60) DEF Typed, Bounded
<1>a. PICK note, last : note = [old |-> c, new |-> d] /\ last = Len(procs.notes) + 1
  OBVIOUS
<1>5. /\ Len(procs'.notes) = last /\ Len(procs.notes) \in Nat
      /\ \A k \in 1..Len(procs.notes) : procs'.notes[k] = procs.notes[k]
      /\ procs'.notes[last] = note /\ note.old = c /\ note.new = d
  <2>1. note \in Notes /\ procs.notes \in Seq(Notes)
    BY <1>4, <1>a, TypedFacts DEF Notes
  <2> QED
    BY <1>1, <1>a, <2>1, AppendProperties, LenProperties
<1>6. 1..Len(procs'.notes) = 1..Len(procs.notes) \cup {last} /\ last > Len(procs.notes) /\ last \in Nat
  BY <1>a, <1>5
\* The new one turns, if it should.
<1>7. ~Fresh(c) /\ Fresh(d) => store.versions[c] = None \/ specDiffers(store.versions[c], store.versions[d])
  <2> SUFFICES ASSUME ~Fresh(c), Fresh(d), store.versions[c] # None
               PROVE  specDiffers(store.versions[c], store.versions[d])
    OBVIOUS
  <2>1. store.versions[d] # None /\ store.versions[d].gen = Current.gen /\ store.versions[d].spec = Current.spec
    BY <1>4 DEF Fresh
  <2>2. CASE d = c + 1
    <3>1. store.versions[c].gen = Current.gen
      BY <1>4, <2>1, <2>2 DEF Sound, VersionsInv
    <3>2. c..Latest = {c} \cup d..Latest
      BY <1>4, <2>2
    <3>3. store.versions[c].spec # Current.spec
      BY <1>4, <3>1, <3>2 DEF Fresh
    <3> QED
      BY <2>1, <3>3 DEF specDiffers
  <2>3. CASE d = Latest /\ ~LooksUnchanged(c, Latest)
    BY <2>1, <2>3 DEF LooksUnchanged
  <2> QED
    BY <1>1, <2>2, <2>3
<1>8. \A k : Reaches(k) => Reaches(k)'
  <2>1. \A k \in 1..Len(procs.notes) : Turns(procs.notes[k]) => (Turns(procs.notes[k]))'
    BY <1>2, <1>5 DEF Turns
  <2> QED
    BY <1>5, <1>6, <2>1 DEF Reaches
<1>9. ~Fresh(c) /\ Fresh(d) => \A k \in 0..Len(procs.notes) : Reaches(k)'
  <2>1. ~Fresh(c) /\ Fresh(d) => (Turns(procs.notes[last]))'
    BY <1>2, <1>5 DEF Turns
  <2>2. \A k \in 0..Len(procs.notes) : last > k
    BY <1>5, <1>6
  <2> QED
    BY <1>5, <1>6, <2>1, <2>2 DEF Reaches
<1>10. VersionsInv'
  BY <1>1, <1>3, VersionsStay DEF Sound
<1>11. CronInv'
  BY <1>1, <1>2 DEF Sound, CronInv
<1>12. ThreadsInv'
  BY <1>1, <1>3, ThreadsStay DEF Sound
<1>13. TouchedInv'
  BY <1>1, <1>2, TouchedStays DEF Sound
<1>14. NotesInv'
  <2>1. ASSUME NEW k \in 1..Len(procs'.notes)
        PROVE  /\ (Turns(procs.notes[k]) =>
                     \/ store.versions[procs.notes[k].old] = None
                     \/ specDiffers(store.versions[procs.notes[k].old], store.versions[procs.notes[k].new]))'
               /\ (Fresh(procs.cached) /\ ~Fresh(procs.notes[k].new) => Reaches(k))'
    <3>1. CASE k \in 1..Len(procs.notes)
      <4>1. PICK n : n = procs.notes[k] /\ procs'.notes[k] = n
        BY <1>5, <3>1
      <4>2. Turns(n) => store.versions[n.old] = None \/ specDiffers(store.versions[n.old], store.versions[n.new])
        BY <3>1, <4>1 DEF Sound, NotesInv
      <4>3. Fresh(c) /\ ~Fresh(n.new) => Reaches(k)
        BY <1>0, <3>1, <4>1 DEF Sound, NotesInv
      <4>4. (Turns(n))' <=> Turns(n)
        BY <1>2 DEF Turns
      <4>5. k \in 0..Len(procs.notes)
        BY <1>5, <3>1
      <4>6. Fresh(d) /\ ~Fresh(n.new) => Reaches(k)'
        BY <1>8, <1>9, <4>3, <4>5
      <4>7. (Fresh(procs.cached) /\ ~Fresh(procs.notes[k].new) => Reaches(k))'
        BY <1>0, <1>2, <4>1, <4>6
      <4> QED
        BY <1>1, <4>1, <4>2, <4>4, <4>7 DEF specDiffers
    <3>2. CASE k = last
      <4>1. procs'.notes[k] = note
        BY <1>5, <3>2
      <4>2. (Turns(note))' => ~Fresh(c) /\ Fresh(d)
        BY <1>2, <1>5 DEF Turns
      <4>3. (Fresh(procs.cached) => Fresh(note.new))'
        BY <1>0, <1>5
      <4> QED
        BY <1>1, <1>5, <1>7, <4>1, <4>2, <4>3 DEF specDiffers
    <3> QED
      BY <1>6, <3>1, <3>2
  <2>2. (procs.handler.pc # "idle" /\ Fresh(procs.cached) /\ ~Fresh(procs.handler.obj) => Reaches(0))'
    <3> SUFFICES ASSUME procs.handler.pc # "idle", Fresh(d), ~Fresh(procs.handler.obj)
                 PROVE  Reaches(0)'
      BY <1>0, <1>1, <1>2
    <3>1. Fresh(c) => Reaches(0)
      BY <1>0 DEF Sound, NotesInv
    <3>2. 0 \in 0..Len(procs.notes)
      BY <1>5
    <3> QED
      BY <1>8, <1>9, <3>1, <3>2
  <2> QED
    BY <2>1, <2>2 DEF NotesInv
<1>15. CourseInv'
  <2>1. Leaving => Leaving'
    <3>1. procs.cached < Latest => procs'.cached < Latest' \/ \E k \in 1..Len(procs'.notes) : procs'.notes[k].new = Latest'
      <4>1. d < Latest \/ d = Latest
        BY <1>1, <1>4
      <4> QED
        BY <1>0, <1>2, <1>5, <1>6, <4>1
    <3>2. \A k \in 1..Len(procs.notes) : procs'.notes[k] = procs.notes[k] /\ k \in 1..Len(procs'.notes)
      BY <1>5, <1>6
    <3> QED
      BY <1>1, <1>2, <1>3, <3>1, <3>2 DEF Leaving
  <2>2. Comes => Comes'
    <3>1. ~Fresh(c) => ~Fresh(d) \/ Reaches(0)'
      <4>1. 0 \in 0..Len(procs.notes)
        BY <1>5
      <4> QED
        BY <1>9, <4>1
    <3>2. Fresh(procs.cached)' => Fresh(d)
      BY <1>0, <1>2
    <3> QED
      BY <1>0, <1>3, <1>8, <3>1, <3>2 DEF Comes
  <2>3. Lost => Lost'
    BY <1>1, <1>3 DEF Lost, CronGone
  <2>4. OnIt => OnIt'
    BY <1>1, <1>2, <1>3 DEF OnIt, CronRight, Synced
  <2> QED
    BY <1>2, <2>1, <2>2, <2>3, <2>4 DEF Sound, CourseInv
<1> QED
  BY <1>10, <1>11, <1>12, <1>13, <1>14, <1>15 DEF Sound

LEMMA RestartKeepsSound ==
  ASSUME NoneAssumption, Typed, Busy, Sound, Restart
  PROVE  Sound'
<1>1. /\ store' = store /\ UNCHANGED Done /\ procs'.cached = Latest /\ procs'.touched = {}
      /\ procs'.worker.pc = "idle" /\ procs'.handler.pc = "idle"
      /\ procs'.notes = IF Current = None THEN <<>> ELSE <<[old |-> 1, new |-> Latest]>>
  BY RestartDoes
<1>2. /\ Latest' = Latest /\ Current' = Current /\ \A i : Fresh(i)' <=> Fresh(i)
  BY <1>1, SameVersions
<1>3. past'.gens = past.gens /\ past'.cleaned = past.cleaned /\ past'.synced = past.synced
  BY <1>1 DEF Done
<1>4. PICK last, note : last = Latest /\ note = [old |-> 1, new |-> last]
  OBVIOUS
<1>5. /\ \A k \in 1..Len(procs'.notes) : procs'.notes[k] = note
      /\ Current # None => Len(procs'.notes) = 1 /\ procs'.notes[1] = note
      /\ note.old = 1 /\ note.new = last
  BY <1>1, <1>4
<1>6. store.versions[1] = None /\ ~Fresh(1) /\ (Current # None => Fresh(last))
  <2>1. 1 \in 1..Latest
    BY TypedFacts
  <2> QED
    BY <1>4, <2>1, FreshLatest DEF Sound, VersionsInv, Fresh
<1>7. VersionsInv'
  BY <1>1, <1>3, VersionsStay DEF Sound
<1>8. CronInv'
  BY <1>1, <1>2 DEF Sound, CronInv
<1>9. ThreadsInv'
  BY <1>1 DEF ThreadsInv, Thread
<1>10. TouchedInv'
  BY <1>1 DEF TouchedInv
<1>11. NotesInv'
  <2>1. ASSUME NEW k \in 1..Len(procs'.notes)
        PROVE  /\ (Turns(procs.notes[k]) =>
                     \/ store.versions[procs.notes[k].old] = None
                     \/ specDiffers(store.versions[procs.notes[k].old], store.versions[procs.notes[k].new]))'
               /\ (Fresh(procs.cached) /\ ~Fresh(procs.notes[k].new) => Reaches(k))'
    <3>1. procs'.notes[k] = note
      BY <1>5
    <3>2. (store.versions[procs.notes[k].old] = None)'
      BY <1>1, <1>5, <1>6, <3>1
    <3>3. (Fresh(procs.cached))' => (Fresh(procs.notes[k].new))'
      BY <1>1, <1>4, <1>5, <3>1
    <3> QED
      BY <3>2, <3>3
  <2> QED
    BY <1>1, <2>1 DEF NotesInv
<1>12. CourseInv'
  <2> SUFFICES ASSUME Current # None
               PROVE  Leaving' /\ Comes'
    BY <1>2 DEF CourseInv
  <2>1. 1 \in 1..Len(procs'.notes) /\ procs'.notes[1] = note
    BY <1>5
  <2>2. Leaving'
    BY <1>2, <1>4, <1>5, <2>1 DEF Leaving
  <2>3. (Turns(procs.notes[1]))'
    BY <1>2, <1>5, <1>6, <2>1 DEF Turns
  <2>4. Reaches(0)'
    BY <2>1, <2>3 DEF Reaches
  <2> QED
    BY <2>2, <2>4 DEF Comes
<1> QED
  BY <1>7, <1>8, <1>9, <1>10, <1>11, <1>12 DEF Sound

LEMMA NotifyKeepsSound ==
  ASSUME NoneAssumption, Typed, Busy, Sound, Notify
  PROVE  Sound'
<1>0. PICK note, old, new, w : /\ note = procs.notes[1] /\ w = note.new
                               /\ old = store.versions[note.old] /\ new = store.versions[note.new]
  BY SMTT(60)
<1>1. /\ store' = store /\ past' = past /\ procs.handler.pc = "idle" /\ procs.notes # <<>>
      /\ UNCHANGED <<procs.cached, procs.queued, CronNews, procs.touched, procs.worker>>
      /\ procs'.notes = Tail(procs.notes) /\ (procs.delayed => procs'.delayed)
      /\ new # None /\ (old = None \/ specDiffers(old, new)) => procs'.delayed
      /\ \/ procs'.handler = procs.handler
         \/ new # None /\ new.deleting /\ procs'.handler.pc = "clean" /\ procs'.handler.obj = w
      /\ new # None /\ old # None /\ ~specDiffers(old, new) /\ new.deleting /\ HasFinalizer(w) =>
            procs'.handler.pc = "clean" /\ procs'.handler.obj = w
  BY <1>0, NotifyDoes
<1>2. /\ Latest' = Latest /\ Current' = Current /\ \A i : Fresh(i)' <=> Fresh(i)
  BY <1>1, SameVersions
<1>3. /\ Len(procs.notes) \in Nat \ {0} /\ Len(procs'.notes) = Len(procs.notes) - 1
      /\ \A k \in 1..Len(procs'.notes) : procs'.notes[k] = procs.notes[k + 1] /\ k + 1 \in 1..Len(procs.notes)
  <2>1. procs.notes \in Seq(Notes)
    BY TypedFacts
  <2> QED
    BY <1>1, <2>1, TailDoes
<1>4. 1 \in 1..Len(procs.notes) /\ w \in 1..Latest
  BY <1>0, <1>3 DEF Typed, Bounded
\* What it reaches after the first, it still does.
<1>5. \A k \in 1..Len(procs.notes) : Reaches(k) => Reaches(k - 1)'
  <2> SUFFICES ASSUME NEW k \in 1..Len(procs.notes), NEW l \in 1..Len(procs.notes), l > k, Turns(procs.notes[l])
               PROVE  Reaches(k - 1)'
    BY DEF Reaches
  <2>1. PICK m : m = l - 1
    OBVIOUS
  <2>2. m \in 1..Len(procs'.notes) /\ m > k - 1 /\ m + 1 = l
    BY <1>3, <2>1
  <2>3. procs'.notes[m] = procs.notes[l]
    BY <1>3, <2>2
  <2>4. (Turns(procs.notes[m]))'
    BY <1>2, <2>3 DEF Turns
  <2>5. \E q \in 1..Len(procs'.notes) : q > k - 1 /\ (Turns(procs.notes[q]))'
    BY <2>2, <2>4
  <2> QED
    BY <2>5 DEF Reaches
<1>6. VersionsInv'
  BY <1>1, VersionsStay DEF Sound
<1>7. CronInv'
  BY <1>1, <1>2 DEF Sound, CronInv
<1>8. ThreadsInv'
  <2>1. Thread("worker")'
    BY <1>1, ThreadStays DEF Sound, ThreadsInv, Whos
  <2>2. Thread("handler")'
    <3>1. CASE procs'.handler = procs.handler
      BY <1>1, <3>1 DEF Thread
    <3>2. CASE new.deleting /\ procs'.handler.pc = "clean" /\ procs'.handler.obj = w
      <4>1. store'.versions[procs'.handler.obj] = new
        BY <1>0, <1>1, <3>2
      <4> QED
        BY <3>2, <4>1 DEF Thread
    <3> QED
      BY <1>1, <3>1, <3>2
  <2> QED
    BY <2>1, <2>2 DEF ThreadsInv
<1>9. TouchedInv'
  BY <1>1, <1>2, TouchedStays DEF Sound
<1>10. NotesInv'
  <2>1. ASSUME NEW k \in 1..Len(procs'.notes)
        PROVE  /\ (Turns(procs.notes[k]) =>
                     \/ store.versions[procs.notes[k].old] = None
                     \/ specDiffers(store.versions[procs.notes[k].old], store.versions[procs.notes[k].new]))'
               /\ (Fresh(procs.cached) /\ ~Fresh(procs.notes[k].new) => Reaches(k))'
    <3>1. PICK n, j : j = k + 1 /\ n = procs.notes[j]
      OBVIOUS
    <3>2. procs'.notes[k] = n /\ j \in 1..Len(procs.notes) /\ j - 1 = k
      BY <1>3, <3>1
    <3>3. Turns(n) => store.versions[n.old] = None \/ specDiffers(store.versions[n.old], store.versions[n.new])
      BY <3>1, <3>2 DEF Sound, NotesInv
    <3>4. Fresh(procs.cached) /\ ~Fresh(n.new) => Reaches(k)'
      <4>1. Fresh(procs.cached) /\ ~Fresh(n.new) => Reaches(j)
        BY <3>1, <3>2 DEF Sound, NotesInv
      <4>2. Reaches(j) => Reaches(j - 1)'
        BY <1>5, <3>2
      <4> QED
        BY <3>2, <4>1, <4>2
    <3>5. (Turns(n))' <=> Turns(n)
      BY <1>2 DEF Turns
    <3>6. (Fresh(procs.cached))' <=> Fresh(procs.cached)
      BY <1>1, <1>2
    <3> QED
      BY <1>1, <1>2, <3>2, <3>3, <3>4, <3>5, <3>6 DEF specDiffers
  <2>2. (procs.handler.pc # "idle" /\ Fresh(procs.cached) /\ ~Fresh(procs.handler.obj) => Reaches(0))'
    <3> SUFFICES ASSUME procs'.handler.pc # "idle", Fresh(procs.cached), ~Fresh(procs.handler.obj)'
                 PROVE  Reaches(0)'
      BY <1>1, <1>2
    <3>1. procs'.handler.obj = w
      BY <1>1
    <3>2. ~Fresh(w)
      BY <1>2, <3>1
    <3>3. Reaches(1)
      BY <1>0, <1>4, <3>2 DEF Sound, NotesInv
    <3> QED
      BY <1>4, <1>5, <3>3
  <2> QED
    BY <2>1, <2>2 DEF NotesInv
<1>11. CourseInv'
  <2>0. procs'.lost = procs.lost /\ procs'.cronNews = procs.cronNews
    BY <1>1 DEF CronNews
  <2>1. Current # None /\ Current.deleting /\ Leaving => Leaving'
    <3> SUFFICES ASSUME Current # None, Current.deleting, NEW k \in 1..Len(procs.notes), procs.notes[k].new = Latest
                 PROVE  Leaving'
      BY <1>1, <1>2 DEF Leaving
    <3>1. CASE k = 1
      <4>1. w = Latest /\ new = Current
        BY <1>0, <3>1 DEF Current
      <4>2. HasFinalizer(w)
        BY <4>1, LeavesLast DEF Sound
      <4>3. procs'.delayed \/ (procs'.handler.pc = "clean" /\ procs'.handler.obj = w)
        BY <1>1, <4>1, <4>2
      <4> QED
        BY <1>2, <4>1, <4>3 DEF Leaving
    <3>2. CASE k # 1
      <4>1. k - 1 \in 1..Len(procs'.notes) /\ (k - 1) + 1 = k
        BY <1>3, <3>2
      <4>2. procs'.notes[k - 1].new = Latest'
        BY <1>2, <1>3, <4>1
      <4> QED
        BY <4>1, <4>2 DEF Leaving
    <3> QED
      BY <3>1, <3>2
  <2>2. Comes => Comes'
    <3>1. Reaches(0) => procs'.delayed \/ Reaches(0)'
      <4> SUFFICES ASSUME NEW l \in 1..Len(procs.notes), Turns(procs.notes[l])
                   PROVE  procs'.delayed \/ Reaches(0)'
        BY DEF Reaches
      <4>1. CASE l = 1
        <5>1. Turns(note)
          BY <1>0, <4>1
        <5>2. new # None
          BY <1>0, <1>4, <5>1 DEF Turns, Fresh
        <5>3. old = None \/ specDiffers(old, new)
          BY <1>0, <1>4, <5>1 DEF Sound, NotesInv
        <5> QED
          BY <1>1, <5>2, <5>3
      <4>2. CASE l # 1
        <5>1. Reaches(1)
          BY <1>3, <4>2 DEF Reaches
        <5> QED
          BY <1>4, <1>5, <5>1
      <4> QED
        BY <4>1, <4>2
    <3>2. (Fresh(procs.cached))' <=> Fresh(procs.cached)
      BY <1>1, <1>2
    <3> QED
      BY <1>1, <3>1, <3>2 DEF Comes
  <2>3. Lost => Lost'
    BY <1>1, <2>0 DEF Lost, CronGone
  <2>4. OnIt => OnIt'
    BY <1>1, <1>2 DEF OnIt, CronRight, Synced
  <2> QED
    BY <1>2, <2>1, <2>2, <2>3, <2>4 DEF Sound, CourseInv
<1> QED
  BY <1>6, <1>7, <1>8, <1>9, <1>10, <1>11 DEF Sound

\* Where neither what there is changes nor what the informer is told, nor who works on what.
LEMMA FrameKeepsSound ==
  ASSUME Typed, Sound, store' = store, past' = past, UNCHANGED Views, procs'.touched = procs.touched,
         procs'.worker = procs.worker, procs'.handler = procs.handler,
         procs.delayed => procs'.delayed \/ procs'.queued, procs.queued => procs'.queued,
         Current # None /\ ~Current.deleting /\ Lost => Comes' \/ Lost'
  PROVE  Sound'
<1>1. /\ Latest' = Latest /\ Current' = Current /\ \A i : Fresh(i)' <=> Fresh(i)
  BY SameVersions
<1>2. VersionsInv'
  BY VersionsStay DEF Sound
<1>3. CronInv'
  BY <1>1 DEF Sound, CronInv
<1>4. ThreadsInv'
  BY ThreadsStay DEF Sound
<1>5. TouchedInv'
  BY <1>1, TouchedStays DEF Sound
<1>6. NotesInv'
  BY <1>1, NotesStay DEF Sound
<1>7. CourseInv'
  <2>1. \A k : Reaches(k)' <=> Reaches(k)
    BY <1>1, ReachesStays
  <2>2. procs'.cached = procs.cached /\ procs'.notes = procs.notes
    BY DEF Views
  <2>3. Leaving => Leaving'
    BY <1>1, <2>2 DEF Leaving
  <2>4. Comes => Comes'
    BY <1>1, <2>1, <2>2 DEF Comes
  <2>5. OnIt => OnIt'
    BY <1>1 DEF OnIt, CronRight, Synced
  <2> QED
    BY <1>1, <2>3, <2>4, <2>5 DEF Sound, CourseInv
<1> QED
  BY <1>2, <1>3, <1>4, <1>5, <1>6, <1>7 DEF Sound

LEMMA CronJobNewsKeepsSound ==
  ASSUME NoneAssumption, Typed, Busy, Sound, DeliverCronJob \/ handleAppRepoOwnedObject \/ DelayElapses
  PROVE  Sound'
<1>1. ASSUME DeliverCronJob
      PROVE  Sound'
  <2>1. /\ store' = store /\ past' = past /\ (Lost => Lost')
        /\ UNCHANGED <<Views, Keys, procs.touched, procs.worker, procs.handler>>
    BY <1>1, DeliverCronJobDoes
  <2>2. procs'.delayed = procs.delayed /\ procs'.queued = procs.queued
    BY <2>1 DEF Keys
  <2> QED
    BY <2>1, <2>2, FrameKeepsSound
<1>2. ASSUME handleAppRepoOwnedObject
      PROVE  Sound'
  <2>1. /\ store' = store /\ past' = past /\ (procs.delayed => procs'.delayed)
        /\ store.versions[procs.cached] # None /\ ~store.versions[procs.cached].deleting => procs'.delayed
        /\ UNCHANGED <<Views, procs.queued, procs.touched, procs.worker, procs.handler>>
    BY <1>2, handleAppRepoOwnedObjectDoes
  <2>2. Current # None /\ ~Current.deleting => Comes'
    <3>1. CASE Fresh(procs.cached)
      <4>1. Current # None /\ ~Current.deleting => procs'.delayed
        BY <2>1, <3>1, FreshLives DEF Sound
      <4> QED
        BY <4>1 DEF Comes
    <3>2. CASE ~Fresh(procs.cached)
      <4>1. (\A i : Fresh(i)' <=> Fresh(i)) /\ procs'.cached = procs.cached
        BY <2>1, SameVersions DEF Views
      <4> QED
        BY <3>2, <4>1 DEF Comes
    <3> QED
      BY <3>1, <3>2
  <2> QED
    BY <2>1, <2>2, FrameKeepsSound
<1>3. ASSUME DelayElapses
      PROVE  Sound'
  <2>1. /\ store' = store /\ past' = past /\ procs'.queued
        /\ UNCHANGED <<Views, CronNews, procs.touched, procs.worker, procs.handler>>
    BY <1>3, DelayElapsesDoes
  <2>2. Comes'
    BY <2>1 DEF Comes
  <2> QED
    BY <2>1, <2>2, FrameKeepsSound
<1> QED
  BY <1>1, <1>2, <1>3

LEMMA GetKeyKeepsSound ==
  ASSUME NoneAssumption, Typed, Busy, Sound, GetKey
  PROVE  Sound'
<1>1. /\ store' = store /\ past' = past /\ procs.worker.pc = "idle"
      /\ UNCHANGED <<Views, CronNews, procs.delayed, procs.touched, procs.handler>>
      /\ \/ store.versions[procs.cached] = None /\ procs'.worker.pc = "idle"
         \/ /\ store.versions[procs.cached] # None
            /\ procs'.worker.pc = "cronjob" /\ procs'.worker.obj = procs.cached
  BY GetKeyDoes
<1>2. /\ Latest' = Latest /\ Current' = Current /\ \A i : Fresh(i)' <=> Fresh(i)
  BY <1>1, SameVersions
<1>3. procs'.cached = procs.cached /\ procs'.notes = procs.notes
      /\ procs.cached \in 1..Latest /\ Latest \in Nat
  BY <1>1, TypedFacts DEF Views, Typed, Bounded
<1>4. VersionsInv'
  BY <1>1, VersionsStay DEF Sound
<1>5. CronInv'
  BY <1>1, <1>2 DEF Sound, CronInv
<1>6. ThreadsInv'
  <2>1. Thread("handler")'
    BY <1>1, ThreadStays DEF Sound, ThreadsInv, Whos
  <2>2. Thread("worker")'
    BY <1>1 DEF Thread
  <2> QED
    BY <2>1, <2>2 DEF ThreadsInv
<1>7. TouchedInv'
  BY <1>1, <1>2, TouchedStays DEF Sound
<1>8. NotesInv'
  BY <1>1, <1>2, NotesStay DEF Sound
<1>9. Current # None /\ Current.deleting => Leaving'
  <2>1. CASE procs.cached < Latest
    BY <1>2, <1>3, <2>1 DEF Leaving
  <2>2. CASE procs.cached = Latest
    <3>1. Current # None => procs'.worker.pc = "cronjob" /\ procs'.worker.obj = Latest'
      BY <1>1, <1>2, <2>2 DEF Current
    <3> QED
      BY <3>1 DEF Leaving
  <2> QED
    BY <1>3, <2>1, <2>2
<1>10. Comes' \/ OnIt'
  <2>1. CASE Fresh(procs.cached)
    <3>1. store.versions[procs.cached] # None
      BY <1>3, <2>1 DEF Fresh
    <3>2. procs'.worker.pc = "cronjob" /\ procs'.worker.obj = procs.cached
      BY <1>1, <3>1
    <3>3. Fresh(procs.worker.obj)'
      BY <1>2, <2>1, <3>2
    <3> QED
      BY <3>2, <3>3 DEF OnIt
  <2>2. CASE ~Fresh(procs.cached)
    BY <1>2, <1>3, <2>2 DEF Comes
  <2> QED
    BY <2>1, <2>2
<1>11. CourseInv'
  BY <1>2, <1>9, <1>10 DEF CourseInv
<1> QED
  BY <1>4, <1>5, <1>6, <1>7, <1>8, <1>11 DEF Sound

LEMMA WriteCronJobKeepsSound ==
  ASSUME NoneAssumption, Typed, Busy, Sound, WriteCronJob, ~past'.excused
  PROVE  Sound'
<1>0. PICK obj, repo : obj = procs.worker.obj /\ repo = Object("worker")
  OBVIOUS
<1>1. /\ procs.worker.pc = "cronjob" /\ procs'.worker.pc = "job" /\ procs'.worker.obj = obj
      /\ UNCHANGED <<store.own, store.versions, Views, Keys, procs.lost, procs.touched, procs.handler, Done>>
      /\ (CronGone => CronGone') /\ repo.gen \notin past.cleaned
      /\ store'.cron = [gen |-> repo.gen, spec |-> repo.spec]
  BY <1>0, WriteCronJobDoes
<1>2. /\ Latest' = Latest /\ Current' = Current /\ \A i : Fresh(i)' <=> Fresh(i)
  BY <1>1, SameVersions
<1>3. past'.gens = past.gens /\ past'.cleaned = past.cleaned /\ past'.synced = past.synced
      /\ procs'.delayed = procs.delayed /\ procs'.queued = procs.queued
  BY <1>1 DEF Done, Keys
<1>4. repo.gen \in 1..past.gens /\ repo = store.versions[obj] /\ past.gens \in Nat
  <2>1. procs["worker"].pc # "idle" /\ "worker" \in Whos
    BY <1>1 DEF Whos
  <2> QED
    BY <1>0, <2>1, ObjectIs DEF Typed, Pasts
<1>5. VersionsInv'
  BY <1>1, <1>3, VersionsStay DEF Sound
<1>6. CronInv'
  <2>1. Current # None /\ ~(repo.gen < past.gens)
    BY <1>1, <1>4 DEF Sound, VersionsInv
  <2>2. repo.gen = past.gens
    BY <1>4, <2>1
  <2> QED
    BY <1>1, <1>2, <2>1, <2>2 DEF CronInv, Sound, VersionsInv
<1>7. ThreadsInv'
  <2>1. store'.cron.gen \notin past.cleaned
    BY <1>1
  <2>2. Thread("handler")'
    BY <1>1, <1>3, <2>1, ThreadStays DEF Sound, ThreadsInv, Whos
  <2>3. Thread("worker")'
    BY <1>1 DEF Thread
  <2> QED
    BY <2>2, <2>3 DEF ThreadsInv
<1>8. TouchedInv'
  BY <1>1, <1>2, TouchedStays DEF Sound
<1>9. NotesInv'
  BY <1>1, <1>2, NotesStay DEF Sound
<1>10. CourseInv'
  <2>1. Lost => Lost'
    BY <1>1 DEF Lost
  <2>2. ~Current.deleting /\ OnIt => OnIt'
    <3> SUFFICES ASSUME ~Current.deleting, Fresh(obj)
                 PROVE  OnIt'
      BY <1>0, <1>1 DEF OnIt
    <3>1. repo.gen = Current.gen /\ repo.spec = Current.spec
      BY <1>4, FreshLives DEF Sound
    <3>2. CronRight'
      BY <1>1, <1>2, <3>1 DEF CronRight
    <3> QED
      BY <1>1, <1>2, <3>2 DEF OnIt
  <2> QED
    BY <1>0, <1>1, <1>3, <2>1, <2>2, CourseStays DEF Sound
<1> QED
  BY <1>5, <1>6, <1>7, <1>8, <1>9, <1>10 DEF Sound

LEMMA CreateJobKeepsSound ==
  ASSUME NoneAssumption, Typed, Busy, Sound, CreateJob
  PROVE  Sound'
<1>0. PICK i, repo : i = procs.worker.obj /\ repo = Object("worker")
  OBVIOUS
<1>1. /\ store' = store /\ procs.worker.pc = "job"
      /\ UNCHANGED <<Views, Keys, CronNews, procs.handler, past.gens, past.cleaned>>
      /\ past'.synced = past.synced \cup {<<repo.gen, repo.spec>>}
      /\ \/ /\ repo.deleting
            /\ procs'.worker.pc = "clean" /\ procs'.worker.obj = i
            /\ procs'.touched = procs.touched
         \/ /\ ~repo.deleting /\ ~HasFinalizer(i)
            /\ procs'.worker.pc = "finalize" /\ procs'.worker.obj = i
            /\ procs'.touched = procs.touched \cup {i}
         \/ /\ repo.deleting = ~HasFinalizer(i)
            /\ procs'.worker.pc = "idle" /\ procs'.touched = procs.touched
  BY <1>0, CreateJobDoes
<1>2. /\ Latest' = Latest /\ Current' = Current /\ \A j : Fresh(j)' <=> Fresh(j)
  BY <1>1, SameVersions
<1>3. procs'.delayed = procs.delayed /\ procs'.queued = procs.queued
      /\ procs'.lost = procs.lost /\ procs'.cronNews = procs.cronNews
  BY <1>1 DEF Keys, CronNews
<1>4. repo = store.versions[i] /\ i \in 1..Latest /\ repo \in Objects
  <2>1. procs["worker"].pc # "idle" /\ "worker" \in Whos
    BY <1>1 DEF Whos
  <2> QED
    BY <1>0, <2>1, ObjectIs
<1>5. VersionsInv'
  BY <1>1, VersionsStay DEF Sound
<1>6. CronInv'
  BY <1>1, <1>2 DEF Sound, CronInv
<1>7. ThreadsInv'
  <2>1. Thread("handler")'
    BY <1>1, ThreadStays DEF Sound, ThreadsInv, Whos
  <2>2. Thread("worker")'
    BY <1>1, <1>4 DEF Thread
  <2> QED
    BY <2>1, <2>2 DEF ThreadsInv
<1>8. TouchedInv'
  <2>1. CASE procs'.worker.pc = "finalize" /\ i = Latest
    <3>1. ~Current.deleting /\ procs'.worker.obj = Latest'
      BY <1>1, <1>2, <1>4, <2>1 DEF Current
    <3> QED
      BY <1>2, <2>1, <3>1 DEF TouchedInv
  <2>2. CASE ~(procs'.worker.pc = "finalize" /\ i = Latest)
    <3>1. Latest \in procs'.touched => Latest \in procs.touched
      BY <1>1, <2>2
    <3> QED
      BY <1>1, <1>2, <3>1, TouchedStays DEF Sound
  <2> QED
    BY <2>1, <2>2
<1>9. NotesInv'
  BY <1>1, <1>2, NotesStay DEF Sound
<1>10. CourseInv'
  <2>1. Lost => Lost'
    BY <1>1, <1>3 DEF Lost, CronGone
  <2>2. Current # None /\ ~Current.deleting /\ OnIt => OnIt'
    <3> SUFFICES ASSUME Current # None, ~Current.deleting, OnIt
                 PROVE  OnIt'
      OBVIOUS
    <3>1. Fresh(i) /\ CronRight
      BY <1>0, <1>1 DEF OnIt
    <3>2. ~repo.deleting /\ repo.gen = Current.gen /\ repo.spec = Current.spec
      BY <1>4, <3>1, FreshLives DEF Sound
    <3>3. CronRight' /\ Synced'
      BY <1>1, <1>2, <3>1, <3>2 DEF CronRight, Synced
    <3>4. CASE procs'.worker.pc = "finalize" /\ procs'.worker.obj = i
      <4>1. Current.fin \/ i = Latest
        BY <3>1, FreshFirst DEF Sound
      <4>2. Fresh(procs.worker.obj)'
        BY <1>2, <3>1, <3>4
      <4> QED
        BY <1>2, <3>3, <3>4, <4>1, <4>2 DEF OnIt
    <3>5. CASE procs'.worker.pc = "idle" /\ repo.deleting = ~HasFinalizer(i)
      <4>1. HasFinalizer(i) /\ repo.fin \in BOOLEAN
        BY <1>4, <3>2, <3>5 DEF HasFinalizer, Objects
      <4>2. Current.fin
        <5> SUFFICES ASSUME ~Current.fin
                     PROVE  FALSE
          OBVIOUS
        <5>1. i = Latest
          BY <3>1, FreshFirst DEF Sound
        <5>2. ~repo.fin
          BY <1>4, <5>1 DEF Current
        <5>3. Latest \in procs.touched
          BY <1>4, <4>1, <5>1, <5>2 DEF HasFinalizer
        <5> QED
          BY <1>1, <5>3 DEF Sound, TouchedInv
      <4> QED
        BY <1>2, <3>3, <3>5, <4>2 DEF OnIt
    <3> QED
      BY <1>1, <3>2, <3>4, <3>5
  <2>3. CASE Current # None /\ Current.deleting /\ i = Latest
    <3>1. repo.deleting /\ HasFinalizer(i)
      BY <1>4, <2>3, LeavesLast DEF Sound, Current
    <3>2. procs'.worker.pc = "clean" /\ procs'.worker.obj = Latest'
      <4>1. repo.deleting \in BOOLEAN /\ HasFinalizer(i) \in BOOLEAN
        BY <1>4 DEF Objects, HasFinalizer
      <4> QED
        BY <1>1, <1>2, <2>3, <3>1, <4>1
    <3> QED
      BY <1>2, <2>3, <3>2 DEF CourseInv, Leaving
  <2>4. CASE i # Latest
    BY <1>0, <1>1, <1>3, <2>1, <2>2, <2>4, CourseStays DEF Sound
  <2>5. CASE Current # None /\ ~Current.deleting
    <3>1. procs'.cached = procs.cached /\ \A k : Reaches(k)' <=> Reaches(k)
      BY <1>1, <1>2, ReachesStays DEF Views
    <3>2. Comes => Comes'
      BY <1>2, <1>3, <3>1 DEF Comes
    <3> QED
      BY <1>2, <2>1, <2>2, <2>5, <3>2 DEF Sound, CourseInv
  <2>6. CASE Current = None
    BY <1>2, <2>6 DEF CourseInv
  <2> QED
    BY <2>3, <2>4, <2>5, <2>6
<1> QED
  BY <1>5, <1>6, <1>7, <1>8, <1>9, <1>10 DEF Sound

LEMMA AddFinalizerKeepsSound ==
  ASSUME NoneAssumption, Typed, Busy, Sound, AddFinalizer
  PROVE  Sound'
<1>1. /\ past' = past /\ procs.worker.pc = "finalize" /\ procs'.worker.pc = "idle"
      /\ UNCHANGED <<store.own, store.cron, Views, Keys, CronNews, procs.touched, procs.handler>>
      /\ procs.worker.obj # Latest => store' = store
  BY AddFinalizerDoes
<1>2. procs'.delayed = procs.delayed /\ procs'.queued = procs.queued
      /\ procs'.lost = procs.lost /\ procs'.cronNews = procs.cronNews
      /\ procs'.cached = procs.cached /\ procs'.notes = procs.notes
  BY <1>1 DEF Keys, CronNews, Views
<1>3. \A i \in 1..Latest : store'.versions[i] = store.versions[i]
  BY <1>1, AddFinalizerDoes DEF Wrote
<1>4. ThreadsInv'
  <2>1. Thread("handler")'
    BY <1>1, <1>3, ThreadStays DEF Sound, ThreadsInv, Whos
  <2>2. Thread("worker")'
    BY <1>1 DEF Thread
  <2> QED
    BY <2>1, <2>2 DEF ThreadsInv
<1>5. Lost => Lost'
  BY <1>1, <1>2 DEF Lost, CronGone
<1>6. CASE procs.worker.obj = Latest
  <2>1. PICK v \in Objects : /\ Wrote(v) /\ v.gen = Current.gen /\ v.spec = Current.spec
                             /\ (v.deleting <=> Current.deleting) /\ v.fin
    BY <1>6, AddFinalizerDoes
  <2>2. Current # None /\ ~Current.deleting
    <3>1. procs["worker"].pc # "idle" /\ "worker" \in Whos /\ "finalize" \notin {"clean", "cron", "unfinalize"}
      BY <1>1 DEF Whos
    <3> QED
      BY <1>1, <1>6, <3>1 DEF Busy, Current, Sound, ThreadsInv, Thread
  <2>3. v # None /\ Latest' = Latest + 1 /\ Current' = v /\ past.gens \in Nat
    BY <2>1, NoneIsNoObject DEF Wrote, Typed, Pasts
  <2>4. \A i \in 1..Latest : Fresh(i)' <=> Fresh(i)
    BY <2>1, <2>2, <2>3, FreshSame
  <2>5. VersionsInv'
    <3>1. Current.gen = past.gens
      BY <2>2 DEF Sound, VersionsInv
    <3>2. \A g \in 1..past.gens : g < past.gens => g \in past.cleaned
      BY DEF Sound, VersionsInv
    <3> QED
      BY <1>1, <2>1, <2>2, <2>3, <3>1, <3>2, VersionsWritten DEF Sound
  <2>6. CronInv'
    BY <1>1, <2>1, <2>3 DEF Sound, CronInv
  <2>7. TouchedInv'
    BY <1>1, <2>1, TouchedWritten DEF Typed, Bounded
  <2>8. NotesInv'
    BY <1>1, <1>3, <2>4, NotesStay DEF Sound
  <2>9. Comes => Comes'
    <3>1. \A k : Reaches(k)' <=> Reaches(k)
      BY <1>1, <2>4, ReachesStays
    <3>2. procs.cached \in 1..Latest
      BY DEF Typed, Bounded
    <3> QED
      BY <1>2, <2>4, <3>1, <3>2 DEF Comes
  <2>10. OnIt => OnIt'
    <3>1. OnIt => CronRight /\ Synced
      BY <1>1 DEF OnIt
    <3>2. CronRight /\ Synced => CronRight' /\ Synced'
      BY <1>1, <2>1, <2>3 DEF CronRight, Synced
    <3> QED
      BY <1>1, <2>1, <2>3, <3>1, <3>2 DEF OnIt
  <2>11. CourseInv'
    BY <1>5, <2>1, <2>2, <2>3, <2>9, <2>10 DEF Sound, CourseInv
  <2> QED
    BY <1>4, <2>5, <2>6, <2>7, <2>8, <2>11 DEF Sound
<1>7. CASE procs.worker.obj # Latest
  <2>1. store' = store
    BY <1>1, <1>7
  <2>2. /\ Latest' = Latest /\ Current' = Current /\ \A i : Fresh(i)' <=> Fresh(i)
    BY <2>1, SameVersions
  <2>3. VersionsInv'
    BY <1>1, <2>1, VersionsStay DEF Sound
  <2>4. CronInv'
    BY <2>1, <2>2 DEF Sound, CronInv
  <2>5. TouchedInv'
    BY <1>1, <1>7, <2>2, TouchedStays DEF Sound
  <2>6. NotesInv'
    BY <1>1, <1>3, <2>2, NotesStay DEF Sound
  <2>7. OnIt => OnIt'
    <3>1. OnIt => CronRight /\ Synced /\ Current.fin
      BY <1>1, <1>7 DEF OnIt
    <3>2. CronRight /\ Synced => CronRight' /\ Synced'
      BY <1>1, <2>1, <2>2 DEF CronRight, Synced
    <3> QED
      BY <1>1, <2>2, <3>1, <3>2 DEF OnIt
  <2>8. CourseInv'
    BY <1>1, <1>2, <1>5, <2>1, <2>7, CourseStays DEF Sound
  <2> QED
    BY <1>4, <2>3, <2>4, <2>5, <2>6, <2>8 DEF Sound
<1> QED
  BY <1>6, <1>7

\* What is being cleaned up is not what the key would be on its way for.
LEMMA CleanedIsNotFresh ==
  ASSUME Typed, Sound, NEW who \in Whos, procs[who].pc \in {"clean", "cron", "unfinalize"}, ~Current.deleting
  PROVE  ~Fresh(procs[who].obj)
<1>1. store.versions[procs[who].obj].deleting
  BY DEF Sound, ThreadsInv, Thread, Whos
<1> QED
  BY <1>1, FreshLives DEF Sound

LEMMA CreateCleanupJobKeepsSound ==
  ASSUME NoneAssumption, Typed, Busy, Sound, NEW who \in Whos, CreateCleanupJob(who)
  PROVE  Sound'
<1>1. /\ store' = store /\ procs[who].pc = "clean"
      /\ procs'[who].pc = "cron" /\ procs'[who].obj = procs[who].obj
      /\ \A w \in Whos \ {who} : procs'[w] = procs[w]
      /\ UNCHANGED <<Views, Keys, CronNews, procs.touched, past.gens, past.synced>>
      /\ past'.cleaned = past.cleaned \cup {Object(who).gen}
  BY CreateCleanupJobDoes
<1>2. /\ Latest' = Latest /\ Current' = Current /\ \A i : Fresh(i)' <=> Fresh(i)
  BY <1>1, SameVersions
<1>3. procs'.delayed = procs.delayed /\ procs'.queued = procs.queued
      /\ procs'.lost = procs.lost /\ procs'.cronNews = procs.cronNews
  BY <1>1 DEF Keys, CronNews
<1>4. \/ who = "worker" /\ procs'.handler = procs.handler
      \/ who = "handler" /\ procs'.worker = procs.worker
  BY <1>1 DEF Whos
<1>5. VersionsInv'
  BY <1>1, VersionsStay DEF Sound
<1>6. CronInv'
  BY <1>1, <1>2 DEF Sound, CronInv
<1>7. ThreadsInv'
  <2>1. Thread(who)'
    <3>1. store.versions[procs[who].obj].deleting
      BY <1>1 DEF Sound, ThreadsInv, Thread, Whos
    <3>2. store'.versions[procs'[who].obj].deleting
      BY <1>1, <3>1
    <3>3. store'.versions[procs'[who].obj].gen \in past'.cleaned
      BY <1>1 DEF Object
    <3> QED
      BY <1>1, <3>2, <3>3 DEF Thread
  <2>2. \A w \in Whos \ {who} : Thread(w)'
    BY <1>1, ThreadStays DEF Sound, ThreadsInv, Whos
  <2> QED
    BY <2>1, <2>2 DEF ThreadsInv, Whos
<1>8. TouchedInv'
  BY <1>1, <1>2, <1>4, TouchedStays DEF Sound
<1>9. NotesInv'
  BY <1>1, <1>2, <1>4, NotesStay DEF Sound
<1>10. CourseInv'
  <2>1. Lost => Lost'
    BY <1>1, <1>3 DEF Lost, CronGone
  <2>2. ~Current.deleting /\ OnIt => OnIt'
    <3>1. CASE who = "worker"
      BY <1>1, <3>1, CleanedIsNotFresh DEF OnIt
    <3>2. CASE who = "handler"
      <4>1. procs'.worker = procs.worker
        BY <1>4, <3>2
      <4> QED
        BY <1>1, <1>2, <4>1 DEF OnIt, CronRight, Synced
    <3> QED
      BY <3>1, <3>2 DEF Whos
  <2> QED
    BY <1>1, <1>3, <1>4, <2>1, <2>2, CourseStays DEF Sound
<1> QED
  BY <1>5, <1>6, <1>7, <1>8, <1>9, <1>10 DEF Sound

LEMMA CleanUpCronJobKeepsSound ==
  ASSUME NoneAssumption, Typed, Busy, Sound, NEW who \in Whos, CleanUpCronJob(who)
  PROVE  Sound'
<1>1. /\ past' = past /\ procs[who].pc = "cron"
      /\ procs'[who].pc = "unfinalize" /\ procs'[who].obj = procs[who].obj
      /\ \A w \in Whos \ {who} : procs'[w] = procs[w]
      /\ UNCHANGED <<store.own, store.versions, Views, Keys, procs.touched, procs.lost>>
      /\ store'.cron = None /\ (CronGone => CronGone')
  BY CleanUpCronJobDoes
<1>2. /\ Latest' = Latest /\ Current' = Current /\ \A i : Fresh(i)' <=> Fresh(i)
  BY <1>1, SameVersions
<1>3. procs'.delayed = procs.delayed /\ procs'.queued = procs.queued
      /\ procs'.cached = procs.cached /\ procs'.notes = procs.notes
  BY <1>1 DEF Keys, Views
<1>4. \/ who = "worker" /\ procs'.handler = procs.handler
      \/ who = "handler" /\ procs'.worker = procs.worker
  BY <1>1 DEF Whos
<1>5. VersionsInv'
  BY <1>1, VersionsStay DEF Sound
<1>6. CronInv'
  BY <1>1 DEF CronInv
<1>7. ThreadsInv'
  <2>1. Thread(who)'
    <3>1. store.versions[procs[who].obj].deleting /\ store.versions[procs[who].obj].gen \in past.cleaned
      BY <1>1 DEF Sound, ThreadsInv, Thread, Whos
    <3> QED
      BY <1>1, <3>1 DEF Thread
  <2>2. \A w \in Whos \ {who} : Thread(w)'
    BY <1>1, ThreadStays DEF Sound, ThreadsInv, Whos
  <2> QED
    BY <2>1, <2>2 DEF ThreadsInv, Whos
<1>8. TouchedInv'
  BY <1>1, <1>2, <1>4, TouchedStays DEF Sound
<1>9. NotesInv'
  BY <1>1, <1>2, <1>4, NotesStay DEF Sound
<1>10. CourseInv'
  <2>1. Lost => Lost'
    BY <1>1 DEF Lost
\* The CronJob of a successor, if that is what it deletes, is written again.
  <2>2. Current # None /\ ~Current.deleting /\ OnIt => Comes'
    <3> SUFFICES ASSUME ~Current.deleting, OnIt
                 PROVE  Comes'
      OBVIOUS
    <3>1. ~Fresh(procs[who].obj)
      BY <1>1, CleanedIsNotFresh
    <3>2. who = "handler"
      BY <1>1, <3>1 DEF OnIt, Whos
    <3>3. ~Fresh(procs.cached) \/ Reaches(0)
      BY <1>1, <3>1, <3>2 DEF Sound, NotesInv
    <3>4. Reaches(0)' <=> Reaches(0)
      BY <1>1, <1>2, ReachesStays
    <3> QED
      BY <1>2, <1>3, <3>3, <3>4 DEF Comes
  <2> QED
    BY <1>1, <1>3, <1>4, <2>1, <2>2, CourseStays DEF Sound
<1> QED
  BY <1>5, <1>6, <1>7, <1>8, <1>9, <1>10 DEF Sound

LEMMA RemoveFinalizerKeepsSound ==
  ASSUME NoneAssumption, Typed, Busy, Sound, NEW who \in Whos, RemoveFinalizer(who)
  PROVE  Sound'
<1>0. PICK i : i = procs[who].obj
  OBVIOUS
<1>1. /\ past' = past /\ procs[who].pc = "unfinalize" /\ procs'[who].pc = "idle"
      /\ \A w \in Whos \ {who} : procs'[w] = procs[w]
      /\ UNCHANGED <<store.own, store.cron, Views, Keys, CronNews>>
      /\ procs'.touched = IF HasFinalizer(i) THEN procs.touched \cup {i} ELSE procs.touched
      /\ IF HasFinalizer(i) /\ i = Latest THEN Wrote(None) ELSE store' = store
  BY <1>0, RemoveFinalizerDoes
<1>2. procs'.delayed = procs.delayed /\ procs'.queued = procs.queued
      /\ procs'.lost = procs.lost /\ procs'.cronNews = procs.cronNews
  BY <1>1 DEF Keys, CronNews
<1>3. \/ who = "worker" /\ procs'.handler = procs.handler
      \/ who = "handler" /\ procs'.worker = procs.worker
  BY <1>1 DEF Whos
<1>4. i \in 1..Latest /\ Object(who) = store.versions[i] /\ Object(who) # None
  BY <1>0, <1>1, ObjectIs
<1>5. /\ store.versions[i].deleting /\ store.versions[i].gen \in past.cleaned
      /\ store.cron = None \/ store.cron.gen # store.versions[i].gen
  BY <1>0, <1>1 DEF Sound, ThreadsInv, Thread, Whos
<1>6. \A j \in 1..Latest : store'.versions[j] = store.versions[j]
  BY <1>1 DEF Wrote
<1>7. ThreadsInv'
  <2>1. Thread(who)'
    BY <1>1 DEF Thread
  <2>2. \A w \in Whos \ {who} : Thread(w)'
    BY <1>1, <1>6, ThreadStays DEF Sound, ThreadsInv, Whos
  <2> QED
    BY <2>1, <2>2 DEF ThreadsInv, Whos
\* What is being deleted goes, and nothing of it is left.
<1>8. CASE HasFinalizer(i) /\ i = Latest
  <2>1. Wrote(None) /\ Latest' = Latest + 1 /\ Current' = None
    BY <1>1, <1>8 DEF Wrote
  <2>2. Current # None /\ Current = store.versions[i] /\ Current.gen = past.gens /\ past.gens \in Nat
    BY <1>4, <1>8 DEF Current, Sound, VersionsInv, Typed, Pasts
  <2>3. VersionsInv'
    <3>1. \A g \in 1..past.gens : g \in past.cleaned
      <4>1. \A g \in 1..past.gens : g = past.gens \/ g < past.gens
        BY <2>2
      <4>2. past.gens \in past.cleaned
        BY <1>5, <2>2
      <4> QED
        BY <4>1, <4>2 DEF Sound, VersionsInv
    <3> QED
      BY <1>1, <2>1, <3>1, VersionsWritten DEF Sound
  <2>4. CronInv'
    BY <1>1, <1>5, <2>2 DEF Sound, CronInv
  <2>5. TouchedInv'
    BY <2>1 DEF TouchedInv
  <2>6. NotesInv'
    <3>1. \A j \in 1..Latest : ~Fresh(j)'
      BY <2>1 DEF Fresh
    <3> QED
      BY <1>1, <3>1, NotesAnew
  <2>7. CourseInv'
    BY <2>1 DEF CourseInv
  <2> QED
    BY <1>7, <2>3, <2>4, <2>5, <2>6, <2>7 DEF Sound
<1>9. CASE ~(HasFinalizer(i) /\ i = Latest)
  <2>1. store' = store
    BY <1>1, <1>9
  <2>2. /\ Latest' = Latest /\ Current' = Current /\ \A j : Fresh(j)' <=> Fresh(j)
    BY <2>1, SameVersions
  <2>3. VersionsInv'
    BY <1>1, <2>1, VersionsStay DEF Sound
  <2>4. CronInv'
    BY <2>1, <2>2 DEF Sound, CronInv
  <2>5. TouchedInv'
    BY <1>1, <1>3, <1>9, <2>2, TouchedStays DEF Sound
  <2>6. NotesInv'
    BY <1>1, <1>3, <1>6, <2>2, NotesStay DEF Sound
  <2>7. CourseInv'
    <3>1. Lost => Lost'
      BY <1>1, <1>2 DEF Lost, CronGone
    <3>2. ~Current.deleting /\ OnIt => OnIt'
      <4>1. CASE who = "worker"
        BY <1>1, <4>1, CleanedIsNotFresh DEF OnIt
      <4>2. CASE who = "handler"
        <5>1. procs'.worker = procs.worker
          BY <1>3, <4>2
        <5> QED
          BY <1>1, <2>1, <2>2, <5>1 DEF OnIt, CronRight, Synced
      <4> QED
        BY <4>1, <4>2 DEF Whos
    <3>3. i # Latest
      <4> SUFFICES ASSUME i = Latest
                   PROVE  FALSE
        OBVIOUS
      <4>1. Current # None /\ Current.deleting
        BY <1>4, <1>5 DEF Current
      <4> QED
        BY <1>9, <4>1, LeavesLast DEF Sound
    <3> QED
      BY <1>0, <1>1, <1>2, <1>3, <2>1, <3>1, <3>2, <3>3, CourseStays DEF Sound
  <2> QED
    BY <1>7, <2>3, <2>4, <2>5, <2>6, <2>7 DEF Sound
<1> QED
  BY <1>8, <1>9

LEMMA NextKeepsSound ==
  ASSUME NoneAssumption, Typed, Busy, Sound, Next, ~past'.excused
  PROVE  Sound'
<1>1. ASSUME Users
      PROVE  Sound'
  BY <1>1, CreateKeepsSound, ChangeKeepsSound, DeleteKeepsSound, DeleteCronJobKeepsSound DEF Users
<1>2. ~Collect
  BY NoneOrphaned DEF Collect, Sound
<1>3. ASSUME Informers
      PROVE  Sound'
  BY <1>3, DeliverKeepsSound, RestartKeepsSound, NotifyKeepsSound, CronJobNewsKeepsSound DEF Informers
<1>4. ASSUME Worker
      PROVE  Sound'
  BY <1>4, CronJobNewsKeepsSound, GetKeyKeepsSound, WriteCronJobKeepsSound, CreateJobKeepsSound,
     AddFinalizerKeepsSound DEF Worker
<1>5. ASSUME NEW who \in Whos, Cleaner(who)
      PROVE  Sound'
  BY <1>5, CreateCleanupJobKeepsSound, CleanUpCronJobKeepsSound, RemoveFinalizerKeepsSound DEF Cleaner
<1>6. ~Refusal
  BY RefusalKeeps
<1>7. "worker" \in Whos /\ "handler" \in Whos
  BY DEF Whos
<1> QED
  BY <1>1, <1>2, <1>3, <1>4, <1>5, <1>6, <1>7 DEF Next

LEMMA InitHolds ==
  ASSUME NoneAssumption, Init
  PROVE  IInv
<1>1. PICK own \in BOOLEAN : store = [own |-> own, versions |-> <<None>>, cron |-> None]
  BY DEF Init
<1>2. /\ procs = [cached |-> 1, notes |-> <<>>, touched |-> {}, cron |-> FALSE, cronNews |-> <<>>,
                  lost |-> 0, delayed |-> FALSE, queued |-> FALSE, worker |-> Idle, handler |-> Idle]
      /\ past = [ops |-> 0, breaks |-> 0, crashes |-> 0, faults |-> 0, gens |-> 0, synced |-> {}, cleaned |-> {},
                 excused |-> FALSE]
  BY DEF Init
<1>3. Idle \in Works /\ Idle.pc = "idle" /\ Idle.obj = 1
  BY DEF Idle, Works, Pcs
<1>4. <<None>> \in Seq({None} \cup Objects) /\ Len(<<None>>) = 1 /\ <<None>>[1] = None
  OBVIOUS
<1>5. store \in Stores
  BY <1>1, <1>4 DEF Stores
<1>6. procs \in Procs
  <2>1. <<>> \in Seq(Notes) /\ <<>> \in Seq(BOOLEAN)
    OBVIOUS
  <2> QED
    BY <1>2, <1>3, <2>1 DEF Procs
<1>7. past \in Pasts
  BY <1>2 DEF Pasts
<1>8. Latest = 1 /\ store.versions[1] = None /\ Current = None /\ store.cron = None
  BY <1>1, <1>4 DEF Latest, Current
<1>9. /\ procs.cached = 1 /\ procs.touched = {} /\ procs.worker = Idle /\ procs.handler = Idle
      /\ procs.notes = <<>> /\ past.gens = 0 /\ past.synced = {} /\ past.cleaned = {}
  BY <1>2
<1>10. Typed
  BY <1>3, <1>5, <1>6, <1>7, <1>8, <1>9 DEF Typed, Bounded
<1>11. Busy
  BY <1>3, <1>9 DEF Busy, Whos
<1>12. VersionsInv
  BY <1>8, <1>9 DEF VersionsInv
<1>13. CronInv /\ TouchedInv /\ CourseInv
  BY <1>8 DEF CronInv, TouchedInv, CourseInv
<1>14. ThreadsInv
  BY <1>3, <1>9 DEF ThreadsInv, Thread
<1>15. NotesInv
  BY <1>3, <1>9 DEF NotesInv
<1> QED
  BY <1>10, <1>11, <1>12, <1>13, <1>14, <1>15 DEF IInv, Sound

LEMMA StutterKeeps ==
  ASSUME IInv, UNCHANGED vars
  PROVE  IInv'
<1>1. store' = store /\ procs' = procs /\ past' = past
  BY DEF vars
<1>2. Latest' = Latest /\ Current' = Current /\ \A i : Fresh(i)' <=> Fresh(i)
  BY <1>1, SameVersions
<1>3. Typed'
  BY <1>1, <1>2 DEF IInv, Typed, Bounded
<1>4. Busy'
  BY <1>1 DEF IInv, Busy
<1>5. ASSUME Sound
      PROVE  Sound'
  <2>1. UNCHANGED Views /\ (Lost => Lost')
    BY <1>1 DEF Views, Lost, CronGone
  <2> QED
    BY <1>1, <1>5, <2>1, FrameKeepsSound DEF IInv
<1> QED
  BY <1>1, <1>3, <1>4, <1>5 DEF IInv

LEMMA StepKeeps == NoneAssumption /\ IInv /\ [Next]_vars => IInv'
<1> SUFFICES ASSUME NoneAssumption, IInv, [Next]_vars
             PROVE  IInv'
  OBVIOUS
<1>1. CASE Next
  <2>1. Typed' /\ Busy' /\ (past.excused => past'.excused)
    BY <1>1, NextKeeps DEF IInv, Kept
  <2>2. ~past'.excused => Sound'
    BY <1>1, <2>1, NextKeepsSound DEF IInv
  <2> QED
    BY <2>1, <2>2 DEF IInv
<1>2. CASE UNCHANGED vars
  BY <1>2, StutterKeeps
<1> QED
  BY <1>1, <1>2

LEMMA Invariant == NoneAssumption => (Spec => []IInv)
<1> SUFFICES ASSUME NoneAssumption
             PROVE  Spec => []IInv
  OBVIOUS
<1>1. Init => IInv
  BY InitHolds
<1>2. IInv /\ [Next]_vars => IInv'
  BY StepKeeps
<1> QED
  BY <1>1, <1>2, PTL DEF Spec

LEMMA InvTypes == IInv => TypeOK
<1> SUFFICES ASSUME IInv
             PROVE  TypeOK
  OBVIOUS
<1>1. Typed /\ store \in Stores /\ procs \in Procs /\ past \in Pasts /\ Bounded
  BY DEF IInv, Typed
<1>2. \A i \in 1..Latest : store.versions[i] = None \/
         store.versions[i] \in [gen : 1..past.gens, spec : Specs, deleting : BOOLEAN, fin : BOOLEAN]
  <2> SUFFICES ASSUME NEW i \in 1..Latest, store.versions[i] # None
               PROVE  store.versions[i] \in [gen : 1..past.gens, spec : Specs, deleting : BOOLEAN, fin : BOOLEAN]
    OBVIOUS
  <2>1. store.versions[i] \in Objects /\ store.versions[i].gen \in 1..past.gens
    BY <1>1, TypedFacts DEF Bounded
  <2> QED
    BY <2>1 DEF Objects
<1>3. store.cron = None \/ store.cron \in [gen : 1..past.gens, spec : Specs]
  <2> SUFFICES ASSUME store.cron # None
               PROVE  store.cron \in [gen : 1..past.gens, spec : Specs]
    OBVIOUS
  <2>1. store.cron \in Crons /\ store.cron.gen \in 1..past.gens
    BY <1>1 DEF Bounded, Stores
  <2> QED
    BY <2>1 DEF Crons
<1>4. procs.worker \in Threads /\ procs.handler \in Threads
  <2>1. procs.worker \in Works /\ procs.handler \in Works
        /\ procs.worker.obj \in 1..Latest /\ procs.handler.obj \in 1..Latest
    BY <1>1 DEF Bounded, Procs
  <2> QED
    BY <2>1 DEF Threads, Works, Pcs
<1>5. past.synced \subseteq (1..past.gens) \X Specs
  <2> SUFFICES ASSUME NEW s \in past.synced
               PROVE  s \in (1..past.gens) \X Specs
    OBVIOUS
  <2>1. s \in Nat \X Specs /\ s[1] \in 1..past.gens
    BY <1>1 DEF Bounded, Pasts
  <2> QED
    BY <2>1
<1> QED
  BY <1>1, <1>2, <1>3, <1>4, <1>5 DEF TypeOK, Bounded, Stores, Procs

LEMMA InvConverges == IInv => ControllerConverges
<1> SUFFICES ASSUME IInv, Quiet, ~past.excused
             PROVE  IF Current = None
                    THEN store.cron = None /\ \A s \in past.synced : s[1] \in past.cleaned
                    ELSE /\ ~Current.deleting /\ Current.fin
                         /\ store.cron = [gen |-> Current.gen, spec |-> Current.spec]
                         /\ <<Current.gen, Current.spec>> \in past.synced
  BY DEF ControllerConverges
<1>1. Typed /\ Sound
  BY DEF IInv
<1>2. CASE Current = None
  <2>1. store.cron = None
    BY <1>1, <1>2 DEF Sound, CronInv
  <2>2. \A s \in past.synced : s[1] \in past.cleaned
    BY <1>1, <1>2 DEF Sound, VersionsInv, Typed, Bounded
  <2> QED
    BY <1>2, <2>1, <2>2
<1>3. CASE Current # None
  <2>1. /\ procs.cached = Latest /\ procs.notes = <<>> /\ procs.cronNews = <<>> /\ procs.lost = 0
        /\ ~procs.delayed /\ ~procs.queued
        /\ procs.worker.pc = "idle" /\ procs.handler.pc = "idle"
    BY DEF Quiet, Idle
  <2>2. Len(procs.notes) = 0 /\ Len(procs.cronNews) = 0 /\ Latest \in Nat
    BY <1>1, <2>1, TypedFacts
  <2>3. ~Leaving
    BY <2>1, <2>2 DEF Leaving
  <2>4. ~Comes
    BY <1>1, <1>3, <2>1, <2>2, FreshLatest DEF Comes, Reaches
  <2>5. ~Lost
    BY <2>1, <2>2 DEF Lost, CronGone
  <2>6. ~Current.deleting /\ OnIt
    BY <1>1, <1>3, <2>3, <2>4, <2>5 DEF Sound, CourseInv
  <2> QED
    BY <1>3, <2>1, <2>6 DEF OnIt, CronRight, Synced
<1> QED
  BY <1>2, <1>3

-----------------------------------------------------------------------------
(* The theorems *)

\* Every variable keeps its type: what is delivered, queued or worked on is a version
\* that was written, and what was synchronized or cleaned up was created.
THEOREM ControllerTypes == NoneAssumption => (Spec => []TypeOK)
<1> SUFFICES ASSUME NoneAssumption
             PROVE  Spec => []TypeOK
  OBVIOUS
<1>1. IInv => TypeOK
  BY InvTypes
<1> QED
  BY <1>1, Invariant, PTL

\* When the controller has nothing left to do, and nothing happened that it does not
\* repair, an AppRepository has its finalizer, the CronJob of its spec and had a Job for
\* that spec, and one that is gone has left nothing: for any number of changes, breaks
\* of the watch and restarts.
THEOREM ControllerSettles == NoneAssumption => (Spec => []ControllerConverges)
<1> SUFFICES ASSUME NoneAssumption
             PROVE  Spec => []ControllerConverges
  OBVIOUS
<1>1. IInv => ControllerConverges
  BY InvConverges
<1> QED
  BY <1>1, Invariant, PTL
=============================================================================

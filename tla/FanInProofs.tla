------------------------------ MODULE FanInProofs ------------------------------
(***************************************************************************)
(* What the listing of packages guarantees for any number of plugins, each *)
(* with any packages, any page size, and errors at any point.              *)
(***************************************************************************)
EXTENDS FanIn, SequenceTheorems, FiniteSetTheorems, TLAPS

-----------------------------------------------------------------------------
(* Types.  A page of a plugin has packages of that plugin only; what a       *)
(* goroutine is about to send, or the merger, is there; a plugin that is     *)
(* complete is not asked.                                                    *)

PackagesOf(p) == catalog[p].packages

FixedTyped == catalog \in Catalogs /\ pageSize \in PageSizes /\ api \in {"available", "installed"}

MapTyped(m) == DOMAIN m \subseteq Plugins /\ \A p \in DOMAIN m : m[p] \in Nat \cup {CompleteToken}

HandlerTyped ==
    /\ hpc \in {"idle", "collect", "finish", "done", "error", "nil"}
    /\ pkgs \in Seq(AllItems) /\ got \in BOOLEAN /\ listed \in Seq(AllItems)
    /\ errors \in Nat /\ failed \in BOOLEAN

HeadOf(p, h) == h = None \/ h \in [package : PackagesOf(p), offset : Nat]

MergerTyped ==
    /\ mpc \in {"populate", "send", "sendError", "closed"}
    /\ turn \in 1..Len(catalog) + 1 /\ numSent \in Nat
    /\ DOMAIN next = Plugins /\ (\A p \in Plugins : HeadOf(p, next[p]))
    /\ out \in AllItems \cup {None}
    /\ mpc = "send" => out \in AllItems /\ next[out.plugin] # None

PluginTyped(p) ==
    /\ ppc[p] \in {"fetch", "send", "error", "closed"}
    /\ page[p] \in Seq(PackagesOf(p)) /\ (ppc[p] = "send" => page[p] # <<>>)
    /\ offset[p] \in Nat \cup {CompleteToken} /\ (offset[p] = CompleteToken => ppc[p] = "closed")
    /\ more[p] \in BOOLEAN

PluginsTyped ==
    /\ DOMAIN ppc = Plugins /\ DOMAIN page = Plugins /\ DOMAIN offset = Plugins /\ DOMAIN more = Plugins
    /\ \A p \in Plugins : PluginTyped(p)

FunctionsTyped ==
    /\ next = [p \in DOMAIN next |-> next[p]] /\ ppc = [p \in DOMAIN ppc |-> ppc[p]]
    /\ page = [p \in DOMAIN page |-> page[p]] /\ offset = [p \in DOMAIN offset |-> offset[p]]
    /\ more = [p \in DOMAIN more |-> more[p]]

Typed == FixedTyped /\ MapTyped(token) /\ MapTyped(offsets) /\ HandlerTyped /\ MergerTyped /\ PluginsTyped
         /\ FunctionsTyped

LEMMA CatalogFacts ==
  ASSUME FixedTyped
  PROVE  /\ Plugins = 1..Len(catalog) /\ Len(catalog) \in Nat \ {0}
         /\ \A p \in Plugins : /\ catalog[p].kind \in Kinds
                               /\ IsFiniteSet(PackagesOf(p)) /\ Cardinality(PackagesOf(p)) \in Nat
         /\ pageSize \in Nat /\ PluginPageSize \in Nat
<1>1. /\ catalog \in Seq([kind : Kinds, packages : SUBSET [name : Nat, repo : Nat]]) /\ catalog # <<>>
      /\ \A p \in Plugins : IsFiniteSet(PackagesOf(p))
  BY CatalogsAssumption DEF FixedTyped, Plugins, PackagesOf
<1>2. Plugins = 1..Len(catalog) /\ Len(catalog) \in Nat \ {0}
  BY <1>1 DEF Plugins
<1>3. \A p \in Plugins : catalog[p] \in [kind : Kinds, packages : SUBSET [name : Nat, repo : Nat]]
  BY <1>1, <1>2, ElementOfSeq
<1>4. \A p \in Plugins : Cardinality(PackagesOf(p)) \in Nat
  BY <1>1, FS_CardinalityType
<1>5. pageSize \in Nat
  BY BoundsAssumption DEF FixedTyped
<1>6. PluginPageSize \in Nat
  <2>1. CASE Len(catalog) > 1
    <3>1. ASSUME NEW n \in Nat, n > 1, NEW m \in Nat PROVE m \div (n - 1) \in Nat
      BY <3>1, Z3
    <3> QED
      BY <1>2, <1>5, <2>1, <3>1 DEF PluginPageSize
  <2> QED
    BY <1>5, <2>1 DEF PluginPageSize
<1> QED
  BY <1>1, <1>2, <1>3, <1>4, <1>5, <1>6

\* A page of a plugin has packages of that plugin.
LEMMA PageType ==
  ASSUME FixedTyped, NEW p \in Plugins, NEW s \in Listings(p), NEW from \in Nat
  PROVE  PageOf(p, s, from) \in Seq(PackagesOf(p))
<1> DEFINE n == Cardinality(PackagesOf(p))
<1>1. n \in Nat /\ PluginPageSize \in Nat
  BY CatalogFacts
<1>2. s \in [1..n -> PackagesOf(p)]
  BY DEF Listings, PackagesOf
<1>3. s \in Seq(PackagesOf(p)) /\ Len(s) = n
  BY <1>1, <1>2, IsASeq
<1>4. ASSUME NEW m \in Nat, m <= n PROVE SubSeq(s, from + 1, m) \in Seq(PackagesOf(p))
  <2>1. \A i \in from + 1 .. m : s[i] \in PackagesOf(p)
    BY <1>1, <1>2, <1>4
  <2> QED
    BY <2>1, SubSeqProperties
<1>5. Upto(from + PluginPageSize, Len(s)) \in Nat /\ Upto(from + PluginPageSize, Len(s)) <= n
  BY <1>1, <1>3 DEF Upto
<1> QED
  BY <1>1, <1>3, <1>4, <1>5 DEF PageOf

LEMMA ItemsOf ==
  ASSUME FixedTyped, NEW p \in Plugins, NEW k \in PackagesOf(p)
  PROVE  [plugin |-> p, package |-> k] \in AllItems
  BY DEF AllItems, Items, PackagesOf

LEMMA ItemParts == \A i \in AllItems : i.plugin \in Plugins /\ i.package \in PackagesOf(i.plugin)
  BY DEF AllItems, Items, PackagesOf

\* What the merger holds of a plugin is not taken for nothing.
LEMMA HeadIsSomething ==
  ASSUME NEW p, NEW k, NEW n PROVE [package |-> k, offset |-> n] # None
  BY DEF None

LEMMA RestOfLongSequence ==
  ASSUME NEW S, NEW s \in Seq(S), s # <<>> PROVE Len(s) > 1 => Tail(s) # <<>>
<1>1. Len(Tail(s)) = Len(s) - 1 /\ Len(s) \in Nat
  BY HeadTailProperties, LenProperties
<1>2. ASSUME Tail(s) = <<>> PROVE Len(s) - 1 = 0
  <2>1. Len(<<>>) = 0
    OBVIOUS
  <2> QED
    BY <1>1, <1>2, <2>1, Zenon
<1> QED
  BY <1>1, <1>2

LEMMA EmptyMap == DOMAIN <<>> = {}
  OBVIOUS

LEMMA InitTyped == Init => Typed
<1> SUFFICES ASSUME Init PROVE Typed
  OBVIOUS
<1>1. FixedTyped /\ MapTyped(token) /\ MapTyped(offsets) /\ HandlerTyped
  <2>1. \A S : <<>> \in Seq(S)
    OBVIOUS
  <2> QED
    BY <2>1, EmptyMap DEF Init, FixedTyped, MapTyped, HandlerTyped
<1>2. Len(catalog) \in Nat \ {0}
  BY <1>1, CatalogFacts
<1>3. MergerTyped
  BY <1>2 DEF Init, MergerTyped, HeadOf
<1>4. PluginsTyped /\ FunctionsTyped
  BY DEF Init, PluginsTyped, PluginTyped, FunctionsTyped
<1> QED
  BY <1>1, <1>3, <1>4 DEF Typed

\* Typing of a step that changes one plugin's goroutine only.
LEMMA PluginsKeepTypes ==
  ASSUME Typed, NEW p \in Plugins, UNCHANGED fixed,
         \/ ppc' = [ppc EXCEPT ![p] = ppc'[p]] \/ ppc' = ppc,
         \/ page' = [page EXCEPT ![p] = page'[p]] \/ page' = page,
         \/ offset' = [offset EXCEPT ![p] = offset'[p]] \/ offset' = offset,
         \/ more' = [more EXCEPT ![p] = more'[p]] \/ more' = more,
         PluginTyped(p)'
  PROVE  PluginsTyped' /\ ppc' = [q \in DOMAIN ppc' |-> ppc'[q]] /\ page' = [q \in DOMAIN page' |-> page'[q]]
         /\ offset' = [q \in DOMAIN offset' |-> offset'[q]] /\ more' = [q \in DOMAIN more' |-> more'[q]]
<1>1. DOMAIN ppc' = Plugins /\ DOMAIN page' = Plugins /\ DOMAIN offset' = Plugins /\ DOMAIN more' = Plugins
  BY DEF Typed, PluginsTyped
<1>2. ASSUME NEW q \in Plugins, q # p
      PROVE  ppc'[q] = ppc[q] /\ page'[q] = page[q] /\ offset'[q] = offset[q] /\ more'[q] = more[q]
  BY <1>2 DEF Typed, PluginsTyped
<1>3. \A q \in Plugins : PluginTyped(q)'
  BY <1>2 DEF Typed, PluginsTyped, PluginTyped, PackagesOf, fixed
<1>4. /\ ppc' = [q \in DOMAIN ppc' |-> ppc'[q]] /\ page' = [q \in DOMAIN page' |-> page'[q]]
      /\ offset' = [q \in DOMAIN offset' |-> offset'[q]] /\ more' = [q \in DOMAIN more' |-> more'[q]]
  BY DEF Typed, FunctionsTyped
<1> QED
  BY <1>1, <1>3, <1>4 DEF PluginsTyped, Plugins, fixed

LEMMA FetchKeepsTypes == ASSUME Typed, NEW p \in Plugins, PluginStep(p) PROVE Typed'
<1> USE DEF fixed, handler, merger, PackagesOf
<1>1. UNCHANGED <<catalog, pageSize, api, token, offsets, mpc, turn, next, out, numSent, hpc, pkgs, got,
                  listed, failed>>
      /\ errors' \in Nat
  BY BoundsAssumption DEF PluginStep, Fetch, FetchFails, Typed, HandlerTyped
<1>2. PluginTyped(p)
  BY DEF Typed, PluginsTyped
<1>3. DOMAIN ppc = Plugins /\ DOMAIN page = Plugins /\ DOMAIN offset = Plugins /\ DOMAIN more = Plugins
  BY DEF Typed, PluginsTyped
<1>4. CASE Fetch(p)
  <2>1. PICK s \in Listings(p) :
          LET r == PageOf(p, s, offset[p]) IN
          /\ page' = [page EXCEPT ![p] = r]
          /\ more' = [more EXCEPT ![p] = PluginPageSize > 0 /\ Len(r) = PluginPageSize]
          /\ ppc' = [ppc EXCEPT ![p] = IF r = <<>> THEN "closed" ELSE "send"]
    BY <1>4 DEF Fetch
  <2>2. offset[p] \in Nat /\ offset' = offset
    BY <1>2, <1>4 DEF Fetch, PluginTyped
  <2>3. PageOf(p, s, offset[p]) \in Seq(PackagesOf(p))
    BY <2>2, PageType DEF Typed
  <2>4. PluginTyped(p)'
    <3>1. page'[p] = PageOf(p, s, offset[p]) /\ ppc'[p] = (IF page'[p] = <<>> THEN "closed" ELSE "send")
      BY <1>3, <2>1
    <3>2. more'[p] \in BOOLEAN
      BY <1>3, <2>1
    <3> QED
      BY <1>1, <2>2, <2>3, <3>1, <3>2 DEF PluginTyped, CompleteToken
  <2>5. PluginsTyped' /\ ppc' = [q \in DOMAIN ppc' |-> ppc'[q]] /\ page' = [q \in DOMAIN page' |-> page'[q]]
        /\ offset' = [q \in DOMAIN offset' |-> offset'[q]] /\ more' = [q \in DOMAIN more' |-> more'[q]]
    BY <1>1, <1>3, <2>1, <2>2, <2>4, PluginsKeepTypes
  <2> QED
    BY <1>1, <2>5 DEF Typed, FixedTyped, MapTyped, HandlerTyped, MergerTyped, FunctionsTyped, Plugins, HeadOf,
                      AllItems, Items
<1>5. CASE FetchFails(p)
  <2>1. UNCHANGED <<page, offset, more>> /\ ppc' = [ppc EXCEPT ![p] = "error"] /\ offset[p] # CompleteToken
    BY <1>2, <1>5 DEF FetchFails, PluginTyped
  <2>2. PluginTyped(p)'
    BY <1>1, <1>2, <1>3, <2>1 DEF PluginTyped
  <2>3. PluginsTyped' /\ ppc' = [q \in DOMAIN ppc' |-> ppc'[q]] /\ page' = [q \in DOMAIN page' |-> page'[q]]
        /\ offset' = [q \in DOMAIN offset' |-> offset'[q]] /\ more' = [q \in DOMAIN more' |-> more'[q]]
    BY <1>1, <1>3, <2>1, <2>2, PluginsKeepTypes
  <2> QED
    BY <1>1, <2>3 DEF Typed, FixedTyped, MapTyped, HandlerTyped, MergerTyped, FunctionsTyped, Plugins, HeadOf,
                      AllItems, Items
<1> QED
  BY <1>4, <1>5 DEF PluginStep

\* The map of offsets keeps its type, and so do the packages that wait to be sent.
LEMMA SetOffsetType ==
  ASSUME Typed, NEW p \in Plugins, NEW n \in Nat \cup {CompleteToken}, SetOffset(p, n), UNCHANGED fixed
  PROVE  /\ MapTyped(offsets)' /\ Offset(offsets, p)' = n
         /\ \A o \in Plugins \ {p} : Offset(offsets, o)' = Offset(offsets, o)
  BY DEF Typed, SetOffset, MapTyped, Offset, Plugins, fixed

LEMMA NextType ==
  ASSUME Typed, NEW p \in Plugins, NEW h, HeadOf(p, h), UNCHANGED fixed, next' = [next EXCEPT ![p] = h]
  PROVE  /\ DOMAIN next' = Plugins' /\ \A o \in Plugins' : HeadOf(o, next[o])'
         /\ next' = [o \in DOMAIN next' |-> next'[o]]
         /\ next'[p] = h /\ \A o \in Plugins \ {p} : next'[o] = next[o]
<1>1. DOMAIN next = Plugins
  BY DEF Typed, MergerTyped
<1>2. next'[p] = h /\ \A o \in Plugins \ {p} : next'[o] = next[o]
  BY <1>1
<1>3. \A o \in Plugins' : HeadOf(o, next[o])'
  BY <1>2 DEF Typed, MergerTyped, HeadOf, PackagesOf, Plugins, fixed
<1>4. DOMAIN next' = Plugins'
  BY <1>1 DEF Plugins, fixed
<1>5. next' = [o \in DOMAIN next' |-> next'[o]]
  BY DEF Typed, FunctionsTyped
<1> QED
  BY <1>2, <1>3, <1>4, <1>5

LEMMA MergerKeepsTypes == ASSUME Typed, MergerStep PROVE Typed'
<1> USE DEF fixed, handler, plugins
<1>1. UNCHANGED <<catalog, pageSize, api, token, hpc, pkgs, got, listed, errors, failed>>
  BY DEF MergerStep, Pass, NothingLeft, ReadPackage, ReadError, ReadClosed, Choose
<1>2. FixedTyped' /\ HandlerTyped' /\ MapTyped(token)' /\ Plugins' = Plugins
  BY <1>1 DEF Typed, FixedTyped, HandlerTyped, MapTyped, Plugins, AllItems, Items
<1>3. Plugins = 1..Len(catalog) /\ Len(catalog) \in Nat \ {0}
  BY CatalogFacts DEF Typed
<1>4. turn \in Plugins => turn + 1 \in 1..Len(catalog) + 1
  BY <1>3
<1>5. ASSUME UNCHANGED plugins
      PROVE  /\ PluginsTyped'
             /\ ppc' = [q \in DOMAIN ppc' |-> ppc'[q]] /\ page' = [q \in DOMAIN page' |-> page'[q]]
             /\ offset' = [q \in DOMAIN offset' |-> offset'[q]] /\ more' = [q \in DOMAIN more' |-> more'[q]]
  BY <1>1, <1>5 DEF Typed, FunctionsTyped, PluginsTyped, PluginTyped, PackagesOf, Plugins
<1>6. ASSUME next' = next
      PROVE  /\ next' = [o \in DOMAIN next' |-> next'[o]]
             /\ DOMAIN next' = Plugins' /\ \A o \in Plugins' : HeadOf(o, next[o])'
  BY <1>1, <1>6 DEF Typed, FunctionsTyped, MergerTyped, HeadOf, PackagesOf, Plugins
<1>7. CASE Pass \/ NothingLeft
  <2>1. MapTyped(offsets)' /\ MergerTyped'
    BY <1>1, <1>4, <1>6, <1>7 DEF Pass, NothingLeft, Typed, MapTyped, MergerTyped, Plugins, AllItems, Items
  <2> QED
    BY <1>2, <1>5, <1>6, <1>7, <2>1 DEF Pass, NothingLeft, Typed, FunctionsTyped
<1>8. ASSUME NEW p \in Plugins, ReadPackage(p) PROVE Typed'
  <2>1. /\ page[p] \in Seq(PackagesOf(p)) /\ page[p] # <<>> /\ offset[p] \in Nat
        /\ Head(page[p]) \in PackagesOf(p) /\ Tail(page[p]) \in Seq(PackagesOf(p))
        /\ Len(page[p]) > 1 => Tail(page[p]) # <<>>
    <3>1. page[p] \in Seq(PackagesOf(p)) /\ page[p] # <<>> /\ offset[p] \in Nat
      BY <1>8 DEF ReadPackage, Typed, PluginsTyped, PluginTyped
    <3>2. Len(page[p]) > 1 => Tail(page[p]) # <<>>
      BY <3>1, RestOfLongSequence
    <3> QED
      BY <3>1, <3>2, HeadTailProperties
  <2>2. [package |-> Head(page[p]), offset |-> offset[p] + 1] \in [package : PackagesOf(p), offset : Nat]
    BY <2>1
  <2>3. /\ next' = [o \in DOMAIN next' |-> next'[o]]
        /\ DOMAIN next' = Plugins' /\ \A o \in Plugins' : HeadOf(o, next[o])'
    BY <1>1, <1>8, <2>2, NextType DEF ReadPackage, HeadOf
  <2>4. DOMAIN ppc = Plugins /\ DOMAIN page = Plugins /\ DOMAIN offset = Plugins
    BY DEF Typed, PluginsTyped
  <2>5. more[p] \in BOOLEAN /\ more' = more
    BY <1>8 DEF ReadPackage, Typed, PluginsTyped, PluginTyped
  <2>6. /\ page' = [page EXCEPT ![p] = Tail(page[p])] /\ offset' = [offset EXCEPT ![p] = offset[p] + 1]
        /\ ppc' = [ppc EXCEPT ![p] = IF Len(page[p]) > 1 THEN "send" ELSE IF more[p] THEN "fetch" ELSE "closed"]
    BY <1>8 DEF ReadPackage, AfterSend
  <2>7. /\ page'[p] = Tail(page[p]) /\ offset'[p] = offset[p] + 1
        /\ ppc'[p] \in {"send", "fetch", "closed"} /\ (ppc'[p] = "send" => Len(page[p]) > 1)
    BY <2>4, <2>6
  <2>8. PluginTyped(p)'
    BY <1>1, <2>1, <2>5, <2>7 DEF PluginTyped, PackagesOf, CompleteToken
  <2>9. /\ PluginsTyped' /\ ppc' = [q \in DOMAIN ppc' |-> ppc'[q]] /\ page' = [q \in DOMAIN page' |-> page'[q]]
        /\ offset' = [q \in DOMAIN offset' |-> offset'[q]] /\ more' = [q \in DOMAIN more' |-> more'[q]]
    <3>1. /\ page' = [page EXCEPT ![p] = page'[p]] /\ offset' = [offset EXCEPT ![p] = offset'[p]]
          /\ ppc' = [ppc EXCEPT ![p] = ppc'[p]]
      BY <2>4, <2>6
    <3> QED
      BY <1>1, <2>5, <2>8, <3>1, PluginsKeepTypes
  <2>10. MapTyped(offsets)' /\ MergerTyped'
    <3>1. turn' = turn + 1 /\ turn \in Plugins /\ UNCHANGED <<offsets, mpc, out, numSent>> /\ mpc = "populate"
      BY <1>8 DEF ReadPackage, Reads
    <3> QED
      BY <1>1, <1>4, <2>3, <3>1 DEF Typed, MapTyped, MergerTyped, Plugins, AllItems, Items
  <2> QED
    BY <1>2, <2>3, <2>9, <2>10 DEF Typed, FunctionsTyped
<1>9. ASSUME NEW p \in Plugins, ReadError(p) PROVE Typed'
  <2>1. PluginTyped(p)'
    BY <1>1, <1>9 DEF ReadError, Typed, PluginsTyped, PluginTyped, PackagesOf
  <2>2. /\ PluginsTyped' /\ ppc' = [q \in DOMAIN ppc' |-> ppc'[q]] /\ page' = [q \in DOMAIN page' |-> page'[q]]
        /\ offset' = [q \in DOMAIN offset' |-> offset'[q]] /\ more' = [q \in DOMAIN more' |-> more'[q]]
    <3>1. ppc' = [ppc EXCEPT ![p] = ppc'[p]] /\ UNCHANGED <<page, offset, more>>
      BY <1>9 DEF ReadError, Typed, PluginsTyped
    <3> QED
      BY <1>1, <2>1, <3>1, PluginsKeepTypes
  <2>3. MapTyped(offsets)' /\ MergerTyped'
    BY <1>1, <1>6, <1>9 DEF ReadError, Typed, MapTyped, MergerTyped, Plugins, AllItems, Items
  <2> QED
    BY <1>2, <1>6, <1>9, <2>2, <2>3 DEF ReadError, Typed, FunctionsTyped
<1>10. ASSUME NEW p \in Plugins, ReadClosed(p) PROVE Typed'
  <2>1. MapTyped(offsets)'
    BY <1>1, <1>10, SetOffsetType DEF ReadClosed
  <2>2. MergerTyped'
    <3>1. turn' = turn + 1 /\ turn \in Plugins /\ UNCHANGED <<mpc, next, out, numSent>> /\ mpc = "populate"
      BY <1>10 DEF ReadClosed, Reads
    <3> QED
      BY <1>1, <1>4, <1>6, <3>1 DEF Typed, MergerTyped, Plugins, AllItems, Items
  <2> QED
    BY <1>2, <1>5, <1>6, <1>10, <2>1, <2>2 DEF ReadClosed, Typed, FunctionsTyped
<1>11. ASSUME NEW p \in Plugins, Choose(p) PROVE Typed'
  <2>1. next[p] # None /\ next[p].package \in PackagesOf(p) /\ next[p].offset \in Nat
    BY <1>11 DEF Choose, Ready, Typed, MergerTyped, HeadOf
  <2>2. MapTyped(offsets)'
    BY <1>1, <1>11, <2>1, SetOffsetType DEF Choose
  <2>3. out' = [plugin |-> p, package |-> next[p].package] /\ out' \in AllItems /\ out'.plugin = p
    BY <1>11, <2>1, ItemsOf DEF Choose, Typed
  <2>4. MergerTyped'
    <3>1. UNCHANGED <<turn, next, numSent>> /\ mpc' = "send"
      BY <1>11 DEF Choose
    <3> QED
      BY <1>1, <1>6, <2>1, <2>3, <3>1 DEF Typed, MergerTyped, Plugins, AllItems, Items
  <2> QED
    BY <1>2, <1>5, <1>6, <1>11, <2>2, <2>4 DEF Choose, Typed, FunctionsTyped
<1> QED
  BY <1>7, <1>8, <1>9, <1>10, <1>11 DEF MergerStep

LEMMA HandlerKeepsTypes == ASSUME Typed, HandlerStep PROVE Typed'
<1> USE DEF fixed, handler, merger, plugins
<1>1. UNCHANGED <<catalog, pageSize, api, offsets, plugins, errors>>
  BY DEF HandlerStep, Receive, ReceiveError, ReceiveClosed, Finish
<1>2. FixedTyped' /\ MapTyped(offsets)' /\ Plugins' = Plugins /\ AllItems' = AllItems
  BY <1>1 DEF Typed, FixedTyped, MapTyped, Plugins, AllItems, Items
<1>3. /\ PluginsTyped'
      /\ ppc' = [q \in DOMAIN ppc' |-> ppc'[q]] /\ page' = [q \in DOMAIN page' |-> page'[q]]
      /\ offset' = [q \in DOMAIN offset' |-> offset'[q]] /\ more' = [q \in DOMAIN more' |-> more'[q]]
  BY <1>1 DEF Typed, FunctionsTyped, PluginsTyped, PluginTyped, PackagesOf, Plugins
<1>4. ASSUME next' = next
      PROVE  /\ next' = [o \in DOMAIN next' |-> next'[o]]
             /\ DOMAIN next' = Plugins' /\ \A o \in Plugins' : HeadOf(o, next[o])'
  BY <1>1, <1>4 DEF Typed, FunctionsTyped, MergerTyped, HeadOf, PackagesOf, Plugins
<1>5. CASE Receive
  <2>1. out \in AllItems /\ out.plugin \in Plugins /\ Append(pkgs, out) \in Seq(AllItems)
    BY <1>5, ItemParts DEF Receive, Typed, MergerTyped, HandlerTyped
  <2>2. HandlerTyped' /\ MapTyped(token)'
    BY <1>1, <1>2, <1>5, <2>1 DEF Receive, Typed, HandlerTyped, MapTyped
  <2>3. /\ DOMAIN next' = Plugins' /\ \A o \in Plugins' : HeadOf(o, next[o])'
        /\ next' = [o \in DOMAIN next' |-> next'[o]]
    BY <1>1, <1>5, <2>1, NextType DEF Receive, AfterDelivery, HeadOf
  <2>4. Len(catalog) \in Nat \ {0}
    BY CatalogFacts DEF Typed
  <2>5. MergerTyped'
    BY <1>1, <1>2, <1>5, <2>3, <2>4 DEF Receive, AfterDelivery, Typed, MergerTyped
  <2> QED
    BY <1>2, <1>3, <2>2, <2>3, <2>5 DEF Typed, FunctionsTyped
<1>6. CASE ReceiveError
  BY <1>1, <1>2, <1>3, <1>4, <1>6 DEF ReceiveError, Typed, FunctionsTyped, HandlerTyped, MergerTyped, MapTyped
<1>7. CASE ReceiveClosed
  BY <1>1, <1>2, <1>3, <1>4, <1>7 DEF ReceiveClosed, Typed, FunctionsTyped, HandlerTyped, MergerTyped, MapTyped
<1>8. CASE Finish
  <2>1. listed \o pkgs \in Seq(AllItems)
    BY ConcatProperties DEF Typed, HandlerTyped
  <2>2. HandlerTyped'
    BY <1>1, <1>2, <1>8, <2>1 DEF Finish, Typed, HandlerTyped
  <2>3. MapTyped(token)'
    BY <1>1, <1>2, <1>8, EmptyMap DEF Finish, Typed, MapTyped
  <2>4. MergerTyped'
    BY <1>1, <1>2, <1>4, <1>8 DEF Finish, Typed, MergerTyped
  <2> QED
    BY <1>2, <1>3, <1>4, <1>8, <2>2, <2>3, <2>4 DEF Finish, Typed, FunctionsTyped
<1> QED
  BY <1>5, <1>6, <1>7, <1>8 DEF HandlerStep

LEMMA RequestKeepsTypes == ASSUME Typed, Request PROVE Typed'
<1> USE DEF fixed
<1>1. UNCHANGED <<catalog, pageSize, api, token, errors, listed, failed>>
  BY DEF Request
<1>2. FixedTyped' /\ MapTyped(token)' /\ MapTyped(offsets)' /\ Plugins' = Plugins /\ AllItems' = AllItems
  BY <1>1 DEF Request, Typed, FixedTyped, MapTyped, Plugins, AllItems, Items
<1>3. HandlerTyped'
  <2>1. pkgs' = <<>> /\ <<>> \in Seq(AllItems)
    BY DEF Request
  <2> QED
    BY <1>1, <1>2, <2>1 DEF Request, Typed, HandlerTyped
<1>4. MergerTyped'
  <2>1. Len(catalog) \in Nat \ {0}
    BY CatalogFacts DEF Typed
  <2> QED
    BY <1>1, <1>2, <2>1 DEF Request, Typed, MergerTyped, HeadOf
<1>5. PluginsTyped'
  <2>1. /\ DOMAIN ppc' = Plugins' /\ DOMAIN page' = Plugins' /\ DOMAIN offset' = Plugins' /\ DOMAIN more' = Plugins'
    BY <1>2 DEF Request
  <2>2. ASSUME NEW p \in Plugins PROVE PluginTyped(p)'
    <3>1. Offset(token, p) \in Nat \cup {CompleteToken}
      BY DEF Typed, MapTyped, Offset
    <3>2. ppc'[p] = Starts(p) /\ page'[p] = <<>> /\ offset'[p] = Offset(token, p) /\ more'[p] = FALSE
      BY DEF Request
    <3>3. <<>> \in Seq(PackagesOf(p)')
      OBVIOUS
    <3>4. ppc'[p] \in {"closed", "fetch"} /\ (Offset(token, p) = CompleteToken => ppc'[p] = "closed")
      BY <3>2 DEF Starts
    <3> QED
      BY <3>1, <3>2, <3>3, <3>4 DEF PluginTyped
  <2> QED
    BY <1>2, <2>1, <2>2 DEF PluginsTyped
<1> QED
  BY <1>2, <1>3, <1>4, <1>5 DEF Request, Typed, FunctionsTyped

LEMMA StepKeepsTypes == Typed /\ [Next]_vars => Typed'
<1>1. ASSUME Typed, UNCHANGED vars PROVE Typed'
  BY <1>1 DEF vars, fixed, handler, merger, plugins, Typed, FixedTyped, MapTyped, HandlerTyped, MergerTyped,
              PluginsTyped, PluginTyped, FunctionsTyped, HeadOf, PackagesOf, Plugins, AllItems, Items
<1> QED
  BY <1>1, FetchKeepsTypes, MergerKeepsTypes, HandlerKeepsTypes, RequestKeepsTypes DEF Next

LEMMA AlwaysTyped == Spec => []Typed
  BY InitTyped, StepKeepsTypes, PTL DEF Spec

LEMMA TypedIsTypeOK == Typed => TypeOK
<1> SUFFICES ASSUME Typed PROVE TypeOK
  OBVIOUS
<1>1. \A p \in Plugins : PackagesOf(p) \subseteq {i.package : i \in AllItems}
  <2> SUFFICES ASSUME NEW p \in Plugins, NEW k \in PackagesOf(p) PROVE k \in {i.package : i \in AllItems}
    OBVIOUS
  <2>1. [plugin |-> p, package |-> k] \in AllItems /\ [plugin |-> p, package |-> k].package = k
    BY ItemsOf DEF Typed
  <2> QED
    BY <2>1
<1>2. next \in [Plugins -> Heads]
  <2>1. \A p \in Plugins : next[p] \in Heads
    BY DEF Typed, MergerTyped, HeadOf, Heads, PackagesOf
  <2> QED
    BY <2>1 DEF Typed, MergerTyped, FunctionsTyped
<1>3. page \in [Plugins -> Seq({i.package : i \in AllItems})]
  <2>1. \A p \in Plugins : page[p] \in Seq({i.package : i \in AllItems})
    BY <1>1, SeqMonotonic DEF Typed, PluginsTyped, PluginTyped
  <2> QED
    BY <2>1 DEF Typed, PluginsTyped, FunctionsTyped
<1>4. ppc \in [Plugins -> {"fetch", "send", "error", "closed"}]
  BY DEF Typed, PluginsTyped, PluginTyped, FunctionsTyped
<1>5. offset \in [Plugins -> Nat \cup {CompleteToken}] /\ more \in [Plugins -> BOOLEAN]
  BY DEF Typed, PluginsTyped, PluginTyped, FunctionsTyped
<1> QED
  BY <1>2, <1>3, <1>4, <1>5 DEF TypeOK, Typed, FixedTyped, MapTyped, HandlerTyped, MergerTyped, PluginsTyped,
                               PluginTyped

\* Every variable keeps its type, for any plugins with any packages, any page sizes and errors.
THEOREM TypeCorrect == Spec => []TypeOK
  BY AlwaysTyped, TypedIsTypeOK, PTL

-----------------------------------------------------------------------------
(* The token counts.  What the client has been given, with the page that is  *)
(* being filled, has the packages of a plugin up to the plugin's offset,     *)
(* but for the one that the merger holds; and up to the offset in the map,   *)
(* but for the one that is on its way to the handler.                        *)

CountOf(s, p) == Cardinality({i \in DOMAIN s : s[i].plugin = p})

Told(map, s, p) == Offset(map, p) = CompleteToken \/ Offset(map, p) = CountOf(s, p)

Given == listed \o pkgs

\* How far the map, and the goroutine, of a plugin are.
InMap(p) ==
    \/ Offset(offsets, p) = CompleteToken
    \/ Offset(offsets, p) =
          CountOf(Given, p) + (IF mpc = "send" /\ out.plugin = p THEN 1 ELSE 0)

InChannel(p) ==
    /\ \/ offset[p] = CompleteToken
       \/ offset[p] = CountOf(Given, p) + (IF next[p] # None THEN 1 ELSE 0)
    /\ next[p] # None => next[p].offset = offset[p] /\ offset[p] # CompleteToken

\* A page is closed when it is full, and finished when it is closed.
PageBounded ==
    /\ numSent = Len(pkgs)
    /\ pageSize > 0 /\ mpc # "closed" => numSent < pageSize
    /\ hpc = "finish" => mpc = "closed"

ProgressInv ==
    /\ hpc = "idle" => \A p \in Plugins : Told(token, listed, p)
    /\ hpc \in {"collect", "finish"} =>
          PageBounded /\ \A p \in Plugins : InMap(p) /\ InChannel(p)

LEMMA CountType ==
  ASSUME NEW S, NEW s \in Seq(S), NEW p
  PROVE  CountOf(s, p) \in Nat /\ IsFiniteSet({i \in DOMAIN s : s[i].plugin = p})
<1>1. DOMAIN s = 1..Len(s) /\ Len(s) \in Nat
  BY LenProperties
<1>2. IsFiniteSet(DOMAIN s)
  BY <1>1, FS_Interval
<1>3. {i \in DOMAIN s : s[i].plugin = p} \in SUBSET DOMAIN s
  OBVIOUS
<1>4. IsFiniteSet({i \in DOMAIN s : s[i].plugin = p})
  BY <1>2, <1>3, FS_Subset
<1> QED
  BY <1>4, FS_CardinalityType DEF CountOf

LEMMA CountEmpty == \A p : CountOf(<<>>, p) = 0
<1> TAKE p
<1>1. {i \in DOMAIN <<>> : <<>>[i].plugin = p} = {}
  BY EmptyMap
<1> QED
  BY <1>1, FS_EmptySet DEF CountOf

LEMMA CountAppend ==
  ASSUME NEW S, NEW s \in Seq(S), NEW e \in S, NEW p
  PROVE  CountOf(Append(s, e), p) = CountOf(s, p) + (IF e.plugin = p THEN 1 ELSE 0)
<1> DEFINE A == {i \in DOMAIN s : s[i].plugin = p}
           n == Len(s) + 1
           B == {i \in DOMAIN Append(s, e) : Append(s, e)[i].plugin = p}
<1>1. DOMAIN s = 1..Len(s) /\ Len(s) \in Nat
  BY LenProperties
<1>2. /\ Append(s, e) \in Seq(S) /\ Len(Append(s, e)) = n /\ Append(s, e)[n] = e
      /\ \A i \in 1..Len(s) : Append(s, e)[i] = s[i]
  BY AppendProperties
<1>3. DOMAIN Append(s, e) = 1..n
  BY <1>2, LenProperties
<1>4. 1..n = (1..Len(s)) \cup {n} /\ n \notin DOMAIN s
  BY <1>1
<1>5. B = IF e.plugin = p THEN A \cup {n} ELSE A
  BY <1>1, <1>2, <1>3, <1>4
<1>6. IsFiniteSet(A) /\ Cardinality(A) \in Nat
  BY CountType DEF CountOf
<1>7. Cardinality(A \cup {n}) = Cardinality(A) + 1
  BY <1>4, <1>6, FS_AddElement
<1>8. CountOf(Append(s, e), p) = Cardinality(B) /\ CountOf(s, p) = Cardinality(A)
  BY DEF CountOf
<1> HIDE DEF n, A, B
<1> QED
  BY <1>5, <1>6, <1>7, <1>8

\* What the client has been given with one more package.
LEMMA GivenOneMore ==
  ASSUME Typed, NEW e \in AllItems, NEW p
  PROVE  /\ CountOf(listed \o Append(pkgs, e), p) = CountOf(Given, p) + (IF e.plugin = p THEN 1 ELSE 0)
         /\ CountOf(Given, p) \in Nat
<1>1. listed \in Seq(AllItems) /\ pkgs \in Seq(AllItems) /\ <<e>> \in Seq(AllItems)
  BY DEF Typed, HandlerTyped
<1>2. Given \in Seq(AllItems)
  BY <1>1, ConcatProperties DEF Given
<1>3. listed \o Append(pkgs, e) = Append(Given, e)
  <2>1. Append(pkgs, e) = pkgs \o <<e>> /\ Append(Given, e) = Given \o <<e>>
    BY <1>1, <1>2, AppendIsConcat
  <2> QED
    BY <1>1, <2>1, ConcatAssociative DEF Given
<1>4. CountOf(Append(Given, e), p) = CountOf(Given, p) + (IF e.plugin = p THEN 1 ELSE 0)
  BY <1>2, CountAppend
<1>5. CountOf(Given, p) \in Nat
  BY <1>2, CountType
<1> QED
  BY <1>3, <1>4, <1>5

LEMMA GivenCount == ASSUME Typed, NEW p PROVE CountOf(Given, p) \in Nat
<1>1. Given \in Seq(AllItems)
  BY ConcatProperties DEF Given, Typed, HandlerTyped
<1> QED
  BY <1>1, CountType

LEMMA ProgressInit == Init => ProgressInv
  BY CountEmpty, EmptyMap DEF Init, ProgressInv, Told, Offset

LEMMA NoProgress ==
  ASSUME ProgressInv,
         UNCHANGED <<catalog, pageSize, token, hpc, pkgs, listed, offsets, mpc, next, out, numSent, offset>>
  PROVE  ProgressInv'
<1>1. Plugins' = Plugins /\ \A q : CountOf(Given, q)' = CountOf(Given, q) /\ CountOf(listed, q)' = CountOf(listed, q)
  BY DEF Plugins, CountOf, Given
<1>2. \A q : Offset(token, q)' = Offset(token, q) /\ Offset(offsets, q)' = Offset(offsets, q)
  BY DEF Offset
<1>3. PageBounded' = PageBounded
  BY DEF PageBounded
<1>4. ASSUME NEW q PROVE InMap(q) => InMap(q)'
  BY <1>1, <1>2, <1>4 DEF InMap
<1>5. ASSUME NEW q PROVE InChannel(q) => InChannel(q)'
  <2>1. CountOf(Given, q)' = CountOf(Given, q) /\ next'[q] = next[q] /\ offset'[q] = offset[q]
    BY <1>1
  <2> QED
    BY <2>1 DEF InChannel
<1>6. ASSUME NEW q PROVE Told(token, listed, q) => Told(token, listed, q)'
  BY <1>1, <1>2 DEF Told
<1> QED
  BY <1>1, <1>3, <1>4, <1>5, <1>6 DEF ProgressInv

LEMMA PluginsKeepProgress == ASSUME Typed, ProgressInv, NEW p \in Plugins, PluginStep(p) PROVE ProgressInv'
<1>1. UNCHANGED <<catalog, pageSize, token, hpc, pkgs, listed, offsets, mpc, next, out, numSent, offset>>
  BY DEF PluginStep, Fetch, FetchFails, fixed, handler, merger
<1> QED
  BY <1>1, NoProgress

LEMMA MergerKeepsProgress == ASSUME Typed, ProgressInv, MergerStep PROVE ProgressInv'
<1>1. /\ UNCHANGED <<catalog, pageSize, token, hpc, pkgs, listed, numSent>> /\ Plugins' = Plugins
      /\ mpc = "populate"
  BY DEF MergerStep, Pass, NothingLeft, ReadPackage, ReadError, ReadClosed, Choose, Reads, fixed, handler, Plugins
<1>2. \A q : CountOf(Given, q) \in Nat /\ CountOf(Given, q)' = CountOf(Given, q)
  BY <1>1, GivenCount DEF CountOf, Given
<1>3. hpc' = "idle" => \A q \in Plugins' : Told(token, listed, q)'
  BY <1>1 DEF ProgressInv, Told, Offset, CountOf
<1> SUFFICES ASSUME hpc' \in {"collect", "finish"}
             PROVE  PageBounded' /\ \A q \in Plugins : InMap(q)' /\ InChannel(q)'
  BY <1>1, <1>3 DEF ProgressInv
<1>4. PageBounded /\ \A q \in Plugins : InMap(q) /\ InChannel(q)
  BY <1>1 DEF ProgressInv
<1>5. PageBounded'
  BY <1>1, <1>4 DEF PageBounded
<1>6. ASSUME NEW q \in Plugins, UNCHANGED <<next, offset>> PROVE InChannel(q)'
  BY <1>2, <1>4, <1>6 DEF InChannel
<1>7. ASSUME NEW q \in Plugins, UNCHANGED offsets, mpc' # "send" PROVE InMap(q)'
  BY <1>1, <1>2, <1>4, <1>7 DEF InMap, Offset
<1>8. CASE Pass \/ NothingLeft
  BY <1>1, <1>5, <1>6, <1>7, <1>8 DEF Pass, NothingLeft, plugins
<1>9. ASSUME NEW p \in Plugins, ReadPackage(p), NEW q \in Plugins PROVE InMap(q)' /\ InChannel(q)'
  <2>1. InMap(q)'
    BY <1>1, <1>7, <1>9 DEF ReadPackage
  <2>2. CASE q # p
    <3>1. next'[q] = next[q] /\ offset'[q] = offset[q]
      BY <1>9, <2>2 DEF ReadPackage, AfterSend, Typed, MergerTyped, PluginsTyped
    <3>2. CountOf(Given, q)' = CountOf(Given, q) /\ InChannel(q)
      BY <1>2, <1>4
    <3> QED
      BY <2>1, <3>1, <3>2 DEF InChannel
  <2>3. CASE q = p
    <3>1. /\ next[p] = None /\ next'[p] = [package |-> Head(page[p]), offset |-> offset[p] + 1]
          /\ offset'[p] = offset[p] + 1 /\ ppc[p] = "send"
      BY <1>9 DEF ReadPackage, Reads, AfterSend, Typed, MergerTyped, PluginsTyped
    <3>2. offset[p] \in Nat
      BY <3>1 DEF Typed, PluginsTyped, PluginTyped
    <3>3. offset[p] = CountOf(Given, p)
      BY <1>2, <1>4, <3>1, <3>2 DEF InChannel, CompleteToken
    <3>4. next'[p] # None /\ next'[p].offset = offset'[p] /\ offset'[p] # CompleteToken
      BY <3>1, <3>2, HeadIsSomething DEF CompleteToken
    <3>5. CountOf(Given, p)' = CountOf(Given, p)
      BY <1>2
    <3>6. offset'[p] = CountOf(Given, p)' + 1
      BY <3>1, <3>3, <3>5
    <3> QED
      BY <2>1, <2>3, <3>4, <3>6 DEF InChannel
  <2> QED
    BY <2>1, <2>2, <2>3
<1>10. ASSUME NEW p \in Plugins, ReadError(p), NEW q \in Plugins PROVE InMap(q)' /\ InChannel(q)'
  BY <1>6, <1>7, <1>10 DEF ReadError
<1>11. ASSUME NEW p \in Plugins, ReadClosed(p), NEW q \in Plugins PROVE InMap(q)' /\ InChannel(q)'
  <2>1. UNCHANGED <<mpc, next, offset, out>>
    BY <1>11 DEF ReadClosed, plugins
  <2>2. Offset(offsets, p)' = CompleteToken /\ \A o \in Plugins \ {p} : Offset(offsets, o)' = Offset(offsets, o)
    BY <1>11, SetOffsetType DEF ReadClosed, fixed
  <2> QED
    BY <1>1, <1>2, <1>4, <1>6, <2>1, <2>2 DEF InMap
<1>12. ASSUME NEW p \in Plugins, Choose(p), NEW q \in Plugins PROVE InMap(q)' /\ InChannel(q)'
  <2>1. UNCHANGED <<next, offset>> /\ mpc' = "send" /\ out'.plugin = p /\ next[p] # None
    BY <1>12 DEF Choose, plugins, Ready
  <2>2. next[p].offset \in Nat /\ next[p].offset = CountOf(Given, p) + 1
    <3>1. next[p].offset \in Nat
      BY <2>1 DEF Typed, MergerTyped, HeadOf
    <3> QED
      BY <1>2, <1>4, <2>1, <3>1 DEF InChannel
  <2>3. /\ Offset(offsets, p)' = next[p].offset
        /\ \A o \in Plugins \ {p} : Offset(offsets, o)' = Offset(offsets, o)
    BY <1>12, <2>2, SetOffsetType DEF Choose, fixed
  <2> QED
    BY <1>1, <1>2, <1>4, <1>6, <2>1, <2>2, <2>3 DEF InMap
<1> QED
  BY <1>5, <1>8, <1>9, <1>10, <1>11, <1>12 DEF MergerStep

LEMMA HandlerKeepsProgress == ASSUME Typed, ProgressInv, HandlerStep PROVE ProgressInv'
<1> USE DEF fixed, handler, merger, plugins
<1>1. UNCHANGED <<catalog, pageSize, offsets, offset>> /\ Plugins' = Plugins
  BY DEF HandlerStep, Receive, ReceiveError, ReceiveClosed, Finish, Plugins
<1>2. CASE Receive
  <2>1. PageBounded /\ \A q \in Plugins : InMap(q) /\ InChannel(q)
    BY <1>2 DEF Receive, ProgressInv
  <2>2. out \in AllItems /\ out.plugin \in Plugins /\ next[out.plugin] # None
    BY <1>2, ItemParts DEF Receive, Typed, MergerTyped
  <2>3. listed' = listed /\ pkgs' = Append(pkgs, out) /\ Len(pkgs') = Len(pkgs) + 1 /\ Len(pkgs) \in Nat
    BY <1>2, <2>2, AppendProperties, LenProperties DEF Receive, Typed, HandlerTyped
  <2>4. \A q : /\ CountOf(Given, q)' = CountOf(Given, q) + (IF out.plugin = q THEN 1 ELSE 0)
               /\ CountOf(Given, q) \in Nat
    BY <2>2, <2>3, GivenOneMore, ZenonT(120) DEF Given, CountOf
  <2>5. pageSize \in Nat
    BY CatalogFacts DEF Typed
  <2>6. PageBounded'
    BY <1>1, <1>2, <2>1, <2>3, <2>5 DEF Receive, AfterDelivery, PageBounded
  <2>7. mpc' # "send" /\ mpc = "send" /\ hpc' # "idle"
    BY <1>2 DEF Receive, AfterDelivery
  <2>8. next'[out.plugin] = None /\ \A q \in Plugins \ {out.plugin} : next'[q] = next[q]
    BY <1>2, <2>2 DEF Receive, AfterDelivery, Typed, MergerTyped
  <2>9. ASSUME NEW q \in Plugins PROVE InMap(q)' /\ InChannel(q)'
    <3>1. InMap(q)'
      BY <1>1, <2>1, <2>4, <2>7 DEF InMap, Offset
    <3>2. InChannel(q)'
      BY <1>1, <2>1, <2>2, <2>4, <2>8 DEF InChannel
    <3> QED
      BY <3>1, <3>2
  <2> QED
    BY <1>1, <2>6, <2>7, <2>9 DEF ProgressInv
<1>3. CASE ReceiveError
  BY <1>3 DEF ReceiveError, ProgressInv
<1>4. CASE ReceiveClosed
  BY <1>1, <1>4, ZenonT(60)
     DEF ReceiveClosed, ProgressInv, PageBounded, InMap, InChannel, Given, CountOf, Offset
<1>5. CASE Finish
  <2>1. hpc' \in {"idle", "done"}
    BY <1>5 DEF Finish
  <2>2. ASSUME hpc' = "idle", NEW q \in Plugins PROVE Told(token, listed, q)'
    <3>1. token' = offsets /\ listed' = Given
      BY <1>5, <2>2 DEF Finish, Given
    <3>2. Offset(offsets, q) = CompleteToken \/ Offset(offsets, q) = CountOf(Given, q)
      BY <1>5, GivenCount DEF Finish, ProgressInv, PageBounded, InMap
    <3> QED
      BY <3>1, <3>2 DEF Told, Offset, CountOf
  <2> QED
    BY <1>1, <2>1, <2>2 DEF ProgressInv
<1> QED
  BY <1>2, <1>3, <1>4, <1>5 DEF HandlerStep

LEMMA RequestKeepsProgress == ASSUME Typed, ProgressInv, Request PROVE ProgressInv'
<1>1. UNCHANGED <<catalog, pageSize, token, listed>> /\ Plugins' = Plugins /\ hpc' = "collect"
  BY DEF Request, fixed, Plugins
<1>2. \A p \in Plugins : Told(token, listed, p)
  BY DEF Request, ProgressInv
<1>3. pkgs' = <<>> /\ Given' = listed
  BY <1>1, ConcatEmptySeq DEF Request, Given, Typed, HandlerTyped
<1>4. \A p : CountOf(Given, p)' = CountOf(listed, p) /\ CountOf(listed, p) \in Nat
  BY <1>3, CountType DEF CountOf, Typed, HandlerTyped
<1>5. PageBounded'
  <2>1. numSent' = 0 /\ Len(pkgs') = 0
    BY <1>3 DEF Request
  <2>2. pageSize \in Nat
    BY CatalogFacts DEF Typed
  <2> QED
    BY <1>1, <2>1, <2>2 DEF PageBounded
<1>6. ASSUME NEW p \in Plugins PROVE InMap(p)' /\ InChannel(p)'
  <2>1. offsets' = token /\ mpc' = "populate" /\ next'[p] = None /\ offset'[p] = Offset(token, p)
    BY DEF Request
  <2> QED
    BY <1>2, <1>4, <2>1 DEF InMap, InChannel, Told, Offset, None
<1> QED
  BY <1>1, <1>5, <1>6 DEF ProgressInv

LEMMA StepKeepsProgress == Typed /\ ProgressInv /\ [Next]_vars => ProgressInv'
<1>1. ASSUME ProgressInv, UNCHANGED vars PROVE ProgressInv'
  BY <1>1, NoProgress DEF vars, fixed, handler, merger, plugins
<1> QED
  BY <1>1, PluginsKeepProgress, MergerKeepsProgress, HandlerKeepsProgress, RequestKeepsProgress DEF Next

LEMMA AlwaysProgress == Spec => []ProgressInv
  BY AlwaysTyped, ProgressInit, StepKeepsProgress, PTL DEF Spec

\* A token says how many packages of each plugin the client has been given, for any
\* plugins with any packages, in any order that they may list them in, and any page
\* sizes: none of those that the merger had read and not sent are counted, or skipped.
THEOREM TokensTellProgress == Spec => []TokenTellsProgress
<1>1. ProgressInv => TokenTellsProgress
  BY DEF ProgressInv, Told, TokenTellsProgress, CountOf
<1> QED
  BY <1>1, AlwaysProgress, PTL

\* The handler reads the map of offsets when the merger has stopped writing to it.
THEOREM MapsRest == Spec => []MapAtRest
<1>1. ProgressInv => MapAtRest
  BY DEF ProgressInv, PageBounded, MapAtRest
<1> QED
  BY <1>1, AlwaysProgress, PTL

-----------------------------------------------------------------------------
(* Pages of honest plugins.  Such a plugin has one order; what the client    *)
(* has been given of it is the packages up to how far it is, each once; what *)
(* its goroutine is about to send, and what the merger holds of it, is what  *)
(* comes next; and it is complete when there is no more.                     *)

Total(p) == Cardinality(PackagesOf(p))
Order(p) == CHOOSE s \in Listings(p) : TRUE
Orderly == \A p \in Plugins : Honest(p)

\* The first packages of each plugin, each once.
Right(s) ==
    /\ IsInjective(s)
    /\ \A p \in Plugins :
          /\ CountOf(s, p) <= Total(p)
          /\ \A i \in DOMAIN s : s[i].plugin = p =>
                \E m \in 1..CountOf(s, p) : s[i].package = Order(p)[m]
          /\ \A m \in 1..CountOf(s, p) :
                \E i \in DOMAIN s : s[i].plugin = p /\ s[i].package = Order(p)[m]

AllOf(s, p) == CountOf(s, p) = Total(p)

\* What is in the channel of a plugin is what comes next; a closed one had all.
ChannelRight(p) ==
    /\ ppc[p] = "send" =>
          /\ offset[p] + Len(page[p]) <= Total(p)
          /\ \A i \in DOMAIN page[p] : page[p][i] = Order(p)[offset[p] + i]
          /\ ~more[p] => offset[p] + Len(page[p]) = Total(p)
    /\ ppc[p] = "closed" /\ offset[p] # CompleteToken => offset[p] = Total(p) \/ mpc = "sendError"
    /\ PluginPageSize = 0 => ~more[p]
    /\ pageSize = 0 /\ ppc[p] = "fetch" => offset[p] = 0

HeadRight(p) ==
    next[p] # None =>
        next[p].offset \in 1..Total(p) /\ next[p].package = Order(p)[next[p].offset]

MapRight(p) ==
    /\ Offset(offsets, p) = CompleteToken => AllOf(Given, p) /\ next[p] = None
    /\ offset[p] = CompleteToken => Offset(offsets, p) = CompleteToken

MergerRight ==
    /\ mpc = "populate" => \A p \in 1..turn - 1 : next[p] # None \/ Offset(offsets, p) = CompleteToken
    /\ mpc = "send" => /\ out.package = next[out.plugin].package
                       /\ out.plugin \in DOMAIN offsets /\ offsets[out.plugin] # CompleteToken
    /\ mpc = "closed" =>
          \/ \A p \in Plugins : Offset(offsets, p) = CompleteToken
          \/ /\ numSent = pageSize /\ pageSize > 0
             /\ \E p \in DOMAIN offsets : offsets[p] # CompleteToken

OrderInv ==
    /\ Right(listed)
    /\ hpc = "idle" =>
          /\ \A p \in Plugins : Offset(token, p) = CompleteToken => AllOf(listed, p)
          /\ pageSize = 0 => token = <<>>
    /\ hpc = "done" => \A p \in Plugins : AllOf(listed, p)
    /\ hpc \in {"collect", "finish"} =>
          /\ Right(Given) /\ (got <=> pkgs # <<>>) /\ MergerRight
          /\ \A p \in Plugins : ChannelRight(p) /\ HeadRight(p) /\ MapRight(p)

OrderedInv == Orderly => OrderInv

\* What is still to come has no name before any of those that have been given.
Sorted(s) == \A i, j \in DOMAIN s : i < j => s[i].package.name <= s[j].package.name
Ahead(s, n) == \A p \in Plugins : \A m \in CountOf(s, p) + 1..Total(p) : n <= Order(p)[m].name
AllAhead(s) == \A i \in DOMAIN s : Ahead(s, s[i].package.name)

SortedInv ==
    /\ Sorted(listed)
    /\ hpc = "idle" => AllAhead(listed)
    /\ hpc \in {"collect", "finish"} =>
          Sorted(Given) /\ AllAhead(Given) /\ (mpc = "send" => Ahead(Given, out.package.name))

InOrderInv == (\A p \in Plugins : Honest(p) /\ ByName(p)) => SortedInv

-----------------------------------------------------------------------------
LEMMA OneListing ==
  ASSUME FixedTyped, NEW p \in Plugins, Honest(p)
  PROVE  Order(p) \in Listings(p) /\ \A s \in Listings(p) : s = Order(p)
<1> DEFINE n == Total(p)
           G == (1..n) \X PackagesOf(p)
           graph == [s \in Listings(p) |-> {<<i, s[i]>> : i \in 1..n}]
<1>1. IsFiniteSet(PackagesOf(p)) /\ n \in Nat
  BY CatalogFacts DEF Total
<1>2. \A s \in Listings(p) : s \in [1..n -> PackagesOf(p)]
  BY DEF Listings, PackagesOf, Total
<1>3. IsFiniteSet(SUBSET G)
  <2>1. IsFiniteSet(1..n)
    BY <1>1, FS_Interval
  <2>2. IsFiniteSet(G)
    BY <1>1, <2>1, FS_Product
  <2> QED
    BY <2>2, FS_SUBSET
<1>4. graph \in Injection(Listings(p), SUBSET G)
  <2>1. ASSUME NEW s \in Listings(p) PROVE graph[s] \in SUBSET G
    <3>1. \A i \in 1..n : <<i, s[i]>> \in G
      BY <1>2
    <3>2. graph[s] = {<<i, s[i]>> : i \in 1..n}
      OBVIOUS
    <3> HIDE DEF graph, G, n
    <3> QED
      BY <3>1, <3>2
  <2>2. ASSUME NEW s \in Listings(p), NEW t \in Listings(p), graph[s] = graph[t] PROVE s = t
    <3>1. ASSUME NEW i \in 1..n PROVE s[i] = t[i]
      <4>1. <<i, s[i]>> \in graph[s]
        OBVIOUS
      <4>2. PICK j \in 1..n : <<i, s[i]>> = <<j, t[j]>>
        BY <2>2, <4>1
      <4> QED
        BY <4>2
    <3>2. s = [i \in 1..n |-> s[i]] /\ t = [i \in 1..n |-> t[i]]
      BY <1>2
    <3>3. \A i \in 1..n : s[i] = t[i]
      BY <3>1
    <3> HIDE DEF n
    <3>4. [i \in 1..n |-> s[i]] = [i \in 1..n |-> t[i]]
      BY <3>3
    <3> QED
      BY <3>2, <3>4, Zenon
  <2>3. graph \in [Listings(p) -> SUBSET G]
    BY <2>1
  <2> HIDE DEF graph
  <2>4. DOMAIN graph = Listings(p)
    BY <2>3
  <2>5. IsInjective(graph)
    BY <2>2, <2>4 DEF IsInjective
  <2> QED
    BY <2>3, <2>5 DEF Injection
<1>5. IsFiniteSet(Listings(p))
  <2> HIDE DEF graph, G
  <2> QED
    BY <1>3, <1>4, FS_Injection
<1>6. PICK s : Listings(p) = {s}
  BY <1>5, FS_Singleton DEF Honest
<1> QED
  BY <1>6 DEF Order

\* The order of an honest plugin has each of its packages once.
LEMMA OrderFacts ==
  ASSUME FixedTyped, NEW p \in Plugins, Honest(p)
  PROVE  /\ Total(p) \in Nat /\ Order(p) \in [1..Total(p) -> PackagesOf(p)]
         /\ \A m, k \in 1..Total(p) : Order(p)[m] = Order(p)[k] => m = k
         /\ \A k \in PackagesOf(p) : \E m \in 1..Total(p) : k = Order(p)[m]
<1> DEFINE n == Total(p)
           s == Order(p)
<1>1. IsFiniteSet(PackagesOf(p)) /\ n \in Nat
  BY CatalogFacts DEF Total
<1>2. s \in [1..n -> PackagesOf(p)] /\ IsInjective(s)
  BY OneListing DEF Listings, PackagesOf, Total
<1>3. s \in Injection(1..n, PackagesOf(p))
  BY <1>2 DEF Injection
<1>4. Cardinality(1..n) = Cardinality(PackagesOf(p))
  BY <1>1, FS_Interval DEF Total
<1> HIDE DEF s, n
<1>5. s \in Surjection(1..n, PackagesOf(p))
  BY <1>1, <1>3, <1>4, FS_Injection
<1>6. \A k \in PackagesOf(p) : \E m \in 1..n : k = s[m]
  BY <1>5 DEF Surjection
<1> QED
  BY <1>1, <1>2, <1>6 DEF s, n, IsInjective

\* The orders do not change.
LEMMA OrdersStay ==
  ASSUME UNCHANGED fixed
  PROVE  /\ Plugins' = Plugins /\ AllItems' = AllItems /\ PluginPageSize' = PluginPageSize
         /\ pageSize' = pageSize /\ Orderly' = Orderly
         /\ \A p : Total(p)' = Total(p) /\ Order(p)' = Order(p) /\ Listings(p)' = Listings(p)
                   /\ PackagesOf(p)' = PackagesOf(p) /\ Honest(p)' = Honest(p)
<1>1. catalog' = catalog /\ pageSize' = pageSize /\ api' = api
  BY DEF fixed
<1>2. Plugins' = Plugins /\ AllItems' = AllItems /\ PluginPageSize' = PluginPageSize
  BY <1>1 DEF Plugins, AllItems, Items, PluginPageSize
<1>3. ASSUME NEW p PROVE Listings(p)' = Listings(p)
  BY <1>1 DEF Listings, InOrder
<1>4. ASSUME NEW p PROVE Total(p)' = Total(p) /\ Order(p)' = Order(p) /\ PackagesOf(p)' = PackagesOf(p)
                          /\ Honest(p)' = Honest(p)
  BY <1>1, <1>2, <1>3 DEF Total, Order, PackagesOf, Honest, GoesOn
<1>5. Orderly' = Orderly
  BY <1>2, <1>4 DEF Orderly
<1> QED
  BY <1>1, <1>2, <1>3, <1>4, <1>5

LEMMA RightStays ==
  ASSUME UNCHANGED fixed, NEW s, NEW t, t = s PROVE Right(s) => Right(t)'
  BY OrdersStay DEF Right, CountOf

LEMMA RightStart == ASSUME FixedTyped, Orderly PROVE Right(<<>>)
<1>1. DOMAIN <<>> = {} /\ \A p : CountOf(<<>>, p) = 0
  BY EmptyMap, CountEmpty
<1>2. \A p \in Plugins : Total(p) \in Nat
  BY OrderFacts DEF Orderly
<1> QED
  BY <1>1, <1>2 DEF Right, IsInjective

\* The next package of a plugin goes to the end.
LEMMA RightAppend ==
  ASSUME FixedTyped, Orderly, NEW s \in Seq(AllItems), Right(s), NEW e \in AllItems,
         CountOf(s, e.plugin) < Total(e.plugin),
         e.package = Order(e.plugin)[CountOf(s, e.plugin) + 1]
  PROVE  Right(Append(s, e))
<1> DEFINE t == Append(s, e)
           n == Len(s) + 1
           p == e.plugin
           c(q) == CountOf(s, q)
<1>1. /\ DOMAIN s = 1..Len(s) /\ Len(s) \in Nat /\ DOMAIN t = 1..n /\ t[n] = e
      /\ \A i \in DOMAIN s : t[i] = s[i]
  BY AppendProperties, LenProperties
<1>2. DOMAIN t = DOMAIN s \cup {n} /\ n \notin DOMAIN s
  BY <1>1
<1>3. p \in Plugins
  BY ItemParts
<1>4. ASSUME NEW q \in Plugins
      PROVE  /\ c(q) \in Nat /\ CountOf(t, q) = c(q) + (IF p = q THEN 1 ELSE 0)
             /\ Total(q) \in Nat
             /\ \A m, k \in 1..Total(q) : Order(q)[m] = Order(q)[k] => m = k
  <2>1. c(q) \in Nat /\ CountOf(t, q) = c(q) + (IF p = q THEN 1 ELSE 0)
    BY CountType, CountAppend
  <2>2. Honest(q)
    BY DEF Orderly
  <2> QED
    BY <2>1, <2>2, OrderFacts
<1> HIDE DEF t, n, c, p
<1> USE DEF c, p
<1>5. IsInjective(t)
  <2>1. ASSUME NEW i \in DOMAIN s, s[i] = e PROVE FALSE
    <3>1. PICK m \in 1..c(p) : s[i].package = Order(p)[m]
      BY <1>3, <2>1 DEF Right
    <3>2. Order(p)[m] = Order(p)[c(p) + 1]
      BY <2>1, <3>1
    <3>3. m \in 1..Total(p) /\ c(p) + 1 \in 1..Total(p) /\ m # c(p) + 1
      BY <1>3, <1>4
    <3> QED
      BY <1>3, <1>4, <3>2, <3>3
  <2>2. IsInjective(s)
    BY DEF Right
  <2> QED
    BY <1>1, <1>2, <2>1, <2>2 DEF IsInjective
<1>6. ASSUME NEW q \in Plugins
      PROVE  /\ CountOf(t, q) <= Total(q)
             /\ \A i \in DOMAIN t : t[i].plugin = q => \E m \in 1..CountOf(t, q) : t[i].package = Order(q)[m]
             /\ \A m \in 1..CountOf(t, q) : \E i \in DOMAIN t : t[i].plugin = q /\ t[i].package = Order(q)[m]
  <2>1. /\ c(q) <= Total(q)
        /\ \A i \in DOMAIN s : s[i].plugin = q => \E m \in 1..c(q) : s[i].package = Order(q)[m]
        /\ \A m \in 1..c(q) : \E i \in DOMAIN s : s[i].plugin = q /\ s[i].package = Order(q)[m]
    BY DEF Right
  <2>2. CASE q # p
    <3>1. CountOf(t, q) = c(q)
      BY <1>4, <2>2
    <3>2. \A i \in DOMAIN t : t[i].plugin = q => i \in DOMAIN s /\ t[i] = s[i]
      BY <1>1, <1>2, <2>2
    <3>3. \A i \in DOMAIN s : i \in DOMAIN t /\ t[i] = s[i]
      BY <1>1, <1>2
    <3> HIDE DEF c
    <3> QED
      BY <2>1, <3>1, <3>2, <3>3, SMTT(60)
  <2>3. CASE q = p
    <3>1. CountOf(t, q) = c(q) + 1 /\ c(q) \in Nat
      BY <1>4, <2>3
    <3>2. n \in DOMAIN t /\ t[n].plugin = q /\ t[n].package = Order(q)[c(q) + 1]
      BY <1>1, <1>2, <2>3
    <3>3. \A i \in DOMAIN s : i \in DOMAIN t /\ t[i] = s[i]
      BY <1>1, <1>2
    <3>4. 1..c(q) + 1 = (1..c(q)) \cup {c(q) + 1}
      BY <3>1
    <3>5. c(q) + 1 <= Total(q)
      BY <2>3, <3>1, <1>4
    <3> HIDE DEF c
    <3>6. \A i \in DOMAIN t : t[i].plugin = q => \E m \in 1..c(q) + 1 : t[i].package = Order(q)[m]
      <4> SUFFICES ASSUME NEW i \in DOMAIN t, t[i].plugin = q
                   PROVE  \E m \in 1..c(q) + 1 : t[i].package = Order(q)[m]
        OBVIOUS
      <4>1. CASE i \in DOMAIN s
        BY <2>1, <3>3, <3>4, <4>1, SMTT(120)
      <4>2. CASE i = n
        BY <3>2, <3>4, <4>2
      <4> QED
        BY <1>2, <4>1, <4>2
    <3>7. \A m \in 1..c(q) + 1 : \E i \in DOMAIN t : t[i].plugin = q /\ t[i].package = Order(q)[m]
      <4> TAKE m \in 1..c(q) + 1
      <4>1. CASE m \in 1..c(q)
        BY <2>1, <3>3, <4>1
      <4>2. CASE m = c(q) + 1
        BY <3>2, <4>2
      <4> QED
        BY <3>4, <4>1, <4>2
    <3> QED
      BY <3>1, <3>5, <3>6, <3>7
  <2> QED
    BY <2>2, <2>3
<1> QED
  BY <1>5, <1>6 DEF Right, t

\* A page of an honest plugin is what comes next, and the last one is not full.
LEMMA PageRight ==
  ASSUME FixedTyped, NEW p \in Plugins, Honest(p), NEW from \in 0..Total(p), pageSize = 0 => from = 0,
         NEW r, r = PageOf(p, Order(p), from)
  PROVE  /\ Len(r) \in Nat /\ from + Len(r) <= Total(p) /\ r \in Seq(PackagesOf(p))
         /\ \A i \in DOMAIN r : r[i] = Order(p)[from + i]
         /\ PluginPageSize = 0 \/ Len(r) # PluginPageSize => from + Len(r) = Total(p)
         /\ r = <<>> => from = Total(p)
<1> DEFINE n == Total(p)
           s == Order(p)
<1>1. n \in Nat /\ s \in [1..n -> PackagesOf(p)] /\ PluginPageSize \in Nat /\ from \in Nat /\ from <= n
  BY OrderFacts, CatalogFacts
<1>2. s \in Seq(PackagesOf(p)) /\ Len(s) = n
  BY <1>1, IsASeq
<1>3. ASSUME NEW m \in from..n
      PROVE  LET t == SubSeq(s, from + 1, m) IN
             /\ t \in Seq(PackagesOf(p)) /\ Len(t) = m - from /\ DOMAIN t = 1..m - from
             /\ \A i \in 1..m - from : t[i] = s[from + i]
  <2>1. \A i \in from + 1 .. m : s[i] \in PackagesOf(p)
    BY <1>1
  <2>2. /\ SubSeq(s, from + 1, m) \in Seq(PackagesOf(p))
        /\ Len(SubSeq(s, from + 1, m)) = (IF from + 1 <= m THEN m - (from + 1) + 1 ELSE 0)
        /\ \A i \in 1 .. m - (from + 1) + 1 : SubSeq(s, from + 1, m)[i] = s[from + 1 + i - 1]
    BY <1>1, <2>1, SubSeqProperties, SMTT(60)
  <2>3. Len(SubSeq(s, from + 1, m)) = m - from
    BY <1>1, <2>2
  <2>4. DOMAIN SubSeq(s, from + 1, m) = 1..m - from
    BY <2>2, <2>3, LenProperties
  <2>5. ASSUME NEW i \in 1..m - from PROVE SubSeq(s, from + 1, m)[i] = s[from + i]
    <3>1. from + 1 + i - 1 = from + i /\ i \in 1 .. m - (from + 1) + 1
      BY <1>1
    <3> QED
      BY <2>2, <3>1
  <2> QED
    BY <2>2, <2>3, <2>4, <2>5
<1>4. r = <<>> => Len(r) = 0
  OBVIOUS
<1>5. CASE PluginPageSize > 0
  <2> DEFINE m == Upto(from + PluginPageSize, Len(s))
  <2>1. m \in from..n /\ (m = from + PluginPageSize \/ m = n)
    BY <1>1, <1>2, <1>5 DEF Upto
  <2>2. r = SubSeq(s, from + 1, m)
    BY <1>5 DEF PageOf
  <2> HIDE DEF m, s, n
  <2>3. /\ r \in Seq(PackagesOf(p)) /\ Len(r) = m - from /\ DOMAIN r = 1..m - from
        /\ \A i \in 1..m - from : r[i] = s[from + i]
    BY <1>3, <2>1, <2>2
  <2> QED
    BY <1>1, <1>4, <1>5, <2>1, <2>3 DEF s, n
<1>6. CASE PluginPageSize = 0 /\ catalog[p].kind # "flux"
  <2>1. r = SubSeq(s, from + 1, n) /\ n \in from..n
    BY <1>1, <1>2, <1>6 DEF PageOf
  <2> HIDE DEF s, n
  <2>2. /\ r \in Seq(PackagesOf(p)) /\ Len(r) = n - from /\ DOMAIN r = 1..n - from
        /\ \A i \in 1..n - from : r[i] = s[from + i]
    BY <1>3, <2>1
  <2> QED
    BY <1>1, <1>4, <2>2 DEF s, n
<1>7. CASE PluginPageSize = 0 /\ catalog[p].kind = "flux"
  <2>1. from = 0
    BY <1>7 DEF Honest, GoesOn
  <2>2. r = s
    BY <1>7 DEF PageOf
  <2>3. DOMAIN s = 1..n
    BY <1>1
  <2> QED
    BY <1>1, <1>2, <1>4, <2>1, <2>2, <2>3
<1> QED
  BY <1>1, <1>5, <1>6, <1>7

LEMMA NoPageSize == ASSUME FixedTyped, pageSize = 0 PROVE PluginPageSize = 0
<1>1. ASSUME NEW n \in Nat, n > 1 PROVE 0 \div (n - 1) = 0
  BY <1>1, Z3
<1> QED
  BY <1>1, CatalogFacts DEF PluginPageSize

\* What leaves a plugin, or the handler, alone.
LEMMA ChannelStays ==
  ASSUME UNCHANGED fixed, NEW p, ChannelRight(p), mpc = "sendError" => mpc' = "sendError",
         ppc'[p] = ppc[p], page'[p] = page[p], offset'[p] = offset[p], more'[p] = more[p]
  PROVE  ChannelRight(p)'
  BY OrdersStay DEF ChannelRight

LEMMA HeadStays ==
  ASSUME UNCHANGED fixed, NEW p, HeadRight(p), next'[p] = next[p] PROVE HeadRight(p)'
  BY OrdersStay DEF HeadRight

LEMMA MapStays ==
  ASSUME UNCHANGED <<fixed, listed, pkgs>>, NEW p, MapRight(p),
         Offset(offsets, p)' = Offset(offsets, p), next'[p] = next[p], offset'[p] = offset[p]
  PROVE  MapRight(p)'
  BY OrdersStay DEF MapRight, AllOf, Given, CountOf

LEMMA HandlerStays ==
  ASSUME OrderInv, UNCHANGED <<fixed, token, listed, hpc, pkgs, got>>,
         hpc \in {"collect", "finish"} =>
            MergerRight' /\ \A p \in Plugins : ChannelRight(p)' /\ HeadRight(p)' /\ MapRight(p)'
  PROVE  OrderInv'
<1>1. Plugins' = Plugins /\ pageSize' = pageSize
  BY OrdersStay
<1>2. Right(listed)' /\ (Right(Given) => Right(Given)')
  BY RightStays DEF OrderInv, Given
<1>3. \A p : AllOf(listed, p)' = AllOf(listed, p) /\ Offset(token, p)' = Offset(token, p)
  BY OrdersStay DEF AllOf, CountOf, Offset
<1> QED
  BY <1>1, <1>2, <1>3 DEF OrderInv

LEMMA PluginsKeepOrder ==
  ASSUME Typed, ProgressInv, Orderly, OrderInv, NEW p \in Plugins, PluginStep(p) PROVE OrderInv'
<1>1. UNCHANGED <<fixed, token, handler, merger, offset, listed>>
  BY DEF PluginStep, Fetch, FetchFails
<1> SUFFICES ASSUME hpc \in {"collect", "finish"}
             PROVE  MergerRight' /\ \A q \in Plugins : ChannelRight(q)' /\ HeadRight(q)' /\ MapRight(q)'
  BY <1>1, HandlerStays DEF handler
<1>2. MergerRight /\ \A q \in Plugins : ChannelRight(q) /\ HeadRight(q) /\ MapRight(q)
  BY DEF OrderInv
<1>3. MergerRight'
  BY <1>1, <1>2 DEF MergerRight, merger, fixed, Offset, Plugins
<1>4. ASSUME NEW q \in Plugins PROVE HeadRight(q)' /\ MapRight(q)'
  <2>1. next' = next /\ offset' = offset /\ offsets' = offsets /\ UNCHANGED <<fixed, listed, pkgs>>
    BY <1>1 DEF merger, handler
  <2> QED
    BY <1>2, <2>1, HeadStays, MapStays DEF Offset
<1>5. DOMAIN ppc = Plugins /\ DOMAIN page = Plugins /\ DOMAIN more = Plugins /\ PluginTyped(p)
  BY DEF Typed, PluginsTyped
<1>6. ASSUME NEW q \in Plugins, q # p PROVE ChannelRight(q)'
  <2>1. ppc'[q] = ppc[q] /\ page'[q] = page[q] /\ offset'[q] = offset[q] /\ more'[q] = more[q] /\ mpc' = mpc
    BY <1>1, <1>5, <1>6 DEF PluginStep, Fetch, FetchFails, merger
  <2> QED
    BY <1>1, <1>2, <2>1, ChannelStays
<1>7. CASE Fetch(p)
  <2> DEFINE r == PageOf(p, Order(p), offset[p])
  <2>1. FixedTyped /\ Honest(p)
    BY DEF Typed, Orderly
  <2>2. page'[p] = r /\ more'[p] = (PluginPageSize > 0 /\ Len(r) = PluginPageSize)
        /\ ppc'[p] = (IF r = <<>> THEN "closed" ELSE "send")
    BY <1>5, <1>7, <2>1, OneListing DEF Fetch
  <2>3. offset[p] \in 0..Total(p) /\ (pageSize = 0 => offset[p] = 0)
    <3>1. ppc[p] = "fetch" /\ offset[p] \in Nat
      BY <1>5, <1>7 DEF Fetch, PluginTyped
    <3>2. InChannel(p) /\ CountOf(Given, p) <= Total(p) /\ CountOf(Given, p) \in Nat /\ Total(p) \in Nat
      BY <2>1, GivenCount, OrderFacts DEF ProgressInv, OrderInv, Right
    <3>3. next[p] # None => offset[p] \in 1..Total(p)
      BY <1>2, <3>2 DEF InChannel, HeadRight
    <3>4. offset[p] <= Total(p)
      BY <3>1, <3>2, <3>3 DEF InChannel, CompleteToken
    <3> QED
      BY <1>2, <3>1, <3>2, <3>4 DEF ChannelRight
  <2>4. /\ Len(r) \in Nat /\ offset[p] + Len(r) <= Total(p)
        /\ \A i \in DOMAIN r : r[i] = Order(p)[offset[p] + i]
        /\ PluginPageSize = 0 \/ Len(r) # PluginPageSize => offset[p] + Len(r) = Total(p)
        /\ r = <<>> => offset[p] = Total(p)
    BY <2>1, <2>3, PageRight
  <2>5. PluginPageSize \in Nat /\ (pageSize = 0 => PluginPageSize = 0)
    BY <2>1, CatalogFacts, NoPageSize
  <2>6. /\ Total(p)' = Total(p) /\ Order(p)' = Order(p) /\ PluginPageSize' = PluginPageSize
        /\ offset'[p] = offset[p] /\ pageSize' = pageSize
    BY <1>1, OrdersStay
  <2> HIDE DEF r
  <2>7. ChannelRight(p)'
    <3>1. PluginPageSize = 0 => ~more'[p]
      <4>1. PluginPageSize = 0 => ~(PluginPageSize > 0)
        BY <2>5
      <4> QED
        BY <2>2, <4>1, Zenon
    <3>2. ~more'[p] => PluginPageSize = 0 \/ Len(r) # PluginPageSize
      <4>1. PluginPageSize # 0 => PluginPageSize > 0
        BY <2>5
      <4> QED
        BY <2>2, <4>1, Zenon
    <3>3. CASE r = <<>>
      BY <2>2, <2>4, <2>6, <3>1, <3>3 DEF ChannelRight
    <3>4. CASE r # <<>>
      <4>1. ppc'[p] = "send" /\ page'[p] = r
        BY <2>2, <3>4
      <4> QED
        BY <2>4, <2>6, <3>1, <3>2, <4>1 DEF ChannelRight
    <3> QED
      BY <3>3, <3>4
  <2> QED
    BY <1>3, <1>4, <1>6, <2>7
<1>8. CASE FetchFails(p)
  <2>1. ppc'[p] = "error" /\ page'[p] = page[p] /\ offset'[p] = offset[p] /\ more'[p] = more[p]
    BY <1>5, <1>8 DEF FetchFails
  <2>2. ChannelRight(p)'
    BY <1>1, <1>2, <2>1, OrdersStay DEF ChannelRight
  <2> QED
    BY <1>3, <1>4, <1>6, <2>2
<1> QED
  BY <1>7, <1>8 DEF PluginStep

LEMMA MergerKeepsOrder == ASSUME Typed, ProgressInv, Orderly, OrderInv, MergerStep PROVE OrderInv'
<1>1. UNCHANGED <<fixed, token, handler, listed, numSent>> /\ mpc = "populate"
  BY DEF MergerStep, Pass, NothingLeft, ReadPackage, ReadError, ReadClosed, Choose, Reads
<1> SUFFICES ASSUME hpc \in {"collect", "finish"}
             PROVE  MergerRight' /\ \A q \in Plugins : ChannelRight(q)' /\ HeadRight(q)' /\ MapRight(q)'
  BY <1>1, HandlerStays DEF handler
<1>2. /\ MergerRight /\ \A q \in Plugins : ChannelRight(q) /\ HeadRight(q) /\ MapRight(q)
      /\ \A q \in Plugins : InChannel(q) /\ CountOf(Given, q) <= Total(q)
  BY DEF OrderInv, ProgressInv, Right
<1>3. /\ Plugins' = Plugins /\ Plugins = 1..Len(catalog) /\ Len(catalog) \in Nat \ {0}
      /\ turn \in 1..Len(catalog) + 1
      /\ DOMAIN ppc = Plugins /\ DOMAIN page = Plugins /\ DOMAIN offset = Plugins /\ DOMAIN next = Plugins
  BY <1>1, CatalogFacts, OrdersStay DEF Typed, MergerTyped, PluginsTyped
<1>4. \A q \in Plugins : CountOf(Given, q) \in Nat /\ Total(q) \in Nat
  BY GivenCount, OrderFacts DEF Orderly, Typed
<1>5. \A q \in 1..turn - 1 : next[q] # None \/ Offset(offsets, q) = CompleteToken
  BY <1>1, <1>2 DEF MergerRight
<1>6. ASSUME UNCHANGED plugins, NEW q \in Plugins PROVE ChannelRight(q)'
  BY <1>1, <1>2, <1>6, ChannelStays DEF plugins
<1>7. ASSUME NEW q \in Plugins, next'[q] = next[q] PROVE HeadRight(q)'
  BY <1>1, <1>2, <1>7, HeadStays
<1>8. ASSUME NEW q \in Plugins, next'[q] = next[q], offset'[q] = offset[q],
             Offset(offsets, q)' = Offset(offsets, q)
      PROVE  MapRight(q)'
  BY <1>1, <1>2, <1>8, MapStays DEF handler
<1>9. CASE Pass
  <2>1. UNCHANGED <<offsets, mpc, next, out, plugins>> /\ turn' = turn + 1 /\ turn \in Plugins /\ next[turn] # None
    BY <1>9 DEF Pass
  <2>2. MergerRight'
    <3>1. \A q \in 1..turn' - 1 : next[q] # None \/ Offset(offsets, q) = CompleteToken
      BY <1>3, <1>5, <2>1
    <3> QED
      BY <1>1, <2>1, <3>1 DEF MergerRight, Offset
  <2> QED
    BY <1>6, <1>7, <1>8, <2>1, <2>2 DEF Offset, plugins
<1>10. CASE NothingLeft
  <2>1. UNCHANGED <<offsets, turn, next, out, plugins>> /\ mpc' = "closed" /\ turn \notin Plugins /\ Ready = {}
    BY <1>10 DEF NothingLeft
  <2>2. \A q \in Plugins : Offset(offsets, q) = CompleteToken
    <3>1. Plugins = 1..turn - 1
      BY <1>3, <2>1
    <3> QED
      BY <1>5, <2>1, <3>1 DEF Ready
  <2>3. MergerRight'
    BY <1>3, <2>1, <2>2 DEF MergerRight, Offset
  <2> QED
    BY <1>6, <1>7, <1>8, <2>1, <2>3 DEF Offset, plugins
<1>11. ASSUME NEW p \in Plugins, ReadPackage(p)
       PROVE  MergerRight' /\ \A q \in Plugins : ChannelRight(q)' /\ HeadRight(q)' /\ MapRight(q)'
  <2>1. /\ UNCHANGED <<offsets, mpc, out, more>> /\ turn' = turn + 1 /\ p = turn
        /\ next[p] = None /\ ppc[p] = "send"
        /\ next' = [next EXCEPT ![p] = [package |-> Head(page[p]), offset |-> offset[p] + 1]]
        /\ page' = [page EXCEPT ![p] = Tail(page[p])] /\ offset' = [offset EXCEPT ![p] = offset[p] + 1]
        /\ ppc' = [ppc EXCEPT ![p] = IF Len(page[p]) > 1 THEN "send" ELSE IF more[p] THEN "fetch" ELSE "closed"]
    BY <1>11 DEF ReadPackage, Reads, AfterSend
  <2>2. /\ page[p] \in Seq(PackagesOf(p)) /\ page[p] # <<>> /\ offset[p] \in Nat /\ more[p] \in BOOLEAN
    BY <2>1 DEF Typed, PluginsTyped, PluginTyped
  <2>3. /\ Head(page[p]) = page[p][1] /\ Len(page[p]) \in Nat \ {0} /\ DOMAIN page[p] = 1..Len(page[p])
        /\ Len(Tail(page[p])) = Len(page[p]) - 1 /\ DOMAIN Tail(page[p]) = 1..Len(page[p]) - 1
        /\ \A i \in 1..Len(page[p]) - 1 : Tail(page[p])[i] = page[p][i + 1]
    <3>1. /\ Tail(page[p]) \in Seq(PackagesOf(p)) /\ Len(Tail(page[p])) = Len(page[p]) - 1
          /\ \A i \in 1..Len(Tail(page[p])) : Tail(page[p])[i] = page[p][i + 1]
      BY <2>2, HeadTailProperties
    <3>2. Len(page[p]) \in Nat \ {0} /\ DOMAIN page[p] = 1..Len(page[p])
      BY <2>2, EmptySeq, LenProperties
    <3>3. DOMAIN Tail(page[p]) = 1..Len(Tail(page[p]))
      BY <3>1, LenProperties
    <3> QED
      BY <2>2, <3>1, <3>2, <3>3
  <2>4. /\ next'[p] = [package |-> page[p][1], offset |-> offset[p] + 1] /\ next'[p] # None
        /\ page'[p] = Tail(page[p]) /\ offset'[p] = offset[p] + 1 /\ more'[p] = more[p]
        /\ ppc'[p] = IF Len(page[p]) > 1 THEN "send" ELSE IF more[p] THEN "fetch" ELSE "closed"
    BY <1>3, <2>1, <2>3, HeadIsSomething
  <2>5. /\ offset[p] + Len(page[p]) <= Total(p)
        /\ \A i \in 1..Len(page[p]) : page[p][i] = Order(p)[offset[p] + i]
        /\ ~more[p] => offset[p] + Len(page[p]) = Total(p)
        /\ PluginPageSize = 0 => ~more[p]
    BY <1>2, <2>1, <2>3 DEF ChannelRight
  <2>6. /\ Total(p)' = Total(p) /\ Order(p)' = Order(p) /\ PluginPageSize' = PluginPageSize /\ pageSize' = pageSize
        /\ (pageSize = 0 => PluginPageSize = 0)
    BY <1>1, OrdersStay, NoPageSize DEF Typed
  <2>7. ChannelRight(p)'
    <3>1. CASE Len(page[p]) > 1
      <4>1. \A i \in DOMAIN page'[p] : page'[p][i] = Order(p)[offset'[p] + i]
        <5> SUFFICES ASSUME NEW i \in 1..Len(page[p]) - 1
                     PROVE  page[p][i + 1] = Order(p)[offset[p] + 1 + i]
          BY <2>3, <2>4
        <5>1. i + 1 \in 1..Len(page[p]) /\ offset[p] + (i + 1) = offset[p] + 1 + i
          BY <2>2, <2>3, SMTT(60)
        <5> QED
          BY <2>5, <5>1
      <4>2. offset'[p] + Len(page'[p]) = offset[p] + Len(page[p])
        <5>1. \A a, b \in Nat : (a + 1) + (b - 1) = a + b
          OBVIOUS
        <5>2. offset'[p] + Len(page'[p]) = (offset[p] + 1) + (Len(page[p]) - 1) /\ Len(page[p]) \in Nat
          BY <2>3, <2>4
        <5> QED
          BY <2>2, <5>1, <5>2
      <4> QED
        BY <2>4, <2>5, <2>6, <3>1, <4>1, <4>2 DEF ChannelRight
    <3>2. CASE ~(Len(page[p]) > 1)
      <4>1. Len(page[p]) = 1
        <5>1. \A n \in Nat \ {0} : ~(n > 1) => n = 1
          OBVIOUS
        <5> QED
          BY <2>3, <3>2, <5>1
      <4> QED
        BY <2>4, <2>5, <2>6, <3>2, <4>1 DEF ChannelRight
    <3> QED
      BY <3>1, <3>2
  <2>8. HeadRight(p)'
    <3>1. offset[p] + 1 \in 1..Total(p) /\ page[p][1] = Order(p)[offset[p] + 1]
      BY <1>4, <2>2, <2>3, <2>5, SMTT(60)
    <3>2. next'[p].package = page[p][1] /\ next'[p].offset = offset[p] + 1
      BY <2>4
    <3> QED
      BY <2>6, <3>1, <3>2 DEF HeadRight
  <2>9. MapRight(p)'
    <3>1. offset[p] = CountOf(Given, p)
      BY <1>2, <1>4, <2>1, <2>2, SMTT(60) DEF InChannel, CompleteToken
    <3>2. ~AllOf(Given, p)
      BY <1>4, <2>2, <2>3, <2>5, <3>1 DEF AllOf
    <3>3. Offset(offsets, p) # CompleteToken
      BY <1>2, <3>2 DEF MapRight
    <3>4. Offset(offsets, p)' # CompleteToken /\ offset'[p] # CompleteToken
      BY <2>1, <2>2, <2>4, <3>3 DEF Offset, CompleteToken
    <3> QED
      BY <3>4 DEF MapRight
  <2>10. MergerRight'
    <3>1. \A q \in 1..turn' - 1 : next'[q] # None \/ Offset(offsets, q) = CompleteToken
      BY <1>3, <1>5, <2>1, <2>4, SMTT(60)
    <3> QED
      BY <1>1, <2>1, <3>1 DEF MergerRight, Offset
  <2>11. ASSUME NEW q \in Plugins, q # p PROVE ChannelRight(q)' /\ HeadRight(q)' /\ MapRight(q)'
    <3>1. /\ ppc'[q] = ppc[q] /\ page'[q] = page[q] /\ offset'[q] = offset[q] /\ more'[q] = more[q]
          /\ next'[q] = next[q] /\ mpc' = mpc /\ Offset(offsets, q)' = Offset(offsets, q)
      BY <1>3, <2>1, <2>11 DEF Offset
    <3> QED
      BY <1>1, <1>2, <1>7, <1>8, <3>1, ChannelStays
  <2> QED
    BY <2>7, <2>8, <2>9, <2>10, <2>11
<1>12. ASSUME NEW p \in Plugins, ReadError(p)
       PROVE  MergerRight' /\ \A q \in Plugins : ChannelRight(q)' /\ HeadRight(q)' /\ MapRight(q)'
  <2>1. UNCHANGED <<offsets, next, page, offset, more>> /\ mpc' = "sendError" /\ ppc' = [ppc EXCEPT ![p] = "closed"]
    BY <1>12 DEF ReadError
  <2>2. \A q \in Plugins : HeadRight(q)' /\ MapRight(q)'
    BY <1>7, <1>8, <2>1 DEF Offset
  <2>3. MergerRight'
    BY <2>1 DEF MergerRight
  <2>4. ASSUME NEW q \in Plugins PROVE ChannelRight(q)'
    <3>1. ppc'[q] = "closed" \/ ppc'[q] = ppc[q]
      BY <1>3, <2>1
    <3> QED
      BY <1>1, <1>2, <2>1, <3>1, OrdersStay DEF ChannelRight
  <2> QED
    BY <2>2, <2>3, <2>4
<1>13. ASSUME NEW p \in Plugins, ReadClosed(p)
       PROVE  MergerRight' /\ \A q \in Plugins : ChannelRight(q)' /\ HeadRight(q)' /\ MapRight(q)'
  <2>1. /\ UNCHANGED <<mpc, next, out, plugins>> /\ turn' = turn + 1 /\ p = turn /\ next[p] = None /\ ppc[p] = "closed"
        /\ SetOffset(p, CompleteToken)
    BY <1>13 DEF ReadClosed, Reads
  <2>2. Offset(offsets, p)' = CompleteToken /\ \A q \in Plugins \ {p} : Offset(offsets, q)' = Offset(offsets, q)
    BY <1>1, <2>1, SetOffsetType
  <2>3. AllOf(Given, p)
    <3>1. CASE offset[p] = CompleteToken
      BY <1>2, <3>1 DEF MapRight
    <3>2. CASE offset[p] # CompleteToken
      BY <1>1, <1>2, <1>4, <2>1, <3>2 DEF ChannelRight, InChannel, AllOf
    <3> QED
      BY <3>1, <3>2
  <2>4. MapRight(p)'
    <3>1. AllOf(Given, p)'
      BY <1>1, <2>3, OrdersStay DEF AllOf, Given, CountOf, handler
    <3> QED
      BY <2>1, <2>2, <3>1 DEF MapRight
  <2>5. MergerRight'
    <3>1. \A q \in 1..turn' - 1 : next[q] # None \/ Offset(offsets, q)' = CompleteToken
      BY <1>3, <1>5, <2>1, <2>2
    <3> QED
      BY <1>1, <2>1, <3>1 DEF MergerRight
  <2>6. \A q \in Plugins : ChannelRight(q)' /\ HeadRight(q)'
    BY <1>6, <1>7, <2>1
  <2>7. \A q \in Plugins \ {p} : MapRight(q)'
    BY <1>8, <2>1, <2>2 DEF plugins
  <2> QED
    BY <2>4, <2>5, <2>6, <2>7
<1>14. ASSUME NEW p \in Plugins, Choose(p)
       PROVE  MergerRight' /\ \A q \in Plugins : ChannelRight(q)' /\ HeadRight(q)' /\ MapRight(q)'
  <2>1. /\ UNCHANGED <<turn, next, plugins>> /\ mpc' = "send" /\ next[p] # None
        /\ out' = [plugin |-> p, package |-> next[p].package] /\ SetOffset(p, next[p].offset)
    BY <1>14 DEF Choose, Ready
  <2>2. next[p].offset \in Nat
    BY <2>1 DEF Typed, MergerTyped, HeadOf
  <2>3. /\ Offset(offsets, p)' = next[p].offset
        /\ \A q \in Plugins \ {p} : Offset(offsets, q)' = Offset(offsets, q)
    BY <1>1, <2>1, <2>2, SetOffsetType
  <2>4. p \in DOMAIN offsets' /\ offsets'[p] = next[p].offset /\ next[p].offset # CompleteToken
    BY <2>1, <2>2 DEF SetOffset, CompleteToken
  <2>5. MergerRight'
    <3>1. out'.plugin = p /\ out'.package = next'[p].package
      BY <2>1
    <3> QED
      BY <2>1, <2>4, <3>1 DEF MergerRight
  <2>6. MapRight(p)'
    <3>1. offset'[p] # CompleteToken
      BY <1>2, <2>1 DEF InChannel, plugins
    <3> QED
      BY <2>3, <2>4, <3>1 DEF MapRight
  <2>7. \A q \in Plugins \ {p} : MapRight(q)'
    BY <1>8, <2>1, <2>3 DEF plugins
  <2>8. \A q \in Plugins : ChannelRight(q)' /\ HeadRight(q)'
    BY <1>6, <1>7, <2>1
  <2> QED
    BY <2>5, <2>6, <2>7, <2>8
<1> QED
  BY <1>9, <1>10, <1>11, <1>12, <1>13, <1>14 DEF MergerStep

LEMMA HandlerKeepsOrder == ASSUME Typed, ProgressInv, Orderly, OrderInv, HandlerStep PROVE OrderInv'
<1>1. UNCHANGED <<fixed, offsets, plugins>> /\ Plugins' = Plugins /\ hpc \in {"collect", "finish"}
  BY OrdersStay DEF HandlerStep, Receive, ReceiveError, ReceiveClosed, Finish, merger
<1>2. /\ Right(listed) /\ Right(Given) /\ (got <=> pkgs # <<>>) /\ MergerRight
      /\ \A q \in Plugins : ChannelRight(q) /\ HeadRight(q) /\ MapRight(q) /\ InChannel(q)
      /\ PageBounded
  BY <1>1 DEF OrderInv, ProgressInv
<1>3. FixedTyped /\ Given \in Seq(AllItems)
  BY ConcatProperties DEF Typed, HandlerTyped, Given
<1>4. ASSUME NEW q \in Plugins, mpc # "sendError" PROVE ChannelRight(q)'
  BY <1>1, <1>2, <1>4, ChannelStays DEF plugins
<1>5. CASE Receive
  <2>1. /\ UNCHANGED listed /\ mpc = "send" /\ pkgs' = Append(pkgs, out) /\ got' = TRUE
        /\ hpc' \in {"collect", "finish"} /\ turn' = 1 /\ numSent' = numSent + 1
        /\ mpc' = (IF numSent + 1 = pageSize THEN "closed" ELSE "populate")
        /\ next' = [next EXCEPT ![out.plugin] = None]
    BY <1>5 DEF Receive, AfterDelivery
  <2>2. out \in AllItems /\ out.plugin \in Plugins /\ next[out.plugin] # None /\ DOMAIN next = Plugins
    BY <1>5, ItemParts DEF Receive, Typed, MergerTyped
  <2> DEFINE p == out.plugin
  <2>3. next'[p] = None /\ \A q \in Plugins \ {p} : next'[q] = next[q]
    BY <2>1, <2>2
  <2>4. /\ out.package = next[p].package /\ p \in DOMAIN offsets /\ offsets[p] # CompleteToken
    BY <1>2, <2>1 DEF MergerRight
  <2>5. \A q : /\ CountOf(Given, q)' = CountOf(Given, q) + (IF p = q THEN 1 ELSE 0)
               /\ CountOf(Given, q) \in Nat
    BY <2>1, <2>2, GivenOneMore, ZenonT(60) DEF Given, CountOf
  <2>6. /\ next[p].offset = CountOf(Given, p) + 1 /\ next[p].offset \in 1..Total(p)
        /\ next[p].package = Order(p)[next[p].offset] /\ Total(p) \in Nat
    <3>1. next[p].offset \in 1..Total(p) /\ next[p].package = Order(p)[next[p].offset]
      BY <1>2, <2>2 DEF HeadRight
    <3>2. next[p].offset = CountOf(Given, p) + 1
      BY <1>2, <2>2 DEF InChannel
    <3> QED
      BY <1>3, <2>2, <3>1, <3>2, OrderFacts DEF Orderly
  <2>7. Given' = Append(Given, out)
    <3>1. listed \in Seq(AllItems) /\ pkgs \in Seq(AllItems) /\ <<out>> \in Seq(AllItems)
      BY <2>2 DEF Typed, HandlerTyped
    <3>2. Append(pkgs, out) = pkgs \o <<out>> /\ Append(Given, out) = Given \o <<out>>
      BY <1>3, <2>2, <3>1, AppendIsConcat
    <3> QED
      BY <2>1, <3>1, <3>2, ConcatAssociative, SMTT(60) DEF Given
  <2>8. Right(Given)' /\ Right(listed)'
    <3>1. CountOf(Given, p) < Total(p) /\ out.package = Order(p)[CountOf(Given, p) + 1]
      BY <2>4, <2>5, <2>6
    <3>2. Right(Append(Given, out))
      BY <1>2, <1>3, <2>2, <3>1, RightAppend
    <3> QED
      BY <1>1, <1>2, <2>1, <2>7, <3>2, RightStays
  <2>9. got' <=> pkgs' # <<>>
    <3>1. pkgs' # <<>>
      BY <2>1, <2>2, AppendProperties DEF Typed, HandlerTyped
    <3> QED
      BY <2>1, <3>1
  <2>10. MergerRight'
    <3>1. pageSize \in Nat /\ numSent \in Nat /\ pageSize' = pageSize
      BY <1>1, <1>3, CatalogFacts DEF Typed, MergerTyped, fixed
    <3>2. mpc' = "closed" => numSent' = pageSize /\ pageSize > 0
      BY <2>1, <3>1
    <3>3. \E q \in DOMAIN offsets' : offsets'[q] # CompleteToken
      BY <1>1, <2>4
    <3>4. \A q \in 1..turn' - 1 : FALSE
      BY <2>1
    <3> QED
      BY <2>1, <3>1, <3>2, <3>3, <3>4 DEF MergerRight
  <2>11. ASSUME NEW q \in Plugins PROVE ChannelRight(q)' /\ HeadRight(q)' /\ MapRight(q)'
    <3>1. ChannelRight(q)'
      BY <1>4, <2>1
    <3>2. HeadRight(q)'
      <4>1. CASE q = p
        BY <2>3, <4>1 DEF HeadRight
      <4>2. CASE q # p
        BY <1>1, <1>2, <2>3, <4>2, HeadStays
      <4> QED
        BY <4>1, <4>2
    <3>3. MapRight(q)'
      <4>1. Offset(offsets, q)' = Offset(offsets, q) /\ offset'[q] = offset[q]
        BY <1>1 DEF Offset, plugins
      <4>2. CASE q = p
        <5>1. Offset(offsets, q) # CompleteToken
          BY <2>4, <4>2 DEF Offset
        <5> QED
          BY <1>2, <4>1, <5>1 DEF MapRight
      <4>3. CASE q # p
        <5>1. AllOf(Given, q) => AllOf(Given, q)'
          <6>1. CountOf(Given, q)' = CountOf(Given, q) /\ Total(q)' = Total(q)
            BY <1>1, <2>5, <4>3, OrdersStay
          <6> QED
            BY <6>1 DEF AllOf
        <5>2. next'[q] = next[q]
          BY <2>3, <4>3
        <5> QED
          BY <1>2, <4>1, <5>1, <5>2 DEF MapRight
      <4> QED
        BY <4>2, <4>3
    <3> QED
      BY <3>1, <3>2, <3>3
  <2> QED
    BY <1>1, <2>1, <2>8, <2>9, <2>10, <2>11 DEF OrderInv
<1>6. CASE ReceiveError
  <2>1. Right(listed)' /\ hpc' \in {"error", "nil"}
    BY <1>1, <1>2, <1>6, RightStays DEF ReceiveError
  <2> QED
    BY <2>1 DEF OrderInv
<1>7. CASE ReceiveClosed
  <2>1. /\ UNCHANGED <<listed, pkgs, got, turn, next, out, numSent, mpc>> /\ mpc = "closed" /\ hpc' = "finish"
    BY <1>7 DEF ReceiveClosed, merger
  <2>2. Right(listed)' /\ Right(Given)'
    BY <1>1, <1>2, <2>1, RightStays DEF Given
  <2>3. MergerRight'
    BY <1>1, <1>2, <2>1 DEF MergerRight, fixed, Offset
  <2>4. ASSUME NEW q \in Plugins PROVE ChannelRight(q)' /\ HeadRight(q)' /\ MapRight(q)'
    BY <1>1, <1>2, <1>4, <2>1, HeadStays, MapStays DEF Offset, plugins
  <2> QED
    BY <1>1, <1>2, <2>1, <2>2, <2>3, <2>4 DEF OrderInv
<1>8. CASE Finish
  <2> DEFINE goesOn == got /\ \E p \in DOMAIN offsets : offsets[p] # CompleteToken
  <2>1. /\ hpc = "finish" /\ hpc' = (IF goesOn THEN "idle" ELSE "done")
        /\ token' = (IF goesOn THEN offsets ELSE <<>>) /\ listed' = Given
    BY <1>8 DEF Finish, Given
  <2>2. Right(listed)'
    BY <1>1, <1>2, <2>1, RightStays
  <2>3. \A q \in Plugins : AllOf(listed, q)' <=> AllOf(Given, q)
    BY <1>1, <2>1, OrdersStay DEF AllOf, CountOf
  <2>4. mpc = "closed" /\ numSent = Len(pkgs)
    BY <1>2, <2>1 DEF PageBounded
  <2>5. \/ \A p \in Plugins : Offset(offsets, p) = CompleteToken
        \/ numSent = pageSize /\ pageSize > 0 /\ \E p \in DOMAIN offsets : offsets[p] # CompleteToken
    BY <1>2, <2>4 DEF MergerRight
  <2>6. CASE \A p \in Plugins : Offset(offsets, p) = CompleteToken
    <3>1. ~goesOn
      <4>1. \A p \in DOMAIN offsets : p \in Plugins /\ Offset(offsets, p) = offsets[p]
        BY DEF Typed, MapTyped, Offset
      <4> QED
        BY <2>6, <4>1
    <3>2. hpc' = "done"
      BY <2>1, <3>1
    <3>3. \A q \in Plugins : AllOf(listed, q)'
      BY <1>2, <2>3, <2>6 DEF MapRight
    <3> QED
      BY <1>1, <2>2, <3>2, <3>3 DEF OrderInv
  <2>7. CASE numSent = pageSize /\ pageSize > 0 /\ \E p \in DOMAIN offsets : offsets[p] # CompleteToken
    <3>1. goesOn
      <4>1. Len(<<>>) = 0 /\ ~(0 > 0)
        OBVIOUS
      <4>2. pkgs # <<>>
        BY <2>4, <2>7, <4>1, Zenon
      <4> QED
        BY <1>2, <2>7, <4>2
    <3>2. hpc' = "idle" /\ token' = offsets
      BY <2>1, <3>1
    <3>3. \A q \in Plugins : Offset(token, q)' = CompleteToken => AllOf(listed, q)'
      BY <1>2, <2>3, <3>2 DEF MapRight, Offset
    <3>4. pageSize' # 0
      <4>1. pageSize \in Nat /\ pageSize' = pageSize
        BY <1>1, <1>3, CatalogFacts DEF fixed
      <4> QED
        BY <2>7, <4>1
    <3> QED
      BY <1>1, <2>2, <3>2, <3>3, <3>4 DEF OrderInv
  <2> QED
    BY <2>5, <2>6, <2>7
<1> QED
  BY <1>5, <1>6, <1>7, <1>8 DEF HandlerStep

LEMMA RequestKeepsOrder == ASSUME Typed, ProgressInv, Orderly, OrderInv, Request PROVE OrderInv'
<1>1. /\ UNCHANGED <<fixed, token, listed>> /\ Plugins' = Plugins /\ hpc = "idle" /\ hpc' = "collect"
      /\ pkgs' = <<>> /\ got' = FALSE /\ offsets' = token /\ mpc' = "populate" /\ turn' = 1
  BY OrdersStay DEF Request
<1>2. /\ Right(listed) /\ \A p \in Plugins : Told(token, listed, p)
      /\ \A p \in Plugins : Offset(token, p) = CompleteToken => AllOf(listed, p)
      /\ pageSize = 0 => token = <<>>
  BY <1>1 DEF OrderInv, ProgressInv
<1>3. Given' = listed
  BY <1>1, ConcatEmptySeq DEF Given, Typed, HandlerTyped
<1>4. Right(listed)' /\ Right(Given)'
  BY <1>1, <1>2, <1>3, RightStays
<1>5. MergerRight'
  <2>1. \A q \in 1..turn' - 1 : FALSE
    BY <1>1
  <2> QED
    BY <1>1, <2>1 DEF MergerRight
<1>6. ASSUME NEW p \in Plugins PROVE ChannelRight(p)' /\ HeadRight(p)' /\ MapRight(p)'
  <2>1. next'[p] = None /\ ppc'[p] = Starts(p) /\ more'[p] = FALSE /\ offset'[p] = Offset(token, p)
    BY DEF Request
  <2>2. ppc'[p] \in {"closed", "fetch"} /\ (ppc'[p] = "closed" => offset'[p] = CompleteToken)
    BY <2>1 DEF Starts
  <2>3. pageSize' = 0 => offset'[p] = 0
    <3>1. pageSize' = pageSize
      BY <1>1 DEF fixed
    <3> QED
      BY <1>2, <2>1, <3>1, EmptyMap DEF Offset
  <2>4. Offset(offsets, p)' = CompleteToken => AllOf(Given, p)'
    <3>1. Offset(offsets, p)' = Offset(token, p) /\ Total(p)' = Total(p) /\ CountOf(Given, p)' = CountOf(listed, p)
      BY <1>1, <1>3, OrdersStay DEF Offset, CountOf
    <3> QED
      BY <1>2, <3>1 DEF AllOf
  <2>5. MapRight(p)'
    BY <1>1, <2>1, <2>4 DEF MapRight, Offset
  <2>6. HeadRight(p)'
    BY <2>1 DEF HeadRight
  <2> QED
    BY <2>1, <2>2, <2>3, <2>5, <2>6 DEF ChannelRight
<1> QED
  BY <1>1, <1>4, <1>5, <1>6 DEF OrderInv

LEMMA OrderInit == Init => OrderedInv
<1> SUFFICES ASSUME Init, Orderly PROVE OrderInv
  BY DEF OrderedInv
<1>1. FixedTyped
  BY InitTyped DEF Typed
<1>2. listed = <<>> /\ token = <<>> /\ hpc = "idle"
  BY DEF Init
<1>3. Right(listed)
  BY <1>1, <1>2, RightStart
<1>4. \A p : Offset(token, p) # CompleteToken
  BY <1>2, EmptyMap DEF Offset, CompleteToken
<1> QED
  BY <1>2, <1>3, <1>4 DEF OrderInv

LEMMA StepKeepsOrder == Typed /\ ProgressInv /\ OrderedInv /\ [Next]_vars => OrderedInv'
<1> SUFFICES ASSUME Typed, ProgressInv, OrderedInv, [Next]_vars, Orderly' PROVE OrderInv'
  BY DEF OrderedInv
<1>1. UNCHANGED fixed
  BY DEF Next, vars, PluginStep, Fetch, FetchFails, MergerStep, Pass, NothingLeft, ReadPackage, ReadError,
         ReadClosed, Choose, HandlerStep, Receive, ReceiveError, ReceiveClosed, Finish, Request
<1>2. Orderly /\ OrderInv
  BY <1>1, OrdersStay DEF OrderedInv
<1>3. CASE UNCHANGED vars
  <2>1. UNCHANGED <<fixed, token, listed, hpc, pkgs, got>>
    BY <1>3 DEF vars, handler
  <2>2. MergerRight => MergerRight'
    BY <1>3 DEF MergerRight, vars, fixed, merger, Offset, Plugins
  <2>3. ASSUME NEW p PROVE ChannelRight(p) /\ HeadRight(p) /\ MapRight(p)
                            => ChannelRight(p)' /\ HeadRight(p)' /\ MapRight(p)'
    <3>1. UNCHANGED <<mpc, next, offsets, ppc, page, offset, more>>
      BY <1>3 DEF vars, merger, plugins
    <3> QED
      BY <1>1, <2>1, <3>1, ChannelStays, HeadStays, MapStays DEF Offset
  <2> QED
    BY <1>2, <2>1, <2>2, <2>3, HandlerStays DEF OrderInv
<1> QED
  BY <1>2, <1>3, PluginsKeepOrder, MergerKeepsOrder, HandlerKeepsOrder, RequestKeepsOrder DEF Next

LEMMA AlwaysOrdered == Spec => []OrderedInv
  BY AlwaysTyped, AlwaysProgress, OrderInit, StepKeepsOrder, PTL DEF Spec

LEMMA OrderListsOnce == Typed /\ OrderedInv => EachListedOnce
<1> SUFFICES ASSUME Typed, OrderInv, Orderly
             PROVE  IsInjective(listed) /\ (hpc = "done" => Range(listed) = AllItems)
  BY DEF OrderedInv, Orderly, EachListedOnce
<1>1. IsInjective(listed)
  BY DEF OrderInv, Right
<1>2. \A i \in DOMAIN listed : listed[i] \in AllItems
  BY ElementOfSeq, LenProperties DEF Typed, HandlerTyped
<1>3. ASSUME hpc = "done", NEW e \in AllItems PROVE e \in Range(listed)
  <2>1. e.plugin \in Plugins /\ e.package \in PackagesOf(e.plugin)
    BY ItemParts
  <2>2. PICK m \in 1..Total(e.plugin) : e.package = Order(e.plugin)[m]
    BY <2>1, OrderFacts DEF Orderly, Typed
  <2>3. CountOf(listed, e.plugin) = Total(e.plugin)
    BY <1>3, <2>1 DEF OrderInv, AllOf
  <2>4. PICK i \in DOMAIN listed : listed[i].plugin = e.plugin /\ listed[i].package = Order(e.plugin)[m]
    BY <2>1, <2>2, <2>3 DEF OrderInv, Right
  <2>5. listed[i] = e
    BY <1>2, <2>2, <2>4 DEF AllItems, Items
  <2> QED
    BY <2>5 DEF Range
<1>4. Range(listed) \subseteq AllItems
  BY <1>2 DEF Range
<1> QED
  BY <1>1, <1>3, <1>4

\* Page after page every package is listed, and once, if every plugin lists its packages
\* in the same order each time: for any plugins, packages and page sizes, and however
\* the goroutines run.
THEOREM PagesListEachOnce == Spec => []EachListedOnce
  BY AlwaysTyped, AlwaysOrdered, OrderListsOnce, PTL

-----------------------------------------------------------------------------
(* The order of the names.                                                   *)

Named == \A p \in Plugins : Honest(p) /\ ByName(p)

LEMMA NamesOf ==
  ASSUME FixedTyped, Named, NEW p \in Plugins
  PROVE  /\ \A m \in 1..Total(p) : Order(p)[m].name \in Nat
         /\ \A m, k \in 1..Total(p) : m <= k => Order(p)[m].name <= Order(p)[k].name
<1>1. /\ Order(p) \in Listings(p) /\ Order(p) \in [1..Total(p) -> PackagesOf(p)] /\ Total(p) \in Nat
  BY OneListing, OrderFacts DEF Named
<1>2. \A k \in PackagesOf(p) : k.name \in Nat
  <2>1. catalog \in Seq([kind : Kinds, packages : SUBSET [name : Nat, repo : Nat]])
    BY CatalogsAssumption DEF FixedTyped
  <2>2. catalog[p] \in [kind : Kinds, packages : SUBSET [name : Nat, repo : Nat]]
    BY <2>1, ElementOfSeq, CatalogFacts
  <2>3. PackagesOf(p) \subseteq [name : Nat, repo : Nat]
    BY <2>2 DEF PackagesOf
  <2> QED
    BY <2>3
<1>3. \A m \in 1..Total(p) : Order(p)[m].name \in Nat
  BY <1>1, <1>2
<1>4. \A m, k \in 1..Total(p) : m < k => Order(p)[m].name <= Order(p)[k].name
  BY <1>1 DEF Named, ByName
<1> QED
  BY <1>1, <1>3, <1>4

\* The names keep their order when one goes to the end that is not after what comes.
LEMMA SortedAppend ==
  ASSUME FixedTyped, Named, NEW s \in Seq(AllItems), Sorted(s), AllAhead(s), NEW e \in AllItems,
         CountOf(s, e.plugin) < Total(e.plugin),
         e.package = Order(e.plugin)[CountOf(s, e.plugin) + 1], Ahead(s, e.package.name)
  PROVE  Sorted(Append(s, e)) /\ AllAhead(Append(s, e))
<1> DEFINE t == Append(s, e)
           n == Len(s) + 1
           p == e.plugin
<1>1. /\ DOMAIN s = 1..Len(s) /\ Len(s) \in Nat /\ DOMAIN t = 1..n /\ t[n] = e
      /\ \A i \in 1..Len(s) : t[i] = s[i]
  BY AppendProperties, LenProperties
<1>2. p \in Plugins
  BY ItemParts
<1>3. \A q \in Plugins : CountOf(s, q) \in Nat /\ CountOf(t, q) \in Nat /\ CountOf(t, q) >= CountOf(s, q)
  <2> TAKE q \in Plugins
  <2>1. CountOf(s, q) \in Nat /\ CountOf(t, q) = CountOf(s, q) + (IF p = q THEN 1 ELSE 0)
    BY CountType, CountAppend
  <2> QED
    BY <2>1
<1>4. Total(p) \in Nat
  BY <1>2, OrderFacts DEF Named
<1>5. CountOf(s, p) + 1 \in CountOf(s, p) + 1..Total(p)
  BY <1>2, <1>3, <1>4
<1> HIDE DEF t, n, p
<1>6. \A i \in 1..Len(s) : s[i].package.name <= e.package.name
  BY <1>1, <1>2, <1>5 DEF AllAhead, Ahead, p
<1>7. Sorted(t)
  <2> SUFFICES ASSUME NEW i \in 1..n, NEW j \in 1..n, i < j
               PROVE  t[i].package.name <= t[j].package.name
    BY <1>1 DEF Sorted
  <2>1. i \in 1..Len(s) /\ (j \in 1..Len(s) \/ j = n)
    BY <1>1 DEF n
  <2> QED
    BY <1>1, <1>6, <2>1 DEF Sorted
<1>8. ASSUME NEW i \in 1..n PROVE Ahead(t, t[i].package.name)
  <2>1. Ahead(s, t[i].package.name)
    <3>1. i \in 1..Len(s) \/ i = n
      BY <1>1 DEF n
    <3> QED
      BY <1>1, <3>1 DEF AllAhead
  <2> SUFFICES ASSUME NEW q \in Plugins, NEW m \in CountOf(t, q) + 1..Total(q)
               PROVE  t[i].package.name <= Order(q)[m].name
    BY DEF Ahead
  <2>2. Total(q) \in Nat
    BY OrderFacts DEF Named
  <2>3. m \in CountOf(s, q) + 1..Total(q)
    BY <1>3, <2>2
  <2> QED
    BY <2>1, <2>3 DEF Ahead
<1> QED
  BY <1>1, <1>7, <1>8 DEF AllAhead, t

\* The order of the names is of what has been given.
LEMMA NamesStay ==
  ASSUME UNCHANGED fixed, NEW s, NEW t, t = s, NEW x, NEW y, y = x
  PROVE  /\ Sorted(s) => Sorted(t) /\ (AllAhead(s) => AllAhead(t)') /\ (Ahead(s, x) => Ahead(t, y)')
         /\ Named' = Named
<1>1. Plugins' = Plugins /\ \A p : Total(p)' = Total(p) /\ Order(p)' = Order(p)
      /\ Listings(p)' = Listings(p) /\ Honest(p)' = Honest(p)
  BY OrdersStay
<1>2. \A n : Ahead(s, n) => Ahead(s, n)'
  BY <1>1 DEF Ahead, CountOf
<1>3. Named' = Named
  BY <1>1 DEF Named, ByName
<1> QED
  BY <1>2, <1>3 DEF AllAhead

LEMMA MergerKeepsNames ==
  ASSUME Typed, ProgressInv, Named, OrderInv, SortedInv, MergerStep PROVE SortedInv'
<1>1. UNCHANGED <<fixed, listed, hpc, pkgs>> /\ mpc = "populate"
  BY DEF MergerStep, Pass, NothingLeft, ReadPackage, ReadError, ReadClosed, Choose, Reads, handler
<1>2. /\ Sorted(listed)' /\ (AllAhead(listed) => AllAhead(listed)')
      /\ (Sorted(Given) /\ AllAhead(Given) => Sorted(Given)' /\ AllAhead(Given)')
  BY <1>1, NamesStay DEF SortedInv, Given
<1> SUFFICES ASSUME hpc \in {"collect", "finish"}, mpc' = "send"
             PROVE  Ahead(Given, out.package.name)'
  BY <1>1, <1>2 DEF SortedInv
<1>3. PICK p \in Plugins : Choose(p)
  BY <1>1 DEF MergerStep, Pass, NothingLeft, ReadPackage, ReadError, ReadClosed, Choose
<1>4. /\ \A q \in Plugins : HeadRight(q) /\ MapRight(q) /\ InChannel(q)
      /\ \A q \in 1..turn - 1 : next[q] # None \/ Offset(offsets, q) = CompleteToken
  BY <1>1 DEF OrderInv, ProgressInv, MergerRight
<1>5. Plugins = 1..turn - 1
  BY <1>3, CatalogFacts DEF Choose, Typed, MergerTyped
<1>6. out'.package.name = next[p].package.name /\ next[p] # None
      /\ \A q \in Ready : \/ next[p].package.name < next[q].package.name
                          \/ next[p].package.name = next[q].package.name
  BY <1>3 DEF Choose, Ready
<1>7. next[p].package.name \in Nat
  BY <1>4, <1>6, NamesOf DEF HeadRight, Typed
<1>8. Ahead(Given, next[p].package.name)
  <2> SUFFICES ASSUME NEW q \in Plugins, NEW m \in CountOf(Given, q) + 1..Total(q)
               PROVE  next[p].package.name <= Order(q)[m].name
    BY DEF Ahead
  <2>1. CountOf(Given, q) \in Nat /\ Total(q) \in Nat /\ FixedTyped
    BY GivenCount, OrderFacts DEF Named, Typed
  <2>2. next[q] # None
    <3>1. ~AllOf(Given, q)
      BY <2>1 DEF AllOf
    <3> QED
      BY <1>4, <1>5, <3>1 DEF MapRight
  <2>3. /\ next[q].offset = CountOf(Given, q) + 1 /\ next[q].offset \in 1..Total(q)
        /\ next[q].package = Order(q)[next[q].offset]
    BY <1>4, <2>2 DEF HeadRight, InChannel
  <2>4. m \in 1..Total(q) /\ next[q].offset <= m
    BY <2>1, <2>3
  <2>5. /\ Order(q)[next[q].offset].name \in Nat /\ Order(q)[m].name \in Nat
        /\ Order(q)[next[q].offset].name <= Order(q)[m].name
    BY <2>1, <2>3, <2>4, NamesOf
  <2>6. next[p].package.name <= next[q].package.name
    BY <1>6, <1>7, <2>2, <2>3, <2>5 DEF Ready
  <2> QED
    BY <1>7, <2>3, <2>5, <2>6
<1>9. Given' = Given /\ out'.package.name = next[p].package.name
  BY <1>1, <1>6 DEF Given
<1> QED
  BY <1>1, <1>8, <1>9, OrdersStay DEF Ahead, CountOf

LEMMA HandlerKeepsNames ==
  ASSUME Typed, ProgressInv, Named, OrderInv, SortedInv, HandlerStep PROVE SortedInv'
<1>1. UNCHANGED <<fixed, offsets, plugins>> /\ hpc \in {"collect", "finish"}
  BY DEF HandlerStep, Receive, ReceiveError, ReceiveClosed, Finish, merger
<1>2. Sorted(listed) /\ Sorted(Given) /\ AllAhead(Given)
  BY <1>1 DEF SortedInv
<1>3. FixedTyped /\ Given \in Seq(AllItems)
  BY ConcatProperties DEF Typed, HandlerTyped, Given
<1>4. CASE Receive
  <2>1. /\ UNCHANGED listed /\ mpc = "send" /\ mpc' # "send" /\ pkgs' = Append(pkgs, out)
        /\ hpc' \in {"collect", "finish"} /\ hpc' # "idle"
    BY <1>4 DEF Receive, AfterDelivery
  <2>2. out \in AllItems /\ out.plugin \in Plugins /\ next[out.plugin] # None
    BY <1>4, ItemParts DEF Receive, Typed, MergerTyped
  <2>3. CountOf(Given, out.plugin) < Total(out.plugin)
        /\ out.package = Order(out.plugin)[CountOf(Given, out.plugin) + 1]
    <3>1. next[out.plugin].offset \in 1..Total(out.plugin)
          /\ next[out.plugin].package = Order(out.plugin)[next[out.plugin].offset]
      BY <1>1, <2>2 DEF OrderInv, HeadRight
    <3>2. next[out.plugin].offset = CountOf(Given, out.plugin) + 1
      BY <1>1, <2>2 DEF ProgressInv, InChannel
    <3>3. out.package = next[out.plugin].package
      BY <1>1, <2>1 DEF OrderInv, MergerRight
    <3>4. CountOf(Given, out.plugin) \in Nat /\ Total(out.plugin) \in Nat
      BY <1>3, <2>2, GivenCount, OrderFacts DEF Named
    <3> QED
      BY <3>1, <3>2, <3>3, <3>4
  <2>4. Given' = Append(Given, out)
    <3>1. listed \in Seq(AllItems) /\ pkgs \in Seq(AllItems) /\ <<out>> \in Seq(AllItems)
      BY <2>2 DEF Typed, HandlerTyped
    <3>2. Append(pkgs, out) = pkgs \o <<out>> /\ Append(Given, out) = Given \o <<out>>
      BY <1>3, <2>2, <3>1, AppendIsConcat
    <3> QED
      BY <2>1, <3>1, <3>2, ConcatAssociative DEF Given
  <2>5. Ahead(Given, out.package.name)
    BY <1>1, <2>1 DEF SortedInv
  <2>6. Sorted(Append(Given, out)) /\ AllAhead(Append(Given, out))
    BY <1>2, <1>3, <2>2, <2>3, <2>5, SortedAppend
  <2>7. Sorted(listed)' /\ Sorted(Given)' /\ AllAhead(Given)'
    BY <1>1, <1>2, <2>1, <2>4, <2>6, NamesStay
  <2> QED
    BY <2>1, <2>7 DEF SortedInv
<1>5. CASE ReceiveError
  BY <1>1, <1>2, <1>5, NamesStay DEF ReceiveError, SortedInv
<1>6. CASE ReceiveClosed
  <2>1. /\ mpc' # "send" /\ hpc' = "finish" /\ UNCHANGED listed /\ Given' = Given
    BY <1>6 DEF ReceiveClosed, merger, Given
  <2>2. Sorted(listed)' /\ Sorted(Given)' /\ AllAhead(Given)'
    BY <1>1, <1>2, <2>1, NamesStay
  <2> QED
    BY <2>1, <2>2 DEF SortedInv
<1>7. CASE Finish
  <2>1. hpc' \in {"idle", "done"} /\ listed' = Given
    BY <1>7 DEF Finish, Given
  <2>2. Sorted(listed)' /\ AllAhead(listed)'
    BY <1>1, <1>2, <2>1, NamesStay
  <2> QED
    BY <2>1, <2>2 DEF SortedInv
<1> QED
  BY <1>4, <1>5, <1>6, <1>7 DEF HandlerStep

LEMMA StepKeepsNames ==
  Typed /\ ProgressInv /\ OrderedInv /\ InOrderInv /\ [Next]_vars => InOrderInv'
<1> SUFFICES ASSUME Typed, ProgressInv, OrderedInv, InOrderInv, [Next]_vars, Named' PROVE SortedInv'
  BY DEF InOrderInv, Named
<1>1. UNCHANGED fixed
  BY DEF Next, vars, PluginStep, Fetch, FetchFails, MergerStep, Pass, NothingLeft, ReadPackage, ReadError,
         ReadClosed, Choose, HandlerStep, Receive, ReceiveError, ReceiveClosed, Finish, Request
<1>2. Named /\ Orderly /\ OrderInv /\ SortedInv
  <2>1. Named
    BY <1>1, NamesStay
  <2> QED
    BY <2>1 DEF Named, Orderly, OrderedInv, InOrderInv
<1>3. CASE UNCHANGED <<listed, hpc, pkgs, mpc, out>>
  BY <1>1, <1>2, <1>3, NamesStay DEF SortedInv, Given
<1>4. CASE Request
  <2>1. /\ hpc = "idle" /\ hpc' = "collect" /\ mpc' = "populate" /\ pkgs' = <<>> /\ listed' = listed
    BY <1>4 DEF Request
  <2>2. Given' = listed
    BY <2>1, ConcatEmptySeq DEF Given, Typed, HandlerTyped
  <2>3. Sorted(listed)' /\ Sorted(Given)' /\ AllAhead(Given)'
    BY <1>1, <1>2, <2>1, <2>2, NamesStay DEF SortedInv
  <2> QED
    BY <2>1, <2>3 DEF SortedInv
<1>5. ASSUME NEW p \in Plugins, PluginStep(p) PROVE SortedInv'
  BY <1>3, <1>5 DEF PluginStep, Fetch, FetchFails, handler, merger
<1> QED
  BY <1>2, <1>3, <1>4, <1>5, MergerKeepsNames, HandlerKeepsNames DEF Next, vars, handler, merger

LEMMA NamesInit == Init => InOrderInv
<1> SUFFICES ASSUME Init PROVE SortedInv
  BY DEF InOrderInv
<1>1. listed = <<>> /\ hpc = "idle"
  BY DEF Init
<1> QED
  BY <1>1, EmptyMap DEF SortedInv, Sorted, AllAhead

LEMMA AlwaysInOrder == Spec => []InOrderInv
  BY AlwaysTyped, AlwaysProgress, AlwaysOrdered, NamesInit, StepKeepsNames, PTL DEF Spec

\* The pages are in the order of the names, as if there were one plugin, if every plugin
\* lists its packages in that order: for any plugins, packages and page sizes.
THEOREM PagesInOrder == Spec => []NamesInOrder
<1>1. InOrderInv => NamesInOrder
  BY DEF InOrderInv, SortedInv, Sorted, NamesInOrder
<1> QED
  BY <1>1, AlwaysInOrder, PTL

=============================================================================

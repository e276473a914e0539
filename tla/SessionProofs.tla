---------------------------- MODULE SessionProofs ----------------------------
(***************************************************************************)
(* What the dashboard's session keeps, for any users, clusters and         *)
(* namespaces, any access and any number of moves.                         *)
(***************************************************************************)
EXTENDS Session, TLAPS

LivePages     == {"login", "root", "app"}
Requests      == {"namespaces", "exists", "create", "data"}
ClusterStates == [ns : Namespaces \cup {NoNS}, list : SUBSET Namespaces, error : BOOLEAN,
                  listed : BOOLEAN, named : BOOLEAN]
ClusterMaps   == UNION {[D -> ClusterStates] : D \in SUBSET AllClusters}
Stores == [authenticated : BOOLEAN, authenticating : BOOLEAN, expired : {FALSE}, error : BOOLEAN,
           config : BOOLEAN, current : AllClusters, clusters : ClusterMaps]
Storages == [token : Users \cup {Nobody}, oidc : BOOLEAN,
             stored : [AllClusters -> Namespaces \cup {NoNS}]]
Uis == [page : LivePages \cup {"loading", "signedout", "crashed"}, storage : Storages,
        initial : Namespaces \cup {NoNS}, seen : BOOLEAN \X AllClusters]
Accesses == [Users -> [AllClusters -> SUBSET Namespaces]]
Pasts == [oidc : BOOLEAN, valid : SUBSET Users, cookie : Users \cup {Nobody}, access : Accesses,
          moves : Nat, turns : Nat, late : BOOLEAN]
Calls == [kind : Requests \cup {"config", "validate", "cookie"}, cluster : AllClusters,
          ns : Namespaces \cup {NoNS}, who : Users \cup {Nobody}]

LEMMA MapsAre ==
  ASSUME NEW m
  PROVE  m \in ClusterMaps <=> DOMAIN m \subseteq AllClusters /\ m \in [DOMAIN m -> ClusterStates]
  BY DEF ClusterMaps

LEMMA MapApply ==
  ASSUME NEW m \in ClusterMaps, NEW c \in DOMAIN m
  PROVE  m[c] \in ClusterStates /\ c \in AllClusters
  BY MapsAre

LEMMA InitialMap ==
  ASSUME NEW h \in Namespaces \cup {NoNS}
  PROVE  /\ InitialClusters(h) \in ClusterMaps /\ DOMAIN InitialClusters(h) = {Default}
         /\ InitialClusters(h)[Default].ns = h
<1>1. [NoList EXCEPT !.ns = h] \in ClusterStates /\ [NoList EXCEPT !.ns = h].ns = h
  BY DEF NoList, ClusterStates
<1>2. DOMAIN InitialClusters(h) = {Default} /\ InitialClusters(h)[Default] = [NoList EXCEPT !.ns = h]
  BY DEF InitialClusters
<1>3. InitialClusters(h) \in [{Default} -> ClusterStates]
  BY <1>1 DEF InitialClusters
<1> QED
  BY <1>1, <1>2, <1>3, MapsAre DEF AllClusters

-----------------------------------------------------------------------------
(* What the reducers leave and change.                                       *)

LEMMA LoginReducers ==
  ASSUME NEW s \in Stores, NEW b \in BOOLEAN
  PROVE  /\ LET t == setAuthenticated(s, b)
            IN /\ t \in Stores /\ t.config = s.config /\ t.current = s.current
               /\ t.clusters = s.clusters /\ t.authenticated = b /\ ~t.authenticating
         /\ LET t == authenticating(s)
            IN /\ t \in Stores /\ t.config = s.config /\ t.current = s.current
               /\ t.clusters = s.clusters /\ ~t.authenticated /\ t.authenticating
         /\ LET t == authenticationError(s)
            IN /\ t \in Stores /\ t.config = s.config /\ t.current = s.current
               /\ t.clusters = s.clusters /\ t.authenticated = s.authenticated /\ ~t.authenticating
  BY DEF setAuthenticated, authenticating, authenticationError, Stores

LEMMA ClearedIs ==
  ASSUME NEW s \in Stores, NEW u \in Uis
  PROVE  LET t == Cleared(s, u)
         IN /\ t \in Stores /\ t.config = s.config /\ t.current = s.current
            /\ t.clusters = InitialClusters(u.initial) /\ ~t.authenticated /\ ~t.authenticating
<1> DEFINE r == setAuthenticated(s, FALSE)
<1>1. r \in Stores /\ r.config = s.config /\ r.current = s.current /\ ~r.authenticated /\ ~r.authenticating
  BY LoginReducers
<1> HIDE DEF r
<1>2. u.initial \in Namespaces \cup {NoNS}
  BY DEF Uis
<1>3. InitialClusters(u.initial) \in ClusterMaps
  BY <1>2, InitialMap
<1>4. LET t == clearClusters(r, u.initial)
      IN /\ t \in Stores /\ t.config = r.config /\ t.current = r.current
         /\ t.clusters = InitialClusters(u.initial) /\ t.authenticated = r.authenticated
         /\ t.authenticating = r.authenticating
  BY <1>1, <1>3 DEF clearClusters, Stores
<1> QED
  BY <1>1, <1>4 DEF Cleared, r

\* Of the reducers of reducers/cluster.ts.
SameLogin(s, t) == /\ t \in Stores /\ t.config = s.config /\ t.authenticated = s.authenticated
                   /\ t.authenticating = s.authenticating

LEMMA ConfigIs ==
  ASSUME ConstantsAssumption, NEW s \in Stores
  PROVE  LET t == receiveConfig(s)
         IN /\ t \in Stores /\ t.config /\ t.current = First /\ DOMAIN t.clusters = Clusters
            /\ t.authenticated = s.authenticated /\ t.authenticating = s.authenticating
            /\ \A c \in Clusters : t.clusters[c] = NoList
<1> DEFINE m == [c \in Clusters |-> NoList]
<1>1. m \in ClusterMaps /\ DOMAIN m = Clusters /\ \A c \in Clusters : m[c] = NoList
  BY MapsAre DEF NoList, ClusterStates, AllClusters
<1> HIDE DEF m
<1>2. LET t == [s EXCEPT !.config = TRUE, !.current = First, !.clusters = m]
      IN /\ t \in Stores /\ t.config /\ t.current = First /\ t.clusters = m
         /\ t.authenticated = s.authenticated /\ t.authenticating = s.authenticating
  BY <1>1 DEF Stores, ConstantsAssumption, AllClusters
<1> QED
  BY <1>1, <1>2 DEF receiveConfig, m

LEMMA PutIs ==
  ASSUME NEW s \in Stores, NEW c \in AllClusters, NEW e \in ClusterStates
  PROVE  LET t == Put(s, c, e)
         IN /\ SameLogin(s, t) /\ t.current = s.current
            /\ DOMAIN t.clusters = DOMAIN s.clusters \cup {c} /\ t.clusters[c] = e
            /\ \A k \in DOMAIN s.clusters : k # c => t.clusters[k] = s.clusters[k]
<1> DEFINE m == [k \in DOMAIN s.clusters \cup {c} |-> IF k = c THEN e ELSE s.clusters[k]]
<1>1. Put(s, c, e) = [s EXCEPT !.clusters = m]
  BY DEF Put, Stores
<1>2. /\ m \in ClusterMaps /\ DOMAIN m = DOMAIN s.clusters \cup {c} /\ m[c] = e
      /\ \A k \in DOMAIN s.clusters : k # c => m[k] = s.clusters[k]
  BY MapsAre DEF Stores
<1> HIDE DEF m
<1>3. LET t == [s EXCEPT !.clusters = m]
      IN SameLogin(s, t) /\ t.current = s.current /\ t.clusters = m
  BY <1>2 DEF Stores, SameLogin
<1> QED
  BY <1>1, <1>2, <1>3

\* That and another current cluster, as setNamespaceState and locationChange make it.
LEMMA MovedIs ==
  ASSUME NEW s \in Stores, NEW c \in AllClusters, NEW e \in ClusterStates
  PROVE  LET t == [Put(s, c, e) EXCEPT !.current = c]
         IN /\ SameLogin(s, t) /\ t.current = c
            /\ DOMAIN t.clusters = DOMAIN s.clusters \cup {c} /\ t.clusters[c] = e
            /\ \A k \in DOMAIN s.clusters : k # c => t.clusters[k] = s.clusters[k]
<1> DEFINE r == Put(s, c, e)
<1>1. /\ SameLogin(s, r) /\ DOMAIN r.clusters = DOMAIN s.clusters \cup {c} /\ r.clusters[c] = e
      /\ \A k \in DOMAIN s.clusters : k # c => r.clusters[k] = s.clusters[k]
  BY PutIs
<1> HIDE DEF r
<1>2. LET t == [r EXCEPT !.current = c]
      IN SameLogin(s, t) /\ t.current = c /\ t.clusters = r.clusters
  BY <1>1 DEF Stores, SameLogin
<1> QED
  BY <1>1, <1>2 DEF r

LEMMA KnownIs ==
  ASSUME NEW s \in Stores, NEW c
  PROVE  /\ Known(s, c) \in ClusterStates
         /\ c \in DOMAIN s.clusters => Known(s, c) = s.clusters[c]
         /\ c \notin DOMAIN s.clusters => /\ Known(s, c).ns = NoNS /\ ~Known(s, c).listed
                                        /\ ~Known(s, c).named
<1>1. Unlisted \in ClusterStates /\ Unlisted.ns = NoNS /\ ~Unlisted.listed /\ ~Unlisted.named
  BY DEF Unlisted, NoList, ClusterStates
<1> QED
  BY <1>1, MapApply DEF Known, Stores

-----------------------------------------------------------------------------
(* The invariant, of a state of the dashboard (s, u, cs, p): the same holds  *)
(* of what a step is given and of what it leaves.                            *)

Owner(u, p) == IF p.oidc THEN p.cookie ELSE u.storage.token

Typed(s, u, cs, p) ==
    /\ s \in Stores /\ u \in Uis /\ p \in Pasts /\ cs \subseteq Calls
    /\ \A c \in cs : c.kind = "validate" => c.who \in Users
    /\ ~p.late => \A c \in cs : c.kind \in Requests => c.who \in Users
    /\ \A c \in cs : c.kind \in {"exists", "create"} => c.ns \in Namespaces

\* Who is logged in has the token, or the cookie.  With a cookie all requests are of one user.
LoginOK(s, u, cs, p) ==
    /\ s.authenticating => ~s.authenticated /\ \E c \in cs : c.kind \in {"validate", "cookie"}
    /\ IF p.oidc
       THEN /\ u.storage.token = Nobody
            /\ s.authenticated => p.cookie \in Users
            /\ \A c \in cs : c.kind # "validate" /\ (c.kind # "config" => c.who = p.cookie)
       ELSE /\ ~u.storage.oidc
            /\ s.authenticated = (u.storage.token # Nobody)
            /\ \A c \in cs : c.kind # "cookie"

\* Of two logins at a time, one is that of a refusal that came late.
OneLogin(s, cs) ==
    \A c \in cs : c.kind = "validate" =>
        s.authenticating /\ \A d \in cs : d.kind = "validate" => d = c

\* A cluster's namespace is the user's, or that of the token of the page load, or of a URL.
IsOwn(e, c, u, p) ==
    \/ e.ns \in {NoNS, u.initial} \/ e.named
    \/ Owner(u, p) \in Users /\ e.ns \in p.access[Owner(u, p)][c]
NamespacesOwn(s, u, p) == \A c \in DOMAIN s.clusters : IsOwn(s.clusters[c], c, u, p)

\* The namespaces of the current cluster are asked for, or are there, or there are none.
Settled(e, c, u, p) ==
    LET has == p.access[Owner(u, p)][c]
    IN \/ has = {} /\ e.error
       \/ /\ has # {} /\ e.list = has /\ e.ns # NoNS
          /\ e.ns \in has \cup {u.initial} \/ e.named
ContextKnown(s, u, cs, p) ==
    \/ Kind("namespaces", s.current, NoNS, Owner(u, p)) \in cs
    \/ Settled(s.clusters[s.current], s.current, u, p)

\* What a step needs of what it is given.
Ready(s, u, cs, p) ==
    /\ Typed(s, u, cs, p) /\ LoginOK(s, u, cs, p)
    /\ s.config /\ u.page \in LivePages /\ \A c \in cs : c.kind # "config"
    /\ ~p.late => /\ OneLogin(s, cs) /\ NamespacesOwn(s, u, p)
                  /\ s.authenticated /\ u.seen = <<TRUE, s.current>> => ContextKnown(s, u, cs, p)

\* What a step leaves.
PagesOK(s, u, cs) ==
    /\ u.page = "loading" => cs = Getting /\ s = LoadedStore(u.storage)
    /\ u.page \in {"signedout", "crashed"} => cs = {}
    /\ ~(s.authenticated /\ s.authenticating)
    /\ u.page \in LivePages => /\ s.current \in DOMAIN s.clusters
                               /\ u.seen = <<s.authenticated, s.current>>
                               /\ (u.page = "login") = ~s.authenticated
                               /\ u.page = "root" => s.clusters[s.current].ns = NoNS

\* The localStorage outlives the page.
StorageOK(u, p) == IF p.oidc THEN u.storage.token = Nobody ELSE ~u.storage.oidc

Inv == /\ Typed(store, ui, calls, past) /\ PagesOK(store, ui, calls) /\ StorageOK(ui, past)
       /\ ui.page \in LivePages => Ready(store, ui, calls, past)

LEMMA OwnerIsUser ==
  ASSUME NEW s, NEW u, NEW cs, NEW p, Typed(s, u, cs, p), LoginOK(s, u, cs, p), s.authenticated
  PROVE  Owner(u, p) \in Users
  BY DEF Typed, LoginOK, Owner, Stores, Uis, Storages, Pasts

LEMMA StepKeeps ==
  ASSUME ConstantsAssumption, past \in Pasts,
         NEW s, NEW u, NEW cs, NEW p, Ready(s, u, cs, p),
         p.oidc = past.oidc, p.cookie = past.cookie, Step(s, u, cs, p)
  PROVE  Inv'
<1> DEFINE page == PageOf(s, u.page)
           asks == Checks(page, u)
           t    == IF asks # {} THEN authenticating(s) ELSE s
           more == Effects(t, u)
           need == Kind("namespaces", s.current, NoNS, Owner(u, p))
<1>1. /\ Typed(s, u, cs, p) /\ LoginOK(s, u, cs, p) /\ s.config /\ u.page \in LivePages
      /\ \A c \in cs : c.kind # "config"
  BY DEF Ready
<1>2. s \in Stores /\ u \in Uis /\ p \in Pasts /\ cs \subseteq Calls /\ s.current \in AllClusters
      /\ s.authenticated \in BOOLEAN /\ s.authenticating \in BOOLEAN
  BY <1>1 DEF Typed, Stores
<1>3. /\ page \in LivePages \cup {"crashed"}
      /\ page # "crashed" => s.current \in DOMAIN s.clusters
      /\ page # "crashed" => /\ (page = "login") = ~s.authenticated
                             /\ page = "root" => s.clusters[s.current].ns = NoNS
  BY <1>1, <1>2 DEF PageOf, Crashed, LivePages, Stores
<1>4. store' = t /\ past' = p /\ ui' = [u EXCEPT !.page = page, !.seen = <<t.authenticated, t.current>>]
      /\ calls' = IF page = "crashed" THEN {} ELSE cs \cup asks \cup more
  BY DEF Step
<1> HIDE DEF page
<1>5. \/ asks = {}
      \/ page = "login" /\ p.oidc /\ asks = {Kind("cookie", Default, NoNS, p.cookie)}
  <2>1. asks = IF page = "login" /\ u.page # "login" /\ past.oidc
               THEN {Kind("cookie", Default, NoNS, past.cookie)} ELSE {}
    BY DEF Checks, OIDC
  <2> HIDE DEF asks
  <2> QED
    BY <2>1
<1> HIDE DEF asks
<1>6. /\ t \in Stores /\ t.config /\ t.current = s.current /\ t.clusters = s.clusters
      /\ t.authenticated = s.authenticated
      /\ t.authenticating = (s.authenticating \/ asks # {})
  <2>1. CASE asks = {}
    BY <1>1, <1>2, <2>1
  <2>2. CASE asks # {}
    <3>1. t = authenticating(s)
      BY <2>2
    <3>2. ~s.authenticated
      BY <1>3, <1>5, <2>2
    <3> HIDE DEF t
    <3> QED
      BY <1>1, <1>2, <2>2, <3>1, <3>2, LoginReducers DEF Stores
  <2> QED
    BY <2>1, <2>2
<1> HIDE DEF t
<1>7. Who(u) = Owner(u, p) /\ Owner(u, p) \in Users \cup {Nobody}
  BY <1>2 DEF Who, Owner, OIDC, Uis, Storages, Pasts
<1>8. s.authenticated => Owner(u, p) \in Users
  BY <1>1, OwnerIsUser
<1>9. page # "crashed" => s.clusters[s.current].ns \in Namespaces \cup {NoNS}
  <2>1. page # "crashed" => s.clusters[s.current] \in ClusterStates
    BY <1>2, <1>3, MapApply DEF Stores
  <2> QED
    BY <2>1 DEF ClusterStates
<1>10. ASSUME page # "crashed", NEW c \in more
       PROVE  /\ c \in Calls /\ c.kind \in {"namespaces", "exists"} /\ c.who = Owner(u, p)
              /\ s.authenticated
              /\ c.kind = "exists" => c.ns \in Namespaces
  <2>1. \/ c = Kind("namespaces", s.current, NoNS, Owner(u, p)) /\ s.authenticated
        \/ /\ c = Kind("exists", s.current, s.clusters[s.current].ns, Owner(u, p))
           /\ s.authenticated /\ s.clusters[s.current].ns # NoNS
    BY <1>6, <1>7, <1>10 DEF Effects, Nav
  <2> QED
    BY <1>2, <1>7, <1>9, <1>10, <2>1 DEF Kind, Calls, Requests
<1>11. s.authenticated /\ u.seen # <<TRUE, s.current>> => need \in more
  BY <1>2, <1>6, <1>7 DEF Effects
<1> HIDE DEF more
<1>12. /\ ui' \in Uis /\ ui'.page = page /\ ui'.seen = <<s.authenticated, s.current>>
       /\ ui'.storage = u.storage /\ ui'.initial = u.initial
  <2>1. <<t.authenticated, t.current>> \in BOOLEAN \X AllClusters
    BY <1>2, <1>6
  <2> QED
    BY <1>2, <1>3, <1>4, <1>6, <2>1 DEF Uis
<1>13. Owner(ui', past') = Owner(u, p)
  BY <1>4, <1>12 DEF Owner
<1>14. Typed(store, ui, calls, past)'
  <2>1. asks \subseteq Calls /\ \A c \in asks : c.kind = "cookie"
    BY <1>2, <1>5 DEF Kind, Calls, Pasts, AllClusters
  <2>2. page # "crashed" => calls' = cs \cup asks \cup more /\ more \subseteq Calls
    BY <1>4, <1>10
  <2>3. ASSUME NEW c \in calls'
        PROVE  /\ c \in Calls
               /\ c.kind = "validate" => c.who \in Users
               /\ ~p.late /\ c.kind \in Requests => c.who \in Users
               /\ c.kind \in {"exists", "create"} => c.ns \in Namespaces
    <3>1. page # "crashed" /\ c \in cs \cup asks \cup more
      BY <1>4, <2>3
    <3>2. CASE c \in cs
      BY <1>1, <3>2 DEF Typed
    <3>3. CASE c \in asks
      BY <2>1, <3>3 DEF Requests
    <3>4. CASE c \in more
      BY <1>8, <1>10, <3>1, <3>4 DEF Requests
    <3> QED
      BY <3>1, <3>2, <3>3, <3>4
  <2> QED
    BY <1>2, <1>4, <1>6, <1>12, <2>3 DEF Typed
<1>15. PagesOK(store, ui, calls)'
  <2>1. ~(t.authenticated /\ t.authenticating)
    BY <1>1, <1>3, <1>5, <1>6 DEF LoginOK
  <2> QED
    BY <1>3, <1>4, <1>6, <1>12, <2>1 DEF PagesOK, LivePages
<1>16. StorageOK(ui, past)'
  BY <1>1, <1>4, <1>12 DEF StorageOK, LoginOK
<1>17. ASSUME page # "crashed" PROVE Ready(store, ui, calls, past)'
  <2>1. calls' = cs \cup asks \cup more
    BY <1>4, <1>17
  <2>2. \A c \in asks : c.kind = "cookie" /\ p.oidc /\ c.who = p.cookie
    BY <1>5 DEF Kind
  <2>3. LoginOK(store, ui, calls, past)'
    <3>1. store'.authenticating => \E c \in calls' : c.kind \in {"validate", "cookie"}
      BY <1>1, <1>4, <1>6, <2>1, <2>2 DEF LoginOK
    <3>2. store'.authenticating => ~store'.authenticated
      BY <1>1, <1>3, <1>4, <1>5, <1>6, <1>17 DEF LoginOK
    <3> QED
      BY <1>1, <1>4, <1>6, <1>10, <1>12, <1>17, <2>1, <2>2, <3>1, <3>2 DEF LoginOK, Owner
  <2>4. ASSUME ~p.late, OneLogin(s, cs) PROVE OneLogin(store, calls)'
    BY <1>4, <1>6, <1>10, <1>17, <2>1, <2>2, <2>4 DEF OneLogin
  <2>5. ASSUME NamespacesOwn(s, u, p) PROVE NamespacesOwn(store, ui, past)'
    BY <1>4, <1>6, <1>12, <1>13, <2>5 DEF NamespacesOwn, IsOwn
  <2>6. ASSUME s.authenticated, need \in calls' \/ ContextKnown(s, u, cs, p)
        PROVE  ContextKnown(store, ui, calls, past)'
    BY <1>4, <1>6, <1>12, <1>13, <2>1, <2>6 DEF ContextKnown, Settled
  <2>7. ~p.late => (OneLogin(store, calls) /\ NamespacesOwn(store, ui, past)
                    /\ (store.authenticated => ContextKnown(store, ui, calls, past)))'
    BY <1>4, <1>6, <1>11, <2>1, <2>4, <2>5, <2>6 DEF Ready
  <2> QED
    BY <1>1, <1>3, <1>4, <1>6, <1>10, <1>12, <1>14, <1>17, <2>1, <2>2, <2>3, <2>7 DEF Ready
<1> QED
  BY <1>3, <1>12, <1>14, <1>15, <1>16, <1>17 DEF Inv, LivePages

-----------------------------------------------------------------------------
(* Each action gives its step what the step needs.                           *)

\* A request without its answer, a context without it.
LEMMA OneCallLess ==
  ASSUME NEW s, NEW u, NEW cs, NEW p, NEW c, ContextKnown(s, u, cs, p),
         c # Kind("namespaces", s.current, NoNS, Owner(u, p))
  PROVE  ContextKnown(s, u, cs \ {c}, p)
  BY DEF ContextKnown

LEMMA LiveIsReady ==
  ASSUME Inv, ui.page \in LivePages
  PROVE  /\ Ready(store, ui, calls, past) /\ Typed(store, ui, calls, past)
         /\ LoginOK(store, ui, calls, past)
         /\ store \in Stores /\ ui \in Uis /\ past \in Pasts /\ calls \subseteq Calls
         /\ store.current \in DOMAIN store.clusters /\ store.clusters \in ClusterMaps
         /\ ui.seen = <<store.authenticated, store.current>>
         /\ (ui.page = "login") = ~store.authenticated
         /\ store.authenticated \in BOOLEAN /\ store.authenticating \in BOOLEAN
         /\ past.oidc \in BOOLEAN /\ past.late \in BOOLEAN
         /\ ~past.late => /\ OneLogin(store, calls) /\ NamespacesOwn(store, ui, past)
                          /\ store.authenticated => ContextKnown(store, ui, calls, past)
<1>1. Ready(store, ui, calls, past) /\ PagesOK(store, ui, calls)
  BY DEF Inv
<1>2. store \in Stores /\ past \in Pasts
  BY <1>1 DEF Ready, Typed
<1>3. store.authenticated \in BOOLEAN /\ store.clusters \in ClusterMaps
  BY <1>2 DEF Stores
<1>4. ui.seen = <<store.authenticated, store.current>>
  BY <1>1 DEF PagesOK
<1>5. ~past.late /\ store.authenticated => ContextKnown(store, ui, calls, past)
  BY <1>1, <1>3, <1>4 DEF Ready
<1> QED
  BY <1>1, <1>2, <1>3, <1>4, <1>5 DEF Ready, Typed, PagesOK, Stores, Pasts

\* A call other than the configuration's is in flight on a page only.
LEMMA AnswersAreLive ==
  ASSUME Inv, NEW c \in calls, c.kind # "config"
  PROVE  ui.page \in LivePages /\ c \in Calls
<1>1. ui.page \in LivePages \cup {"loading", "signedout", "crashed"} /\ c \in Calls
  BY DEF Inv, Typed, Uis
<1>2. ui.page # "loading"
  BY DEF Inv, PagesOK, Getting
<1>3. ui.page \notin {"signedout", "crashed"}
  BY DEF Inv, PagesOK
<1> QED
  BY <1>1, <1>2, <1>3

LEMMA CountIs ==
  ASSUME past \in Pasts
  PROVE  /\ Count \in Pasts /\ Count.oidc = past.oidc /\ Count.cookie = past.cookie
         /\ Count.late = past.late /\ Count.valid = past.valid /\ Count.access = past.access
<1> DEFINE q == Count
<1>1. /\ q \in Pasts /\ q.oidc = past.oidc /\ q.cookie = past.cookie
      /\ q.late = past.late /\ q.valid = past.valid /\ q.access = past.access
  BY DEF Count, Pasts
<1> QED
  BY <1>1

\* A page on which nobody is logged in has seen nobody.
LEMMA NobodySeen ==
  ASSUME Inv, ui.page \in LivePages, ~store.authenticated, NEW c
  PROVE  ui.seen # <<TRUE, c>>
<1>1. store.authenticated = FALSE
  BY LiveIsReady
<1>2. ui.seen = <<store.authenticated, store.current>>
  BY LiveIsReady
<1>3. ui.seen[1] = FALSE
  BY <1>1, <1>2
<1>4. <<TRUE, c>>[1] = TRUE
  OBVIOUS
<1> QED
  BY <1>3, <1>4

LEMMA AuthenticateKeeps ==
  ASSUME ConstantsAssumption, Inv, NEW v \in Users, authenticate(v) PROVE Inv'
<1> DEFINE s == authenticating(store)
           d == Kind("validate", store.current, NoNS, v)
           p == Count
<1>1. ui.page = "login" /\ ~past.oidc /\ ~store.authenticating /\ Step(s, ui, calls \cup {d}, p)
  BY DEF authenticate, OIDC
<1>2. ui.page \in LivePages
  BY <1>1 DEF LivePages
<1>3. /\ s \in Stores /\ s.config = store.config /\ s.current = store.current
      /\ s.clusters = store.clusters /\ ~s.authenticated /\ s.authenticating
  BY <1>2, LiveIsReady, LoginReducers
<1> HIDE DEF s
<1>4. /\ p \in Pasts /\ p.oidc = past.oidc /\ p.cookie = past.cookie /\ p.late = past.late
      /\ p.access = past.access
  BY <1>2, LiveIsReady, CountIs
<1> HIDE DEF p
<1>5. d.kind = "validate" /\ d.who = v /\ d \in Calls
  BY <1>2, LiveIsReady DEF Kind, Calls, Stores
<1> HIDE DEF d
<1>6. ~store.authenticated
  BY <1>1, <1>2, LiveIsReady
<1>7. Typed(s, ui, calls \cup {d}, p)
  BY <1>2, <1>3, <1>4, <1>5, LiveIsReady DEF Typed, Requests
<1>8. LoginOK(s, ui, calls \cup {d}, p)
  BY <1>1, <1>2, <1>3, <1>4, <1>5, <1>6, LiveIsReady DEF LoginOK, Stores
<1>9. ~past.late => OneLogin(s, calls \cup {d})
  BY <1>1, <1>2, <1>3, LiveIsReady DEF OneLogin
<1>10. NamespacesOwn(store, ui, past) => NamespacesOwn(s, ui, p)
  BY <1>3, <1>4 DEF NamespacesOwn, IsOwn, Owner
<1>11. Ready(s, ui, calls \cup {d}, p)
  BY <1>2, <1>3, <1>4, <1>5, <1>7, <1>8, <1>9, <1>10, LiveIsReady DEF Ready
<1> QED
  BY <1>1, <1>2, <1>4, <1>11, LiveIsReady, StepKeeps

LEMMA ValidateKeeps ==
  ASSUME ConstantsAssumption, Inv, NEW c \in calls, ValidateAnswered(c) PROVE Inv'
<1>1. c.kind = "validate" /\ ui.page \in LivePages /\ c \in Calls /\ c.who \in Users
  BY AnswersAreLive DEF ValidateAnswered, Inv, Typed
<1>2. ~past.oidc /\ past \in Pasts
  BY <1>1, LiveIsReady DEF LoginOK
<1>3. ~past.late => ~store.authenticated /\ \A d \in calls \ {c} : d.kind # "validate"
  BY <1>1, LiveIsReady DEF OneLogin, LoginOK
<1>4. CASE Accepted(c.who)
  <2> DEFINE s == setAuthenticated(store, TRUE)
             u == [ui EXCEPT !.storage.token = c.who, !.storage.oidc = FALSE]
  <2>1. Step(s, u, calls \ {c}, past)
    BY <1>4 DEF ValidateAnswered
  <2>2. /\ s \in Stores /\ s.config = store.config /\ s.current = store.current
        /\ s.clusters = store.clusters /\ s.authenticated /\ ~s.authenticating
    BY <1>1, LiveIsReady, LoginReducers
  <2> HIDE DEF s
  <2>3. /\ u \in Uis /\ u.page = ui.page /\ u.initial = ui.initial /\ u.seen = ui.seen
        /\ u.storage.token = c.who /\ ~u.storage.oidc
    BY <1>1, LiveIsReady DEF Uis, Storages
  <2> HIDE DEF u
  <2>4. Typed(s, u, calls \ {c}, past)
    BY <1>1, <2>2, <2>3, LiveIsReady DEF Typed
  <2>5. LoginOK(s, u, calls \ {c}, past)
    BY <1>1, <1>2, <2>2, <2>3, LiveIsReady DEF LoginOK, ConstantsAssumption
  <2>6. ~past.late => OneLogin(s, calls \ {c})
    BY <1>3 DEF OneLogin
  <2>7. ~past.late => NamespacesOwn(s, u, past)
    <3>1. ~past.late => Owner(ui, past) = Nobody
      BY <1>1, <1>2, <1>3, LiveIsReady DEF LoginOK, Owner
    <3> QED
      BY <1>1, <2>2, <2>3, <3>1, LiveIsReady DEF NamespacesOwn, IsOwn, ConstantsAssumption
  <2>8. ~past.late => u.seen # <<TRUE, s.current>>
    BY <1>1, <1>3, <2>3, NobodySeen
  <2>9. Ready(s, u, calls \ {c}, past)
    BY <1>1, <2>2, <2>3, <2>4, <2>5, <2>6, <2>7, <2>8, LiveIsReady DEF Ready
  <2> QED
    BY <1>2, <2>1, <2>9, StepKeeps
<1>5. CASE ~Accepted(c.who)
  <2> DEFINE s == authenticationError(store)
  <2>1. Step(s, ui, calls \ {c}, past)
    BY <1>5 DEF ValidateAnswered
  <2>2. /\ s \in Stores /\ s.config = store.config /\ s.current = store.current
        /\ s.clusters = store.clusters /\ s.authenticated = store.authenticated /\ ~s.authenticating
    BY <1>1, LiveIsReady, LoginReducers
  <2> HIDE DEF s
  <2>3. Typed(s, ui, calls \ {c}, past)
    BY <2>2, <1>1, LiveIsReady DEF Typed
  <2>4. LoginOK(s, ui, calls \ {c}, past)
    BY <1>1, <1>2, <2>2, LiveIsReady DEF LoginOK
  <2>5. ~past.late => OneLogin(s, calls \ {c})
    BY <1>3 DEF OneLogin
  <2>6. ~past.late => NamespacesOwn(s, ui, past)
    BY <1>1, <2>2, LiveIsReady DEF NamespacesOwn
  <2>7. Ready(s, ui, calls \ {c}, past)
    BY <1>1, <1>3, <2>2, <2>3, <2>4, <2>5, <2>6, LiveIsReady DEF Ready
  <2> QED
    BY <1>2, <2>1, <2>7, StepKeeps
<1> QED
  BY <1>4, <1>5

LEMMA CookieKeeps ==
  ASSUME ConstantsAssumption, Inv, NEW c \in calls, CookieAnswered(c) PROVE Inv'
<1>1. c.kind = "cookie" /\ ui.page \in LivePages /\ c \in Calls
  BY AnswersAreLive DEF CookieAnswered
<1>2. past.oidc /\ past \in Pasts /\ c.who = past.cookie
  BY <1>1, LiveIsReady DEF LoginOK
<1> DEFINE yes == c.who \in past.valid
<1>3. yes \in BOOLEAN /\ (yes <=> Accepted(c.who))
  BY DEF Accepted
<1>4. yes => past.cookie \in Users
  BY <1>2 DEF Pasts
<1> HIDE DEF yes
<1> DEFINE r == setAuthenticated(store, yes)
           s == IF yes THEN [r EXCEPT !.expired = FALSE] ELSE r
           u == IF yes THEN [ui EXCEPT !.storage.oidc = TRUE] ELSE ui
<1>5. Step(s, u, calls \ {c}, past)
  BY <1>3 DEF CookieAnswered
<1>6. /\ r \in Stores /\ r.config = store.config /\ r.current = store.current
      /\ r.clusters = store.clusters /\ r.authenticated = yes /\ ~r.authenticating
  BY <1>1, <1>3, LiveIsReady, LoginReducers
<1> HIDE DEF r
<1>7. /\ s \in Stores /\ s.config = store.config /\ s.current = store.current
      /\ s.clusters = store.clusters /\ s.authenticated = yes /\ ~s.authenticating
  BY <1>6 DEF Stores
<1> HIDE DEF s
<1>8. /\ u \in Uis /\ u.page = ui.page /\ u.initial = ui.initial /\ u.seen = ui.seen
      /\ u.storage.token = ui.storage.token
  BY <1>1, LiveIsReady DEF Uis, Storages
<1> HIDE DEF u
<1>9. Typed(s, u, calls \ {c}, past)
  BY <1>1, <1>7, <1>8, LiveIsReady DEF Typed
<1>10. LoginOK(s, u, calls \ {c}, past)
  BY <1>1, <1>2, <1>4, <1>7, <1>8, LiveIsReady DEF LoginOK
<1>11. OneLogin(s, calls \ {c})
  BY <1>10, <1>2 DEF OneLogin, LoginOK
<1>12. ~past.late => NamespacesOwn(s, u, past)
  BY <1>1, <1>2, <1>7, <1>8, LiveIsReady DEF NamespacesOwn, IsOwn, Owner
<1>13. ~past.late /\ u.seen = <<TRUE, s.current>> => ContextKnown(s, u, calls \ {c}, past)
  <2>1. u.seen = <<TRUE, s.current>> => store.authenticated
    BY <1>1, <1>8, NobodySeen
  <2>2. Owner(u, past) = Owner(ui, past)
    BY <1>2 DEF Owner
  <2>3. c # Kind("namespaces", store.current, NoNS, Owner(ui, past))
    BY <1>1 DEF Kind
  <2>4. ContextKnown(store, ui, calls, past) => ContextKnown(s, u, calls \ {c}, past)
    BY <1>7, <1>8, <2>2, <2>3 DEF ContextKnown, Settled
  <2> QED
    BY <1>1, <2>1, <2>4, LiveIsReady
<1>14. Ready(s, u, calls \ {c}, past)
  BY <1>1, <1>7, <1>8, <1>9, <1>10, <1>11, <1>12, <1>13, LiveIsReady DEF Ready
<1> QED
  BY <1>2, <1>5, <1>14, StepKeeps

\* The page of the auth proxy.
LEMMA SignedOutKeeps ==
  ASSUME Inv, NEW p \in Pasts, p.oidc = past.oidc, ui.storage.oidc, SignedOut(ui, p)
  PROVE  Inv'
<1>1. store \in Stores /\ ui \in Uis /\ ui.storage \in Storages /\ StorageOK(ui, past)
  BY DEF Inv, Typed, Uis
<1>2. past.oidc /\ ui.storage.token = Nobody
  BY <1>1 DEF StorageOK
<1>3. store' \in Stores /\ ~store'.authenticated
  BY <1>1 DEF SignedOut, Stores
<1>4. NoStorage.stored \in [AllClusters -> Namespaces \cup {NoNS}]
  BY DEF NoStorage
<1>5. ui' \in Uis /\ ui'.page = "signedout" /\ ui'.storage.token = Nobody
  BY <1>1, <1>2, <1>4 DEF SignedOut, Uis, Storages
<1>6. past' \in Pasts /\ past'.oidc /\ calls' = {}
  BY <1>2 DEF SignedOut, Pasts
<1> QED
  BY <1>3, <1>5, <1>6 DEF Inv, Typed, PagesOK, StorageOK, LivePages

\* A logout without the proxy, of a user or of a session that is refused.
LEMMA ForgottenIs ==
  ASSUME NEW b \in BOOLEAN, ui \in Uis, b => ~ui.storage.oidc
  PROVE  /\ Forgotten(ui) \in Uis /\ Forgotten(ui).page = ui.page
         /\ Forgotten(ui).initial = ui.initial /\ Forgotten(ui).seen = ui.seen
         /\ Forgotten(ui).storage.token = Nobody
         /\ b => ~Forgotten(ui).storage.oidc
  BY DEF Forgotten, Uis, Storages, NoStorage

LEMMA ClearingIsReady ==
  ASSUME Inv, ui.page \in LivePages,
         NEW s \in Stores, s.config = store.config, s.clusters = InitialClusters(ui.initial),
         s.current = store.current, ~s.authenticated, ~s.authenticating,
         NEW u \in Uis, u.page = ui.page, u.initial = ui.initial, u.seen = ui.seen,
         u.storage.token = Nobody, past.oidc \/ ~u.storage.oidc,
         NEW p \in Pasts, p.oidc = past.oidc, p.cookie = past.cookie,
         ~p.late => ~past.late /\ \A c \in calls : c.kind # "validate",
         NEW cs \in SUBSET calls
  PROVE  Ready(s, u, cs, p)
<1>1. Typed(s, u, cs, p)
  BY LiveIsReady DEF Typed
<1>2. LoginOK(s, u, cs, p)
  <2>1. s.authenticated = FALSE /\ s.authenticating = FALSE
    BY DEF Stores
  <2>2. past.oidc \in BOOLEAN
    BY LiveIsReady
  <2>3. CASE past.oidc
    BY <2>1, <2>3, LiveIsReady DEF LoginOK
  <2>4. CASE ~past.oidc
    BY <2>1, <2>4, LiveIsReady DEF LoginOK
  <2> QED
    BY <2>2, <2>3, <2>4
<1>3. ~p.late => OneLogin(s, cs)
  BY DEF OneLogin
<1>4. NamespacesOwn(s, u, p)
  <2>1. ui.initial \in Namespaces \cup {NoNS}
    BY LiveIsReady DEF Uis
  <2> QED
    BY <2>1, InitialMap DEF NamespacesOwn, IsOwn
<1>5. s.config /\ \A c \in cs : c.kind # "config"
  BY LiveIsReady DEF Ready
<1> QED
  BY <1>1, <1>2, <1>3, <1>4, <1>5 DEF Ready

LEMMA LogoutKeeps ==
  ASSUME ConstantsAssumption, Inv, logout PROVE Inv'
<1>1. ui.page = "app" /\ ui.page \in LivePages /\ store.authenticated
  BY DEF logout, LivePages
<1>2. past \in Pasts /\ ui \in Uis /\ ui.storage.oidc \in BOOLEAN
  BY <1>1, LiveIsReady DEF Uis, Storages
<1>3. Count \in Pasts /\ Count.oidc = past.oidc /\ Count.cookie = past.cookie /\ Count.late = past.late
  BY <1>2, CountIs
<1>4. CASE ui.storage.oidc
  BY <1>3, <1>4, SignedOutKeeps DEF logout
<1>5. CASE ~ui.storage.oidc
  <2> DEFINE s == Cleared(store, ui)
             u == Forgotten(ui)
             p == Count
  <2>1. Step(s, u, calls, p)
    BY <1>5 DEF logout
  <2>2. /\ s \in Stores /\ s.config = store.config /\ s.current = store.current
        /\ s.clusters = InitialClusters(ui.initial) /\ ~s.authenticated /\ ~s.authenticating
    BY <1>1, LiveIsReady, ClearedIs
  <2> HIDE DEF s
  <2>3. /\ u \in Uis /\ u.page = ui.page /\ u.initial = ui.initial /\ u.seen = ui.seen
        /\ u.storage.token = Nobody /\ ~u.storage.oidc
    BY <1>2, <1>5, ForgottenIs
  <2> HIDE DEF u
  <2>4. p \in Pasts /\ p.oidc = past.oidc /\ p.cookie = past.cookie /\ p.late = past.late
    BY <1>3
  <2> HIDE DEF p
  <2>5. ~p.late => ~past.late /\ \A c \in calls : c.kind # "validate"
    BY <1>1, <2>4, LiveIsReady DEF OneLogin, LoginOK
  <2>6. Ready(s, u, calls, p)
    BY <1>1, <2>2, <2>3, <2>4, <2>5, ClearingIsReady
  <2> QED
    BY <1>2, <2>1, <2>4, <2>6, StepKeeps
<1> QED
  BY <1>2, <1>4, <1>5

LEMMA RefusalKeeps ==
  ASSUME ConstantsAssumption, Inv, NEW c \in calls, Refused(c) PROVE Inv'
<1>1. c.kind \in Requests /\ ui.page \in LivePages /\ (~past.late => c.who \in Users)
  BY DEF Refused, Requests, Live, LivePages, Inv, Typed
<1>2. past \in Pasts /\ ui \in Uis /\ ui.storage.oidc \in BOOLEAN /\ past.late \in BOOLEAN
  BY <1>1, LiveIsReady DEF Uis, Storages
<1>3. PICK b \in BOOLEAN : b <=> past.late \/ c.who # Who(ui)
  OBVIOUS
<1> DEFINE p == [past EXCEPT !.late = @ \/ c.who # Who(ui)]
<1>4. p \in Pasts /\ p.oidc = past.oidc /\ p.cookie = past.cookie /\ (p.late <=> b)
  BY <1>2, <1>3 DEF Pasts
<1> DEFINE s == authenticationError(Cleared(store, ui))
           u == [Forgotten(ui) EXCEPT !.storage.oidc = FALSE]
<1>5. \/ ui.storage.oidc /\ SignedOut(ui, p)
      \/ Step(s, u, calls \ {c}, p)
  BY DEF Refused, LoggedOut
<1> HIDE DEF p
<1>6. /\ s \in Stores /\ s.config = store.config /\ s.current = store.current
      /\ s.clusters = InitialClusters(ui.initial) /\ ~s.authenticated /\ ~s.authenticating
  <2> DEFINE r == Cleared(store, ui)
  <2>1. /\ r \in Stores /\ r.config = store.config /\ r.current = store.current
        /\ r.clusters = InitialClusters(ui.initial) /\ ~r.authenticated /\ ~r.authenticating
    BY <1>1, LiveIsReady, ClearedIs
  <2> HIDE DEF r
  <2>2. LET t == authenticationError(r)
        IN /\ t \in Stores /\ t.config = r.config /\ t.current = r.current
           /\ t.clusters = r.clusters /\ t.authenticated = r.authenticated /\ ~t.authenticating
    BY <2>1, LoginReducers
  <2> QED
    BY <2>1, <2>2 DEF r
<1> HIDE DEF s
<1>7. /\ u \in Uis /\ u.page = ui.page /\ u.initial = ui.initial /\ u.seen = ui.seen
      /\ u.storage.token = Nobody /\ ~u.storage.oidc
  <2> DEFINE f == Forgotten(ui)
  <2>1. /\ f \in Uis /\ f.page = ui.page /\ f.initial = ui.initial /\ f.seen = ui.seen
        /\ f.storage.token = Nobody
    BY <1>2, ForgottenIs
  <2> HIDE DEF f
  <2>2. LET v == [f EXCEPT !.storage.oidc = FALSE]
        IN /\ v \in Uis /\ v.page = f.page /\ v.initial = f.initial /\ v.seen = f.seen
           /\ v.storage.token = f.storage.token /\ ~v.storage.oidc
    BY <2>1 DEF Uis, Storages
  <2> QED
    BY <2>1, <2>2 DEF f
<1> HIDE DEF u
<1>8. ~p.late => ~past.late /\ \A d \in calls : d.kind # "validate"
  <2> SUFFICES ASSUME ~p.late, NEW d \in calls, d.kind = "validate" PROVE ~past.late /\ FALSE
    BY <1>2, <1>3, <1>4
  <2>1. ~past.late /\ c.who = Who(ui)
    BY <1>3, <1>4
  <2>2. ~past.oidc /\ ~store.authenticated
    BY <1>1, <2>1, LiveIsReady DEF OneLogin, LoginOK
  <2>3. Who(ui) = Nobody
    BY <1>1, <2>2, LiveIsReady DEF LoginOK, Who, OIDC
  <2> QED
    BY <1>1, <2>1, <2>3 DEF ConstantsAssumption
<1>9. Ready(s, u, calls \ {c}, p)
  BY <1>1, <1>4, <1>6, <1>7, <1>8, ClearingIsReady
<1> QED
  BY <1>2, <1>4, <1>5, <1>9, StepKeeps, SignedOutKeeps

\* A page that is loaded.
LEMMA LoadedIs ==
  ASSUME ConstantsAssumption, NEW m \in Storages
  PROVE  LoadedStore(m) \in Stores /\ LoadedPage(m) \in Uis /\ Getting \subseteq Calls
<1>1. HomeOf(m.token) \in Namespaces \cup {NoNS}
  BY DEF HomeOf, Storages, ConstantsAssumption
<1>2. LoadedStore(m) \in Stores
  BY <1>1, InitialMap DEF LoadedStore, Stores, AllClusters
<1>3. LoadedPage(m) \in Uis
  <2>1. <<FALSE, Default>> \in BOOLEAN \X AllClusters
    BY DEF AllClusters
  <2> QED
    BY <1>1, <2>1 DEF LoadedPage, Uis
<1>4. Getting \subseteq Calls
  BY DEF Getting, Calls, AllClusters
<1> QED
  BY <1>2, <1>3, <1>4

LEMMA LoadingKeeps ==
  ASSUME ConstantsAssumption, NEW m \in Storages, past' \in Pasts,
         store' = LoadedStore(m), ui' = LoadedPage(m), calls' = Getting,
         IF past'.oidc THEN m.token = Nobody ELSE ~m.oidc
  PROVE  Inv'
<1>1. ui'.page = "loading" /\ ui'.storage = m
  BY DEF LoadedPage
<1>2. \A c \in Getting : c.kind = "config"
  BY DEF Getting
<1>3. Typed(store, ui, calls, past)'
  BY <1>2, LoadedIs DEF Typed, Requests
<1>4. ~store'.authenticating
  BY DEF LoadedStore
<1> QED
  BY <1>1, <1>3, <1>4 DEF Inv, PagesOK, StorageOK, LivePages

LEMMA InitKeeps == ConstantsAssumption /\ Init => Inv
<1> SUFFICES ASSUME ConstantsAssumption, Init PROVE Inv
  OBVIOUS
<1>1. NoStorage \in Storages /\ NoStorage.token = Nobody /\ ~NoStorage.oidc
  BY DEF NoStorage, Storages
<1>2. past \in Pasts
  BY DEF Init, Pasts, Accesses, ConstantsAssumption
<1>3. ui.page = "loading" /\ ui.storage = NoStorage
  BY DEF Init, LoadedPage
<1>4. \A c \in Getting : c.kind = "config"
  BY DEF Getting
<1>5. Typed(store, ui, calls, past)
  BY <1>1, <1>2, <1>4, LoadedIs DEF Init, Typed, Requests
<1>6. ~store.authenticating
  BY DEF Init, LoadedStore
<1> QED
  BY <1>1, <1>3, <1>5, <1>6 DEF Init, Inv, PagesOK, StorageOK, LivePages

LEMMA LoadKeeps ==
  ASSUME ConstantsAssumption, Inv, Load \/ \E v \in Users : LoginByProxy(v) PROVE Inv'
<1>1. past \in Pasts /\ ui.storage \in Storages /\ StorageOK(ui, past)
  BY DEF Inv, Typed, Uis
<1>2. Count \in Pasts /\ Count.oidc = past.oidc
  BY <1>1, CountIs
<1>3. CASE Load
  BY <1>1, <1>2, <1>3, LoadingKeeps DEF Load, StorageOK
<1>4. ASSUME NEW v \in Users, LoginByProxy(v) PROVE Inv'
  <2> DEFINE q == Count
  <2>1. past' = [q EXCEPT !.cookie = v, !.valid = @ \cup {v}]
    BY <1>4 DEF LoginByProxy
  <2>2. q \in Pasts /\ q.oidc = past.oidc
    BY <1>2
  <2> HIDE DEF q
  <2>3. past' \in Pasts /\ past'.oidc = past.oidc
    BY <2>1, <2>2 DEF Pasts
  <2> QED
    BY <1>1, <1>4, <2>3, LoadingKeeps DEF LoginByProxy, StorageOK
<1> QED
  BY <1>3, <1>4

LEMMA ConfigKeeps ==
  ASSUME ConstantsAssumption, Inv, NEW c \in calls, ConfigAnswered(c) PROVE Inv'
<1>1. c.kind = "config" /\ store \in Stores /\ ui \in Uis /\ past \in Pasts /\ StorageOK(ui, past)
  BY DEF ConfigAnswered, Inv, Typed
<1>2. ui.page = "loading"
  <2>1. ui.page \notin LivePages
    BY <1>1 DEF Inv, Ready
  <2>2. ui.page \notin {"signedout", "crashed"}
    BY DEF Inv, PagesOK
  <2> QED
    BY <1>1, <2>1, <2>2 DEF Uis
<1>3. calls = Getting /\ store = LoadedStore(ui.storage)
  BY <1>2 DEF Inv, PagesOK
<1>4. calls \ {c} = {} /\ store.authenticated = (ui.storage.token # Nobody) /\ ~store.authenticating
  BY <1>3 DEF Getting, LoadedStore
<1>5. PICK page \in {"root", "app"} :
         Step(receiveConfig(store), [ui EXCEPT !.page = page, !.seen = <<FALSE, Default>>], {}, past)
  BY <1>4 DEF ConfigAnswered
<1> DEFINE s == receiveConfig(store)
           u == [ui EXCEPT !.page = page, !.seen = <<FALSE, Default>>]
<1>6. Step(s, u, {}, past)
  BY <1>5
<1>7. /\ s \in Stores /\ s.config /\ s.current = First /\ DOMAIN s.clusters = Clusters
      /\ s.authenticated = store.authenticated /\ s.authenticating = store.authenticating
      /\ \A k \in Clusters : s.clusters[k] = NoList
  BY <1>1, ConfigIs
<1> HIDE DEF s
<1>8. /\ u \in Uis /\ u.page \in LivePages /\ u.storage = ui.storage /\ u.seen = <<FALSE, Default>>
  <2>1. <<FALSE, Default>> \in BOOLEAN \X AllClusters
    BY DEF AllClusters
  <2> QED
    BY <1>1, <2>1 DEF Uis, LivePages
<1> HIDE DEF u
<1>9. Typed(s, u, {}, past)
  BY <1>1, <1>7, <1>8 DEF Typed
<1>10. LoginOK(s, u, {}, past)
  BY <1>1, <1>4, <1>7, <1>8 DEF LoginOK, StorageOK
<1>11. OneLogin(s, {}) /\ NamespacesOwn(s, u, past)
  BY <1>7 DEF OneLogin, NamespacesOwn, IsOwn, NoList
<1>12. u.seen # <<TRUE, s.current>>
  <2>1. u.seen[1] = FALSE /\ <<TRUE, s.current>>[1] = TRUE
    BY <1>8
  <2> QED
    BY <2>1
<1>13. Ready(s, u, {}, past)
  BY <1>7, <1>8, <1>9, <1>10, <1>11, <1>12 DEF Ready
<1> QED
  BY <1>1, <1>6, <1>13, StepKeeps

-----------------------------------------------------------------------------
(* The context.  Somebody who is logged in goes on as who he is.             *)

LEMMA WhoIsOwner == Who(ui) = Owner(ui, past)
  BY DEF Who, Owner, OIDC

LEMMA GoesOn ==
  ASSUME ConstantsAssumption, Inv, ui.page \in LivePages,
         NEW s, SameLogin(store, s),
         NEW u \in Uis, u.page \in LivePages, u.storage.token = ui.storage.token,
         u.storage.oidc = ui.storage.oidc,
         NEW p \in Pasts, p.oidc = past.oidc, p.cookie = past.cookie, ~p.late => ~past.late,
         NEW cs \in SUBSET Calls, \A c \in calls \ cs : c.kind \in Requests,
         \A c \in cs \ calls : /\ c.kind \in {"namespaces", "create", "data"}
                               /\ c.who = Owner(ui, past) /\ (~p.late => c.who \in Users)
                               /\ c.kind = "create" => c.ns \in Namespaces,
         ~p.late => NamespacesOwn(s, u, p),
         ~p.late /\ store.authenticated /\ u.seen = <<TRUE, s.current>> => ContextKnown(s, u, cs, p),
         Step(s, u, cs, p)
  PROVE  Inv'
<1>1. /\ s \in Stores /\ s.config = store.config /\ s.authenticated = store.authenticated
      /\ s.authenticating = store.authenticating
  BY DEF SameLogin
<1>2. Typed(s, u, cs, p)
  BY <1>1, LiveIsReady DEF Typed, Requests
<1>3. LoginOK(s, u, cs, p)
  <2>1. s.authenticating => ~s.authenticated /\ \E c \in cs : c.kind \in {"validate", "cookie"}
    <3> SUFFICES ASSUME store.authenticating
                 PROVE  ~store.authenticated /\ \E c \in cs : c.kind \in {"validate", "cookie"}
      BY <1>1
    <3>1. PICK c \in calls : c.kind \in {"validate", "cookie"}
      BY LiveIsReady DEF LoginOK
    <3>2. c \in cs
      BY <3>1 DEF Requests
    <3> QED
      BY <3>1, <3>2, LiveIsReady DEF LoginOK
  <2>2. CASE past.oidc
    <3>1. \A c \in cs : c.kind # "validate" /\ (c.kind # "config" => c.who = p.cookie)
      BY <2>2, LiveIsReady DEF LoginOK, Owner
    <3> QED
      BY <1>1, <2>1, <2>2, <3>1, LiveIsReady DEF LoginOK
  <2>3. CASE ~past.oidc
    BY <1>1, <2>1, <2>3, LiveIsReady DEF LoginOK
  <2> QED
    BY <2>2, <2>3
<1>4. ~p.late => OneLogin(s, cs)
  BY <1>1, LiveIsReady DEF OneLogin
<1>5. s.config /\ \A c \in cs : c.kind # "config"
  BY <1>1, LiveIsReady DEF Ready
<1>6. Ready(s, u, cs, p)
  BY <1>1, <1>2, <1>3, <1>4, <1>5 DEF Ready
<1> QED
  BY <1>6, LiveIsReady, StepKeeps

\* The answer to a request, of whoever is logged in or of somebody else.
LEMMA LateIs ==
  ASSUME past \in Pasts, NEW c
  PROVE  LET p == [past EXCEPT !.late = Late(c)]
         IN /\ p \in Pasts /\ p.oidc = past.oidc /\ p.cookie = past.cookie
            /\ p.access = past.access
            /\ ~p.late => ~past.late /\ c.who = Owner(ui, past)
            /\ Owner(ui, p) = Owner(ui, past)
<1> DEFINE p == [past EXCEPT !.late = Late(c)]
<1>1. past.late \in BOOLEAN
  BY DEF Pasts
<1>2. Late(c) \in BOOLEAN /\ (Late(c) <=> past.late \/ c.who # Who(ui))
  BY <1>1 DEF Late
<1>3. /\ p \in Pasts /\ p.oidc = past.oidc /\ p.cookie = past.cookie /\ p.access = past.access
      /\ (p.late <=> Late(c))
  BY <1>2 DEF Pasts
<1> HIDE DEF p
<1>4. (~p.late => ~past.late /\ c.who = Owner(ui, past)) /\ Owner(ui, p) = Owner(ui, past)
  BY <1>2, <1>3, WhoIsOwner DEF Owner
<1> QED
  BY <1>3, <1>4 DEF p

LEMMA ClusterIsTyped ==
  ASSUME Inv, ui.page \in LivePages, NEW k \in DOMAIN store.clusters
  PROVE  store.clusters[k] \in ClusterStates /\ k \in AllClusters
  BY LiveIsReady, MapApply

\* An answer that is put into the state.
LEMMA PutKeeps ==
  ASSUME ConstantsAssumption, Inv, NEW c \in calls, c.kind \in Requests, NEW e \in ClusterStates,
         NEW p \in Pasts, p.oidc = past.oidc, p.cookie = past.cookie, p.access = past.access,
         ~p.late => ~past.late,
         Step(Put(store, c.cluster, e), ui, calls \ {c}, p),
         ~p.late => IsOwn(e, c.cluster, ui, p),
         ~p.late /\ c.cluster = store.current =>
            \/ Settled(e, store.current, ui, p)
            \/ /\ c.kind # "namespaces"
               /\ Settled(store.clusters[store.current], store.current, ui, p)
                     => Settled(e, store.current, ui, p)
  PROVE  Inv'
<1> DEFINE s == Put(store, c.cluster, e)
<1>1. ui.page \in LivePages /\ c \in Calls /\ c.cluster \in AllClusters
  BY AnswersAreLive DEF Requests, Calls
<1>2. /\ store \in Stores /\ ui \in Uis /\ calls \ {c} \in SUBSET Calls
      /\ store.current \in DOMAIN store.clusters /\ Owner(ui, p) = Owner(ui, past)
  BY <1>1, LiveIsReady DEF Owner
<1>3. /\ SameLogin(store, s) /\ s.current = store.current
      /\ DOMAIN s.clusters = DOMAIN store.clusters \cup {c.cluster} /\ s.clusters[c.cluster] = e
      /\ \A k \in DOMAIN store.clusters : k # c.cluster => s.clusters[k] = store.clusters[k]
  BY <1>1, <1>2, PutIs
<1>4. Step(s, ui, calls \ {c}, p)
  OBVIOUS
<1> HIDE DEF s
<1>5. ~p.late => NamespacesOwn(s, ui, p)
  <2> SUFFICES ASSUME ~p.late, NEW k \in DOMAIN s.clusters PROVE IsOwn(s.clusters[k], k, ui, p)
    BY DEF NamespacesOwn
  <2>1. CASE k = c.cluster
    BY <1>3, <2>1
  <2>2. CASE k # c.cluster
    <3>1. IsOwn(store.clusters[k], k, ui, past)
      BY <1>1, <1>3, <2>2, LiveIsReady DEF NamespacesOwn
    <3> QED
      BY <1>2, <1>3, <2>2, <3>1 DEF IsOwn
  <2> QED
    BY <2>1, <2>2
<1>6. ~p.late /\ store.authenticated => ContextKnown(s, ui, calls \ {c}, p)
  <2> SUFFICES ASSUME ~p.late, store.authenticated PROVE ContextKnown(s, ui, calls \ {c}, p)
    OBVIOUS
  <2>1. ContextKnown(store, ui, calls, p)
    <3>1. ContextKnown(store, ui, calls, past)
      BY <1>1, LiveIsReady
    <3> QED
      BY <1>2, <3>1 DEF ContextKnown, Settled
  <2>2. CASE c.cluster = store.current /\ Settled(e, store.current, ui, p)
    BY <1>3, <2>2 DEF ContextKnown
  <2>3. CASE c # Kind("namespaces", store.current, NoNS, Owner(ui, p))
    <3>1. ContextKnown(store, ui, calls \ {c}, p)
      BY <2>1, <2>3, OneCallLess
    <3>2. CASE c.cluster = store.current
      BY <1>3, <2>2, <3>1, <3>2 DEF ContextKnown
    <3>3. CASE c.cluster # store.current
      BY <1>2, <1>3, <3>1, <3>3 DEF ContextKnown
    <3> QED
      BY <3>2, <3>3
  <2> QED
    BY <2>2, <2>3 DEF Kind
<1>7. \A d \in calls \ (calls \ {c}) : d.kind \in Requests
  OBVIOUS
<1>8. \A d \in (calls \ {c}) \ calls : FALSE
  OBVIOUS
<1> QED
  BY <1>1, <1>2, <1>3, <1>4, <1>5, <1>6, <1>7, <1>8, GoesOn

\* Answers that change nothing, and new requests.
LEMMA OthersKeep ==
  ASSUME ConstantsAssumption, Inv, ui.page \in LivePages,
         NEW p \in Pasts, p.oidc = past.oidc, p.cookie = past.cookie, p.access = past.access,
         ~p.late => ~past.late,
         NEW cs \in SUBSET Calls, Step(store, ui, cs, p),
         \A c \in calls \ cs : /\ c.kind \in Requests
                               /\ c # Kind("namespaces", store.current, NoNS, Owner(ui, past)),
         \A c \in cs \ calls : /\ c.kind \in {"namespaces", "create", "data"}
                               /\ c.who = Owner(ui, past) /\ c.who \in Users
                               /\ c.kind = "create" => c.ns \in Namespaces
  PROVE  Inv'
<1>1. store \in Stores /\ ui \in Uis /\ SameLogin(store, store) /\ Owner(ui, p) = Owner(ui, past)
  BY LiveIsReady DEF SameLogin, Owner
<1>2. ~p.late => NamespacesOwn(store, ui, p)
  BY <1>1, LiveIsReady DEF NamespacesOwn, IsOwn
<1>3. ~p.late /\ store.authenticated => ContextKnown(store, ui, cs, p)
  BY <1>1, LiveIsReady DEF ContextKnown, Settled
<1> QED
  BY <1>1, <1>2, <1>3, GoesOn

\* Whose answer it is.
LEMMA OfUser ==
  ASSUME Inv, ui.page \in LivePages, NEW c \in calls, Accepted(c.who)
  PROVE  c.who \in Users /\ past \in Pasts /\ c \in Calls
  BY LiveIsReady DEF Accepted, Pasts

LEMMA AccessIs ==
  ASSUME past \in Pasts, NEW w \in Users, NEW c \in AllClusters
  PROVE  past.access[w][c] \in SUBSET Namespaces
  BY DEF Pasts, Accesses

LEMMA NamespacesKeeps ==
  ASSUME ConstantsAssumption, Inv, NEW c \in calls, NamespacesAnswered(c) PROVE Inv'
<1> DEFINE list == past.access[c.who][c.cluster]
           p    == [past EXCEPT !.late = Late(c)]
           now  == Known(store, c.cluster)
<1>1. /\ c.kind = "namespaces" /\ c.kind \in Requests /\ ui.page \in LivePages
      /\ c \in Calls /\ c.who \in Users /\ c.cluster \in AllClusters
  BY AnswersAreLive, OfUser DEF NamespacesAnswered, Requests, Calls
<1>2. /\ store \in Stores /\ past \in Pasts /\ now \in ClusterStates
      /\ store.current \in DOMAIN store.clusters
      /\ c.cluster \in DOMAIN store.clusters => now = store.clusters[c.cluster]
      /\ c.cluster \notin DOMAIN store.clusters => now.ns = NoNS
  BY <1>1, LiveIsReady, KnownIs
<1>3. list \in SUBSET Namespaces
  BY <1>1, <1>2, AccessIs
<1>4. IF list = {} \/ c.cluster \notin DOMAIN store.clusters
      THEN Step(errorNamespaces(store, c.cluster), ui, calls \ {c}, p)
      ELSE \E ns \in CurrentNamespace(store.clusters[c.cluster].ns, ui.storage.stored[c.cluster],
                                      HomeOf(ui.storage.token), list) :
              Step(receiveNamespaces(store, c.cluster, list, ns), ui, calls \ {c}, p)
  BY DEF NamespacesAnswered
<1>5. /\ p \in Pasts /\ p.oidc = past.oidc /\ p.cookie = past.cookie /\ p.access = past.access
      /\ ~p.late => ~past.late /\ c.who = Owner(ui, past)
      /\ Owner(ui, p) = Owner(ui, past)
  BY <1>2, LateIs
<1> HIDE DEF p
<1>6. ~p.late => IsOwn(now, c.cluster, ui, p)
  <2>1. CASE c.cluster \in DOMAIN store.clusters
    BY <1>1, <1>2, <1>5, <2>1, LiveIsReady DEF NamespacesOwn, IsOwn
  <2>2. CASE c.cluster \notin DOMAIN store.clusters
    BY <1>2, <2>2 DEF IsOwn
  <2> QED
    BY <2>1, <2>2
<1> HIDE DEF now
<1>7. CASE list = {} \/ c.cluster \notin DOMAIN store.clusters
  <2> DEFINE e == [now EXCEPT !.error = TRUE]
  <2>1. Step(Put(store, c.cluster, e), ui, calls \ {c}, p)
    BY <1>4, <1>7 DEF errorNamespaces, now
  <2>2. e \in ClusterStates /\ e.ns = now.ns /\ e.error /\ e.named = now.named
    BY <1>2 DEF ClusterStates
  <2> HIDE DEF e
  <2>3. ~p.late => IsOwn(e, c.cluster, ui, p)
    BY <1>6, <2>2 DEF IsOwn
  <2>4. ~p.late /\ c.cluster = store.current => Settled(e, store.current, ui, p)
    BY <1>2, <1>5, <1>7, <2>2 DEF Settled
  <2> QED
    BY <1>1, <1>5, <2>1, <2>2, <2>3, <2>4, PutKeeps
<1>8. CASE list # {} /\ c.cluster \in DOMAIN store.clusters
  <2>1. PICK ns \in CurrentNamespace(now.ns, ui.storage.stored[c.cluster],
                                     HomeOf(ui.storage.token), list) :
               Step(receiveNamespaces(store, c.cluster, list, ns), ui, calls \ {c}, p)
    BY <1>2, <1>4, <1>8
  <2>2. (ns = now.ns /\ now.ns # NoNS) \/ ns \in list
    BY <1>8, <2>1 DEF CurrentNamespace
  <2>3. ns \in Namespaces \cup {NoNS} /\ ns # NoNS
    BY <1>2, <1>3, <2>2 DEF ClusterStates, ConstantsAssumption
  <2> HIDE DEF list
  <2> DEFINE e == [now EXCEPT !.ns = ns, !.list = list, !.error = FALSE, !.listed = TRUE]
  <2>4. Step(Put(store, c.cluster, e), ui, calls \ {c}, p)
    BY <2>1 DEF receiveNamespaces, now
  <2>5. e \in ClusterStates /\ e.ns = ns /\ e.list = list /\ e.named = now.named
    BY <1>2, <1>3, <2>3 DEF ClusterStates
  <2> HIDE DEF e
  <2>6. ~p.late => ns \in list \cup {ui.initial} \/ now.named
    <3> SUFFICES ASSUME ~p.late, ns = now.ns, now.ns # NoNS
                 PROVE  ns \in list \cup {ui.initial} \/ now.named
      BY <2>2
    <3> QED
      BY <1>5, <1>6 DEF IsOwn, list
  <2>7. ~p.late => IsOwn(e, c.cluster, ui, p)
    BY <1>1, <1>5, <2>5, <2>6 DEF IsOwn, list
  <2>8. ~p.late /\ c.cluster = store.current => Settled(e, store.current, ui, p)
    BY <1>5, <1>8, <2>3, <2>5, <2>6 DEF Settled, list
  <2> QED
    BY <1>1, <1>5, <2>4, <2>5, <2>7, <2>8, PutKeeps
<1> QED
  BY <1>7, <1>8

\* The error of another answer about a cluster, and an answer that changes nothing.
LEMMA FailureKeeps ==
  ASSUME ConstantsAssumption, Inv, NEW c \in calls, c.kind \in Requests, c.kind # "namespaces",
         LET p == [past EXCEPT !.late = Late(c)]
         IN \/ Step(errorNamespaces(store, c.cluster), ui, calls \ {c}, p)
            \/ Step(store, ui, calls \ {c}, p)
  PROVE  Inv'
<1> DEFINE p   == [past EXCEPT !.late = Late(c)]
           now == Known(store, c.cluster)
           e   == [now EXCEPT !.error = TRUE]
<1>1. /\ ui.page \in LivePages /\ c \in Calls
      /\ store \in Stores /\ past \in Pasts /\ calls \ {c} \in SUBSET Calls
      /\ store.current \in DOMAIN store.clusters
  BY AnswersAreLive, LiveIsReady DEF Requests
<1>2. \/ Step(Put(store, c.cluster, e), ui, calls \ {c}, p)
      \/ Step(store, ui, calls \ {c}, p)
  BY DEF errorNamespaces
<1>3. /\ p \in Pasts /\ p.oidc = past.oidc /\ p.cookie = past.cookie /\ p.access = past.access
      /\ ~p.late => ~past.late
      /\ Owner(ui, p) = Owner(ui, past)
  BY <1>1, LateIs
<1> HIDE DEF p
<1>4. /\ now \in ClusterStates
      /\ c.cluster \in DOMAIN store.clusters => now = store.clusters[c.cluster]
      /\ c.cluster \notin DOMAIN store.clusters => now.ns = NoNS
  BY <1>1, KnownIs
<1>5. ~p.late => IsOwn(now, c.cluster, ui, p)
  <2>1. CASE c.cluster \in DOMAIN store.clusters
    BY <1>1, <1>3, <1>4, <2>1, LiveIsReady DEF NamespacesOwn, IsOwn
  <2>2. CASE c.cluster \notin DOMAIN store.clusters
    BY <1>4, <2>2 DEF IsOwn
  <2> QED
    BY <2>1, <2>2
<1> HIDE DEF now
<1>6. /\ e \in ClusterStates /\ e.ns = now.ns /\ e.list = now.list /\ e.error
      /\ e.named = now.named
  BY <1>4 DEF ClusterStates
<1> HIDE DEF e
<1>7. ~p.late => IsOwn(e, c.cluster, ui, p)
  BY <1>5, <1>6 DEF IsOwn
<1>8. c.cluster = store.current /\ Settled(store.clusters[store.current], store.current, ui, p)
         => Settled(e, store.current, ui, p)
  BY <1>1, <1>4, <1>6 DEF Settled
<1>9. CASE Step(Put(store, c.cluster, e), ui, calls \ {c}, p)
  BY <1>3, <1>6, <1>7, <1>8, <1>9, PutKeeps
<1>10. CASE Step(store, ui, calls \ {c}, p)
  <2>1. c # Kind("namespaces", store.current, NoNS, Owner(ui, past))
    BY DEF Kind
  <2> QED
    BY <1>1, <1>3, <1>10, <2>1, OthersKeep
<1> QED
  BY <1>2, <1>9, <1>10

LEMMA ExistsKeeps ==
  ASSUME ConstantsAssumption, Inv, NEW c \in calls, ExistsAnswered(c) PROVE Inv'
<1> DEFINE p   == [past EXCEPT !.late = Late(c)]
           has == past.access[c.who][c.cluster]
           now == Known(store, c.cluster)
<1>1. /\ c.kind = "exists" /\ c.kind \in Requests /\ ui.page \in LivePages
      /\ c \in Calls /\ c.who \in Users /\ c.cluster \in AllClusters /\ c.ns \in Namespaces
  BY AnswersAreLive, OfUser DEF ExistsAnswered, Inv, Typed, Requests, Calls
<1>2. /\ store \in Stores /\ past \in Pasts /\ now \in ClusterStates
      /\ store.current \in DOMAIN store.clusters
      /\ c.cluster \in DOMAIN store.clusters => now = store.clusters[c.cluster]
      /\ c.cluster \notin DOMAIN store.clusters => ~now.listed
  BY <1>1, LiveIsReady, KnownIs
<1>3. \/ /\ c.ns \in has /\ now.listed
         /\ Step(receiveNamespaceExists(store, c.cluster, c.ns), ui, calls \ {c}, p)
      \/ Step(errorNamespaces(store, c.cluster), ui, calls \ {c}, p)
      \/ Step(store, ui, calls \ {c}, p)
  BY DEF ExistsAnswered
<1>4. CASE \/ Step(errorNamespaces(store, c.cluster), ui, calls \ {c}, p)
           \/ Step(store, ui, calls \ {c}, p)
  BY <1>1, <1>4, FailureKeeps
<1>5. CASE /\ c.ns \in has /\ now.listed
           /\ Step(receiveNamespaceExists(store, c.cluster, c.ns), ui, calls \ {c}, p)
  <2> DEFINE e == [now EXCEPT !.list = @ \cup {c.ns}, !.error = FALSE]
  <2>1. \/ Step(store, ui, calls \ {c}, p)
        \/ Step(Put(store, c.cluster, e), ui, calls \ {c}, p)
    BY <1>5 DEF receiveNamespaceExists
  <2>2. /\ p \in Pasts /\ p.oidc = past.oidc /\ p.cookie = past.cookie /\ p.access = past.access
        /\ ~p.late => ~past.late /\ c.who = Owner(ui, past)
        /\ Owner(ui, p) = Owner(ui, past)
    BY <1>2, LateIs
  <2>3. CASE Step(store, ui, calls \ {c}, p)
    BY <1>1, <2>3, FailureKeeps
  <2>4. CASE Step(Put(store, c.cluster, e), ui, calls \ {c}, p)
    <3> HIDE DEF p
    <3>1. c.cluster \in DOMAIN store.clusters /\ now = store.clusters[c.cluster]
      BY <1>2, <1>5
    <3> HIDE DEF now
    <3>2. /\ e \in ClusterStates /\ e.ns = now.ns /\ e.named = now.named
          /\ e.list = now.list \cup {c.ns}
      BY <1>1, <1>2 DEF ClusterStates
    <3> HIDE DEF e
    <3>3. ~p.late => IsOwn(e, c.cluster, ui, p)
      BY <1>1, <2>2, <3>1, <3>2, LiveIsReady DEF NamespacesOwn, IsOwn
    <3>4. ~p.late /\ c.cluster = store.current
            /\ Settled(store.clusters[store.current], store.current, ui, p)
               => Settled(e, store.current, ui, p)
      <4> SUFFICES ASSUME ~p.late, c.cluster = store.current, Settled(now, store.current, ui, p)
                   PROVE  Settled(e, store.current, ui, p)
        BY <3>1
      <4>1. c.ns \in p.access[Owner(ui, p)][store.current]
        BY <1>5, <2>2
      <4>2. now.list = p.access[Owner(ui, p)][store.current]
        BY <4>1 DEF Settled
      <4>3. e.list = now.list
        BY <3>2, <4>1, <4>2
      <4> QED
        BY <3>2, <4>1, <4>3 DEF Settled
    <3> QED
      BY <1>1, <2>2, <2>4, <3>2, <3>3, <3>4, PutKeeps
  <2> QED
    BY <2>1, <2>3, <2>4
<1> QED
  BY <1>3, <1>4, <1>5

LEMMA AnsweredKeeps ==
  ASSUME ConstantsAssumption, Inv, NEW c \in calls, RequestAnswered(c) PROVE Inv'
<1>1. c.kind \in Requests /\ ui.page \in LivePages /\ past \in Pasts /\ calls \ {c} \in SUBSET Calls
  BY AnswersAreLive, LiveIsReady DEF RequestAnswered, Requests
<1>2. c # Kind("namespaces", store.current, NoNS, Owner(ui, past))
  BY DEF RequestAnswered, Kind
<1>3. Step(store, ui, calls \ {c}, past)
  BY DEF RequestAnswered
<1> QED
  BY <1>1, <1>2, <1>3, OthersKeep

\* The ContextSelector that reads the namespaces of a cluster that has none.
LEMMA CrashKeeps ==
  ASSUME ConstantsAssumption, Inv, ui.page \in LivePages,
         NEW p \in Pasts, p.oidc = past.oidc,
         Step(store, [ui EXCEPT !.page = "crashed"], {}, p)
  PROVE  Inv'
<1> DEFINE u == [ui EXCEPT !.page = "crashed"]
<1>1. store \in Stores /\ ui \in Uis /\ StorageOK(ui, past)
  BY LiveIsReady DEF Inv
<1>2. u.page = "crashed" /\ u \in Uis /\ u.storage = ui.storage
  BY <1>1 DEF Uis
<1>3. Step(store, u, {}, p)
  OBVIOUS
<1> HIDE DEF u
<1>4. PageOf(store, u.page) = "crashed"
  BY <1>2 DEF PageOf
<1>5. Checks(PageOf(store, u.page), u) = {}
  BY <1>4 DEF Checks
<1>6. /\ store' = store /\ calls' = {} /\ past' = p
      /\ ui' = [u EXCEPT !.page = "crashed", !.seen = <<store.authenticated, store.current>>]
  BY <1>3, <1>4, <1>5 DEF Step
<1>7. ui' \in Uis /\ ui'.page = "crashed" /\ ui'.storage = ui.storage
  <2>1. <<store.authenticated, store.current>> \in BOOLEAN \X AllClusters
    BY <1>1 DEF Stores
  <2> QED
    BY <1>2, <1>6, <2>1 DEF Uis
<1>8. Typed(store, ui, calls, past)'
  BY <1>1, <1>6, <1>7 DEF Typed
<1>9. PagesOK(store, ui, calls)'
  BY <1>6, <1>7 DEF Inv, PagesOK, LivePages
<1>10. StorageOK(ui, past)'
  BY <1>1, <1>6, <1>7 DEF StorageOK
<1> QED
  BY <1>7, <1>8, <1>9, <1>10 DEF Inv, LivePages

\* A request more.
LEMMA AskingKeeps ==
  ASSUME ConstantsAssumption, Inv, ui.page \in LivePages, store.authenticated,
         NEW kind \in {"namespaces", "create", "data"}, NEW c \in AllClusters,
         NEW ns \in Namespaces \cup {NoNS}, kind = "create" => ns \in Namespaces,
         NEW p \in Pasts, p.oidc = past.oidc, p.cookie = past.cookie, p.access = past.access,
         p.late = past.late,
         Step(store, ui, calls \cup {Kind(kind, c, ns, Who(ui))}, p)
  PROVE  Inv'
<1>1. Who(ui) = Owner(ui, past) /\ Owner(ui, past) \in Users
  BY LiveIsReady, WhoIsOwner, OwnerIsUser
<1> DEFINE d == Kind(kind, c, ns, Who(ui))
<1>2. d \in Calls /\ d.kind = kind /\ d.who = Owner(ui, past) /\ d.ns = ns
  BY <1>1 DEF Kind, Calls, Requests
<1>3. Step(store, ui, calls \cup {d}, p)
  OBVIOUS
<1> HIDE DEF d
<1>4. calls \cup {d} \in SUBSET Calls
  BY <1>2, LiveIsReady
<1> QED
  BY <1>1, <1>2, <1>3, <1>4, OthersKeep

LEMMA RequestsKeep ==
  ASSUME ConstantsAssumption, Inv,
         \/ Request
         \/ \E c \in AllClusters : selectCluster(c) \/ \E ns \in Namespaces : createNamespace(c, ns)
  PROVE  Inv'
<1> DEFINE q == Count
<1>1. ui.page \in LivePages
  BY DEF Request, selectCluster, createNamespace, LivePages
<1>2. past \in Pasts /\ store.current \in AllClusters
  BY <1>1, LiveIsReady, ClusterIsTyped
<1>3. /\ q \in Pasts /\ q.oidc = past.oidc /\ q.cookie = past.cookie /\ q.late = past.late
      /\ q.access = past.access
  BY <1>2, CountIs
<1>4. CASE Request
  <2>1. store.authenticated /\ Step(store, ui, calls \cup {Kind("data", store.current, NoNS, Who(ui))}, q)
    BY <1>4 DEF Request
  <2> HIDE DEF q
  <2> QED
    BY <1>1, <1>2, <1>3, <2>1, AskingKeeps
<1>5. ASSUME NEW c \in AllClusters, selectCluster(c) PROVE Inv'
  <2>1. /\ store.authenticated
        /\ \/ Step(store, ui, calls \cup {Kind("namespaces", c, NoNS, Who(ui))}, q)
           \/ Step(store, [ui EXCEPT !.page = "crashed"], {}, q)
    BY <1>5 DEF selectCluster, Nav
  <2> HIDE DEF q
  <2> QED
    BY <1>1, <1>3, <2>1, AskingKeeps, CrashKeeps
<1>6. ASSUME NEW c \in AllClusters, NEW ns \in Namespaces, createNamespace(c, ns) PROVE Inv'
  <2> DEFINE p == [q EXCEPT !.turns = @ + 1]
  <2>1. store.authenticated /\ Step(store, ui, calls \cup {Kind("create", c, ns, Who(ui))}, p)
    BY <1>6 DEF createNamespace, Nav
  <2> HIDE DEF q
  <2>2. /\ p \in Pasts /\ p.oidc = past.oidc /\ p.cookie = past.cookie /\ p.late = past.late
        /\ p.access = past.access
    BY <1>3 DEF Pasts
  <2> HIDE DEF p
  <2> QED
    BY <1>1, <2>1, <2>2, AskingKeeps
<1> QED
  BY <1>4, <1>5, <1>6

\* The context that the localStorage remembers.
LEMMA StoredIs ==
  ASSUME NEW u \in Uis, NEW c \in AllClusters, NEW ns \in Namespaces
  PROVE  LET v == [u EXCEPT !.storage.stored[c] = ns]
         IN /\ v \in Uis /\ v.page = u.page /\ v.initial = u.initial /\ v.seen = u.seen
            /\ v.storage.token = u.storage.token /\ v.storage.oidc = u.storage.oidc
<1> DEFINE v == [u EXCEPT !.storage.stored[c] = ns]
<1>1. /\ u.storage \in Storages
      /\ [u.storage.stored EXCEPT ![c] = ns] \in [AllClusters -> Namespaces \cup {NoNS}]
  BY DEF Uis, Storages
<1>2. v = [u EXCEPT !.storage = [u.storage EXCEPT !.stored = [u.storage.stored EXCEPT ![c] = ns]]]
  BY <1>1 DEF Uis, Storages
<1> DEFINE m == [u.storage EXCEPT !.stored = [u.storage.stored EXCEPT ![c] = ns]]
<1> HIDE DEF v
<1>3. m \in Storages /\ m.token = u.storage.token /\ m.oidc = u.storage.oidc
  BY <1>1 DEF Storages
<1> HIDE DEF m
<1>4. v = [u EXCEPT !.storage = m]
  BY <1>2 DEF m
<1>5. v \in Uis /\ v.page = u.page /\ v.initial = u.initial /\ v.seen = u.seen /\ v.storage = m
  BY <1>3, <1>4 DEF Uis
<1> QED
  BY <1>3, <1>5 DEF v

LEMMA ContextIs ==
  ASSUME NEW s \in Stores, NEW c \in AllClusters, NEW ns \in Namespaces,
         s.current \in DOMAIN s.clusters
  PROVE  LET t == setNamespaceState(s, c, ns)
         IN /\ SameLogin(s, t) /\ t.current = c
            /\ DOMAIN t.clusters = DOMAIN s.clusters \cup {c}
            /\ t.clusters[c].ns = ns /\ t.clusters[c].list = s.clusters[s.current].list
            /\ \A k \in DOMAIN s.clusters : k # c => t.clusters[k] = s.clusters[k]
<1> DEFINE now == Known(s, s.current)
           e == [now EXCEPT !.ns = ns, !.error = FALSE, !.named = FALSE]
<1>1. now \in ClusterStates /\ now = s.clusters[s.current]
  BY KnownIs
<1>2. setNamespaceState(s, c, ns) = [Put(s, c, e) EXCEPT !.current = c]
  BY DEF setNamespaceState
<1> HIDE DEF now
<1>3. e \in ClusterStates /\ e.ns = ns /\ e.list = now.list
  BY <1>1 DEF ClusterStates
<1> HIDE DEF e
<1> QED
  BY <1>1, <1>2, <1>3, MovedIs

LEMMA ChangeKeeps ==
  ASSUME ConstantsAssumption, Inv, NEW c \in AllClusters, NEW ns \in Namespaces, changeContext(c, ns)
  PROVE  Inv'
<1> DEFINE s == setNamespaceState(store, c, ns)
           u == [ui EXCEPT !.storage.stored[c] = ns]
           p == [Count EXCEPT !.late = @ \/ (Who(ui) # Nobody /\ ns \notin past.access[Who(ui)][c])]
<1>1. ui.page \in LivePages /\ store.authenticated /\ Step(s, u, calls, p)
  BY DEF changeContext, Nav, LivePages
<1>2. /\ store \in Stores /\ ui \in Uis /\ past \in Pasts /\ calls \in SUBSET Calls
      /\ store.current \in DOMAIN store.clusters /\ past.late \in BOOLEAN
      /\ ui.seen = <<TRUE, store.current>>
  BY <1>1, LiveIsReady
<1>3. Who(ui) = Owner(ui, past) /\ Owner(ui, past) \in Users /\ Who(ui) # Nobody
  <2>1. Owner(ui, past) \in Users
    BY <1>1, LiveIsReady, OwnerIsUser
  <2> QED
    BY <2>1, WhoIsOwner DEF ConstantsAssumption
<1>4. /\ p \in Pasts /\ p.oidc = past.oidc /\ p.cookie = past.cookie /\ p.access = past.access
      /\ ~p.late => ~past.late /\ ns \in past.access[Owner(ui, past)][c]
  <2> DEFINE q == Count
             late == past.late \/ (Who(ui) # Nobody /\ ns \notin past.access[Who(ui)][c])
  <2>1. PICK b \in BOOLEAN : b <=> late
    OBVIOUS
  <2>2. /\ q \in Pasts /\ q.oidc = past.oidc /\ q.cookie = past.cookie /\ q.late = past.late
        /\ q.access = past.access
    BY <1>2, CountIs
  <2>3. p = [q EXCEPT !.late = q.late \/ (Who(ui) # Nobody /\ ns \notin past.access[Who(ui)][c])]
    BY <2>2 DEF Pasts
  <2> HIDE DEF q, p
  <2>4. /\ p \in Pasts /\ p.oidc = q.oidc /\ p.cookie = q.cookie /\ p.access = q.access
        /\ (p.late <=> b)
    BY <2>1, <2>2, <2>3 DEF Pasts
  <2> QED
    BY <1>3, <2>1, <2>2, <2>4
<1> HIDE DEF p
<1>5. /\ u \in Uis /\ u.page = ui.page /\ u.initial = ui.initial /\ u.seen = ui.seen
      /\ u.storage.token = ui.storage.token /\ u.storage.oidc = ui.storage.oidc
  BY <1>2, StoredIs
<1> HIDE DEF u
<1>6. /\ SameLogin(store, s) /\ s.current = c /\ DOMAIN s.clusters = DOMAIN store.clusters \cup {c}
      /\ s.clusters[c].ns = ns /\ s.clusters[c].list = store.clusters[store.current].list
      /\ \A k \in DOMAIN store.clusters : k # c => s.clusters[k] = store.clusters[k]
  BY <1>2, ContextIs
<1> HIDE DEF s
<1>7. Owner(u, p) = Owner(ui, past)
  BY <1>4, <1>5 DEF Owner
<1>8. ~p.late => NamespacesOwn(s, u, p)
  BY <1>1, <1>3, <1>4, <1>5, <1>6, <1>7, LiveIsReady DEF NamespacesOwn, IsOwn
<1>9. ~p.late /\ u.seen = <<TRUE, s.current>> => ContextKnown(s, u, calls, p)
  <2> SUFFICES ASSUME ~p.late, u.seen = <<TRUE, s.current>> PROVE ContextKnown(s, u, calls, p)
    OBVIOUS
  <2>1. c = store.current
    <3>1. <<TRUE, c>>[2] = <<TRUE, store.current>>[2]
      BY <1>2, <1>5, <1>6
    <3> QED
      BY <3>1
  <2>2. ContextKnown(store, ui, calls, past)
    BY <1>1, <1>4, LiveIsReady
  <2>3. ns \in past.access[Owner(ui, past)][store.current] /\ ns # NoNS
    BY <1>4, <2>1 DEF ConstantsAssumption
  <2> QED
    BY <1>4, <1>6, <1>7, <2>1, <2>2, <2>3 DEF ContextKnown, Settled
<1> QED
  BY <1>1, <1>2, <1>4, <1>5, <1>6, <1>8, <1>9, GoesOn

\* A namespace that a URL names is marked as such; one of another cluster is followed by its list.
LEMMA LocationKeeps ==
  ASSUME ConstantsAssumption, Inv, NEW c \in AllClusters, NEW ns \in Namespaces,
         LocationChanged(c, ns)
  PROVE  Inv'
<1> DEFINE now == Known(store, c)
           e == [now EXCEPT !.ns = ns, !.named = @ \/ now.ns # ns]
           s == locationChange(store, c, ns)
           q == Count
           p == [q EXCEPT !.turns = @ + 1]
<1>1. ui.page \in LivePages /\ store.authenticated /\ Step(s, ui, calls, p)
  BY DEF LocationChanged, LivePages
<1>2. /\ store \in Stores /\ ui \in Uis /\ past \in Pasts /\ calls \in SUBSET Calls
      /\ store.current \in DOMAIN store.clusters /\ ui.seen = <<TRUE, store.current>>
  BY <1>1, LiveIsReady
<1>3. /\ q \in Pasts /\ q.oidc = past.oidc /\ q.cookie = past.cookie /\ q.late = past.late
      /\ q.access = past.access
  BY <1>2, CountIs
<1> HIDE DEF q
<1>4. /\ p \in Pasts /\ p.oidc = past.oidc /\ p.cookie = past.cookie /\ p.late = past.late
      /\ p.access = past.access
  BY <1>3 DEF Pasts
<1> HIDE DEF p
<1>5. /\ now \in ClusterStates /\ ns # NoNS
      /\ c \in DOMAIN store.clusters => now = store.clusters[c]
      /\ c \notin DOMAIN store.clusters => now.ns = NoNS
  BY <1>2, KnownIs DEF ConstantsAssumption
<1>6. s = [Put(store, c, e) EXCEPT !.current = c]
  <2>1. e = [now EXCEPT !.ns = ns, !.named = @ \/ Known(store, c).ns # ns]
    OBVIOUS
  <2> QED
    BY <2>1 DEF locationChange
<1> HIDE DEF now
<1>7. /\ e \in ClusterStates /\ e.ns = ns /\ e.list = now.list /\ e.error = now.error
      /\ now.named => e.named
  BY <1>5 DEF ClusterStates
<1>8. e.named \/ e.ns = now.ns
  BY <1>5 DEF ClusterStates
<1> HIDE DEF e, s
<1>9. /\ SameLogin(store, s) /\ s.current = c /\ DOMAIN s.clusters = DOMAIN store.clusters \cup {c}
      /\ s.clusters[c] = e
      /\ \A k \in DOMAIN store.clusters : k # c => s.clusters[k] = store.clusters[k]
  BY <1>2, <1>6, <1>7, MovedIs
<1>10. Owner(ui, p) = Owner(ui, past)
  BY <1>4 DEF Owner
<1>11. ~p.late => NamespacesOwn(s, ui, p)
  <2> SUFFICES ASSUME ~p.late, NEW k \in DOMAIN s.clusters PROVE IsOwn(s.clusters[k], k, ui, p)
    BY DEF NamespacesOwn
  <2>1. \A j \in DOMAIN store.clusters : IsOwn(store.clusters[j], j, ui, p)
    BY <1>1, <1>4, <1>10, LiveIsReady DEF NamespacesOwn, IsOwn
  <2>2. CASE k # c
    BY <1>9, <2>1, <2>2
  <2>3. CASE k = c
    <3>1. CASE e.named
      BY <1>9, <2>3, <3>1 DEF IsOwn
    <3>2. CASE ~e.named
      <4>1. c \in DOMAIN store.clusters /\ now = store.clusters[c] /\ e.ns = now.ns /\ ~now.named
        BY <1>5, <1>7, <1>8, <3>2
      <4> QED
        BY <1>9, <2>1, <2>3, <4>1 DEF IsOwn
    <3> QED
      BY <3>1, <3>2
  <2> QED
    BY <2>2, <2>3
<1>12. ~p.late /\ ui.seen = <<TRUE, s.current>> => ContextKnown(s, ui, calls, p)
  <2> SUFFICES ASSUME ~p.late, ui.seen = <<TRUE, s.current>> PROVE ContextKnown(s, ui, calls, p)
    OBVIOUS
  <2>1. c = store.current
    <3>1. <<TRUE, c>>[2] = <<TRUE, store.current>>[2]
      BY <1>2, <1>9
    <3> QED
      BY <3>1
  <2>2. ContextKnown(store, ui, calls, past) /\ now = store.clusters[store.current]
    BY <1>1, <1>2, <1>4, <1>5, <2>1, LiveIsReady
  <2>3. Settled(now, store.current, ui, past) => Settled(e, store.current, ui, p)
    BY <1>4, <1>5, <1>7, <1>8, <1>10 DEF Settled
  <2> QED
    BY <1>9, <1>10, <2>1, <2>2, <2>3 DEF ContextKnown
<1> QED
  BY <1>1, <1>2, <1>4, <1>9, <1>11, <1>12, GoesOn

\* A namespace more, for whoever asked for it.
Grown(w, c, ns, b) == [past EXCEPT !.access[w][c] = @ \cup {ns}, !.late = b]

LEMMA GrownIs ==
  ASSUME past \in Pasts, NEW w \in Users, NEW c \in AllClusters, NEW ns \in Namespaces,
         NEW b \in BOOLEAN, NEW p, p = Grown(w, c, ns, b)
  PROVE  /\ p \in Pasts /\ p.oidc = past.oidc /\ p.cookie = past.cookie /\ p.late = b
         /\ ns \in p.access[w][c]
         /\ \A k \in AllClusters : past.access[w][k] \subseteq p.access[w][k]
<1> DEFINE a == [past.access EXCEPT ![w] = [past.access[w] EXCEPT ![c] = past.access[w][c] \cup {ns}]]
<1>1. past.access \in Accesses
  BY DEF Pasts
<1>2. /\ a \in Accesses /\ ns \in a[w][c]
      /\ \A k \in AllClusters : past.access[w][k] \subseteq a[w][k]
  BY <1>1 DEF Accesses
<1>3. p = [past EXCEPT !.access = a, !.late = b]
  BY DEF Pasts, Accesses, Grown
<1> HIDE DEF a
<1>4. /\ p \in Pasts /\ p.oidc = past.oidc /\ p.cookie = past.cookie /\ p.late = b
      /\ p.access = a
  BY <1>2, <1>3 DEF Pasts
<1> QED
  BY <1>2, <1>4

LEMMA CreateKeeps ==
  ASSUME ConstantsAssumption, Inv, NEW c \in calls, CreateAnswered(c) PROVE Inv'
<1> DEFINE late == Late(c) \/ \E d \in calls : d.kind = "namespaces"
           n == Kind("namespaces", c.cluster, NoNS, Who(ui))
           s == setNamespaceState(store, c.cluster, c.ns)
           v == [ui EXCEPT !.storage.stored[c.cluster] = c.ns]
           u == [ui EXCEPT !.page = "app", !.storage.stored[c.cluster] = c.ns]
           p == [past EXCEPT !.access[c.who][c.cluster] = @ \cup {c.ns}, !.late = late]
           cs == (calls \ {c}) \cup {n}
<1>1. /\ c.kind = "create" /\ c.kind \in Requests /\ ui.page \in LivePages
      /\ c \in Calls /\ c.who \in Users /\ c.cluster \in AllClusters /\ c.ns \in Namespaces
  BY AnswersAreLive, OfUser DEF CreateAnswered, Inv, Typed, Requests, Calls
<1>2. \/ Step(errorNamespaces(store, c.cluster), ui, calls \ {c}, [past EXCEPT !.late = Late(c)])
      \/ Step(s, u, cs, p)
  BY DEF CreateAnswered
<1>3. CASE Step(errorNamespaces(store, c.cluster), ui, calls \ {c}, [past EXCEPT !.late = Late(c)])
  BY <1>1, <1>3, FailureKeeps
<1>4. CASE Step(s, u, cs, p)
  <2>1. /\ store \in Stores /\ ui \in Uis /\ past \in Pasts /\ calls \in SUBSET Calls
        /\ store.current \in DOMAIN store.clusters /\ past.late \in BOOLEAN
    BY <1>1, LiveIsReady
  <2>2. late \in BOOLEAN /\ (~late => ~past.late /\ c.who = Owner(ui, past))
    BY <2>1, WhoIsOwner DEF Late
  <2> HIDE DEF late
  <2>12. p = Grown(c.who, c.cluster, c.ns, late)
    BY DEF Grown
  <2> HIDE DEF p
  <2>3. /\ p \in Pasts /\ p.oidc = past.oidc /\ p.cookie = past.cookie /\ p.late = late
        /\ c.ns \in p.access[c.who][c.cluster]
        /\ \A k \in AllClusters : past.access[c.who][k] \subseteq p.access[c.who][k]
    BY <1>1, <2>1, <2>2, <2>12, GrownIs
  <2>4. /\ u \in Uis /\ u.page = "app" /\ u.initial = ui.initial
        /\ u.storage.token = ui.storage.token /\ u.storage.oidc = ui.storage.oidc
    <3>1. /\ v \in Uis /\ v.initial = ui.initial
          /\ v.storage.token = ui.storage.token /\ v.storage.oidc = ui.storage.oidc
      BY <1>1, <2>1, StoredIs
    <3>2. u = [v EXCEPT !.page = "app"]
      BY <2>1 DEF Uis
    <3> HIDE DEF u, v
    <3> QED
      BY <3>1, <3>2 DEF Uis, LivePages
  <2> HIDE DEF u
  <2>5. /\ SameLogin(store, s) /\ s.current = c.cluster
        /\ DOMAIN s.clusters = DOMAIN store.clusters \cup {c.cluster}
        /\ s.clusters[c.cluster].ns = c.ns
        /\ \A k \in DOMAIN store.clusters : k # c.cluster => s.clusters[k] = store.clusters[k]
    BY <1>1, <2>1, ContextIs
  <2> HIDE DEF s
  <2>6. Owner(u, p) = Owner(ui, past)
    BY <2>3, <2>4 DEF Owner
  <2>7. /\ n \in Calls /\ n.kind = "namespaces" /\ n.who = Owner(ui, past)
        /\ n = Kind("namespaces", s.current, NoNS, Owner(u, p))
    <3>1. Owner(ui, past) \in Users \cup {Nobody}
      BY <2>1 DEF Owner, Uis, Storages, Pasts
    <3> QED
      BY <1>1, <2>5, <2>6, <3>1, WhoIsOwner DEF Kind, Calls, Requests
  <2> HIDE DEF n
  <2>8. ~p.late => NamespacesOwn(s, u, p)
    <3> SUFFICES ASSUME ~p.late, NEW k \in DOMAIN s.clusters PROVE IsOwn(s.clusters[k], k, u, p)
      BY DEF NamespacesOwn
    <3>1. ~past.late /\ c.who = Owner(ui, past)
      BY <2>2, <2>3
    <3>2. CASE k = c.cluster
      BY <1>1, <2>3, <2>5, <2>6, <3>1, <3>2 DEF IsOwn
    <3>3. CASE k # c.cluster
      <4>1. /\ k \in AllClusters /\ s.clusters[k] = store.clusters[k]
            /\ IsOwn(store.clusters[k], k, ui, past)
        BY <1>1, <2>5, <3>1, <3>3, LiveIsReady, ClusterIsTyped DEF NamespacesOwn
      <4> QED
        BY <2>3, <2>4, <2>6, <3>1, <4>1 DEF IsOwn
    <3> QED
      BY <3>2, <3>3
  <2>9. ContextKnown(s, u, cs, p)
    BY <2>7 DEF ContextKnown
  <2>10. /\ cs \in SUBSET Calls /\ \A d \in calls \ cs : d.kind \in Requests
         /\ \A d \in cs \ calls : d = n
    BY <1>1, <2>1, <2>7
  <2>11. ~p.late => n.who \in Users
    BY <1>1, <2>2, <2>3, <2>7
  <2> HIDE DEF cs
  <2> QED
    BY <1>1, <1>4, <2>2, <2>3, <2>4, <2>5, <2>7, <2>8, <2>9, <2>10, <2>11, GoesOn DEF LivePages
<1> QED
  BY <1>2, <1>3, <1>4

\* A token that is no more accepted says nothing of what the dashboard knows.
LEMMA SamePast ==
  ASSUME Inv, past' \in Pasts, past'.oidc = past.oidc, past'.cookie = past.cookie,
         past'.late = past.late, past'.access = past.access, UNCHANGED <<store, ui, calls>>
  PROVE  Inv'
<1>1. Owner(ui, past)' = Owner(ui, past)
  BY DEF Owner
<1>2. Typed(store, ui, calls, past)' /\ StorageOK(ui, past)' /\ PagesOK(store, ui, calls)'
  BY DEF Inv, Typed, StorageOK, PagesOK
<1>3. ASSUME ui.page \in LivePages PROVE Ready(store, ui, calls, past)'
  <2>1. LoginOK(store, ui, calls, past)' /\ OneLogin(store, calls)' = OneLogin(store, calls)
    BY <1>3, LiveIsReady DEF LoginOK, OneLogin
  <2>2. NamespacesOwn(store, ui, past) => NamespacesOwn(store, ui, past)'
    BY <1>1 DEF NamespacesOwn, IsOwn
  <2>3. ContextKnown(store, ui, calls, past) => ContextKnown(store, ui, calls, past)'
    BY <1>1 DEF ContextKnown, Settled
  <2> QED
    BY <1>2, <1>3, <2>1, <2>2, <2>3, LiveIsReady DEF Ready
<1> QED
  BY <1>2, <1>3 DEF Inv

LEMMA ExpireKeeps ==
  ASSUME Inv, NEW v \in Users, Expire(v) PROVE Inv'
<1>1. past \in Pasts
  BY DEF Inv, Typed
<1> DEFINE q == Count
<1>2. /\ q \in Pasts /\ q.oidc = past.oidc /\ q.cookie = past.cookie /\ q.late = past.late
      /\ q.access = past.access
  BY <1>1, CountIs
<1>3. past' = [q EXCEPT !.valid = @ \ {v}]
  BY DEF Expire
<1> HIDE DEF q
<1>4. /\ past' \in Pasts /\ past'.oidc = past.oidc /\ past'.cookie = past.cookie
      /\ past'.late = past.late /\ past'.access = past.access
  BY <1>2, <1>3 DEF Pasts
<1> QED
  BY <1>4, SamePast DEF Expire

LEMMA NextKeeps == ConstantsAssumption /\ Inv /\ [Next]_vars => Inv'
<1> SUFFICES ASSUME ConstantsAssumption, Inv, [Next]_vars PROVE Inv'
  OBVIOUS
<1>1. CASE UNCHANGED vars
  BY <1>1, SamePast DEF vars, Inv, Typed
<1>2. CASE logout
  BY <1>2, LogoutKeeps
<1>3. CASE Load
  BY <1>3, LoadKeeps
<1>4. CASE Request
  BY <1>4, RequestsKeep
<1>5. ASSUME NEW v \in Users, authenticate(v) \/ LoginByProxy(v) \/ Expire(v) PROVE Inv'
  BY <1>5, AuthenticateKeeps, LoadKeeps, ExpireKeeps
<1>6. ASSUME NEW c \in AllClusters, selectCluster(c) PROVE Inv'
  BY <1>6, RequestsKeep
<1>7. ASSUME NEW c \in AllClusters, NEW ns \in Namespaces,
             changeContext(c, ns) \/ LocationChanged(c, ns) \/ createNamespace(c, ns)
      PROVE  Inv'
  BY <1>7, ChangeKeeps, LocationKeeps, RequestsKeep
<1>8. ASSUME NEW c \in calls, Answered(c) PROVE Inv'
  BY <1>8, ConfigKeeps, ValidateKeeps, CookieKeeps, NamespacesKeeps, ExistsKeeps, CreateKeeps,
     AnsweredKeeps, RefusalKeeps DEF Answered
<1> QED
  BY <1>1, <1>2, <1>3, <1>4, <1>5, <1>6, <1>7, <1>8 DEF Next

LEMMA Invariant == ConstantsAssumption => (Spec => []Inv)
<1> SUFFICES ASSUME ConstantsAssumption PROVE Spec => []Inv
  OBVIOUS
<1>1. Init => Inv
  BY InitKeeps
<1>2. Inv /\ [Next]_vars => Inv'
  BY NextKeeps
<1> QED
  BY <1>1, <1>2, PTL DEF Spec

-----------------------------------------------------------------------------
(* What it says.                                                             *)

LEMMA InvTypes == ConstantsAssumption /\ Inv => TypeOK
<1> SUFFICES ASSUME ConstantsAssumption, Inv PROVE TypeOK
  OBVIOUS
<1>1. store \in Stores /\ ui \in Uis /\ past \in Pasts
  BY DEF Inv, Typed
<1>2. ~(store.authenticated /\ store.authenticating)
  BY DEF Inv, PagesOK
<1>3. /\ DOMAIN store.clusters \subseteq AllClusters
      /\ \A c \in DOMAIN store.clusters : store.clusters[c].ns \in Namespaces \cup {NoNS}
  BY <1>1, MapsAre, MapApply DEF Stores, ClusterStates
<1> QED
  BY <1>1, <1>2, <1>3 DEF TypeOK, Stores, Uis, Storages, Pasts, LivePages

LEMMA InvHolds == ConstantsAssumption /\ Inv => SessionHolds
<1> SUFFICES ASSUME ConstantsAssumption, Inv PROVE SessionHolds
  OBVIOUS
<1>1. SessionIsItsToken
  <2> SUFFICES ASSUME ~past.oidc, ui.page \in LivePages
               PROVE  store.authenticated = (ui.storage.token # Nobody) \/ store.authenticating
    BY DEF SessionIsItsToken, OIDC, Live, LivePages
  <2> QED
    BY LiveIsReady DEF LoginOK
<1>2. ContextIsOwn
  <2> SUFFICES ASSUME ui.page = "app", store.authenticated, calls = {}, ~past.late
               PROVE  LET now == store.clusters[store.current]
                          has == past.access[Who(ui)][store.current]
                      IN IF has = {} THEN now.error
                         ELSE /\ now.list = has /\ now.ns # NoNS
                              /\ now.ns \in has \cup {ui.initial} \/ now.named
    BY DEF ContextIsOwn
  <2>1. ContextKnown(store, ui, {}, past) /\ Owner(ui, past) = Who(ui)
    BY LiveIsReady, WhoIsOwner DEF LivePages
  <2> QED
    BY <2>1 DEF ContextKnown, Settled
<1>3. SessionSettles
  <2> SUFFICES ASSUME calls = {}, ui.page \in LivePages
               PROVE  /\ ~store.authenticating
                      /\ ui.page = "root" /\ ~past.late => past.access[Who(ui)][store.current] = {}
    BY DEF SessionSettles, Live, LivePages
  <2>1. ~store.authenticating
    BY LiveIsReady DEF LoginOK
  <2>2. ASSUME ui.page = "root", ~past.late PROVE past.access[Who(ui)][store.current] = {}
    <3>1. store.authenticated /\ store.clusters[store.current].ns = NoNS
      BY <2>2, LiveIsReady DEF Inv, PagesOK
    <3>2. ContextKnown(store, ui, calls, past) /\ Owner(ui, past) \in Users
      BY <2>2, <3>1, LiveIsReady, OwnerIsUser
    <3> QED
      BY <3>1, <3>2, <2>2, WhoIsOwner DEF ContextKnown, Settled
  <2> QED
    BY <2>1, <2>2
<1> QED
  BY <1>1, <1>2, <1>3 DEF SessionHolds

-----------------------------------------------------------------------------

\* Every variable of the session keeps its type, and nobody is both logged in and logging in.
THEOREM SessionTypes == ConstantsAssumption => (Spec => []TypeOK)
<1> SUFFICES ASSUME ConstantsAssumption PROVE Spec => []TypeOK
  OBVIOUS
<1>1. Inv => TypeOK
  BY InvTypes
<1> QED
  BY <1>1, Invariant, PTL

\* Whoever is logged in has the token that his requests carry, and once everything is answered
\* the context is his, or one that a URL named, or he is told that he has none; neither a login
\* nor a context is waited for in vain.  So it goes for any users, clusters and namespaces, through
\* logouts, reloads, expired tokens, URLs of any context, namespaces that are created, and the
\* answers to requests of whoever was logged in before.
THEOREM SessionIsKept == ConstantsAssumption => (Spec => []SessionHolds)
<1> SUFFICES ASSUME ConstantsAssumption PROVE Spec => []SessionHolds
  OBVIOUS
<1>1. Inv => SessionHolds
  BY InvHolds
<1> QED
  BY <1>1, Invariant, PTL
=============================================================================

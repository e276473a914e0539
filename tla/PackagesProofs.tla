---------------------------- MODULE PackagesProofs ----------------------------
(***************************************************************************)
(* What the parts of Packages keep, for any values of its constants, each  *)
(* from an inductive invariant whose names begin with Pkg (the pages of a  *)
(* package), Ins (installed applications), Vals (the form of values) or    *)
(* Cat (the catalog).  The first section is about the slice of the store   *)
(* that they share, the last puts them together.                           *)
(***************************************************************************)
EXTENDS Packages, TLAPS, FiniteSetTheorems, SequenceTheorems

(* The slice of the store that all pages share, for any items I, details D,  *)
(* versions V and values W.                                                  *)

P == INSTANCE AvailablePackages WITH NoDetail <- None

Selections(D, V, W) == [error : BOOLEAN, detail : D, versions : SUBSET V, values : W]
Slices(I, D, V, W)  == [isFetching : BOOLEAN, hasFinishedFetching : BOOLEAN, nextPageToken : Nat,
                        items : SUBSET I, selected : Selections(D, V, W)]

\* t has the list of s
SameList(s, t) == /\ t.hasFinishedFetching = s.hasFinishedFetching
                  /\ t.nextPageToken = s.nextPageToken /\ t.items = s.items

LEMMA SliceInit ==
  ASSUME NEW I, NEW D, NEW V, NEW W, None \in D, None \in W
  PROVE  /\ P!initialState \in Slices(I, D, V, W) /\ P!NoSelection \in Selections(D, V, W)
         /\ P!initialState.selected = P!NoSelection
BY DEF P!initialState, P!NoSelection, P!FirstPage, Slices, Selections

LEMMA SliceSelected ==
  ASSUME NEW I, NEW D, NEW V, NEW W, NEW s \in Slices(I, D, V, W), NEW x \in Selections(D, V, W)
  PROVE  LET t == [s EXCEPT !.selected = x]
         IN t \in Slices(I, D, V, W) /\ SameList(s, t) /\ t.selected = x /\ t.isFetching = s.isFetching
BY DEF Slices, SameList

LEMMA SliceEnds ==
  ASSUME NEW I, NEW D, NEW V, NEW W, NEW s \in Slices(I, D, V, W)
  PROVE  LET t == [s EXCEPT !.isFetching = FALSE]
         IN t \in Slices(I, D, V, W) /\ SameList(s, t) /\ t.selected = s.selected /\ ~t.isFetching
BY DEF Slices, SameList

LEMMA SliceRequests ==
  ASSUME NEW I, NEW D, NEW V, NEW W, NEW s \in Slices(I, D, V, W)
  PROVE  /\ LET t == P!requestSelectedAvailablePackageDetail(s)
            IN t \in Slices(I, D, V, W) /\ SameList(s, t) /\ t.selected = s.selected /\ t.isFetching
         /\ P!requestSelectedAvailablePackageVersions(s) = P!requestSelectedAvailablePackageDetail(s)
         /\ P!requestAvailablePackageSummaries(s) = P!requestSelectedAvailablePackageDetail(s)
BY DEF P!requestSelectedAvailablePackageDetail, P!requestSelectedAvailablePackageVersions,
       P!requestAvailablePackageSummaries, Slices, SameList

LEMMA SliceResets ==
  ASSUME NEW I, NEW D, NEW V, NEW W, NEW s \in Slices(I, D, V, W), None \in D, None \in W
  PROVE  LET t == P!resetSelectedAvailablePackageDetail(s)
         IN t \in Slices(I, D, V, W) /\ SameList(s, t) /\ t.isFetching = s.isFetching
            /\ t.selected = P!NoSelection
<1>1. P!NoSelection \in Selections(D, V, W)
  BY SliceInit
<1> QED
  BY <1>1, SliceSelected DEF P!resetSelectedAvailablePackageDetail

LEMMA SliceReceives == \* the details, with their default values
  ASSUME NEW I, NEW D, NEW V, NEW W, NEW s \in Slices(I, D, V, W),
         NEW d \in D, P!defaultValues(d, "") \in W
  PROVE  LET t == P!receiveSelectedAvailablePackageDetail(s, d)
         IN t \in Slices(I, D, V, W) /\ SameList(s, t) /\ ~t.isFetching
            /\ ~t.selected.error /\ t.selected.detail = d
            /\ t.selected.versions = s.selected.versions
            /\ t.selected.values = P!defaultValues(d, "")
<1> DEFINE v == P!defaultValues(d, "")
           x == [s.selected EXCEPT !.error = FALSE, !.detail = d, !.values = v]
           s1 == [s EXCEPT !.isFetching = FALSE]
<1> HIDE DEF v
<1>1. x \in Selections(D, V, W) /\ ~x.error /\ x.detail = d /\ x.values = v
      /\ x.versions = s.selected.versions
  BY DEF Slices, Selections, v
<1>2. s1 \in Slices(I, D, V, W) /\ SameList(s, s1) /\ ~s1.isFetching
  BY SliceEnds
<1>3. P!receiveSelectedAvailablePackageDetail(s, d)
          = [s EXCEPT !.isFetching = FALSE, !.selected.error = FALSE, !.selected.detail = d, !.selected.values = v]
  BY DEF P!receiveSelectedAvailablePackageDetail, v
<1>4. P!receiveSelectedAvailablePackageDetail(s, d) = [s1 EXCEPT !.selected = x]
  BY <1>3 DEF Slices
<1> HIDE DEF x, s1
<1>5. LET t == [s1 EXCEPT !.selected = x]
      IN t \in Slices(I, D, V, W) /\ SameList(s1, t) /\ t.selected = x /\ t.isFetching = s1.isFetching
  BY <1>1, <1>2 DEF Slices, SameList
<1> QED
  BY <1>1, <1>2, <1>4, <1>5 DEF v, SameList

LEMMA SliceVersions ==
  ASSUME NEW I, NEW D, NEW V, NEW W, NEW s \in Slices(I, D, V, W), NEW vs \in SUBSET V
  PROVE  LET t == P!receiveSelectedAvailablePackageVersions(s, vs)
         IN t \in Slices(I, D, V, W) /\ SameList(s, t) /\ ~t.isFetching
            /\ ~t.selected.error /\ t.selected.detail = s.selected.detail
            /\ t.selected.versions = vs /\ t.selected.values = s.selected.values
<1> DEFINE x == [s.selected EXCEPT !.error = FALSE, !.versions = vs]
           s1 == [s EXCEPT !.isFetching = FALSE]
<1>1. x \in Selections(D, V, W) /\ ~x.error /\ x.detail = s.selected.detail /\ x.values = s.selected.values
      /\ x.versions = vs
  BY DEF Slices, Selections
<1>2. s1 \in Slices(I, D, V, W) /\ SameList(s, s1) /\ ~s1.isFetching
  BY SliceEnds
<1>4. P!receiveSelectedAvailablePackageVersions(s, vs) = [s1 EXCEPT !.selected = x]
  BY DEF P!receiveSelectedAvailablePackageVersions, Slices
<1> HIDE DEF x, s1
<1>5. LET t == [s1 EXCEPT !.selected = x]
      IN t \in Slices(I, D, V, W) /\ SameList(s1, t) /\ t.selected = x /\ t.isFetching = s1.isFetching
  BY <1>1, <1>2, SliceSelected
<1> QED
  BY <1>1, <1>2, <1>4, <1>5 DEF SameList

LEMMA SliceCustom ==
  ASSUME NEW I, NEW D, NEW V, NEW W, NEW s \in Slices(I, D, V, W), NEW f,
         P!defaultValues(s.selected.detail, f) \in W
  PROVE  LET t == P!setAvailablePackageDetailCustomDefaults(s, f)
         IN t \in Slices(I, D, V, W) /\ SameList(s, t) /\ t.isFetching = s.isFetching
            /\ t.selected.error = s.selected.error /\ t.selected.detail = s.selected.detail
            /\ t.selected.versions = s.selected.versions
            /\ t.selected.values = P!defaultValues(s.selected.detail, f)
<1> DEFINE v == P!defaultValues(s.selected.detail, f)
           x == [s.selected EXCEPT !.values = v]
<1> HIDE DEF v
<1>1. v \in W
  BY DEF v
<1>2. x \in Selections(D, V, W) /\ x.error = s.selected.error /\ x.detail = s.selected.detail
      /\ x.versions = s.selected.versions /\ x.values = v
  BY <1>1 DEF Slices, Selections
<1>3. P!setAvailablePackageDetailCustomDefaults(s, f) = [s EXCEPT !.selected = x]
  BY DEF P!setAvailablePackageDetailCustomDefaults, Slices, v
<1> HIDE DEF x
<1>4. LET t == [s EXCEPT !.selected = x]
      IN t \in Slices(I, D, V, W) /\ SameList(s, t) /\ t.selected = x /\ t.isFetching = s.isFetching
  BY <1>2, SliceSelected
<1> QED
  BY <1>2, <1>3, <1>4 DEF v

LEMMA SliceErrs ==
  ASSUME NEW I, NEW D, NEW V, NEW W, NEW s \in Slices(I, D, V, W)
  PROVE  LET t == P!createErrorPackage(s)
         IN t \in Slices(I, D, V, W) /\ ~t.isFetching /\ ~t.hasFinishedFetching
            /\ t.items = s.items /\ t.nextPageToken = s.nextPageToken
            /\ t.selected.error /\ t.selected.detail = s.selected.detail
            /\ t.selected.versions = s.selected.versions /\ t.selected.values = s.selected.values
<1> DEFINE x == [s.selected EXCEPT !.error = TRUE]
           s1 == [s EXCEPT !.isFetching = FALSE, !.hasFinishedFetching = FALSE]
<1>1. x \in Selections(D, V, W) /\ x.error /\ x.detail = s.selected.detail
      /\ x.versions = s.selected.versions /\ x.values = s.selected.values
  BY DEF Slices, Selections
<1>2. s1 \in Slices(I, D, V, W) /\ s1.items = s.items /\ s1.nextPageToken = s.nextPageToken
      /\ ~s1.isFetching /\ ~s1.hasFinishedFetching
  BY DEF Slices
<1>3. P!createErrorPackage(s) = [s1 EXCEPT !.selected = x]
  BY DEF P!createErrorPackage, Slices
<1> HIDE DEF x, s1
<1>4. LET t == [s1 EXCEPT !.selected = x]
      IN t \in Slices(I, D, V, W) /\ SameList(s1, t) /\ t.selected = x /\ t.isFetching = s1.isFetching
  BY <1>1, <1>2, SliceSelected
<1> QED
  BY <1>1, <1>2, <1>3, <1>4 DEF SameList

\* an id that is free
LEMMA FreeIdExists ==
    ASSUME NEW S, IsFiniteSet(S)
    PROVE  Cardinality(S) \in Nat /\ \E i \in 1..(Cardinality(S) + 1) : \A c \in S : c.id # i
<1> DEFINE n == Cardinality(S)
           Ids == {c.id : c \in S}
<1>1. n \in Nat
  BY FS_CardinalityType
<1>2. IsFiniteSet(Ids) /\ Cardinality(Ids) <= n
  <2> DEFINE f == [c \in S |-> c.id]
  <2>1. f \in Surjection(S, Ids)
    BY DEF Surjection
  <2> QED
    BY <2>1, FS_Surjection
<1>3. IsFiniteSet(1..(n + 1)) /\ Cardinality(1..(n + 1)) = n + 1
  BY <1>1, FS_Interval, SMTT(60)
<1>4. ~(1..(n + 1) \subseteq Ids)
  <2> SUFFICES ASSUME 1..(n + 1) \subseteq Ids PROVE FALSE
    OBVIOUS
  <2>1. Cardinality(1..(n + 1)) <= Cardinality(Ids)
    BY <1>2, FS_Subset
  <2>2. Cardinality(Ids) \in Nat
    BY <1>2, FS_CardinalityType
  <2> QED
    BY <1>1, <1>2, <1>3, <2>1, <2>2
<1> QED
  BY <1>1, <1>4

\* a part of a finite set and three more is finite
LEMMA FiniteAndMore ==
    ASSUME NEW S, IsFiniteSet(S), NEW x, NEW y, NEW z, NEW T, T \subseteq S \cup {x, y, z}
    PROVE  IsFiniteSet(T)
<1>1. IsFiniteSet(S \cup {x})
  BY FS_AddElement
<1>2. IsFiniteSet((S \cup {x}) \cup {y})
  BY <1>1, FS_AddElement
<1>3. IsFiniteSet(((S \cup {x}) \cup {y}) \cup {z})
  BY <1>2, FS_AddElement
<1> QED
  BY <1>3, FS_Subset

LEMMA SliceOfLists == \* what is done to the list
  ASSUME NEW I, NEW D, NEW V, NEW W, NEW s \in Slices(I, D, V, W)
  PROVE  /\ LET t == P!resetAvailablePackageSummaries(s)
            IN t \in Slices(I, D, V, W) /\ t.selected = s.selected /\ ~t.isFetching
               /\ ~t.hasFinishedFetching /\ t.nextPageToken = 0 /\ t.items = {}
         /\ LET t == P!clearErrorPackage(s)
            IN t \in Slices(I, D, V, W) /\ SameList(s, t) /\ t.isFetching = s.isFetching
               /\ ~t.selected.error
<1>1. LET t == P!resetAvailablePackageSummaries(s)
      IN t \in Slices(I, D, V, W) /\ t.selected = s.selected /\ ~t.isFetching
         /\ ~t.hasFinishedFetching /\ t.nextPageToken = 0 /\ t.items = {}
  BY DEF P!resetAvailablePackageSummaries, P!FirstPage, Slices
<1>2. LET t == P!clearErrorPackage(s)
      IN t \in Slices(I, D, V, W) /\ SameList(s, t) /\ t.isFetching = s.isFetching /\ ~t.selected.error
  <2> DEFINE x == [s.selected EXCEPT !.error = FALSE]
  <2>1. x \in Selections(D, V, W) /\ ~x.error
    BY DEF Slices, Selections
  <2>2. P!clearErrorPackage(s) = [s EXCEPT !.selected = x]
    BY DEF P!clearErrorPackage, Slices
  <2> HIDE DEF x
  <2> QED
    BY <2>1, <2>2, SliceSelected
<1> QED
  BY <1>1, <1>2

LEMMA SliceOfAnswers ==
  ASSUME NEW I, NEW D, NEW V, NEW W, NEW s \in Slices(I, D, V, W),
         NEW a, a.items \subseteq I, a.next \in Nat
  PROVE  LET t == P!receiveAvailablePackageSummaries(s, a)
         IN t \in Slices(I, D, V, W) /\ t.selected = s.selected /\ ~t.isFetching
            /\ IF s.isFetching THEN /\ t.hasFinishedFetching = (a.next = 0)
                                    /\ t.nextPageToken = a.next /\ t.items = s.items \cup a.items
                               ELSE t = s
BY DEF P!receiveAvailablePackageSummaries, P!FirstPage, Slices

-----------------------------------------------------------------------------
(* The pages of a package: the invariant is PkgInv. *)

PkgDetails  == Pkg!Details \cup {None}
PkgFiles    == Files \cup {""}
PkgValues   == {P!defaultValues(d, f) : d \in Pkg!Details, f \in PkgFiles} \cup {None}
PkgSlices   == Slices({}, PkgDetails, PkgVersions, PkgValues)
PkgStore    == [packages : PkgSlices, isInstalling : BOOLEAN, appsError : BOOLEAN]
PkgUi       == [page : {"catalog", "package", "deploy", "app"}, pkg : Pkgs \cup {None},
                version : PkgVersions \cup {0}, appValues : PkgValues, valuesModified : BOOLEAN,
                isDeploying : BOOLEAN]
PkgRequests == [kind : {"detail", "versions"}, pkg : Pkgs, version : PkgVersions \cup {0},
                id : Nat, mine : BOOLEAN]
PkgInstalls == [kind : {"install"}, id : Nat, mine : BOOLEAN, asked : Pkg!Details,
                sent : Pkg!Details, values : PkgValues, pending : BOOLEAN, late : BOOLEAN,
                failed : BOOLEAN]
PkgPast     == [moves : Nat, errors : Nat, late : BOOLEAN, failed : BOOLEAN]
PkgOpen     == ui.page \in {"package", "deploy"}

PkgTyped ==
    /\ store \in PkgStore /\ ui \in PkgUi /\ past \in PkgPast
    /\ calls \subseteq PkgRequests \cup PkgInstalls /\ IsFiniteSet(calls)
    /\ PkgOpen => ui.pkg \in Pkgs

PkgIds == \A c, d \in calls : c.id = d.id /\ c.kind = d.kind => c = d

\* A page's own requests are for what its URL names.
PkgOwn ==
    \A c \in calls : c.mine /\ c.kind # "install" =>
        PkgOpen /\ c.pkg = ui.pkg /\ (c.kind = "detail" => c.version = ui.version)

\* What is selected is what the URL names, or is being asked for.
PkgSelected ==
    /\ PkgOpen /\ ~past.late => Pkg!Selected.detail = None \/ Pkg!Selected.detail.pkg = ui.pkg
    /\ PkgOpen /\ ~past.late /\ ~past.failed =>
          \/ Pkg!Selected.detail = Pkg!Detail(ui.pkg, ui.version)
          \/ \E c \in calls : c.kind = "detail" /\ c.mine
    /\ Pkg!Selected.detail # None => Pkg!Selected.values.of = Pkg!Selected.detail

PkgInv == PkgTyped /\ PkgIds /\ PkgOwn /\ PkgSelected /\ Pkg!InstallsWhatUrlSays

LEMMA PkgReducers == \* those of the instance are those of the slice
  ASSUME NEW s
  PROVE  /\ Pkg!P!requestSelectedAvailablePackageDetail(s) = P!requestSelectedAvailablePackageDetail(s)
         /\ Pkg!P!resetSelectedAvailablePackageDetail(s) = P!resetSelectedAvailablePackageDetail(s)
         /\ \A d : Pkg!P!receiveSelectedAvailablePackageDetail(s, d) = P!receiveSelectedAvailablePackageDetail(s, d)
         /\ \A v : Pkg!P!receiveSelectedAvailablePackageVersions(s, v) = P!receiveSelectedAvailablePackageVersions(s, v)
         /\ \A f : Pkg!P!setAvailablePackageDetailCustomDefaults(s, f) = P!setAvailablePackageDetailCustomDefaults(s, f)
         /\ Pkg!P!createErrorPackage(s) = P!createErrorPackage(s)
         /\ Pkg!P!initialState = P!initialState
<1>1. \A d, f : Pkg!P!defaultValues(d, f) = P!defaultValues(d, f)
  BY DEF Pkg!P!defaultValues, P!defaultValues, Pkg!P!Cardinality, P!Cardinality
<1>2. Pkg!P!NoSelection = P!NoSelection
  BY DEF Pkg!P!NoSelection, P!NoSelection
<1>3. /\ Pkg!P!requestSelectedAvailablePackageDetail(s) = P!requestSelectedAvailablePackageDetail(s)
      /\ Pkg!P!resetSelectedAvailablePackageDetail(s) = P!resetSelectedAvailablePackageDetail(s)
  BY <1>2 DEF Pkg!P!requestSelectedAvailablePackageDetail, P!requestSelectedAvailablePackageDetail,
              Pkg!P!resetSelectedAvailablePackageDetail, P!resetSelectedAvailablePackageDetail
<1>4. \A d : Pkg!P!receiveSelectedAvailablePackageDetail(s, d) = P!receiveSelectedAvailablePackageDetail(s, d)
  BY <1>1 DEF Pkg!P!receiveSelectedAvailablePackageDetail, P!receiveSelectedAvailablePackageDetail
<1>5. /\ \A v : Pkg!P!receiveSelectedAvailablePackageVersions(s, v) = P!receiveSelectedAvailablePackageVersions(s, v)
      /\ \A f : Pkg!P!setAvailablePackageDetailCustomDefaults(s, f) = P!setAvailablePackageDetailCustomDefaults(s, f)
  BY <1>1 DEF Pkg!P!receiveSelectedAvailablePackageVersions, P!receiveSelectedAvailablePackageVersions,
              Pkg!P!setAvailablePackageDetailCustomDefaults, P!setAvailablePackageDetailCustomDefaults
<1>6. Pkg!P!createErrorPackage(s) = P!createErrorPackage(s)
  BY DEF Pkg!P!createErrorPackage, P!createErrorPackage
<1>7. Pkg!P!initialState = P!initialState
  BY <1>2 DEF Pkg!P!initialState, P!initialState, Pkg!P!FirstPage, P!FirstPage
<1> QED
  BY <1>3, <1>4, <1>5, <1>6, <1>7

LEMMA PkgDetailsAre ==
  ASSUME Pkg!ConstantsAssumption
  PROVE  /\ \A p \in Pkgs, v \in PkgVersions \cup {0} :
               Pkg!Detail(p, v) \in Pkg!Details /\ Pkg!Detail(p, v).pkg = p
         /\ \A d \in Pkg!Details : d # None /\ d.version \in PkgVersions
         /\ \A d \in Pkg!Details, f \in PkgFiles :
               P!defaultValues(d, f) \in PkgValues /\ P!defaultValues(d, f).of = d
         /\ None \in PkgDetails /\ None \in PkgValues
<1>1. Pkg!Latest \in PkgVersions /\ 0 \notin PkgVersions
  BY DEF Pkg!Latest, Pkg!ConstantsAssumption
<1>2. ASSUME NEW p \in Pkgs, NEW v \in PkgVersions \cup {0}
      PROVE  Pkg!Detail(p, v) \in Pkg!Details /\ Pkg!Detail(p, v).pkg = p
  <2>1. CASE v = 0
    <3>1. Pkg!Detail(p, v) = Pkg!Detail(p, Pkg!Latest)
      BY <1>1, <2>1 DEF Pkg!Detail
    <3> QED
      BY <1>1, <3>1 DEF Pkg!Details, Pkg!Detail
  <2>2. CASE v \in PkgVersions
    BY <2>2 DEF Pkg!Details, Pkg!Detail
  <2> QED
    BY <2>1, <2>2
<1>3. ASSUME NEW d \in Pkg!Details PROVE d # None /\ d.version \in PkgVersions
  <2>1. d # None
    BY DEF Pkg!ConstantsAssumption
  <2>2. PICK p \in Pkgs, v \in PkgVersions : d = Pkg!Detail(p, v)
    BY DEF Pkg!Details
  <2> QED
    BY <1>1, <2>1, <2>2 DEF Pkg!Detail
<1>4. \A d \in Pkg!Details, f \in PkgFiles :
               P!defaultValues(d, f) \in PkgValues /\ P!defaultValues(d, f).of = d
  <2>1. \A d, f : P!defaultValues(d, f).of = d
    BY DEF P!defaultValues
  <2>2. ASSUME NEW d \in Pkg!Details, NEW f \in PkgFiles PROVE P!defaultValues(d, f) \in PkgValues
    <3> DEFINE v == P!defaultValues(d, f)
               M == {P!defaultValues(e, g) : e \in Pkg!Details, g \in PkgFiles}
    <3>1. v \in M
      OBVIOUS
    <3>2. PkgValues = M \cup {None}
      BY DEF PkgValues
    <3> QED
      BY <3>1, <3>2
  <2> QED
    BY <2>1, <2>2
<1>5. None \in PkgDetails
  BY DEF PkgDetails
<1>6. None \in PkgValues
  <2> DEFINE M == {P!defaultValues(e, g) : e \in Pkg!Details, g \in PkgFiles}
  <2>1. PkgValues = M \cup {None}
    BY DEF PkgValues
  <2> HIDE DEF M
  <2> QED
    BY <2>1
<1> QED
  BY <1>2, <1>3, <1>4, <1>5, <1>6

LEMMA PkgFresh ==
  ASSUME PkgTyped, NEW k
  PROVE  Pkg!FreeId(k) \in Nat /\ \A c \in calls : c.kind = k => c.id # Pkg!FreeId(k)
<1>1. Pkg!Cardinality(calls) = Cardinality(calls)
  BY DEF Pkg!Cardinality, Cardinality
<1>2. \E i \in 1..(Cardinality(calls) + 1) : \A c \in calls : c.id # i
  BY FreeIdExists DEF PkgTyped
<1>3. Cardinality(calls) \in Nat
  BY FreeIdExists DEF PkgTyped
<1> DEFINE I == 1..(Cardinality(calls) + 1)
           Free(i) == \A c \in calls : c.kind = k => c.id # i
<1>4. \E i \in I : Free(i)
  BY <1>2
<1>5. Pkg!FreeId(k) = CHOOSE i \in I : Free(i)
  BY <1>1 DEF Pkg!FreeId
<1>6. I \subseteq Nat
  BY <1>3
<1> HIDE DEF I
<1>7. Pkg!FreeId(k) \in I /\ Free(Pkg!FreeId(k))
  BY <1>4, <1>5
<1> QED
  BY <1>6, <1>7

\* A request that stops being the page's own is the same request; an installation stays as it is.
LEMMA PkgForsaken ==
  ASSUME NEW c \in PkgRequests \cup PkgInstalls
  PROVE  LET f == IF c.kind = "install" THEN c ELSE [c EXCEPT !.mine = FALSE]
         IN /\ f \in PkgRequests \cup PkgInstalls /\ f.kind = c.kind /\ f.id = c.id
            /\ IF c.kind = "install" THEN f = c ELSE ~f.mine
<1>1. CASE c.kind = "install"
  BY <1>1
<1>2. CASE c.kind # "install"
  <2> DEFINE f == [c EXCEPT !.mine = FALSE]
  <2>1. c \in PkgRequests
    BY <1>2 DEF PkgInstalls
  <2>2. f \in PkgRequests /\ f.kind = c.kind /\ f.id = c.id /\ ~f.mine
    BY <2>1 DEF PkgRequests
  <2> QED
    BY <1>2, <2>2
<1> QED
  BY <1>1, <1>2

LEMMA PkgForsakes == \* no request stays the page's own
  ASSUME PkgTyped, PkgIds
  PROVE  LET F == Pkg!Forsake(calls)
         IN /\ F \subseteq PkgRequests \cup PkgInstalls /\ IsFiniteSet(F)
            /\ \A c \in F : \E d \in calls : /\ c.kind = d.kind /\ c.id = d.id
                                             /\ IF d.kind = "install" THEN c = d ELSE ~c.mine
            /\ \A c, d \in F : c.id = d.id /\ c.kind = d.kind => c = d
<1> DEFINE g(c) == IF c.kind = "install" THEN c ELSE [c EXCEPT !.mine = FALSE]
           F == {g(c) : c \in calls}
<1>1. Pkg!Forsake(calls) = F
  BY DEF Pkg!Forsake
<1>2. \A c \in calls : /\ g(c) \in PkgRequests \cup PkgInstalls /\ g(c).kind = c.kind /\ g(c).id = c.id
                       /\ IF c.kind = "install" THEN g(c) = c ELSE ~g(c).mine
  BY PkgForsaken DEF PkgTyped
<1>3. IsFiniteSet(F)
  <2> DEFINE f == [c \in calls |-> g(c)]
  <2>1. f \in Surjection(calls, F)
    BY DEF Surjection
  <2> QED
    BY <2>1, FS_Surjection DEF PkgTyped
<1> HIDE DEF g
<1>4. \A c, d \in F : c.id = d.id /\ c.kind = d.kind => c = d
  BY <1>2 DEF PkgIds
<1> QED
  BY <1>1, <1>2, <1>3, <1>4

\* What the effects of a page ask for.
LEMMA PkgFetches ==
  ASSUME PkgTyped, PkgIds, NEW p \in Pkgs, NEW v \in PkgVersions \cup {0}, NEW b \in BOOLEAN,
         Pkg!Fetch(p, v, b)
  PROVE  /\ calls' \subseteq PkgRequests \cup PkgInstalls /\ IsFiniteSet(calls') /\ PkgIds'
         /\ \A c \in calls' : c.kind = "install" => c \in calls
         /\ \A c \in calls' : c.kind # "install" /\ c.mine =>
               c.pkg = p /\ (c.kind = "detail" => c.version = v)
         /\ \E c \in calls' : c.kind = "detail" /\ c.mine
<1> DEFINE F == Pkg!Forsake(calls)
           x == Pkg!Request("detail", p, v)
           y == Pkg!Request("versions", p, 0)
<1>1. /\ x \in PkgRequests /\ x.kind = "detail" /\ x.mine /\ x.pkg = p /\ x.version = v
      /\ y \in PkgRequests /\ y.kind = "versions" /\ y.mine /\ y.pkg = p
      /\ \A c \in calls : (c.kind = "detail" => c.id # x.id) /\ (c.kind = "versions" => c.id # y.id)
  BY PkgFresh DEF Pkg!Request, PkgRequests
<1>2. calls' = F \cup {x} \cup (IF b THEN {y} ELSE {})
  BY DEF Pkg!Fetch
<1>3. /\ F \subseteq PkgRequests \cup PkgInstalls /\ IsFiniteSet(F)
      /\ \A c \in F : \E d \in calls : /\ c.kind = d.kind /\ c.id = d.id
                                       /\ IF d.kind = "install" THEN c = d ELSE ~c.mine
      /\ \A c, d \in F : c.id = d.id /\ c.kind = d.kind => c = d
  BY PkgForsakes
<1> HIDE DEF F, x, y
<1>4. IsFiniteSet(calls')
  <2>1. calls' \subseteq F \cup {x, y, y}
    BY <1>2
  <2> QED
    BY <1>3, <2>1, FiniteAndMore
<1>5. PkgIds'
  <2> SUFFICES ASSUME NEW c \in calls', NEW d \in calls', c.id = d.id, c.kind = d.kind PROVE c = d
    BY DEF PkgIds
  <2>1. \A e \in F : (e.kind = "detail" => e.id # x.id) /\ (e.kind = "versions" => e.id # y.id)
    BY <1>1, <1>3
  <2> QED
    BY <1>1, <1>2, <1>3, <2>1
<1> QED
  BY <1>1, <1>2, <1>3, <1>4, <1>5

LEMMA PkgPut ==
  ASSUME NEW s \in PkgStore, NEW x \in PkgSlices
  PROVE  LET t == [s EXCEPT !.packages = x]
         IN t \in PkgStore /\ t.packages = x
BY DEF PkgStore

LEMMA PkgSelection ==
  ASSUME PkgTyped
  PROVE  store.packages \in PkgSlices /\ Pkg!Selected \in Selections(PkgDetails, PkgVersions, PkgValues)
BY DEF PkgTyped, PkgStore, PkgSlices, Slices, Pkg!Selected

LEMMA PkgFetchedIs ==
  ASSUME PkgTyped
  PROVE  Pkg!Fetched \in PkgSlices /\ Pkg!Fetched.selected = Pkg!Selected
BY PkgSelection, PkgReducers, SliceRequests DEF Pkg!Fetched, Pkg!Selected, PkgSlices

LEMMA PkgResets ==
  ASSUME Pkg!ConstantsAssumption, NEW s \in PkgSlices
  PROVE  LET t == P!resetSelectedAvailablePackageDetail(s)
         IN t \in PkgSlices /\ t.selected = P!NoSelection
<1>1. None \in PkgDetails /\ None \in PkgValues
  BY PkgDetailsAre
<1>2. P!NoSelection \in Selections(PkgDetails, PkgVersions, PkgValues)
  BY <1>1, SliceInit
<1> QED
  BY <1>2 DEF P!resetSelectedAvailablePackageDetail, PkgSlices, Slices

LEMMA PkgMoved ==
  ASSUME PkgTyped, Pkg!Moved
  PROVE  past' \in PkgPast /\ past'.late = past.late /\ past'.failed = past.failed
BY DEF PkgTyped, PkgPast, Pkg!Moved

LEMMA PkgOpenPackage ==
  ASSUME Pkg!ConstantsAssumption, PkgInv, NEW p \in Pkgs, Pkg!OpenPackage(p) PROVE PkgInv'
<1>0. PkgTyped /\ PkgIds
  BY DEF PkgInv
<1>1. Pkg!Fetch(p, 0, TRUE)
  BY DEF Pkg!OpenPackage
<1>2. /\ calls' \subseteq PkgRequests \cup PkgInstalls /\ IsFiniteSet(calls') /\ PkgIds'
      /\ \A c \in calls' : c.kind = "install" => c \in calls
      /\ \A c \in calls' : c.kind # "install" /\ c.mine =>
            c.pkg = p /\ (c.kind = "detail" => c.version = 0)
      /\ \E c \in calls' : c.kind = "detail" /\ c.mine
  BY <1>0, <1>1, PkgFetches
<1> DEFINE x == P!resetSelectedAvailablePackageDetail(Pkg!Fetched)
<1>3. x \in PkgSlices /\ x.selected = P!NoSelection
  BY <1>0, PkgFetchedIs, PkgResets
<1>4. store' = [store EXCEPT !.packages = x]
  BY PkgReducers DEF Pkg!OpenPackage
<1> HIDE DEF x
<1>5. store' \in PkgStore /\ store'.packages = x
  BY <1>0, <1>3, <1>4, PkgPut DEF PkgTyped
<1>6. ui' \in PkgUi /\ ui'.page = "package" /\ ui'.pkg = p /\ ui'.version = 0
  BY <1>0 DEF PkgTyped, PkgUi, Pkg!OpenPackage
<1>7. past' \in PkgPast
  <2>1. past.moves + 1 \in Nat
    BY <1>0 DEF PkgTyped, PkgPast
  <2>2. past' = [past EXCEPT !.moves = past.moves + 1, !.late = FALSE, !.failed = FALSE]
    BY DEF Pkg!OpenPackage
  <2> QED
    BY <1>0, <2>1, <2>2, Zenon DEF PkgTyped, PkgPast
<1>8. Pkg!Selected' = P!NoSelection /\ P!NoSelection.detail = None
  BY <1>3, <1>5 DEF Pkg!Selected, P!NoSelection
<1>9. PkgTyped'
  BY <1>2, <1>5, <1>6, <1>7 DEF PkgTyped
<1>10. PkgOwn'
  BY <1>2, <1>6 DEF PkgOwn, PkgOpen
<1>11. PkgSelected'
  BY <1>2, <1>8 DEF PkgSelected
<1>12. Pkg!InstallsWhatUrlSays'
  BY <1>2 DEF PkgInv, Pkg!InstallsWhatUrlSays
<1> QED
  BY <1>2, <1>9, <1>10, <1>11, <1>12 DEF PkgInv

\* The link "Deploy", and another version.
LEMMA PkgAsksAgain ==
  ASSUME Pkg!ConstantsAssumption, PkgInv, NEW v \in PkgVersions, NEW b \in BOOLEAN, PkgOpen,
         Pkg!Fetch(ui.pkg, v, b), store' \in PkgStore, store'.packages = Pkg!Fetched,
         ui' \in PkgUi, PkgOpen', ui'.pkg = ui.pkg, ui'.version = v, Pkg!Moved
  PROVE  PkgInv'
<1>0. PkgTyped /\ PkgIds /\ ui.pkg \in Pkgs
  BY DEF PkgInv, PkgTyped
<1>2. /\ calls' \subseteq PkgRequests \cup PkgInstalls /\ IsFiniteSet(calls') /\ PkgIds'
      /\ \A c \in calls' : c.kind = "install" => c \in calls
      /\ \A c \in calls' : c.kind # "install" /\ c.mine =>
            c.pkg = ui.pkg /\ (c.kind = "detail" => c.version = v)
      /\ \E c \in calls' : c.kind = "detail" /\ c.mine
  BY <1>0, PkgFetches
<1>3. past' \in PkgPast /\ past'.late = past.late /\ past'.failed = past.failed
  BY <1>0, PkgMoved
<1>4. Pkg!Selected' = Pkg!Selected
  BY <1>0, PkgFetchedIs DEF Pkg!Selected
<1>5. PkgTyped'
  BY <1>0, <1>2, <1>3 DEF PkgTyped
<1>6. PkgOwn'
  BY <1>2 DEF PkgOwn
<1>7. PkgSelected'
  BY <1>2, <1>3, <1>4 DEF PkgSelected, PkgInv
<1>8. Pkg!InstallsWhatUrlSays'
  BY <1>2 DEF PkgInv, Pkg!InstallsWhatUrlSays
<1> QED
  BY <1>2, <1>5, <1>6, <1>7, <1>8 DEF PkgInv

LEMMA PkgDeploy == ASSUME Pkg!ConstantsAssumption, PkgInv, Pkg!Deploy PROVE PkgInv'
<1>0. PkgTyped
  BY DEF PkgInv
<1>1. ui.page = "package" /\ Pkg!Selected.detail # None
  BY DEF Pkg!Deploy, Pkg!PackageShown
<1> DEFINE v == Pkg!Selected.detail.version
<1>2. v \in PkgVersions
  BY <1>0, <1>1, PkgSelection, PkgDetailsAre DEF Selections, PkgDetails
<1>3. store' \in PkgStore /\ store'.packages = Pkg!Fetched
  BY <1>0, PkgFetchedIs, PkgPut DEF Pkg!Deploy, PkgTyped
<1>4. ui' = [ui EXCEPT !.page = "deploy", !.version = v, !.valuesModified = FALSE, !.isDeploying = FALSE]
      /\ Pkg!Fetch(ui.pkg, v, TRUE) /\ Pkg!Moved
  BY DEF Pkg!Deploy
<1> HIDE DEF v
<1>5. ui' \in PkgUi /\ ui'.page = "deploy" /\ ui'.pkg = ui.pkg /\ ui'.version = v
  BY <1>0, <1>2, <1>4 DEF PkgTyped, PkgUi
<1> QED
  BY <1>1, <1>2, <1>3, <1>4, <1>5, PkgAsksAgain DEF PkgOpen

LEMMA PkgSelectVersion ==
  ASSUME Pkg!ConstantsAssumption, PkgInv, NEW v \in PkgVersions, Pkg!selectVersion(v) PROVE PkgInv'
<1>0. PkgTyped
  BY DEF PkgInv
<1>1. PkgOpen
  BY DEF Pkg!selectVersion, Pkg!PackageShown, Pkg!FormShown, PkgOpen
<1> DEFINE b == ui.page = "deploy"
<1>2. Pkg!Fetch(ui.pkg, v, b) /\ b \in BOOLEAN /\ Pkg!Moved
  BY DEF Pkg!selectVersion
<1>3. store' \in PkgStore /\ store'.packages = Pkg!Fetched
  <2> DEFINE t == [store EXCEPT !.packages = Pkg!Fetched]
  <2>1. t \in PkgStore /\ t.packages = Pkg!Fetched
    BY <1>0, PkgFetchedIs, PkgPut DEF PkgTyped
  <2>2. store' = [t EXCEPT !.isInstalling = FALSE, !.appsError = FALSE]
    BY DEF Pkg!selectVersion
  <2> HIDE DEF t
  <2> QED
    BY <2>1, <2>2 DEF PkgStore
<1>4. ui' \in PkgUi /\ ui'.page = ui.page /\ ui'.pkg = ui.pkg /\ ui'.version = v
  BY <1>0 DEF PkgTyped, PkgUi, Pkg!selectVersion
<1>5. PkgOpen'
  BY <1>1, <1>4 DEF PkgOpen
<1> HIDE DEF b
<1> QED
  BY <1>1, <1>2, <1>3, <1>4, <1>5, PkgAsksAgain

LEMMA PkgCustomDefaults ==
  ASSUME Pkg!ConstantsAssumption, PkgInv, NEW f \in Files, Pkg!onChangeAdditionalDefaultValues(f)
  PROVE  PkgInv'
<1>0. PkgTyped /\ Pkg!Selected.detail # None /\ PkgOpen
  BY DEF PkgInv, Pkg!onChangeAdditionalDefaultValues, Pkg!FormShown, PkgOpen
<1>1. store.packages \in PkgSlices /\ Pkg!Selected \in Selections(PkgDetails, PkgVersions, PkgValues)
  BY <1>0, PkgSelection
<1>2. Pkg!Selected.detail \in Pkg!Details
  BY <1>0, <1>1 DEF Selections, PkgDetails
<1> DEFINE s == store.packages
           x == P!setAvailablePackageDetailCustomDefaults(s, f)
<1>3. s.selected.detail = Pkg!Selected.detail
  BY DEF Pkg!Selected
<1>4. P!defaultValues(s.selected.detail, f) \in PkgValues
      /\ P!defaultValues(s.selected.detail, f).of = s.selected.detail
  BY <1>2, <1>3, PkgDetailsAre DEF PkgFiles
<1>5. s \in Slices({}, PkgDetails, PkgVersions, PkgValues)
  BY <1>1 DEF PkgSlices
<1>6. store' = [store EXCEPT !.packages = x]
  BY PkgReducers DEF Pkg!onChangeAdditionalDefaultValues
<1> HIDE DEF s
<1>7. x \in Slices({}, PkgDetails, PkgVersions, PkgValues)
      /\ x.selected.detail = s.selected.detail
      /\ x.selected.values = P!defaultValues(s.selected.detail, f)
  BY <1>4, <1>5, SliceCustom
<1> HIDE DEF x
<1>8. store' \in PkgStore /\ store'.packages = x
  BY <1>0, <1>6, <1>7, PkgPut DEF PkgSlices, PkgTyped
<1>9. Pkg!Selected'.detail = Pkg!Selected.detail /\ Pkg!Selected'.values.of = Pkg!Selected.detail
  BY <1>3, <1>4, <1>7, <1>8 DEF Pkg!Selected
<1>10. past' \in PkgPast /\ past'.late = past.late /\ past'.failed = past.failed
  BY <1>0, PkgMoved DEF Pkg!onChangeAdditionalDefaultValues
<1>11. UNCHANGED <<ui, calls>>
  BY DEF Pkg!onChangeAdditionalDefaultValues
<1>12. PkgTyped'
  BY <1>0, <1>8, <1>10, <1>11 DEF PkgTyped
<1>13. PkgIds' /\ PkgOwn' /\ Pkg!InstallsWhatUrlSays'
  BY <1>11 DEF PkgInv, PkgIds, PkgOwn, PkgOpen, Pkg!InstallsWhatUrlSays
<1>14. PkgSelected'
  BY <1>9, <1>10, <1>11 DEF PkgInv, PkgSelected, PkgOpen
<1> QED
  BY <1>12, <1>13, <1>14 DEF PkgInv

LEMMA PkgAppValues ==
  ASSUME PkgTyped
  PROVE  Pkg!AppValues \in PkgValues
BY PkgSelection DEF PkgTyped, PkgUi, Selections, Pkg!AppValues

LEMMA PkgEdits ==
  ASSUME Pkg!ConstantsAssumption, PkgInv, Pkg!handleValuesChange PROVE PkgInv'
<1>0. PkgTyped
  BY DEF PkgInv
<1>1. ui' \in PkgUi /\ ui'.page = ui.page /\ ui'.pkg = ui.pkg /\ ui'.version = ui.version
  BY <1>0, PkgAppValues DEF PkgTyped, PkgUi, Pkg!handleValuesChange
<1>2. past' \in PkgPast /\ past'.late = past.late /\ past'.failed = past.failed
  BY <1>0, PkgMoved DEF Pkg!handleValuesChange
<1>3. UNCHANGED <<store, calls>>
  BY DEF Pkg!handleValuesChange
<1>4. PkgTyped'
  BY <1>0, <1>1, <1>2, <1>3 DEF PkgTyped, PkgOpen
<1>5. PkgIds' /\ PkgOwn' /\ Pkg!InstallsWhatUrlSays'
  BY <1>1, <1>3 DEF PkgInv, PkgIds, PkgOwn, PkgOpen, Pkg!InstallsWhatUrlSays
<1>6. PkgSelected'
  BY <1>1, <1>2, <1>3 DEF PkgInv, PkgSelected, PkgOpen, Pkg!Selected
<1> QED
  BY <1>4, <1>5, <1>6 DEF PkgInv

LEMMA PkgDeploys ==
  ASSUME Pkg!ConstantsAssumption, PkgInv, Pkg!handleDeploy PROVE PkgInv'
<1>0. PkgTyped /\ PkgIds /\ PkgOwn /\ PkgSelected
  BY DEF PkgInv
<1> DEFINE pend == \E c \in calls : c.kind = "detail" /\ c.mine
           asks == Pkg!Detail(ui.pkg, ui.version)
           x == [kind |-> "install", id |-> Pkg!FreeId("install"), mine |-> TRUE, asked |-> asks,
                 sent |-> Pkg!Selected.detail, values |-> Pkg!AppValues, pending |-> pend,
                 late |-> past.late, failed |-> past.failed]
<1>1. ui.page = "deploy" /\ PkgOpen /\ Pkg!Selected.detail # None /\ calls' = calls \cup {x}
      /\ Pkg!Moved /\ ui' = [ui EXCEPT !.isDeploying = TRUE]
      /\ store' = [store EXCEPT !.isInstalling = TRUE]
  BY DEF Pkg!handleDeploy, Pkg!BodyShown, Pkg!FormShown, PkgOpen
<1>2. asks \in Pkg!Details /\ asks.pkg = ui.pkg
  BY <1>0, <1>1, PkgDetailsAre DEF PkgTyped, PkgUi
<1>3. Pkg!Selected.detail \in Pkg!Details
  BY <1>0, <1>1, PkgSelection DEF Selections, PkgDetails
<1> HIDE DEF pend, asks
<1>4. x \in PkgInstalls
  <2>1. Pkg!FreeId("install") \in Nat
    BY <1>0, PkgFresh
  <2>2. past.late \in BOOLEAN /\ past.failed \in BOOLEAN
    BY <1>0 DEF PkgTyped, PkgPast
  <2>3. pend \in BOOLEAN
    BY DEF pend
  <2> QED
    BY <1>0, <1>2, <1>3, <2>1, <2>2, <2>3, PkgAppValues DEF PkgInstalls
<1>5. /\ x.kind = "install" /\ x.asked = asks /\ x.sent = Pkg!Selected.detail /\ x.late = past.late
      /\ x.pending = pend /\ x.failed = past.failed /\ \A c \in calls : c.kind = x.kind => c.id # x.id
  BY <1>0, PkgFresh
<1> HIDE DEF x
<1>6. PkgTyped'
  <2>1. IsFiniteSet(calls')
    BY <1>0, <1>1, FS_AddElement DEF PkgTyped
  <2>2. store' \in PkgStore /\ ui' \in PkgUi /\ ui'.page = ui.page /\ ui'.pkg = ui.pkg
    BY <1>0, <1>1 DEF PkgTyped, PkgStore, PkgUi
  <2>3. past' \in PkgPast
    BY <1>0, <1>1, PkgMoved
  <2> QED
    BY <1>0, <1>1, <1>4, <2>1, <2>2, <2>3 DEF PkgTyped, PkgOpen
<1>7. PkgIds'
  BY <1>0, <1>1, <1>5 DEF PkgIds
<1>8. ui'.page = ui.page /\ ui'.pkg = ui.pkg /\ ui'.version = ui.version /\ Pkg!Selected' = Pkg!Selected
      /\ past'.late = past.late /\ past'.failed = past.failed
  <2>1. past'.late = past.late /\ past'.failed = past.failed
    BY <1>0, <1>1, PkgMoved
  <2> QED
    BY <1>0, <1>1, <2>1 DEF PkgTyped, PkgUi, PkgStore, Pkg!Selected
<1>9. PkgOwn'
  BY <1>0, <1>1, <1>5, <1>8 DEF PkgOwn, PkgOpen
<1>10. PkgSelected'
  BY <1>0, <1>1, <1>5, <1>8 DEF PkgSelected, PkgOpen
<1>11. Pkg!InstallsWhatUrlSays'
  <2>1. ~past.late => Pkg!Selected.detail.pkg = ui.pkg
    BY <1>0, <1>1 DEF PkgSelected
  <2>2. ~past.late /\ ~past.failed /\ ~pend => Pkg!Selected.detail = asks
    BY <1>0, <1>1 DEF PkgSelected, pend, asks
  <2>3. ~x.late => /\ x.sent.pkg = x.asked.pkg
                   /\ x.sent.version # x.asked.version => x.pending \/ x.failed
    BY <1>2, <1>5, <2>1, <2>2
  <2> QED
    BY <1>1, <2>3 DEF PkgInv, Pkg!InstallsWhatUrlSays
<1> QED
  BY <1>6, <1>7, <1>9, <1>10, <1>11 DEF PkgInv

\* Requests that are nobody's any more.
LEMMA PkgNobodys ==
  ASSUME PkgTyped, PkgIds, NEW D, D \subseteq calls
  PROVE  LET F == Pkg!Forsake(D)
         IN /\ F \subseteq PkgRequests \cup PkgInstalls /\ IsFiniteSet(F)
            /\ \A c \in F : IF c.kind = "install" THEN c \in calls ELSE ~c.mine
            /\ \A c, d \in F : c.id = d.id /\ c.kind = d.kind => c = d
<1> DEFINE g(c) == IF c.kind = "install" THEN c ELSE [c EXCEPT !.mine = FALSE]
           F == {g(c) : c \in D}
<1>1. Pkg!Forsake(D) = F
  BY DEF Pkg!Forsake
<1>2. \A c \in D : /\ g(c) \in PkgRequests \cup PkgInstalls /\ g(c).kind = c.kind /\ g(c).id = c.id
                   /\ IF c.kind = "install" THEN g(c) = c ELSE ~g(c).mine
  BY PkgForsaken DEF PkgTyped
<1>3. IsFiniteSet(F)
  <2> DEFINE f == [c \in D |-> g(c)]
  <2>1. f \in Surjection(D, F)
    BY DEF Surjection
  <2>2. IsFiniteSet(D)
    BY FS_Subset DEF PkgTyped
  <2> QED
    BY <2>1, <2>2, FS_Surjection
<1> HIDE DEF g
<1>4. \A c, d \in F : c.id = d.id /\ c.kind = d.kind => c = d
  BY <1>2 DEF PkgIds
<1> QED
  BY <1>1, <1>2, <1>3, <1>4

LEMMA PkgLeaves == ASSUME Pkg!ConstantsAssumption, PkgInv, Pkg!ToCatalog PROVE PkgInv'
<1>0. PkgTyped /\ PkgIds
  BY DEF PkgInv
<1> DEFINE g(c) == [c EXCEPT !.mine = FALSE]
<1>1. calls' = {g(c) : c \in calls} /\ ui'.page = "catalog" /\ ui' \in PkgUi /\ Pkg!Moved /\ store' = store
  BY <1>0 DEF PkgTyped, PkgUi, Pkg!ToCatalog
<1>2. \A c \in calls : /\ g(c) \in PkgRequests \cup PkgInstalls /\ g(c).kind = c.kind /\ g(c).id = c.id
                       /\ ~g(c).mine
                       /\ c.kind = "install" => /\ g(c).asked = c.asked /\ g(c).sent = c.sent
                                                /\ g(c).late = c.late /\ g(c).pending = c.pending
                                                /\ g(c).failed = c.failed
  BY <1>0, ZenonT(60) DEF PkgTyped, PkgRequests, PkgInstalls
<1>3. IsFiniteSet(calls')
  <2> DEFINE f == [c \in calls |-> g(c)]
  <2>1. f \in Surjection(calls, calls')
    BY <1>1 DEF Surjection
  <2> QED
    BY <1>0, <2>1, FS_Surjection DEF PkgTyped
<1> HIDE DEF g
<1>4. past' \in PkgPast /\ past'.late = past.late /\ past'.failed = past.failed
  BY <1>0, <1>1, PkgMoved
<1>5. PkgTyped' /\ PkgIds'
  BY <1>0, <1>1, <1>2, <1>3, <1>4 DEF PkgTyped, PkgIds, PkgOpen
<1>6. PkgOwn' /\ PkgSelected'
  BY <1>1, <1>2 DEF PkgInv, PkgOwn, PkgSelected, PkgOpen, Pkg!Selected
<1>7. Pkg!InstallsWhatUrlSays'
  BY <1>1, <1>2 DEF PkgInv, Pkg!InstallsWhatUrlSays
<1> QED
  BY <1>5, <1>6, <1>7 DEF PkgInv

-----------------------------------------------------------------------------
\* A call that ends takes nothing from those that remain.
LEMMA PkgEnds ==
  ASSUME PkgInv, NEW c \in calls, calls' = calls \ {c}
  PROVE  /\ calls' \subseteq PkgRequests \cup PkgInstalls /\ IsFiniteSet(calls') /\ PkgIds'
         /\ Pkg!InstallsWhatUrlSays'
<1>1. IsFiniteSet(calls')
  BY FS_Subset DEF PkgInv, PkgTyped
<1> QED
  BY <1>1 DEF PkgInv, PkgTyped, PkgIds, Pkg!InstallsWhatUrlSays

LEMMA PkgReceives ==
  ASSUME Pkg!ConstantsAssumption, NEW s \in PkgSlices, NEW d \in Pkg!Details
  PROVE  LET t == P!receiveSelectedAvailablePackageDetail(s, d)
         IN t \in PkgSlices /\ t.selected.detail = d /\ t.selected.values.of = d
<1>1. P!defaultValues(d, "") \in PkgValues /\ P!defaultValues(d, "").of = d
  BY PkgDetailsAre DEF PkgFiles
<1>2. s \in Slices({}, PkgDetails, PkgVersions, PkgValues) /\ d \in PkgDetails
  BY DEF PkgSlices, PkgDetails
<1> DEFINE v == P!defaultValues(d, "")
           t == P!receiveSelectedAvailablePackageDetail(s, d)
<1> HIDE DEF v
<1>3. v \in PkgValues /\ v.of = d
  BY <1>1 DEF v
<1>4. t = [s EXCEPT !.isFetching = FALSE, !.selected.error = FALSE, !.selected.detail = d, !.selected.values = v]
  BY DEF P!receiveSelectedAvailablePackageDetail, v
<1> DEFINE x == [s.selected EXCEPT !.error = FALSE, !.detail = d, !.values = v]
<1>5. x \in Selections(PkgDetails, PkgVersions, PkgValues) /\ x.detail = d /\ x.values = v
  BY <1>2, <1>3 DEF Slices, Selections
<1>6. t = [s EXCEPT !.isFetching = FALSE, !.selected = x]
  BY <1>2, <1>4 DEF Slices
<1> HIDE DEF x, t
<1>7. t \in PkgSlices /\ t.selected = x
  BY <1>2, <1>5, <1>6 DEF PkgSlices, Slices
<1> QED
  BY <1>3, <1>5, <1>7 DEF t

LEMMA PkgDetailAnswered ==
  ASSUME Pkg!ConstantsAssumption, PkgInv, NEW c \in calls, Pkg!DetailAnswered(c) PROVE PkgInv'
<1>0. PkgTyped /\ PkgOwn /\ PkgSelected
  BY DEF PkgInv
<1> DEFINE d == Pkg!Detail(c.pkg, c.version)
           s == store.packages
           x == P!receiveSelectedAvailablePackageDetail(s, d)
<1>1. c.kind = "detail" /\ calls' = calls \ {c} /\ UNCHANGED ui
      /\ past' = [past EXCEPT !.late = @ \/ ~c.mine]
  BY DEF Pkg!DetailAnswered, Pkg!Late
<1>2. c \in PkgRequests
  BY <1>0, <1>1 DEF PkgTyped, PkgInstalls
<1>3. store' = [store EXCEPT !.packages = x]
  BY PkgReducers DEF Pkg!DetailAnswered
<1>4. d \in Pkg!Details /\ d.pkg = c.pkg
  BY <1>2, PkgDetailsAre DEF PkgRequests
<1>6. s \in PkgSlices
  BY <1>0, PkgSelection
<1> HIDE DEF d, s
<1>7. x \in PkgSlices /\ x.selected.detail = d /\ x.selected.values.of = d
  BY <1>4, <1>6, PkgReceives
<1> HIDE DEF x
<1>8. store' \in PkgStore /\ store'.packages = x
  BY <1>0, <1>3, <1>7, PkgPut DEF PkgTyped
<1>9. Pkg!Selected'.detail = d /\ Pkg!Selected'.values.of = d
  BY <1>7, <1>8 DEF Pkg!Selected
<1>10. past' \in PkgPast /\ past'.late = (past.late \/ ~c.mine) /\ past'.failed = past.failed
  BY <1>0, <1>1, <1>2 DEF PkgTyped, PkgPast, PkgRequests
<1>11. PkgTyped' /\ PkgIds' /\ Pkg!InstallsWhatUrlSays'
  BY <1>0, <1>1, <1>8, <1>10, PkgEnds DEF PkgTyped, PkgOpen
<1>12. PkgOwn'
  BY <1>0, <1>1 DEF PkgOwn, PkgOpen
<1>13. ~past'.late => c.pkg = ui.pkg /\ c.version = ui.version
  BY <1>0, <1>1, <1>10 DEF PkgOwn
<1>14. PkgSelected'
  BY <1>1, <1>4, <1>9, <1>13 DEF PkgSelected, PkgOpen, d
<1> QED
  BY <1>11, <1>12, <1>14 DEF PkgInv

LEMMA PkgVersionsAnswered ==
  ASSUME Pkg!ConstantsAssumption, PkgInv, NEW c \in calls, Pkg!VersionsAnswered(c) PROVE PkgInv'
<1>0. PkgTyped /\ PkgOwn /\ PkgSelected
  BY DEF PkgInv
<1> DEFINE s == store.packages
           x == P!receiveSelectedAvailablePackageVersions(s, PkgVersions)
<1>1. c.kind = "versions" /\ calls' = calls \ {c} /\ UNCHANGED <<ui, past>>
  BY DEF Pkg!VersionsAnswered
<1>2. store' = [store EXCEPT !.packages = x]
  BY PkgReducers DEF Pkg!VersionsAnswered
<1>3. s \in Slices({}, PkgDetails, PkgVersions, PkgValues)
  BY <1>0, PkgSelection DEF PkgSlices
<1> HIDE DEF s
<1>4. x \in Slices({}, PkgDetails, PkgVersions, PkgValues)
      /\ x.selected.detail = s.selected.detail /\ x.selected.values = s.selected.values
  BY <1>3, SliceVersions
<1> HIDE DEF x
<1>5. store' \in PkgStore /\ store'.packages = x
  BY <1>0, <1>2, <1>4, PkgPut DEF PkgTyped, PkgSlices
<1>6. Pkg!Selected'.detail = Pkg!Selected.detail /\ Pkg!Selected'.values = Pkg!Selected.values
  BY <1>4, <1>5 DEF Pkg!Selected, s
<1>7. PkgTyped' /\ PkgIds' /\ Pkg!InstallsWhatUrlSays'
  BY <1>0, <1>1, <1>5, PkgEnds DEF PkgTyped, PkgOpen
<1>8. PkgOwn'
  BY <1>0, <1>1 DEF PkgOwn, PkgOpen
<1>9. PkgSelected'
  BY <1>0, <1>1, <1>6 DEF PkgSelected, PkgOpen
<1> QED
  BY <1>7, <1>8, <1>9 DEF PkgInv

LEMMA PkgRequestFails ==
  ASSUME Pkg!ConstantsAssumption, PkgInv, NEW c \in calls, Pkg!RequestFails(c) PROVE PkgInv'
<1>0. PkgTyped /\ PkgOwn /\ PkgSelected
  BY DEF PkgInv
<1> DEFINE s == store.packages
           x == P!createErrorPackage(s)
<1>1. calls' = calls \ {c} /\ UNCHANGED ui
  BY DEF Pkg!RequestFails
<1>2. store' = [store EXCEPT !.packages = x]
  BY PkgReducers DEF Pkg!RequestFails
<1>3. s \in Slices({}, PkgDetails, PkgVersions, PkgValues)
  BY <1>0, PkgSelection DEF PkgSlices
<1> HIDE DEF s
<1>4. x \in Slices({}, PkgDetails, PkgVersions, PkgValues)
      /\ x.selected.detail = s.selected.detail /\ x.selected.values = s.selected.values
  BY <1>3, SliceErrs
<1> HIDE DEF x
<1>5. store' \in PkgStore /\ store'.packages = x
  BY <1>0, <1>2, <1>4, PkgPut DEF PkgTyped, PkgSlices
<1>6. Pkg!Selected'.detail = Pkg!Selected.detail /\ Pkg!Selected'.values = Pkg!Selected.values
  BY <1>4, <1>5 DEF Pkg!Selected, s
<1>7. past' \in PkgPast /\ past'.late = past.late
      /\ (~past'.failed => ~past.failed /\ c.kind # "detail")
  <2>1. past.errors + 1 \in Nat
    BY <1>0 DEF PkgTyped, PkgPast
  <2>2. past' = [past EXCEPT !.errors = past.errors + 1, !.failed = past.failed \/ c.kind = "detail"]
    BY DEF Pkg!RequestFails
  <2> QED
    BY <1>0, <2>1, <2>2, Zenon DEF PkgTyped, PkgPast
<1>8. PkgTyped' /\ PkgIds' /\ Pkg!InstallsWhatUrlSays'
  BY <1>0, <1>1, <1>5, <1>7, PkgEnds DEF PkgTyped, PkgOpen
<1>9. PkgOwn'
  BY <1>0, <1>1 DEF PkgOwn, PkgOpen
<1>10. PkgSelected'
  BY <1>0, <1>1, <1>6, <1>7 DEF PkgSelected, PkgOpen
<1> QED
  BY <1>8, <1>9, <1>10 DEF PkgInv

\* The installation ends, and the slice of the packages stays.
LEMMA PkgInstalled ==
  ASSUME Pkg!ConstantsAssumption, PkgInv, NEW c \in calls, Pkg!Installed(c) PROVE PkgInv'
<1>0. PkgTyped /\ PkgIds
  BY DEF PkgInv
<1>1. calls' = Pkg!Forsake(calls \ {c}) /\ UNCHANGED past /\ ui'.page = "app" /\ ui' \in PkgUi
  BY <1>0 DEF Pkg!Installed, Pkg!Forsake, PkgTyped, PkgUi
<1>2. store' \in PkgStore /\ store'.packages = store.packages
  BY <1>0 DEF Pkg!Installed, PkgTyped, PkgStore
<1> DEFINE D == calls \ {c}
<1> HIDE DEF D
<1>3. D \subseteq calls /\ calls' = Pkg!Forsake(D)
  BY <1>1 DEF D
<1>4. /\ calls' \subseteq PkgRequests \cup PkgInstalls /\ IsFiniteSet(calls')
      /\ \A d \in calls' : IF d.kind = "install" THEN d \in calls ELSE ~d.mine
      /\ \A d, e \in calls' : d.id = e.id /\ d.kind = e.kind => d = e
  BY <1>0, <1>3, PkgNobodys
<1>5. PkgTyped' /\ PkgIds'
  BY <1>0, <1>1, <1>2, <1>4 DEF PkgTyped, PkgIds, PkgOpen
<1>6. PkgOwn' /\ PkgSelected'
  BY <1>1, <1>2, <1>4 DEF PkgInv, PkgOwn, PkgSelected, PkgOpen, Pkg!Selected
<1>7. Pkg!InstallsWhatUrlSays'
  BY <1>4 DEF PkgInv, Pkg!InstallsWhatUrlSays
<1> QED
  BY <1>5, <1>6, <1>7 DEF PkgInv

LEMMA PkgInstallFails ==
  ASSUME Pkg!ConstantsAssumption, PkgInv, NEW c \in calls, Pkg!InstallFails(c) PROVE PkgInv'
<1>0. PkgTyped /\ PkgOwn /\ PkgSelected
  BY DEF PkgInv
<1>1. calls' = calls \ {c} /\ c.kind = "install"
  BY DEF Pkg!InstallFails
<1>2. store' \in PkgStore /\ store'.packages = store.packages
  BY <1>0 DEF Pkg!InstallFails, PkgTyped, PkgStore
<1>3. ui' \in PkgUi /\ ui'.page = ui.page /\ ui'.pkg = ui.pkg /\ ui'.version = ui.version
  BY <1>0 DEF Pkg!InstallFails, PkgTyped, PkgUi
<1>4. past' \in PkgPast /\ past'.late = past.late /\ past'.failed = past.failed
  <2>1. past.errors + 1 \in Nat
    BY <1>0 DEF PkgTyped, PkgPast
  <2>2. past' = [past EXCEPT !.errors = past.errors + 1]
    BY DEF Pkg!InstallFails
  <2> QED
    BY <1>0, <2>1, <2>2, Zenon DEF PkgTyped, PkgPast
<1>5. PkgTyped' /\ PkgIds' /\ Pkg!InstallsWhatUrlSays'
  BY <1>0, <1>1, <1>2, <1>3, <1>4, PkgEnds DEF PkgTyped, PkgOpen
<1>6. PkgOwn'
  BY <1>0, <1>1, <1>3 DEF PkgOwn, PkgOpen
<1>7. PkgSelected'
  BY <1>0, <1>1, <1>2, <1>3, <1>4 DEF PkgSelected, PkgOpen, Pkg!Selected
<1> QED
  BY <1>5, <1>6, <1>7 DEF PkgInv

LEMMA PkgInits == ASSUME Pkg!ConstantsAssumption, Pkg!Init PROVE PkgInv
<1>1. None \in PkgDetails /\ None \in PkgValues
  BY PkgDetailsAre
<1>2. P!initialState \in Slices({}, PkgDetails, PkgVersions, PkgValues)
      /\ P!initialState.selected = P!NoSelection
  BY <1>1, SliceInit
<1>3. store.packages = P!initialState /\ store \in PkgStore
  BY <1>2, PkgReducers DEF Pkg!Init, PkgStore, PkgSlices
<1>4. ui.page = "catalog" /\ ui \in PkgUi /\ past \in PkgPast /\ calls = {}
  BY <1>1 DEF Pkg!Init, PkgUi, PkgPast
<1>5. IsFiniteSet(calls)
  BY <1>4, FS_EmptySet
<1>6. Pkg!Selected.detail = None
  BY <1>2, <1>3 DEF Pkg!Selected, P!NoSelection
<1> QED
  BY <1>3, <1>4, <1>5, <1>6 DEF PkgInv, PkgTyped, PkgIds, PkgOwn, PkgSelected, PkgOpen,
                              Pkg!InstallsWhatUrlSays

LEMMA PkgStutters == ASSUME PkgInv, UNCHANGED <<store, ui, calls, past>> PROVE PkgInv'
BY DEF PkgInv, PkgTyped, PkgIds, PkgOwn, PkgSelected, PkgOpen, Pkg!Selected, Pkg!InstallsWhatUrlSays

LEMMA PkgSteps == ASSUME Pkg!ConstantsAssumption, PkgInv, Pkg!Next PROVE PkgInv'
<1>1. CASE Pkg!User
  <2>1. CASE \E pkg \in Pkgs : Pkg!OpenPackage(pkg)
    BY <2>1, PkgOpenPackage
  <2>2. CASE \E v \in PkgVersions : Pkg!selectVersion(v)
    BY <2>2, PkgSelectVersion
  <2>3. CASE \E f \in Files : Pkg!onChangeAdditionalDefaultValues(f)
    BY <2>3, PkgCustomDefaults
  <2> QED
    BY <1>1, <2>1, <2>2, <2>3, PkgDeploy, PkgEdits, PkgDeploys, PkgLeaves DEF Pkg!User
<1>2. CASE Pkg!Answered
  BY <1>2, PkgDetailAnswered, PkgVersionsAnswered, PkgInstalled DEF Pkg!Answered
<1>3. CASE Pkg!Failed
  BY <1>3, PkgRequestFails, PkgInstallFails DEF Pkg!Failed
<1> QED
  BY <1>1, <1>2, <1>3 DEF Pkg!Next

\* What the invariant says of the component's properties.
LEMMA PkgProperties ==
  ASSUME Pkg!ConstantsAssumption, PkgInv
  PROVE  Pkg!TypeOK /\ Pkg!InstallsWhatUrlSays /\ Pkg!PageSettles
<1>0. PkgTyped /\ PkgIds /\ PkgSelected
  BY DEF PkgInv
<1>1. store.packages \in PkgSlices /\ Pkg!Selected \in Selections(PkgDetails, PkgVersions, PkgValues)
  BY <1>0, PkgSelection
<1>2. store.packages.isFetching \in BOOLEAN
  BY <1>1 DEF PkgSlices, Slices
<1>3. Pkg!Selected.detail \in Pkg!Details \cup {None} /\ Pkg!Selected.versions \subseteq PkgVersions
  BY <1>1 DEF Selections, PkgDetails
<1>4. Pkg!TypeOK
  BY <1>0, <1>2, <1>3 DEF Pkg!TypeOK, PkgTyped, PkgUi, PkgIds
<1>5. Pkg!PageSettles
  <2> SUFFICES ASSUME PkgOpen, calls = {}, ~past.late, ~past.failed
      PROVE  /\ Pkg!Selected.detail = Pkg!Detail(ui.pkg, ui.version)
             /\ ~ui.valuesModified => Pkg!AppValues.of = Pkg!Detail(ui.pkg, ui.version)
    BY DEF Pkg!PageSettles, PkgOpen
  <2>1. Pkg!Selected.detail = Pkg!Detail(ui.pkg, ui.version)
    BY <1>0 DEF PkgSelected
  <2>2. Pkg!Detail(ui.pkg, ui.version) # None
    BY <1>0, PkgDetailsAre DEF PkgTyped, PkgUi
  <2> QED
    BY <1>0, <2>1, <2>2 DEF PkgSelected, Pkg!AppValues
<1> QED
  BY <1>4, <1>5 DEF PkgInv

-----------------------------------------------------------------------------
(* The installed applications: the invariant is InsInv. *)

InsDetails == [app : Apps, version : AppVersions \cup {None}, files : {{}}]
InsValues  == {P!defaultValues(d, "") : d \in InsDetails} \cup {None}
InsSlices  == Slices({}, InsDetails \cup {None}, AppVersions, InsValues)
InsStore   == [isFetching : BOOLEAN, error : Ins!Errors, selected : Apps \cup {None},
               details : BOOLEAN, list : SUBSET Apps, packages : InsSlices]
InsUi      == [page : {"other", "list", "view", "upgrade"}, app : Apps \cup {None}, allNS : BOOLEAN,
               version : AppVersions \cup {None}, refs : {"asked", "got", "failed"},
               fetchError : BOOLEAN, form : BOOLEAN, deploying : BOOLEAN]
InsPast    == [moves : Nat, errors : 0..Max.installed.errors, installed : SUBSET Apps, blocks : 0..2,
               late : BOOLEAN, early : BOOLEAN, left : BOOLEAN, failed : BOOLEAN]

InsRequest(k, A, V) == [kind : k, app : A, version : V, mine : BOOLEAN, id : Nat]
InsRequests == InsRequest({"app", "refs", "versions"}, Apps, {None})
                 \cup InsRequest({"detail"}, Apps, AppVersions)
                 \cup InsRequest({"list"}, {None}, BOOLEAN)
InsOperation(k, V) == [kind : k, app : Apps, version : V, mine : BOOLEAN, id : {1}, asked : Apps, late : BOOLEAN]
InsOperations == InsOperation({"delete", "rollback"}, {None}) \cup InsOperation({"update"}, InsDetails)

InsOpen == ui.page \in {"view", "upgrade"}

InsTyped ==
    /\ store \in InsStore /\ ui \in InsUi /\ past \in InsPast
    /\ calls \subseteq InsRequests \cup InsOperations
    /\ IF InsOpen THEN ui.app \in Apps ELSE ui.app = None
    /\ ui.form => ui.page = "upgrade"

\* What the page that is mounted asked for.
InsOwn ==
    \A c \in calls : c.mine =>
        IF c.kind = "list" THEN ui.page = "list" /\ c.version = ui.allNS
        ELSE /\ InsOpen /\ (~past.late => c.app = ui.app)
             /\ c.kind \in {"delete", "rollback"} => ui.page = "view"
             /\ c.kind = "update" => ui.page = "upgrade"

\* A spinner has a request.
InsWaits ==
    /\ store.isFetching => \E c \in calls : c.kind \in {"app", "list", "delete", "rollback"}
    /\ store.packages.isFetching => \E c \in calls : c.kind \in {"versions", "detail"}

\* What is selected is what the URL names, or is being asked for.
InsSelected ==
    /\ InsOpen /\ ~past.late => store.selected \in {None, ui.app}
    /\ InsOpen /\ ~past.late /\ ~past.left /\ ~past.failed =>
          store.selected = ui.app \/ \E c \in calls : c.kind = "app" /\ c.app = ui.app

\* The list is that of the cluster, or is being asked for.
InsListed ==
    ui.page = "list" /\ ~past.late /\ ~past.left /\ ~past.failed =>
        store.list = Ins!Listed(ui.allNS) \/ \E c \in calls : c.kind = "list" /\ c.version = ui.allNS

\* The form has its package and versions, or asks for them.
InsForm ==
    LET sel == store.packages.selected
    IN ui.page = "upgrade" =>
        /\ ~past.late => sel.detail = None \/ sel.detail.app = ui.app
        /\ ~past.early /\ sel.versions # {} => sel.detail # None
        /\ ui.form /\ ~past.failed => sel.versions # {} \/ \E c \in calls : c.kind = "versions"

InsInv == InsTyped /\ InsOwn /\ InsWaits /\ InsSelected /\ InsListed /\ InsForm /\ Ins!ActsOnUrlApp

LEMMA InsReducers ==
  ASSUME NEW s
  PROVE  /\ Ins!P!requestSelectedAvailablePackageDetail(s) = P!requestSelectedAvailablePackageDetail(s)
         /\ Ins!P!requestSelectedAvailablePackageVersions(s) = P!requestSelectedAvailablePackageDetail(s)
         /\ Ins!P!resetSelectedAvailablePackageDetail(s) = P!resetSelectedAvailablePackageDetail(s)
         /\ \A d : Ins!P!receiveSelectedAvailablePackageDetail(s, d) = P!receiveSelectedAvailablePackageDetail(s, d)
         /\ \A v : Ins!P!receiveSelectedAvailablePackageVersions(s, v) = P!receiveSelectedAvailablePackageVersions(s, v)
         /\ Ins!P!createErrorPackage(s) = P!createErrorPackage(s)
         /\ Ins!P!initialState = P!initialState
<1>1. \A d, f : Ins!P!defaultValues(d, f) = P!defaultValues(d, f)
  BY DEF Ins!P!defaultValues, P!defaultValues, Ins!P!Cardinality, P!Cardinality
<1>2. Ins!P!NoSelection = P!NoSelection
  BY DEF Ins!P!NoSelection, P!NoSelection
<1>3. /\ Ins!P!requestSelectedAvailablePackageDetail(s) = P!requestSelectedAvailablePackageDetail(s)
      /\ Ins!P!requestSelectedAvailablePackageVersions(s) = P!requestSelectedAvailablePackageDetail(s)
      /\ Ins!P!resetSelectedAvailablePackageDetail(s) = P!resetSelectedAvailablePackageDetail(s)
  BY <1>2 DEF Ins!P!requestSelectedAvailablePackageDetail, P!requestSelectedAvailablePackageDetail,
              Ins!P!requestSelectedAvailablePackageVersions,
              Ins!P!resetSelectedAvailablePackageDetail, P!resetSelectedAvailablePackageDetail
<1>4. \A d : Ins!P!receiveSelectedAvailablePackageDetail(s, d) = P!receiveSelectedAvailablePackageDetail(s, d)
  BY <1>1 DEF Ins!P!receiveSelectedAvailablePackageDetail, P!receiveSelectedAvailablePackageDetail
<1>5. \A v : Ins!P!receiveSelectedAvailablePackageVersions(s, v) = P!receiveSelectedAvailablePackageVersions(s, v)
  BY DEF Ins!P!receiveSelectedAvailablePackageVersions, P!receiveSelectedAvailablePackageVersions
<1>6. Ins!P!createErrorPackage(s) = P!createErrorPackage(s)
  BY DEF Ins!P!createErrorPackage, P!createErrorPackage
<1>7. Ins!P!initialState = P!initialState
  BY <1>2 DEF Ins!P!initialState, P!initialState, Ins!P!FirstPage, P!FirstPage
<1> QED
  BY <1>3, <1>4, <1>5, <1>6, <1>7

LEMMA InsDetailIs ==
  ASSUME Ins!ConstantsAssumption, NEW a \in Apps, NEW v \in AppVersions \cup {None}
  PROVE  Ins!Detail(a, v) \in InsDetails /\ Ins!Detail(a, v).app = a /\ Ins!Detail(a, v) # None
BY DEF Ins!Detail, InsDetails, Ins!ConstantsAssumption

LEMMA InsValuesAre ==
  /\ \A d \in InsDetails : P!defaultValues(d, "") \in InsValues
  /\ None \in InsValues
<1> DEFINE M == {P!defaultValues(d, "") : d \in InsDetails}
<1>1. InsValues = M \cup {None} /\ \A d \in InsDetails : P!defaultValues(d, "") \in M
  BY DEF InsValues
<1> HIDE DEF M
<1> QED
  BY <1>1

\* What an answer leaves in the slice of the packages.
LEMMA InsReceives ==
  ASSUME NEW s \in InsSlices, NEW d \in InsDetails
  PROVE  LET t == P!receiveSelectedAvailablePackageDetail(s, d)
         IN t \in InsSlices /\ ~t.isFetching /\ t.selected.detail = d
            /\ t.selected.versions = s.selected.versions
<1> DEFINE v == P!defaultValues(d, "")
           t == P!receiveSelectedAvailablePackageDetail(s, d)
           x == [s.selected EXCEPT !.error = FALSE, !.detail = d, !.values = v]
<1>1. t = [s EXCEPT !.isFetching = FALSE, !.selected.error = FALSE, !.selected.detail = d, !.selected.values = v]
  BY DEF P!receiveSelectedAvailablePackageDetail
<1>2. v \in InsValues
  BY InsValuesAre
<1> HIDE DEF v
<1>3. s \in Slices({}, InsDetails \cup {None}, AppVersions, InsValues)
  BY DEF InsSlices
<1>4. /\ x \in Selections(InsDetails \cup {None}, AppVersions, InsValues)
      /\ x.detail = d /\ x.versions = s.selected.versions
  BY <1>2, <1>3 DEF Slices, Selections
<1>5. t = [s EXCEPT !.isFetching = FALSE, !.selected = x]
  BY <1>1, <1>3 DEF Slices
<1> HIDE DEF x, t
<1>6. t \in InsSlices /\ t.selected = x /\ ~t.isFetching
  BY <1>3, <1>4, <1>5 DEF InsSlices, Slices
<1> QED
  BY <1>4, <1>6 DEF t

LEMMA InsSlice ==
  ASSUME NEW s \in InsSlices
  PROVE  /\ LET t == P!requestSelectedAvailablePackageDetail(s)
            IN t \in InsSlices /\ t.selected = s.selected
         /\ LET t == P!resetSelectedAvailablePackageDetail(s)
            IN t \in InsSlices /\ t.selected.detail = None /\ t.selected.versions = {}
               /\ t.isFetching = s.isFetching
         /\ LET t == P!receiveSelectedAvailablePackageVersions(s, AppVersions)
            IN t \in InsSlices /\ ~t.isFetching /\ t.selected.detail = s.selected.detail
               /\ t.selected.versions = AppVersions
         /\ LET t == P!createErrorPackage(s)
            IN t \in InsSlices /\ ~t.isFetching /\ t.selected.detail = s.selected.detail
               /\ t.selected.versions = s.selected.versions
<1> DEFINE D == InsDetails \cup {None}
<1>1. s \in Slices({}, D, AppVersions, InsValues) /\ None \in D /\ None \in InsValues
  BY InsValuesAre DEF InsSlices
<1>2. InsSlices = Slices({}, D, AppVersions, InsValues)
  BY DEF InsSlices
<1> HIDE DEF D
<1>3. LET t == P!requestSelectedAvailablePackageDetail(s)
      IN t \in InsSlices /\ t.selected = s.selected
  BY <1>1, <1>2, SliceRequests
<1>4. LET t == P!resetSelectedAvailablePackageDetail(s)
      IN t \in InsSlices /\ t.selected.detail = None /\ t.selected.versions = {} /\ t.isFetching = s.isFetching
  <2>1. P!NoSelection \in Selections(D, AppVersions, InsValues)
    BY <1>1 DEF P!NoSelection, Selections
  <2> QED
    BY <1>1, <1>2, <2>1 DEF P!resetSelectedAvailablePackageDetail, Slices, P!NoSelection
<1>5. LET t == P!receiveSelectedAvailablePackageVersions(s, AppVersions)
      IN t \in InsSlices /\ ~t.isFetching /\ t.selected.detail = s.selected.detail
         /\ t.selected.versions = AppVersions
  BY <1>1, <1>2, SliceVersions
<1>6. LET t == P!createErrorPackage(s)
      IN t \in InsSlices /\ ~t.isFetching /\ t.selected.detail = s.selected.detail
         /\ t.selected.versions = s.selected.versions
  BY <1>1, <1>2, SliceErrs
<1> QED
  BY <1>3, <1>4, <1>5, <1>6

LEMMA InsAsked ==
  ASSUME Ins!ConstantsAssumption, NEW k, NEW a, NEW v
  PROVE  \E i \in Nat : Ins!Request(k, a, v) = {[kind |-> k, app |-> a, version |-> v, mine |-> TRUE, id |-> i]}
<1> DEFINE m == Max.installed.same
           Free(i) == i = m \/ \A c \in Ins!Same(k, a, v) : c.id # i
           i0 == CHOOSE i \in 1..m : Free(i)
<1>1. m \in 1..m /\ Free(m) /\ 1..m \subseteq Nat
  <2>1. m \in Nat \ {0}
    BY DEF Ins!ConstantsAssumption
  <2> QED
    BY <2>1
<1> HIDE DEF m
<1>2. i0 \in 1..m
  BY <1>1
<1>3. Ins!Request(k, a, v) = {[kind |-> k, app |-> a, version |-> v, mine |-> TRUE, id |-> i0]}
  BY DEF Ins!Request, m
<1> HIDE DEF i0
<1> QED
  BY <1>1, <1>2, <1>3

\* F has the requests of D, as nobody's.
InsAlike(c, d) == /\ c.kind = d.kind /\ c.app = d.app /\ c.version = d.version
                  /\ d.kind \in {"delete", "rollback", "update"} => c.asked = d.asked /\ c.late = d.late
InsForsaken(D, F) ==
    /\ F \subseteq InsRequests \cup InsOperations
    /\ \A c \in F : ~c.mine /\ \E d \in D : InsAlike(c, d)
    /\ \A d \in D : \E c \in F : InsAlike(c, d)

LEMMA InsForsakes ==
  ASSUME NEW D, D \subseteq InsRequests \cup InsOperations
  PROVE  InsForsaken(D, Ins!Forsake(D))
<1> DEFINE g(c) == [c EXCEPT !.mine = FALSE]
           F == {g(c) : c \in D}
<1>1. Ins!Forsake(D) = F
  BY DEF Ins!Forsake
<1>2. ASSUME NEW c \in D
      PROVE  /\ g(c) \in InsRequests \cup InsOperations /\ ~g(c).mine /\ g(c).kind = c.kind
             /\ g(c).app = c.app /\ g(c).version = c.version
             /\ c.kind \in {"delete", "rollback", "update"} => g(c).asked = c.asked /\ g(c).late = c.late
  <2>1. CASE c \in InsRequests
    BY <2>1 DEF InsRequests, InsRequest
  <2>2. CASE c \in InsOperations
    BY <2>2 DEF InsOperations, InsOperation
  <2> QED
    BY <2>1, <2>2
<1> HIDE DEF g
<1> QED
  BY <1>1, <1>2 DEF InsForsaken, InsAlike

\* What the first effect of the form does.
LEMMA InsPopulates ==
  ASSUME Ins!ConstantsAssumption, InsTyped, store.selected \in Apps, NEW v \in AppVersions \cup {None}
  PROVE  /\ LET t == Ins!Populate(store, v)
            IN /\ t \in InsStore /\ t.isFetching = store.isFetching /\ t.error = store.error
               /\ t.selected = store.selected /\ t.list = store.list /\ t.details = store.details
               /\ t.packages.selected.detail # None
               /\ t.packages.selected.detail.app = store.selected
               /\ t.packages.selected.versions = store.packages.selected.versions
         /\ LET C == Ins!PopulateCalls(store, v)
            IN /\ C \subseteq InsRequests
               /\ \A c \in C : c.mine /\ c.kind \in {"versions", "detail"} /\ c.app = store.selected
               /\ \E c \in C : c.kind = "versions"
<1> DEFINE d  == Ins!Detail(store.selected, None)
           s  == store.packages
           p1 == P!requestSelectedAvailablePackageDetail(s)
           p2 == P!receiveSelectedAvailablePackageDetail(p1, d)
           p3 == P!requestSelectedAvailablePackageDetail(p2)
           p  == IF v = None THEN p2 ELSE p3
<1>1. d \in InsDetails /\ d.app = store.selected /\ d # None
  BY InsDetailIs
<1>2. s \in InsSlices
  BY DEF InsTyped, InsStore
<1>3. Ins!Populate(store, v) = [store EXCEPT !.packages = p]
  BY InsReducers DEF Ins!Populate
<1> HIDE DEF d, s
<1>4. p1 \in InsSlices /\ p1.selected = s.selected
  BY <1>2, InsSlice
<1> HIDE DEF p1
<1>5. p2 \in InsSlices /\ p2.selected.detail = d /\ p2.selected.versions = s.selected.versions
  BY <1>1, <1>4, InsReceives
<1> HIDE DEF p2
<1>6. p3 \in InsSlices /\ p3.selected = p2.selected
  BY <1>5, InsSlice
<1> HIDE DEF p3
<1>7. p \in InsSlices /\ p.selected.detail = d /\ p.selected.versions = s.selected.versions
  BY <1>5, <1>6
<1> HIDE DEF p
<1>8. LET t == Ins!Populate(store, v)
      IN /\ t \in InsStore /\ t.isFetching = store.isFetching /\ t.error = store.error
         /\ t.selected = store.selected /\ t.list = store.list /\ t.details = store.details
         /\ t.packages = p
  BY <1>3, <1>7 DEF InsTyped, InsStore
<1>9. LET C == Ins!PopulateCalls(store, v)
      IN /\ C \subseteq InsRequests
         /\ \A c \in C : c.mine /\ c.kind \in {"versions", "detail"} /\ c.app = store.selected
         /\ \E c \in C : c.kind = "versions"
  <2>1. PICK i \in Nat : Ins!Request("versions", store.selected, None)
           = {[kind |-> "versions", app |-> store.selected, version |-> None, mine |-> TRUE, id |-> i]}
    BY InsAsked
  <2>2. PICK j \in Nat : Ins!Request("detail", store.selected, v)
           = {[kind |-> "detail", app |-> store.selected, version |-> v, mine |-> TRUE, id |-> j]}
    BY InsAsked
  <2>3. [kind |-> "versions", app |-> store.selected, version |-> None, mine |-> TRUE, id |-> i] \in InsRequests
    BY <2>1 DEF InsRequests, InsRequest
  <2>4. v # None => [kind |-> "detail", app |-> store.selected, version |-> v, mine |-> TRUE, id |-> j] \in InsRequests
    BY <2>2 DEF InsRequests, InsRequest
  <2> DEFINE x == [kind |-> "versions", app |-> store.selected, version |-> None, mine |-> TRUE, id |-> i]
             y == [kind |-> "detail", app |-> store.selected, version |-> v, mine |-> TRUE, id |-> j]
  <2>5. x.mine /\ x.kind = "versions" /\ x.app = store.selected /\ x \in InsRequests
        /\ y.mine /\ y.kind = "detail" /\ y.app = store.selected /\ (v # None => y \in InsRequests)
    BY <2>3, <2>4
  <2>6. Ins!PopulateCalls(store, v) = {x} \cup (IF v = None THEN {} ELSE {y})
    BY <2>1, <2>2 DEF Ins!PopulateCalls
  <2> HIDE DEF x, y
  <2> QED
    BY <2>5, <2>6
<1> QED
  BY <1>1, <1>7, <1>8, <1>9 DEF s

\* Operations in flight stay what they were sent for.
LEMMA InsActs ==
  ASSUME Ins!ActsOnUrlApp,
         \A c \in calls' : c.kind \in {"delete", "rollback", "update"} =>
            \E d \in calls : /\ c.kind = d.kind /\ c.app = d.app /\ c.version = d.version
                             /\ c.asked = d.asked /\ c.late = d.late
  PROVE  Ins!ActsOnUrlApp'
BY DEF Ins!ActsOnUrlApp

LEMMA InsCount ==
  ASSUME InsTyped
  PROVE  /\ Ins!Count \in InsPast /\ Ins!Count.late = past.late /\ Ins!Count.left = past.left
         /\ Ins!Count.failed = past.failed /\ Ins!Count.early = past.early
         /\ Ins!Count.installed = past.installed /\ Ins!Count.errors = past.errors
<1>1. past.moves + 1 \in Nat /\ past \in InsPast
  BY DEF InsTyped, InsPast
<1>2. Ins!Count = [past EXCEPT !.moves = past.moves + 1]
  BY DEF Ins!Count
<1> QED
  BY <1>1, <1>2, Zenon DEF InsPast

LEMMA InsMounts ==
  ASSUME NEW pg \in {"other", "list", "view", "upgrade"}, NEW a \in Apps \cup {None}, NEW s
  PROVE  LET u == Ins!Mount(pg, a, s)
         IN u \in InsUi /\ u.page = pg /\ u.app = a /\ ~u.allNS /\ ~u.form
BY DEF Ins!Mount, InsUi

LEMMA InsActsForsaken ==
  ASSUME Ins!ActsOnUrlApp, NEW D, D \subseteq calls, NEW F, InsForsaken(D, F),
         \A c \in calls' : c \in F \/ c.kind \notin {"delete", "rollback", "update"}
  PROVE  Ins!ActsOnUrlApp'
<1>1. ASSUME NEW c \in calls', c.kind \in {"delete", "rollback", "update"}
      PROVE  \E d \in calls : /\ c.kind = d.kind /\ c.app = d.app /\ c.version = d.version
                              /\ c.asked = d.asked /\ c.late = d.late
  <2>1. c \in F
    BY <1>1
  <2>2. PICK d \in D : InsAlike(c, d)
    BY <2>1 DEF InsForsaken, InsAlike
  <2> QED
    BY <1>1, <2>2 DEF InsAlike
<1> QED
  BY <1>1, InsActs

\* The page of an application is opened, or stays when an operation that was left ends.
LEMMA InsVisitsView ==
  ASSUME Ins!ConstantsAssumption, InsInv, NEW a \in Apps, NEW cs, cs \subseteq calls, NEW p \in InsPast,
         p.late = past.late, ui.page = "view" /\ ui.app = a => p.left,
         store.packages.isFetching => \E c \in cs : c.kind \in {"versions", "detail"},
         Ins!Visit("view", a, store, cs, p)
  PROVE  InsInv'
<1>0. InsTyped /\ InsOwn /\ InsWaits /\ Ins!ActsOnUrlApp
  BY DEF InsInv
<1>1. cs \subseteq InsRequests \cup InsOperations
  BY <1>0 DEF InsTyped
<1> DEFINE same == ui.page = "view"
           s1   == IF same THEN Ins!LocationChange(store) ELSE store
           new  == ~same \/ ui.app # a
<1>2. /\ s1 \in InsStore /\ s1.packages = store.packages
      /\ same => ~s1.isFetching /\ s1.selected = None
  BY <1>0 DEF InsTyped, InsStore, Ins!LocationChange, Ins!NoError, Ins!Errors
<1>3. ui' \in InsUi /\ ui'.page = "view" /\ ui'.app = a /\ ~ui'.form
  <2>1. CASE same
    <3>1. ui' = [ui EXCEPT !.app = a, !.allNS = FALSE, !.refs = IF new THEN "asked" ELSE ui.refs]
      BY <2>1 DEF Ins!Visit
    <3> QED
      BY <1>0, <2>1, <3>1 DEF InsTyped, InsUi
  <2>2. CASE ~same
    BY <2>2, InsMounts DEF Ins!Visit
  <2> QED
    BY <2>1, <2>2
<1>4. CASE new
  <2>1. past' = [p EXCEPT !.late = FALSE, !.failed = FALSE, !.left = FALSE]
        /\ store' = Ins!requestInstalledPackage(s1)
        /\ calls' = Ins!Forsake(cs) \cup Ins!Request("app", a, None) \cup Ins!Request("refs", a, None)
    BY <1>4 DEF Ins!Visit
  <2>2. past' \in InsPast
    BY <2>1 DEF InsPast
  <2>3. store' \in InsStore /\ store'.packages = store.packages /\ store'.isFetching /\ store'.selected = None
    BY <1>2, <2>1 DEF InsStore, Ins!requestInstalledPackage
  <2>4. PICK i \in Nat : Ins!Request("app", a, None)
           = {[kind |-> "app", app |-> a, version |-> None, mine |-> TRUE, id |-> i]}
    BY InsAsked
  <2>5. PICK j \in Nat : Ins!Request("refs", a, None)
           = {[kind |-> "refs", app |-> a, version |-> None, mine |-> TRUE, id |-> j]}
    BY InsAsked
  <2> DEFINE x == [kind |-> "app", app |-> a, version |-> None, mine |-> TRUE, id |-> i]
             y == [kind |-> "refs", app |-> a, version |-> None, mine |-> TRUE, id |-> j]
             F == Ins!Forsake(cs)
  <2>6. calls' = F \cup {x} \cup {y}
    BY <2>1, <2>4, <2>5
  <2>7. /\ x \in InsRequests /\ x.kind = "app" /\ x.app = a
        /\ y \in InsRequests /\ y.kind = "refs" /\ y.app = a
    BY DEF InsRequests, InsRequest
  <2> HIDE DEF x, y
  <2>8. InsForsaken(cs, F)
    BY <1>1, InsForsakes
  <2> HIDE DEF F
  <2>9. InsTyped'
    BY <1>3, <2>2, <2>3, <2>6, <2>7, <2>8 DEF InsTyped, InsOpen, InsForsaken, InsAlike
  <2>10. InsOwn'
    BY <1>3, <2>6, <2>7, <2>8 DEF InsOwn, InsOpen, InsForsaken, InsAlike
  <2>11. InsWaits'
    <3>1. store.packages.isFetching => \E c \in F : c.kind \in {"versions", "detail"}
      BY <2>8 DEF InsForsaken, InsAlike
    <3> QED
      BY <2>3, <2>6, <2>7, <3>1 DEF InsWaits
  <2>12. InsSelected'
    BY <1>3, <2>3, <2>6, <2>7 DEF InsSelected
  <2>13. InsListed' /\ InsForm'
    BY <1>3 DEF InsListed, InsForm
  <2>14. Ins!ActsOnUrlApp'
    <3>1. \A c \in calls' : c \in F \/ c.kind \notin {"delete", "rollback", "update"}
      BY <2>6, <2>7
    <3> QED
      BY <1>0, <2>8, <3>1, InsActsForsaken
  <2> QED
    BY <2>9, <2>10, <2>11, <2>12, <2>13, <2>14 DEF InsInv
<1>5. CASE ~new
  <2>1. past' = p /\ store' = s1 /\ calls' = cs /\ p.left
    BY <1>5 DEF Ins!Visit
  <2>2. InsTyped'
    BY <1>1, <1>2, <1>3, <2>1 DEF InsTyped, InsOpen
  <2>3. InsOwn'
    BY <1>0, <1>3, <1>5, <2>1 DEF InsOwn, InsOpen
  <2>4. InsWaits'
    BY <1>2, <1>5, <2>1 DEF InsWaits
  <2>5. InsSelected' /\ InsListed' /\ InsForm'
    BY <1>2, <1>3, <1>5, <2>1 DEF InsSelected, InsListed, InsForm
  <2>6. Ins!ActsOnUrlApp'
    BY <1>0, <2>1, InsActs
  <2> QED
    BY <2>2, <2>3, <2>4, <2>5, <2>6 DEF InsInv
<1> QED
  BY <1>4, <1>5

\* The list is opened, or stays when a deletion that was left ends.
LEMMA InsVisitsList ==
  ASSUME Ins!ConstantsAssumption, InsInv, NEW cs, cs \subseteq calls, NEW p \in InsPast,
         NEW s \in InsStore, s.packages = store.packages,
         p.late = past.late, ui.page = "list" => p.left,
         store.packages.isFetching => \E c \in cs : c.kind \in {"versions", "detail"},
         Ins!Visit("list", None, s, cs, p)
  PROVE  InsInv'
<1>0. InsTyped /\ InsOwn /\ InsWaits /\ Ins!ActsOnUrlApp
  BY DEF InsInv
<1>1. cs \subseteq InsRequests \cup InsOperations
  BY <1>0 DEF InsTyped
<1> DEFINE same == ui.page = "list"
           s1   == IF same THEN Ins!LocationChange(s) ELSE s
           new  == ~same \/ ui.app # None
<1>2. s1 \in InsStore /\ s1.packages = store.packages /\ (same => ~s1.isFetching)
  BY DEF InsStore, Ins!LocationChange, Ins!NoError, Ins!Errors
<1>3. ui' \in InsUi /\ ui'.page = "list" /\ ui'.app = None /\ ~ui'.form /\ ~ui'.allNS
  <2>1. CASE same
    <3>1. ui' = [ui EXCEPT !.app = None, !.allNS = FALSE, !.refs = IF new THEN "asked" ELSE ui.refs]
      BY <2>1 DEF Ins!Visit
    <3> QED
      BY <1>0, <2>1, <3>1 DEF InsTyped, InsUi
  <2>2. CASE ~same
    BY <2>2, InsMounts DEF Ins!Visit
  <2> QED
    BY <2>1, <2>2
<1>4. past' \in InsPast
  BY DEF InsPast, Ins!Visit
<1>5. CASE ~same \/ ui.allNS
  <2>1. store' = [s1 EXCEPT !.isFetching = TRUE]
        /\ calls' = Ins!Forsake(cs) \cup Ins!Request("list", None, FALSE)
    BY <1>5 DEF Ins!Visit
  <2>3. store' \in InsStore /\ store'.packages = store.packages /\ store'.isFetching
    BY <1>2, <2>1 DEF InsStore
  <2>4. PICK i \in Nat : Ins!Request("list", None, FALSE)
           = {[kind |-> "list", app |-> None, version |-> FALSE, mine |-> TRUE, id |-> i]}
    BY InsAsked
  <2> DEFINE x == [kind |-> "list", app |-> None, version |-> FALSE, mine |-> TRUE, id |-> i]
             F == Ins!Forsake(cs)
  <2>6. calls' = F \cup {x}
    BY <2>1, <2>4
  <2>7. x \in InsRequests /\ x.kind = "list" /\ x.version = FALSE
    BY DEF InsRequests, InsRequest
  <2> HIDE DEF x
  <2>8. InsForsaken(cs, F)
    BY <1>1, InsForsakes
  <2> HIDE DEF F
  <2>9. InsTyped'
    BY <1>3, <1>4, <2>3, <2>6, <2>7, <2>8 DEF InsTyped, InsOpen, InsForsaken, InsAlike
  <2>10. InsOwn'
    BY <1>3, <2>6, <2>7, <2>8, ZenonT(60) DEF InsOwn, InsOpen, InsUi, InsForsaken, InsAlike
  <2>11. InsWaits'
    <3>1. store.packages.isFetching => \E c \in F : c.kind \in {"versions", "detail"}
      BY <2>8 DEF InsForsaken, InsAlike
    <3> QED
      BY <2>3, <2>6, <2>7, <3>1 DEF InsWaits
  <2>12. InsListed'
    BY <1>3, <2>6, <2>7, ZenonT(60) DEF InsListed, InsUi
  <2>13. InsSelected' /\ InsForm'
    BY <1>3 DEF InsSelected, InsForm, InsOpen
  <2>14. Ins!ActsOnUrlApp'
    <3>1. \A c \in calls' : c \in F \/ c.kind \notin {"delete", "rollback", "update"}
      BY <2>6, <2>7
    <3> QED
      BY <1>0, <2>8, <3>1, InsActsForsaken
  <2> QED
    BY <2>9, <2>10, <2>11, <2>12, <2>13, <2>14 DEF InsInv
<1>6. CASE same /\ ~ui.allNS
  <2>1. past' = p /\ store' = s1 /\ calls' = cs /\ p.left
    BY <1>0, <1>6 DEF Ins!Visit, InsTyped, InsOpen
  <2>2. InsTyped'
    BY <1>1, <1>2, <1>3, <1>4, <2>1 DEF InsTyped, InsOpen
  <2>3. InsOwn'
    <3>1. \A c \in calls' : c.mine => c.kind = "list" /\ c.version = ui.allNS
      BY <1>0, <1>6, <2>1 DEF InsOwn, InsOpen
    <3>2. ui'.allNS = ui.allNS
      BY <1>0, <1>3, <1>6 DEF InsTyped, InsUi
    <3> QED
      BY <1>3, <3>1, <3>2 DEF InsOwn
  <2>4. InsWaits'
    BY <1>2, <1>6, <2>1 DEF InsWaits
  <2>5. InsSelected' /\ InsListed' /\ InsForm'
    BY <1>3, <2>1 DEF InsSelected, InsListed, InsForm, InsOpen
  <2>6. Ins!ActsOnUrlApp'
    BY <1>0, <2>1, InsActs
  <2> QED
    BY <2>2, <2>3, <2>4, <2>5, <2>6 DEF InsInv
<1> QED
  BY <1>5, <1>6

LEMMA InsKinds ==
  ASSUME InsTyped, NEW c \in calls
  PROVE  /\ c.mine \in BOOLEAN
         /\ c.kind \in {"app", "refs", "versions", "detail", "list", "delete", "rollback", "update"}
         /\ c.kind = "detail" => c.version \in AppVersions
         /\ c.kind = "list" => c.version \in BOOLEAN
         /\ c.kind # "list" => c.app \in Apps
<1>1. CASE c \in InsRequests
  BY <1>1 DEF InsRequests, InsRequest
<1>2. CASE c \in InsOperations
  BY <1>2 DEF InsOperations, InsOperation
<1> QED
  BY <1>1, <1>2 DEF InsTyped

LEMMA InsRenders == ASSUME Ins!ConstantsAssumption, InsInv, Ins!Render PROVE InsInv'
<1>0. InsTyped /\ InsOwn /\ InsWaits /\ InsSelected /\ InsForm /\ Ins!ActsOnUrlApp
  BY DEF InsInv
<1>1. ui.page = "upgrade" /\ ui' = [ui EXCEPT !.form = ~ui.form, !.deploying = FALSE]
      /\ ui.form # Ins!FormMounted(store)
  BY DEF Ins!Render, Ins!RenderDue
<1>2. /\ ui' \in InsUi /\ ui'.page = ui.page /\ ui'.app = ui.app /\ ui'.allNS = ui.allNS
      /\ ui'.form = ~ui.form
  BY <1>0, <1>1 DEF InsTyped, InsUi
<1>3. CASE Ins!Populates(store)
  <2>1. store' = Ins!Populate(store, ui.version) /\ calls' = calls \cup Ins!PopulateCalls(store, ui.version)
        /\ past' = [past EXCEPT !.blocks = IF past.blocks = 2 THEN past.blocks ELSE past.blocks + 1]
    BY <1>3 DEF Ins!Render
  <2>2. store.selected \in Apps /\ ui.version \in AppVersions \cup {None}
    BY <1>0, <1>3 DEF InsTyped, InsStore, InsUi, Ins!Populates, Ins!FormMounted
  <2> DEFINE C == Ins!PopulateCalls(store, ui.version)
  <2>3. /\ store' \in InsStore /\ store'.isFetching = store.isFetching
        /\ store'.selected = store.selected /\ store'.list = store.list
        /\ store'.packages.selected.detail # None
        /\ store'.packages.selected.detail.app = store.selected
        /\ C \subseteq InsRequests
        /\ \A c \in C : c.mine /\ c.kind \in {"versions", "detail"} /\ c.app = store.selected
        /\ \E c \in C : c.kind = "versions"
    BY <1>0, <2>1, <2>2, InsPopulates
  <2>4. calls' = calls \cup C
    BY <2>1
  <2> HIDE DEF C
  <2>5. past' \in InsPast /\ past'.late = past.late /\ past'.left = past.left /\ past'.failed = past.failed
        /\ past'.early = past.early
    <3>1. (IF past.blocks = 2 THEN past.blocks ELSE past.blocks + 1) \in 0..2
      BY <1>0 DEF InsTyped, InsPast
    <3> QED
      BY <1>0, <2>1, <3>1, Zenon DEF InsTyped, InsPast
  <2>6. InsTyped'
    BY <1>0, <1>1, <1>2, <2>3, <2>4, <2>5 DEF InsTyped, InsOpen
  <2>7. ~past.late => store.selected = ui.app
    BY <1>0, <1>1, <2>2 DEF InsSelected, InsOpen, Ins!ConstantsAssumption
  <2>8. InsOwn'
    BY <1>0, <1>1, <1>2, <2>3, <2>4, <2>5, <2>7 DEF InsOwn, InsOpen
  <2>9. InsWaits'
    BY <1>0, <2>3, <2>4 DEF InsWaits
  <2>10. InsSelected'
    BY <1>0, <1>2, <2>3, <2>4, <2>5 DEF InsSelected, InsOpen
  <2>11. InsListed'
    BY <1>1, <1>2 DEF InsListed
  <2>12. InsForm'
    BY <1>2, <2>3, <2>4, <2>5, <2>7 DEF InsForm
  <2>13. Ins!ActsOnUrlApp'
    BY <1>0, <2>3, <2>4, InsActs
  <2> QED
    BY <2>6, <2>8, <2>9, <2>10, <2>11, <2>12, <2>13 DEF InsInv
<1>4. CASE ~Ins!Populates(store)
  <2>1. UNCHANGED <<store, calls, past>>
    BY <1>4 DEF Ins!Render
  <2>2. ui'.form => store.packages.selected.versions # {}
    <3>1. ui.form \in BOOLEAN /\ Ins!FormMounted(store) \in BOOLEAN
      BY <1>0 DEF InsTyped, InsUi, Ins!FormMounted
    <3>2. ui'.form => Ins!FormMounted(store)
      BY <1>1, <1>2, <3>1
    <3> QED
      BY <1>4, <3>2 DEF Ins!Populates
  <2>3. InsTyped' /\ InsOwn' /\ InsWaits' /\ InsSelected'
    BY <1>0, <1>1, <1>2, <2>1 DEF InsTyped, InsOwn, InsWaits, InsSelected, InsOpen
  <2>4. InsListed' /\ InsForm'
    BY <1>0, <1>1, <1>2, <2>1, <2>2 DEF InsListed, InsForm
  <2>5. Ins!ActsOnUrlApp'
    BY <1>0, <2>1, InsActs
  <2> QED
    BY <2>3, <2>4, <2>5 DEF InsInv
<1> QED
  BY <1>3, <1>4

LEMMA InsOpenOther == ASSUME Ins!ConstantsAssumption, InsInv, Ins!OpenOther PROVE InsInv'
<1>0. InsTyped /\ InsWaits /\ Ins!ActsOnUrlApp
  BY DEF InsInv
<1>1. ui' = Ins!Mount("other", None, store) /\ calls' = Ins!Forsake(calls) /\ past' = Ins!Count
      /\ store' = store
  BY DEF Ins!OpenOther
<1>2. ui' \in InsUi /\ ui'.page = "other" /\ ui'.app = None /\ ~ui'.form
  BY <1>1, InsMounts
<1>3. InsForsaken(calls, calls')
  BY <1>0, <1>1, InsForsakes DEF InsTyped
<1>4. InsTyped'
  BY <1>0, <1>1, <1>2, <1>3, InsCount DEF InsTyped, InsOpen, InsForsaken
<1>5. InsOwn' /\ InsSelected' /\ InsListed' /\ InsForm'
  BY <1>2, <1>3 DEF InsOwn, InsSelected, InsListed, InsForm, InsOpen, InsForsaken
<1>6. InsWaits'
  BY <1>0, <1>1, <1>3 DEF InsWaits, InsForsaken, InsAlike
<1>7. Ins!ActsOnUrlApp'
  BY <1>0, <1>3, InsActsForsaken
<1> QED
  BY <1>4, <1>5, <1>6, <1>7 DEF InsInv

LEMMA InsToggles == ASSUME Ins!ConstantsAssumption, InsInv, Ins!toggleListAllNS PROVE InsInv'
<1>0. InsTyped /\ InsWaits /\ Ins!ActsOnUrlApp
  BY DEF InsInv
<1> DEFINE b == ~ui.allNS
           F == Ins!Forsake(calls)
<1>1. ui.page = "list" /\ ui' = [ui EXCEPT !.allNS = b]
      /\ store' = [Ins!LocationChange(store) EXCEPT !.isFetching = TRUE]
      /\ calls' = F \cup Ins!Request("list", None, b)
      /\ past' = [Ins!Count EXCEPT !.late = FALSE]
  BY DEF Ins!toggleListAllNS
<1>2. b \in BOOLEAN
  OBVIOUS
<1> HIDE DEF b
<1>3. ui' \in InsUi /\ ui'.page = "list" /\ ui'.app = ui.app /\ ui'.form = ui.form /\ ui'.allNS = b
  BY <1>0, <1>1, <1>2 DEF InsTyped, InsUi
<1>4. store' \in InsStore /\ store'.packages = store.packages
  BY <1>0, <1>1 DEF InsTyped, InsStore, Ins!LocationChange, Ins!NoError, Ins!Errors
<1>5. past' \in InsPast
  <2> DEFINE n == Ins!Count
  <2>1. n \in InsPast /\ past' = [n EXCEPT !.late = FALSE]
    BY <1>0, <1>1, InsCount
  <2> HIDE DEF n
  <2> QED
    BY <2>1 DEF InsPast
<1>6. PICK i \in Nat : Ins!Request("list", None, b)
         = {[kind |-> "list", app |-> None, version |-> b, mine |-> TRUE, id |-> i]}
  BY InsAsked
<1> DEFINE x == [kind |-> "list", app |-> None, version |-> b, mine |-> TRUE, id |-> i]
<1>7. calls' = F \cup {x}
  BY <1>1, <1>6
<1>8. x \in InsRequests /\ x.kind = "list" /\ x.version = b
  BY <1>2, <1>6 DEF InsRequests, InsRequest
<1> HIDE DEF x
<1>9. InsForsaken(calls, F)
  BY <1>0, InsForsakes DEF InsTyped
<1> HIDE DEF F
<1>10. InsTyped'
  BY <1>0, <1>1, <1>3, <1>4, <1>5, <1>7, <1>8, <1>9 DEF InsTyped, InsOpen, InsForsaken
<1>11. InsOwn' /\ InsSelected' /\ InsListed' /\ InsForm'
  BY <1>3, <1>7, <1>8, <1>9 DEF InsOwn, InsSelected, InsListed, InsForm, InsOpen, InsForsaken
<1>12. InsWaits'
  BY <1>0, <1>4, <1>7, <1>8, <1>9 DEF InsWaits, InsForsaken, InsAlike
<1>13. Ins!ActsOnUrlApp'
  BY <1>0, <1>7, <1>8, <1>9, InsActsForsaken
<1> QED
  BY <1>10, <1>11, <1>12, <1>13 DEF InsInv

\* What a page adds to the calls for the application of its URL.
LEMMA InsAdds ==
  ASSUME InsInv, NEW x, calls' = calls \cup {x}, x \in InsRequests \cup InsOperations, InsOpen,
         x.kind # "list", ~past.late => x.app = ui.app,
         x.kind \in {"delete", "rollback"} => ui.page = "view", x.kind = "update" => ui.page = "upgrade",
         ui' \in InsUi, ui'.page = ui.page, ui'.app = ui.app, ui'.form = ui.form,
         past' = Ins!Count, store' \in InsStore,
         store'.packages.selected = store.packages.selected, store'.list = store.list,
         store'.selected \in {store.selected, None},
         store'.selected = store.selected \/ (x.kind = "app" /\ x.app = ui.app),
         store'.isFetching => store.isFetching \/ x.kind \in {"app", "delete", "rollback"},
         store'.packages.isFetching => store.packages.isFetching \/ x.kind = "detail",
         x.kind \in {"delete", "rollback", "update"} /\ ~x.late =>
            /\ x.app = x.asked
            /\ x.kind = "update" => x.version.app = x.asked
  PROVE  InsInv'
<1>0. InsTyped /\ InsOwn /\ InsWaits /\ InsSelected /\ InsForm /\ Ins!ActsOnUrlApp
  BY DEF InsInv
<1>1. past' \in InsPast /\ past'.late = past.late /\ past'.left = past.left
      /\ past'.failed = past.failed /\ past'.early = past.early
  BY <1>0, InsCount
<1>2. InsTyped'
  BY <1>0, <1>1 DEF InsTyped, InsOpen
<1>3. InsOwn'
  BY <1>0, <1>1 DEF InsOwn, InsOpen
<1>4. InsWaits'
  BY <1>0 DEF InsWaits
<1>5. InsSelected'
  BY <1>0, <1>1 DEF InsSelected, InsOpen
<1>6. InsListed'
  BY DEF InsListed, InsOpen
<1>7. InsForm'
  BY <1>0, <1>1 DEF InsForm
<1>8. Ins!ActsOnUrlApp'
  BY <1>0 DEF Ins!ActsOnUrlApp
<1> QED
  BY <1>2, <1>3, <1>4, <1>5, <1>6, <1>7, <1>8 DEF InsInv

LEMMA InsRetries == ASSUME Ins!ConstantsAssumption, InsInv, Ins!forceRetry PROVE InsInv'
<1>0. InsTyped
  BY DEF InsInv
<1>1. ui.page = "view" /\ past' = Ins!Count /\ ui' = ui /\ InsOpen
      /\ store' = Ins!requestInstalledPackage([store EXCEPT !.error = Ins!NoError])
  BY DEF Ins!forceRetry, InsOpen
<1>2. PICK i \in Nat : Ins!Request("app", ui.app, None)
         = {[kind |-> "app", app |-> ui.app, version |-> None, mine |-> TRUE, id |-> i]}
  BY InsAsked
<1> DEFINE x == [kind |-> "app", app |-> ui.app, version |-> None, mine |-> TRUE, id |-> i]
<1>3. calls' = calls \cup {x}
  BY <1>2 DEF Ins!forceRetry
<1>4. x \in InsRequests /\ x.kind = "app" /\ x.app = ui.app
  BY <1>0, <1>1, <1>2 DEF InsTyped, InsRequests, InsRequest
<1>5. /\ store' \in InsStore /\ store'.packages = store.packages /\ store'.list = store.list
      /\ store'.selected = None
  BY <1>0, <1>1 DEF InsTyped, InsStore, Ins!requestInstalledPackage, Ins!NoError, Ins!Errors
<1> HIDE DEF x
<1>6. ui' \in InsUi
  BY <1>0, <1>1 DEF InsTyped
<1> QED
  BY <1>1, <1>3, <1>4, <1>5, <1>6, InsAdds

\* "Roll back" and "Delete", for the application that is shown.
LEMMA InsOperates ==
  ASSUME Ins!ConstantsAssumption, InsInv, NEW k \in {"rollback", "delete"}, Ins!AppShown,
         store' = [store EXCEPT !.isFetching = TRUE], calls' = calls \cup Ins!Operation(k, None),
         past' = Ins!Count, UNCHANGED ui
  PROVE  InsInv'
<1>0. InsTyped /\ InsSelected
  BY DEF InsInv
<1>1. ui.page = "view" /\ InsOpen /\ store.selected \in Apps /\ ui.app \in Apps
  BY <1>0 DEF InsTyped, InsStore, Ins!AppShown, InsOpen
<1>2. ~past.late => store.selected = ui.app
  BY <1>0, <1>1 DEF InsSelected, Ins!ConstantsAssumption
<1> DEFINE x == [kind |-> k, app |-> store.selected, version |-> None, mine |-> TRUE, id |-> 1,
                 asked |-> ui.app, late |-> past.late]
<1>3. calls' = calls \cup {x}
  BY DEF Ins!Operation
<1>4. x \in InsOperations
  <2>1. past.late \in BOOLEAN
    BY <1>0 DEF InsTyped, InsPast
  <2> QED
    BY <1>1, <2>1 DEF InsOperations, InsOperation
<1>5. x.kind = k /\ x.app = store.selected /\ x.late = past.late /\ x.asked = ui.app
  OBVIOUS
<1> HIDE DEF x
<1>6. /\ store' \in InsStore /\ store'.packages = store.packages /\ store'.list = store.list
      /\ store'.selected = store.selected
  BY <1>0 DEF InsTyped, InsStore
<1>7. ui' \in InsUi
  BY <1>0 DEF InsTyped
<1> QED
  BY <1>1, <1>2, <1>3, <1>4, <1>5, <1>6, <1>7, InsAdds

\* The form is only there while AppUpgrade shows an application.
LEMMA InsFormShown ==
  ASSUME Ins!ConstantsAssumption, InsInv, Ins!Move, Ins!FormShown
  PROVE  /\ ui.page = "upgrade" /\ InsOpen /\ ui.app \in Apps /\ store.selected \in Apps
         /\ ~past.late => store.selected = ui.app /\ store.packages.selected.detail.app = ui.app
         /\ store.packages.selected.detail \in InsDetails
<1>0. InsTyped /\ InsSelected /\ InsForm
  BY DEF InsInv
<1>1. ui.form /\ ui.page = "upgrade" /\ InsOpen /\ ui.app \in Apps
  BY <1>0 DEF Ins!FormShown, InsTyped, InsOpen
<1>2. store.selected \in Apps
  BY <1>0, <1>1 DEF Ins!Move, Ins!RenderDue, Ins!FormMounted, InsTyped, InsStore, InsUi
<1>3. ~past.late => store.selected = ui.app
  BY <1>0, <1>1, <1>2 DEF InsSelected, Ins!ConstantsAssumption
<1>4. store.packages.selected.detail \in InsDetails
  BY <1>0 DEF Ins!FormShown, InsTyped, InsStore, InsSlices, Slices, Selections
<1>5. ~past.late => store.packages.selected.detail.app = ui.app
  BY <1>0, <1>1 DEF Ins!FormShown, InsForm
<1> QED
  BY <1>1, <1>2, <1>3, <1>4, <1>5

LEMMA InsSelectVersion ==
  ASSUME Ins!ConstantsAssumption, InsInv, NEW v \in AppVersions, Ins!selectVersion(v) PROVE InsInv'
<1>0. InsTyped
  BY DEF InsInv
<1> DEFINE p == P!requestSelectedAvailablePackageDetail(store.packages)
<1>1. past' = Ins!Count /\ ui' = ui /\ Ins!Move /\ Ins!FormShown /\ store' = [store EXCEPT !.packages = p]
  BY InsReducers DEF Ins!selectVersion
<1>2. /\ ui.page = "upgrade" /\ InsOpen /\ store.selected \in Apps
      /\ ~past.late => store.selected = ui.app
  BY <1>1, InsFormShown
<1>3. PICK i \in Nat : Ins!Request("detail", store.selected, v)
         = {[kind |-> "detail", app |-> store.selected, version |-> v, mine |-> TRUE, id |-> i]}
  BY InsAsked
<1> DEFINE x == [kind |-> "detail", app |-> store.selected, version |-> v, mine |-> TRUE, id |-> i]
<1>4. calls' = calls \cup {x}
  BY <1>3 DEF Ins!selectVersion
<1>5. x \in InsRequests /\ x.kind = "detail" /\ x.app = store.selected
  BY <1>2, <1>3 DEF InsRequests, InsRequest
<1> HIDE DEF x
<1>6. p \in InsSlices /\ p.selected = store.packages.selected
  BY <1>0, InsSlice DEF InsTyped, InsStore
<1> HIDE DEF p
<1>7. /\ store' \in InsStore /\ store'.packages = p /\ store'.list = store.list
      /\ store'.selected = store.selected /\ store'.isFetching = store.isFetching
  BY <1>0, <1>1, <1>6 DEF InsTyped, InsStore
<1>8. ui' \in InsUi
  BY <1>0, <1>1 DEF InsTyped
<1> QED
  BY <1>1, <1>2, <1>4, <1>5, <1>6, <1>7, <1>8, InsAdds

LEMMA InsDeploys == ASSUME Ins!ConstantsAssumption, InsInv, Ins!handleDeploy PROVE InsInv'
<1>0. InsTyped
  BY DEF InsInv
<1>1. past' = Ins!Count /\ ui' = [ui EXCEPT !.deploying = TRUE] /\ store' = store
      /\ Ins!Move /\ Ins!FormShown
  BY DEF Ins!handleDeploy
<1> DEFINE d == store.packages.selected.detail
<1>2. /\ ui.page = "upgrade" /\ InsOpen /\ ui.app \in Apps /\ store.selected \in Apps
      /\ ~past.late => store.selected = ui.app /\ d.app = ui.app
      /\ d \in InsDetails
  BY <1>1, InsFormShown
<1> HIDE DEF d
<1> DEFINE x == [kind |-> "update", app |-> store.selected, version |-> d, mine |-> TRUE, id |-> 1,
                 asked |-> ui.app, late |-> past.late]
<1>3. calls' = calls \cup {x}
  BY DEF Ins!handleDeploy, Ins!Operation, d
<1>4. x \in InsOperations
  <2>1. past.late \in BOOLEAN
    BY <1>0 DEF InsTyped, InsPast
  <2> QED
    BY <1>2, <2>1 DEF InsOperations, InsOperation
<1>5. x.kind = "update" /\ x.app = store.selected /\ x.late = past.late /\ x.asked = ui.app /\ x.version = d
  OBVIOUS
<1> HIDE DEF x
<1>6. ui' \in InsUi /\ ui'.page = ui.page /\ ui'.app = ui.app /\ ui'.form = ui.form
  BY <1>0, <1>1 DEF InsTyped, InsUi
<1>7. store' \in InsStore
  BY <1>0, <1>1 DEF InsTyped
<1> QED
  BY <1>1, <1>2, <1>3, <1>4, <1>5, <1>6, <1>7, InsAdds

LEMMA InsOpens ==
  ASSUME Ins!ConstantsAssumption, InsInv
  PROVE  /\ Ins!Open("list", None) => InsInv'
         /\ \A a \in Apps : Ins!Open("view", a) => InsInv'
<1>0. InsTyped /\ InsWaits
  BY DEF InsInv
<1>1. ASSUME Ins!Open("list", None) PROVE InsInv'
  <2> DEFINE p == Ins!Count
  <2>1. Ins!Visit("list", None, store, calls, p) /\ ui.page # "list"
    BY <1>0, <1>1 DEF Ins!Open, InsTyped, InsOpen
  <2>2. p \in InsPast /\ p.late = past.late /\ store \in InsStore
    BY <1>0, InsCount DEF InsTyped
  <2> HIDE DEF p
  <2> QED
    BY <1>0, <2>1, <2>2, InsVisitsList DEF InsWaits
<1>2. ASSUME NEW a \in Apps, Ins!Open("view", a) PROVE InsInv'
  <2> DEFINE p == Ins!Count
  <2>1. Ins!Visit("view", a, store, calls, p) /\ ~(ui.page = "view" /\ ui.app = a)
    BY <1>2 DEF Ins!Open
  <2>2. p \in InsPast /\ p.late = past.late
    BY <1>0, InsCount
  <2> HIDE DEF p
  <2> QED
    BY <1>0, <2>1, <2>2, InsVisitsView DEF InsWaits
<1> QED
  BY <1>1, <1>2

LEMMA InsUpgrades ==
  ASSUME Ins!ConstantsAssumption, InsInv, NEW a \in Apps, NEW v \in AppVersions \cup {None},
         Ins!OpenUpgrade(a, v)
  PROVE  InsInv'
<1>0. InsTyped /\ InsWaits /\ InsSelected /\ Ins!ActsOnUrlApp
  BY DEF InsInv
<1> DEFINE b == Ins!Populates(store)
           s == IF b THEN Ins!Populate(store, v) ELSE store
           p == P!resetSelectedAvailablePackageDetail(s.packages)
           B == IF b THEN Ins!PopulateCalls(store, v) ELSE {}
           g(c) == [c EXCEPT !.mine = store.selected = a]
           C == {g(c) : c \in B}
           F == Ins!Forsake(calls)
           n == Ins!Count
<1>1. b => store.selected \in Apps
  BY <1>0 DEF Ins!Populates, Ins!FormMounted, InsTyped, InsStore
<1>2. ui' = [Ins!Mount("upgrade", a, store) EXCEPT !.version = v]
  BY DEF Ins!OpenUpgrade
<1>3. ui' \in InsUi /\ ui'.page = "upgrade" /\ ui'.app = a /\ ~ui'.form
  BY <1>2 DEF Ins!Mount, InsUi
<1>4. store' = [Ins!requestInstalledPackage(s) EXCEPT !.packages = P!resetSelectedAvailablePackageDetail(@)]
  BY InsReducers DEF Ins!OpenUpgrade
<1>5. /\ s \in InsStore /\ s.list = store.list
      /\ C \subseteq InsRequests
      /\ \A c \in C : c.kind \in {"versions", "detail"} /\ (c.mine => c.app = a)
      /\ ~b => s = store /\ C = {}
      /\ b => \E c \in C : c.kind = "versions"
  <2>1. CASE b
    <3>1. /\ s \in InsStore /\ s.list = store.list /\ B \subseteq InsRequests
          /\ \A c \in B : c.kind \in {"versions", "detail"} /\ c.app = store.selected
          /\ \E c \in B : c.kind = "versions"
      BY <1>0, <1>1, <2>1, InsPopulates
    <3> HIDE DEF B, s
    <3>2. \A c \in InsRequests : /\ g(c) \in InsRequests /\ g(c).kind = c.kind /\ g(c).app = c.app
                                /\ g(c).mine = (store.selected = a)
      BY DEF InsRequests, InsRequest
    <3> HIDE DEF g
    <3> QED
      BY <2>1, <3>1, <3>2
  <2>2. CASE ~b
    BY <1>0, <2>2 DEF InsTyped
  <2> QED
    BY <2>1, <2>2
<1>6. past' = [n EXCEPT !.late = FALSE, !.early = FALSE, !.failed = FALSE, !.left = FALSE,
                        !.blocks = IF b THEN 1 ELSE 0]
  BY DEF Ins!OpenUpgrade
<1>7. calls' = F \cup Ins!Request("app", a, None) \cup C
  BY DEF Ins!OpenUpgrade
<1>8. n \in InsPast
  BY <1>0, InsCount
<1>9. InsForsaken(calls, F)
  BY <1>0, InsForsakes DEF InsTyped
<1> HIDE DEF s, B, C, g, F, n
<1>10. past' \in InsPast /\ ~past'.late /\ ~past'.early
  <2>1. (IF b THEN 1 ELSE 0) \in 0..2
    OBVIOUS
  <2> QED
    BY <1>6, <1>8, <2>1 DEF InsPast
<1> HIDE DEF b
<1>11. PICK i \in Nat : Ins!Request("app", a, None)
         = {[kind |-> "app", app |-> a, version |-> None, mine |-> TRUE, id |-> i]}
  BY InsAsked
<1> DEFINE x == [kind |-> "app", app |-> a, version |-> None, mine |-> TRUE, id |-> i]
<1>12. calls' = F \cup {x} \cup C
  BY <1>7, <1>11
<1>13. x \in InsRequests /\ x.kind = "app" /\ x.app = a
  BY <1>11 DEF InsRequests, InsRequest
<1> HIDE DEF x
<1>14. p \in InsSlices /\ p.selected.detail = None /\ p.selected.versions = {}
       /\ p.isFetching = s.packages.isFetching
  BY <1>5, InsSlice DEF InsStore
<1>15. store' = [s EXCEPT !.isFetching = TRUE, !.selected = None, !.details = FALSE, !.packages = p]
  BY <1>4, <1>5 DEF Ins!requestInstalledPackage, InsStore
<1> HIDE DEF p
<1>16. store' \in InsStore /\ store'.packages = p /\ store'.selected = None
  BY <1>5, <1>14, <1>15 DEF InsStore
<1>17. InsTyped'
  BY <1>3, <1>5, <1>9, <1>10, <1>12, <1>13, <1>16 DEF InsTyped, InsOpen, InsForsaken
<1>19. InsOwn'
  BY <1>3, <1>5, <1>9, <1>12, <1>13 DEF InsOwn, InsOpen, InsForsaken
<1>20. InsWaits'
  <2>1. p.isFetching => \E c \in F \cup C : c.kind \in {"versions", "detail"}
    <3>1. CASE b
      BY <1>5, <3>1
    <3>2. CASE ~b
      <4>1. store.packages.isFetching => \E c \in F : c.kind \in {"versions", "detail"}
        BY <1>0, <1>9 DEF InsWaits, InsForsaken, InsAlike
      <4> QED
        BY <1>5, <1>14, <3>2, <4>1
    <3> QED
      BY <3>1, <3>2
  <2> QED
    BY <1>12, <1>13, <1>16, <2>1 DEF InsWaits
<1>21. InsSelected'
  BY <1>3, <1>12, <1>13, <1>16 DEF InsSelected
<1>22. InsListed' /\ InsForm'
  BY <1>3, <1>14, <1>16 DEF InsListed, InsForm
<1>23. Ins!ActsOnUrlApp'
  <2>1. \A c \in calls' : c \in F \/ c.kind \notin {"delete", "rollback", "update"}
    BY <1>5, <1>12, <1>13
  <2> QED
    BY <1>0, <1>9, <2>1, InsActsForsaken
<1> QED
  BY <1>17, <1>19, <1>20, <1>21, <1>22, <1>23 DEF InsInv

-----------------------------------------------------------------------------
\* A call that ends takes nothing from the operations that remain.
LEMMA InsEnds ==
  ASSUME InsInv, NEW c \in calls, calls' = calls \ {c}
  PROVE  calls' \subseteq InsRequests \cup InsOperations /\ Ins!ActsOnUrlApp'
BY InsActs DEF InsInv, InsTyped

LEMMA InsListAnswered ==
  ASSUME Ins!ConstantsAssumption, InsInv, NEW c \in calls, Ins!ListAnswered(c) PROVE InsInv'
<1>0. InsTyped /\ InsOwn /\ InsWaits /\ InsSelected /\ InsListed /\ InsForm
  BY DEF InsInv
<1>1. c.kind = "list" /\ calls' = calls \ {c} /\ ui' = ui
      /\ store' = [store EXCEPT !.isFetching = FALSE, !.list = Ins!Listed(c.version)]
      /\ past' = [past EXCEPT !.late = past.late \/ Ins!Late(c)]
  BY DEF Ins!ListAnswered, Ins!Answer
<1>2. Ins!Listed(c.version) \subseteq Apps
  BY <1>0 DEF Ins!Listed, InsTyped, InsPast
<1>3. /\ store' \in InsStore /\ store'.packages = store.packages /\ store'.selected = store.selected
      /\ ~store'.isFetching /\ store'.list = Ins!Listed(c.version)
  BY <1>0, <1>1, <1>2 DEF InsTyped, InsStore
<1>4. past' \in InsPast /\ past'.late = (past.late \/ Ins!Late(c)) /\ past'.left = past.left
      /\ past'.failed = past.failed /\ past'.early = past.early /\ past'.installed = past.installed
  BY <1>0, <1>1 DEF InsTyped, InsPast
<1>5. c.mine \in BOOLEAN /\ c.version \in BOOLEAN
  BY <1>0, <1>1, InsKinds
<1>6. InsTyped'
  BY <1>0, <1>1, <1>3, <1>4, InsEnds DEF InsTyped, InsOpen
<1>7. InsOwn'
  BY <1>0, <1>1, <1>4 DEF InsOwn, InsOpen
<1>8. InsWaits'
  BY <1>0, <1>1, <1>3 DEF InsWaits
<1>9. InsSelected' /\ InsForm'
  BY <1>0, <1>1, <1>3, <1>4 DEF InsSelected, InsForm, InsOpen
<1>10. InsListed'
  <2> SUFFICES ASSUME ui.page = "list", ~past'.late PROVE Ins!Listed(c.version) = Ins!Listed(ui.allNS)'
    BY <1>1, <1>3 DEF InsListed
  <2>1. c.version = ui.allNS
    BY <1>0, <1>1, <1>4, <1>5 DEF InsOwn, Ins!Late
  <2> QED
    BY <1>1, <1>4, <2>1 DEF Ins!Listed
<1> QED
  BY <1>1, <1>6, <1>7, <1>8, <1>9, <1>10, InsEnds DEF InsInv

LEMMA InsAppAnswered ==
  ASSUME Ins!ConstantsAssumption, InsInv, NEW c \in calls, NEW found \in BOOLEAN, Ins!AppAnswered(c, found)
  PROVE  InsInv'
<1>0. InsTyped /\ InsOwn /\ InsWaits /\ InsSelected /\ InsListed /\ InsForm
  BY DEF InsInv
<1> DEFINE s == IF found THEN store ELSE Ins!errorInstalledPackage(store, "FetchWarning")
<1>1. c.kind = "app" /\ calls' = calls \ {c} /\ ui' = ui
      /\ store' = Ins!selectInstalledPackage(s, c.app, found)
      /\ past' = [past EXCEPT !.late = past.late \/ Ins!Late(c),
                              !.errors = IF found THEN past.errors ELSE past.errors + 1]
      /\ (found \/ past.errors < Max.installed.errors)
  BY DEF Ins!AppAnswered, Ins!Answer
<1>2. c.mine \in BOOLEAN /\ c.app \in Apps
  BY <1>0, <1>1, InsKinds
<1>3. s \in InsStore /\ s.packages = store.packages /\ s.list = store.list
  BY <1>0 DEF InsTyped, InsStore, Ins!errorInstalledPackage, Ins!Errors
<1> HIDE DEF s
<1>4. /\ store' \in InsStore /\ store'.packages = store.packages /\ store'.selected = c.app
      /\ ~store'.isFetching /\ store'.list = store.list
  BY <1>1, <1>2, <1>3 DEF InsStore, Ins!selectInstalledPackage
<1>5. past' \in InsPast /\ past'.late = (past.late \/ Ins!Late(c)) /\ past'.left = past.left
      /\ past'.failed = past.failed /\ past'.early = past.early /\ past'.installed = past.installed
  <2> DEFINE e == IF found THEN past.errors ELSE past.errors + 1
             l == past.late \/ Ins!Late(c)
  <2>1. e \in 0..Max.installed.errors
    BY <1>0, <1>1 DEF InsTyped, InsPast, Ins!ConstantsAssumption
  <2>2. l \in BOOLEAN /\ past' = [past EXCEPT !.late = l, !.errors = e]
    BY <1>1
  <2> HIDE DEF e, l
  <2>3. past' \in InsPast /\ past'.late = l /\ past'.left = past.left
        /\ past'.failed = past.failed /\ past'.early = past.early /\ past'.installed = past.installed
    BY <1>0, <2>1, <2>2 DEF InsTyped, InsPast
  <2> QED
    BY <2>3 DEF l
<1>6. InsOpen /\ ~past'.late => c.app = ui.app
  BY <1>0, <1>1, <1>2, <1>5 DEF InsOwn, Ins!Late, InsOpen
<1>7. InsTyped'
  BY <1>0, <1>1, <1>4, <1>5, InsEnds DEF InsTyped, InsOpen
<1>8. InsOwn'
  BY <1>0, <1>1, <1>5 DEF InsOwn, InsOpen
<1>9. InsWaits'
  BY <1>0, <1>1, <1>4 DEF InsWaits
<1>10. InsSelected'
  BY <1>1, <1>4, <1>6 DEF InsSelected, InsOpen
<1>11. InsListed' /\ InsForm'
  BY <1>0, <1>1, <1>4, <1>5 DEF InsListed, InsForm, Ins!Listed
<1> QED
  BY <1>1, <1>7, <1>8, <1>9, <1>10, <1>11, InsEnds DEF InsInv

LEMMA InsRefsAnswered ==
  ASSUME Ins!ConstantsAssumption, InsInv, NEW c \in calls, Ins!RefsAnswered(c) PROVE InsInv'
<1>0. InsTyped /\ InsOwn /\ InsWaits /\ InsSelected /\ InsListed /\ InsForm
  BY DEF InsInv
<1>1. c.kind = "refs" /\ calls' = calls \ {c} /\ UNCHANGED <<store, past>>
      /\ ui' = IF c.mine THEN [ui EXCEPT !.refs = "got"] ELSE ui
  BY DEF Ins!RefsAnswered, Ins!Answer
<1>2. ui' \in InsUi /\ ui'.page = ui.page /\ ui'.app = ui.app /\ ui'.allNS = ui.allNS /\ ui'.form = ui.form
  BY <1>0, <1>1 DEF InsTyped, InsUi
<1>3. InsTyped'
  BY <1>0, <1>1, <1>2, InsEnds DEF InsTyped, InsOpen
<1>4. InsOwn' /\ InsWaits'
  BY <1>0, <1>1, <1>2 DEF InsOwn, InsWaits, InsOpen
<1>5. InsSelected'
  BY <1>0, <1>1, <1>2 DEF InsSelected, InsOpen
<1>6. InsListed' /\ InsForm'
  BY <1>0, <1>1, <1>2 DEF InsListed, InsForm, Ins!Listed
<1> QED
  BY <1>1, <1>3, <1>4, <1>5, <1>6, InsEnds DEF InsInv

LEMMA InsPackageAnswered ==
  ASSUME Ins!ConstantsAssumption, InsInv, NEW c \in calls, Ins!PackageAnswered(c) PROVE InsInv'
<1>0. InsTyped /\ InsOwn /\ InsWaits /\ InsSelected /\ InsListed /\ InsForm
  BY DEF InsInv
<1> DEFINE s == store.packages
           d == Ins!Detail(c.app, c.version)
           p == IF c.kind = "versions" THEN P!receiveSelectedAvailablePackageVersions(s, AppVersions)
                ELSE P!receiveSelectedAvailablePackageDetail(s, d)
           l == past.late \/ Ins!Late(c)
           e == past.early \/ (c.kind = "versions" /\ s.selected.detail = None)
<1>1. c.kind \in {"versions", "detail"} /\ calls' = calls \ {c} /\ UNCHANGED ui
      /\ past' = [past EXCEPT !.late = l, !.early = e]
  BY DEF Ins!PackageAnswered
<1>2. store' = [store EXCEPT !.packages = p]
  BY InsReducers DEF Ins!PackageAnswered
<1>3. c.mine \in BOOLEAN /\ c.app \in Apps /\ (c.kind = "detail" => c.version \in AppVersions)
  BY <1>0, <1>1, InsKinds
<1>4. s \in InsSlices
  BY <1>0 DEF InsTyped, InsStore
<1>5. c.kind = "detail" => d \in InsDetails /\ d.app = c.app /\ d # None
  BY <1>3, InsDetailIs
<1> HIDE DEF s, d
<1>6. /\ p \in InsSlices /\ ~p.isFetching
      /\ c.kind = "versions" => p.selected.detail = s.selected.detail /\ p.selected.versions = AppVersions
      /\ c.kind = "detail" => p.selected.detail = d /\ p.selected.versions = s.selected.versions
  <2>1. CASE c.kind = "versions"
    BY <1>4, <2>1, InsSlice
  <2>2. CASE c.kind = "detail"
    BY <1>4, <1>5, <2>2, InsReceives
  <2> QED
    BY <1>1, <2>1, <2>2
<1> HIDE DEF p
<1>7. /\ store' \in InsStore /\ store'.packages = p /\ store'.selected = store.selected
      /\ store'.isFetching = store.isFetching /\ store'.list = store.list
  BY <1>0, <1>2, <1>6 DEF InsTyped, InsStore
<1>8. past' \in InsPast /\ past'.late = l /\ past'.left = past.left
      /\ past'.failed = past.failed /\ past'.early = e /\ past'.installed = past.installed
  <2>1. l \in BOOLEAN /\ e \in BOOLEAN
    OBVIOUS
  <2> HIDE DEF l, e
  <2> QED
    BY <1>0, <1>1, <2>1 DEF InsTyped, InsPast
<1>9. InsOpen /\ ~past'.late => c.app = ui.app
  BY <1>0, <1>1, <1>3, <1>8 DEF InsOwn, Ins!Late, InsOpen
<1>10. InsTyped'
  BY <1>0, <1>1, <1>7, <1>8, InsEnds DEF InsTyped, InsOpen
<1>11. InsOwn'
  BY <1>0, <1>1, <1>8 DEF InsOwn, InsOpen
<1>12. InsWaits'
  BY <1>0, <1>1, <1>6, <1>7 DEF InsWaits
<1>13. InsSelected' /\ InsListed'
  BY <1>0, <1>1, <1>7, <1>8 DEF InsSelected, InsListed, InsOpen, Ins!Listed
<1>14. InsForm'
  <2> SUFFICES ASSUME ui.page = "upgrade"
      PROVE  /\ ~past'.late => p.selected.detail = None \/ p.selected.detail.app = ui.app
             /\ ~past'.early /\ p.selected.versions # {} => p.selected.detail # None
             /\ ui.form /\ ~past'.failed =>
                   p.selected.versions # {} \/ \E r \in calls' : r.kind = "versions"
    BY <1>1, <1>7 DEF InsForm
  <2>1. CASE c.kind = "versions"
    <3>1. AppVersions # {}
      BY DEF Ins!ConstantsAssumption
    <3> QED
      BY <1>0, <1>6, <1>8, <2>1, <3>1 DEF InsForm, s
  <2>2. CASE c.kind = "detail"
    BY <1>0, <1>1, <1>5, <1>6, <1>8, <1>9, <2>2 DEF InsForm, s, InsOpen
  <2> QED
    BY <1>1, <2>1, <2>2
<1> QED
  BY <1>1, <1>10, <1>11, <1>12, <1>13, <1>14, InsEnds DEF InsInv

LEMMA InsDeleted ==
  ASSUME Ins!ConstantsAssumption, InsInv, NEW c \in calls, Ins!Deleted(c) PROVE InsInv'
<1>0. InsTyped /\ InsOwn /\ InsWaits
  BY DEF InsInv
<1> DEFINE s  == [store EXCEPT !.isFetching = FALSE]
           cs == calls \ {c}
           p  == [past EXCEPT !.installed = past.installed \ {c.app}, !.left = past.left \/ ~c.mine]
<1>1. c.kind = "delete" /\ Ins!Visit("list", None, s, cs, p)
  BY DEF Ins!Deleted, Ins!Answer
<1>2. s \in InsStore /\ s.packages = store.packages
  BY <1>0 DEF InsTyped, InsStore
<1>3. p \in InsPast /\ p.late = past.late /\ (~c.mine => p.left)
  BY <1>0 DEF InsTyped, InsPast
<1>4. ui.page = "list" => ~c.mine
  BY <1>0, <1>1 DEF InsOwn, InsOpen
<1>5. cs \subseteq calls /\ (store.packages.isFetching => \E r \in cs : r.kind \in {"versions", "detail"})
  BY <1>0, <1>1 DEF InsWaits
<1> HIDE DEF s, cs, p
<1> QED
  BY <1>1, <1>2, <1>3, <1>4, <1>5, InsVisitsList

LEMMA InsUpdated ==
  ASSUME Ins!ConstantsAssumption, InsInv, NEW c \in calls, Ins!Updated(c) PROVE InsInv'
<1>0. InsTyped /\ InsOwn /\ InsWaits
  BY DEF InsInv
<1> DEFINE cs == calls \ {c}
           p  == [past EXCEPT !.left = past.left \/ ~c.mine]
<1>1. c.kind = "update" /\ Ins!Visit("view", c.app, store, cs, p)
  BY DEF Ins!Updated, Ins!Answer
<1>2. c.app \in Apps
  BY <1>0, <1>1, InsKinds
<1>3. p \in InsPast /\ p.late = past.late /\ (~c.mine => p.left)
  BY <1>0 DEF InsTyped, InsPast
<1>4. ui.page = "view" => ~c.mine
  BY <1>0, <1>1 DEF InsOwn
<1>5. cs \subseteq calls /\ (store.packages.isFetching => \E r \in cs : r.kind \in {"versions", "detail"})
  BY <1>0, <1>1 DEF InsWaits
<1> HIDE DEF cs, p
<1> QED
  BY <1>1, <1>2, <1>3, <1>4, <1>5, InsVisitsView

LEMMA InsRolledBack ==
  ASSUME Ins!ConstantsAssumption, InsInv, NEW c \in calls, Ins!RolledBack(c) PROVE InsInv'
<1>0. InsTyped /\ InsOwn /\ InsWaits /\ InsSelected /\ InsListed /\ InsForm
  BY DEF InsInv
<1>1. c.kind = "rollback" /\ ui' = ui
      /\ store' = Ins!requestInstalledPackage([store EXCEPT !.isFetching = FALSE])
      /\ calls' = (calls \ {c}) \cup {[r EXCEPT !.mine = c.mine] : r \in Ins!Request("app", c.app, None)}
      /\ past' = [past EXCEPT !.left = past.left \/ ~c.mine]
  BY DEF Ins!RolledBack, Ins!Answer
<1>2. c.mine \in BOOLEAN /\ c.app \in Apps
  BY <1>0, <1>1, InsKinds
<1>3. PICK i \in Nat : Ins!Request("app", c.app, None)
         = {[kind |-> "app", app |-> c.app, version |-> None, mine |-> TRUE, id |-> i]}
  BY InsAsked
<1> DEFINE x == [kind |-> "app", app |-> c.app, version |-> None, mine |-> c.mine, id |-> i]
<1>4. calls' = (calls \ {c}) \cup {x}
  <2> DEFINE r0 == [kind |-> "app", app |-> c.app, version |-> None, mine |-> TRUE, id |-> i]
  <2>1. [r0 EXCEPT !.mine = c.mine] = x
    OBVIOUS
  <2>2. {[r EXCEPT !.mine = c.mine] : r \in {r0}} = {[r0 EXCEPT !.mine = c.mine]}
    OBVIOUS
  <2> QED
    BY <1>1, <1>3, <2>1, <2>2
<1>5. x \in InsRequests /\ x.kind = "app" /\ x.app = c.app /\ x.mine = c.mine
  BY <1>2, <1>3 DEF InsRequests, InsRequest
<1> HIDE DEF x
<1>6. /\ store' \in InsStore /\ store'.packages = store.packages /\ store'.selected = None
      /\ store'.list = store.list
  BY <1>0, <1>1 DEF InsTyped, InsStore, Ins!requestInstalledPackage
<1>7. past' \in InsPast /\ past'.late = past.late /\ past'.left = (past.left \/ ~c.mine)
      /\ past'.failed = past.failed /\ past'.early = past.early /\ past'.installed = past.installed
  BY <1>0, <1>1, <1>2 DEF InsTyped, InsPast
<1>8. InsTyped'
  BY <1>0, <1>1, <1>4, <1>5, <1>6, <1>7 DEF InsTyped, InsOpen
<1>9. InsOwn'
  BY <1>0, <1>1, <1>4, <1>5, <1>7 DEF InsOwn, InsOpen
<1>10. InsWaits'
  BY <1>0, <1>1, <1>4, <1>5, <1>6 DEF InsWaits
<1>11. c.mine /\ ~past.late => c.app = ui.app
  BY <1>0, <1>1 DEF InsOwn
<1>12. InsSelected'
  BY <1>1, <1>2, <1>4, <1>5, <1>6, <1>7, <1>11 DEF InsSelected
<1>13. InsListed'
  BY <1>0, <1>1, <1>4, <1>6, <1>7 DEF InsListed, Ins!Listed
<1>14. InsForm'
  BY <1>0, <1>1, <1>4, <1>6, <1>7 DEF InsForm
<1>15. Ins!ActsOnUrlApp'
  BY <1>4, <1>5, InsActs DEF InsInv
<1> QED
  BY <1>8, <1>9, <1>10, <1>12, <1>13, <1>14, <1>15 DEF InsInv

LEMMA InsCallFails ==
  ASSUME Ins!ConstantsAssumption, InsInv, NEW c \in calls, Ins!CallFails(c) PROVE InsInv'
<1>0. InsTyped /\ InsOwn /\ InsWaits /\ InsSelected /\ InsListed /\ InsForm
  BY DEF InsInv
<1> DEFINE gone == c.kind # "list" /\ c.app \notin past.installed
           e == IF gone THEN past.errors ELSE past.errors + 1
           p == P!createErrorPackage(store.packages)
<1>1. calls' = calls \ {c} /\ past' = [past EXCEPT !.failed = TRUE, !.errors = e]
      /\ (gone \/ past.errors < Max.installed.errors)
  BY DEF Ins!CallFails
<1>2. c.kind \in {"app", "refs", "versions", "detail", "list", "delete", "rollback", "update"}
      /\ c.mine \in BOOLEAN
  BY <1>0, InsKinds
<1>3. past' \in InsPast /\ past'.late = past.late /\ past'.failed /\ past'.early = past.early
  <2>1. e \in 0..Max.installed.errors
    BY <1>0, <1>1 DEF InsTyped, InsPast, Ins!ConstantsAssumption
  <2> HIDE DEF e
  <2> QED
    BY <1>0, <1>1, <2>1 DEF InsTyped, InsPast
<1>4. /\ ui' \in InsUi /\ ui'.page = ui.page /\ ui'.app = ui.app /\ ui'.allNS = ui.allNS
      /\ ui'.form = ui.form
  <2>1. CASE c.kind = "refs"
    BY <1>0, <2>1 DEF Ins!CallFails, InsTyped, InsUi
  <2>2. CASE c.kind = "update"
    <3>1. (ui.deploying /\ ~c.mine) \in BOOLEAN /\ ui' = [ui EXCEPT !.deploying = ui.deploying /\ ~c.mine]
      BY <2>2 DEF Ins!CallFails
    <3> QED
      BY <1>0, <3>1 DEF InsTyped, InsUi
  <2>3. CASE c.kind \notin {"refs", "update"}
    BY <1>0, <2>3 DEF Ins!CallFails, InsTyped
  <2> QED
    BY <2>1, <2>2, <2>3
<1>5. p \in InsSlices /\ ~p.isFetching /\ p.selected.detail = store.packages.selected.detail
      /\ p.selected.versions = store.packages.selected.versions
  BY <1>0, InsSlice DEF InsTyped, InsStore
<1>6. /\ store' \in InsStore /\ store'.selected = store.selected
      /\ store'.packages.selected.detail = store.packages.selected.detail
      /\ store'.packages.selected.versions = store.packages.selected.versions
      /\ store'.isFetching => store.isFetching /\ c.kind \in {"refs", "versions", "detail"}
      /\ store'.packages.isFetching => store.packages.isFetching /\ c.kind \notin {"versions", "detail"}
  <2>1. CASE c.kind = "refs"
    BY <1>0, <2>1 DEF Ins!CallFails, InsTyped
  <2>2. CASE c.kind \in {"versions", "detail"}
    <3>1. store' = [store EXCEPT !.packages = p]
      BY <2>2, InsReducers DEF Ins!CallFails
    <3> HIDE DEF p
    <3> QED
      BY <1>0, <1>5, <2>2, <3>1 DEF InsTyped, InsStore
  <2>3. CASE c.kind \notin {"refs", "versions", "detail"}
    <3>1. Ins!ErrorOf(c) \in Ins!Errors
      BY <1>2 DEF Ins!ErrorOf, Ins!Errors
    <3>2. store' = [store EXCEPT !.isFetching = FALSE, !.error = Ins!ErrorOf(c)]
      BY <2>3 DEF Ins!CallFails, Ins!errorInstalledPackage
    <3> QED
      BY <1>0, <2>3, <3>1, <3>2 DEF InsTyped, InsStore
  <2> QED
    BY <2>1, <2>2, <2>3
<1>7. InsTyped'
  BY <1>0, <1>1, <1>3, <1>4, <1>6, InsEnds DEF InsTyped, InsOpen
<1>8. InsOwn'
  BY <1>0, <1>1, <1>3, <1>4 DEF InsOwn, InsOpen
<1>9. InsWaits'
  BY <1>0, <1>1, <1>6 DEF InsWaits
<1>10. InsSelected' /\ InsListed'
  BY <1>0, <1>3, <1>4, <1>6 DEF InsSelected, InsListed, InsOpen
<1>11. InsForm'
  BY <1>0, <1>3, <1>4, <1>6 DEF InsForm
<1> QED
  BY <1>1, <1>7, <1>8, <1>9, <1>10, <1>11, InsEnds DEF InsInv

LEMMA InsInits == ASSUME Ins!ConstantsAssumption, Ins!Init PROVE InsInv
<1>1. P!initialState \in InsSlices /\ ~P!initialState.isFetching
  <2>1. P!initialState \in Slices({}, InsDetails \cup {None}, AppVersions, InsValues)
    BY SliceInit, InsValuesAre
  <2> QED
    BY <2>1 DEF InsSlices, P!initialState
<1>2. store \in InsStore /\ store.packages = P!initialState /\ ~store.isFetching
  BY <1>1, InsReducers DEF Ins!Init, InsStore, Ins!NoError, Ins!Errors
<1>3. ui \in InsUi /\ ui.page = "other" /\ ui.app = None /\ ~ui.form /\ calls = {}
  BY DEF Ins!Init, InsUi
<1>4. past \in InsPast
  BY DEF Ins!Init, InsPast, Ins!ConstantsAssumption
<1> QED
  BY <1>1, <1>2, <1>3, <1>4 DEF InsInv, InsTyped, InsOwn, InsWaits, InsSelected, InsListed, InsForm, InsOpen,
                              Ins!ActsOnUrlApp

LEMMA InsStutters == ASSUME InsInv, UNCHANGED <<store, ui, calls, past>> PROVE InsInv'
BY DEF InsInv, InsTyped, InsOwn, InsWaits, InsSelected, InsListed, InsForm, InsOpen, Ins!ActsOnUrlApp, Ins!Listed

LEMMA InsSteps == ASSUME Ins!ConstantsAssumption, InsInv, Ins!Next PROVE InsInv'
<1>1. CASE Ins!User
  <2>1. CASE Ins!handleRollback
    BY <2>1, InsOperates DEF Ins!handleRollback, Ins!Enabled
  <2>2. CASE Ins!handleDeleteClick
    BY <2>2, InsOperates DEF Ins!handleDeleteClick
  <2>3. CASE \E a \in Apps : Ins!Open("view", a)
    BY <2>3, InsOpens
  <2>4. CASE \E v \in AppVersions : Ins!selectVersion(v)
    BY <2>4, InsSelectVersion
  <2>5. CASE \E a \in Apps, v \in AppVersions \cup {None} : Ins!OpenUpgrade(a, v)
    BY <2>5, InsUpgrades
  <2>6. CASE Ins!Open("list", None)
    BY <2>6, InsOpens
  <2> QED
    BY <1>1, <2>1, <2>2, <2>3, <2>4, <2>5, <2>6, InsOpenOther, InsToggles, InsRetries, InsDeploys DEF Ins!User
<1>2. ASSUME NEW c \in calls, Ins!Answers(c) PROVE InsInv'
  BY <1>2, InsListAnswered, InsRefsAnswered, InsPackageAnswered, InsDeleted, InsUpdated, InsRolledBack,
     InsAppAnswered DEF Ins!Answers
<1>3. ASSUME NEW c \in calls, Ins!CallFails(c) PROVE InsInv'
  BY <1>3, InsCallFails
<1> QED
  BY <1>1, <1>2, <1>3, InsRenders DEF Ins!Next

LEMMA InsProperties ==
  ASSUME Ins!ConstantsAssumption, InsInv
  PROVE  Ins!TypeOK /\ Ins!ActsOnUrlApp /\ Ins!PageSettles /\ Ins!ListIsCurrent
<1>0. InsTyped /\ InsWaits /\ InsSelected /\ InsListed /\ InsForm
  BY DEF InsInv
<1>1. Ins!TypeOK
  BY <1>0 DEF Ins!TypeOK, InsTyped, InsStore, InsUi, InsPast, Ins!ConstantsAssumption
<1>2. Ins!ListIsCurrent
  BY <1>0 DEF Ins!ListIsCurrent, Ins!Settled, InsListed
<1>3. Ins!Settled /\ ui.page = "view" => ~store.isFetching /\ store.selected = ui.app
  BY <1>0 DEF Ins!Settled, InsWaits, InsSelected, InsOpen
<1>4. ASSUME Ins!Settled, ui.page = "upgrade", ~past.early, ~ui.deploying, store.error # "FetchError", store.details
      PROVE  Ins!FormShown
  <2>1. ~store.isFetching /\ ~store.packages.isFetching /\ store.selected = ui.app
    BY <1>0, <1>4 DEF Ins!Settled, InsWaits, InsSelected, InsOpen
  <2>2. store.selected # None
    BY <1>0, <1>4, <2>1 DEF InsTyped, InsOpen, Ins!ConstantsAssumption
  <2>3. Ins!FormMounted(store)
    BY <1>4, <2>1, <2>2 DEF Ins!FormMounted
  <2>4. ui.form
    <3>1. ui.form = Ins!FormMounted(store)
      BY <1>4 DEF Ins!Settled, Ins!RenderDue
    <3> QED
      BY <2>3, <3>1
  <2>5. store.packages.selected.versions # {}
    BY <1>0, <1>4, <2>4 DEF Ins!Settled, InsForm
  <2>6. store.packages.selected.detail # None
    BY <1>0, <1>4, <2>5 DEF InsForm
  <2> QED
    BY <1>4, <2>4, <2>5, <2>6 DEF Ins!FormShown
<1>5. Ins!PageSettles
  BY <1>3, <1>4 DEF Ins!PageSettles
<1> QED
  BY <1>1, <1>2, <1>5 DEF InsInv

-----------------------------------------------------------------------------
(* The form of values: the invariant is ValsInv. *)

ValsParams == Vals!Params
ValsTypes  == Values \cup Seq(Values)
\* What a values file can say.
ValsOf(f)  == {f[p] : p \in ValsParams}
ValsGiven  == (UNION {ValsOf(Defaults[v]) : v \in FormVersions}) \cup ValsOf(Applied) \cup {Unset}
ValsData   == ValsTypes \cup ValsGiven
ValsFiles  == [ValsParams -> ValsData]
ValsEdits  == [ValsParams -> ValsTypes \cup {None}]
ValsStore  == [version : FormVersions, sent : ValsFiles \cup {None}]
ValsUi     == [event : {"install", "upgrade"}, page : {"form", "deploying"}, tab : {"visual", "yaml"},
               values : ValsFiles, nodes : ValsFiles, valuesModified : BOOLEAN, unsaved : ValsEdits,
               items : Seq(Values)]
ValsPast   == [moves : Nat, wanted : [ValsParams -> ValsData \cup {None}], spoiled : SUBSET ValsParams,
               base : FormVersions]

ValsTyped == store \in ValsStore /\ ui \in ValsUi /\ calls \in ValsEdits /\ past \in ValsPast

\* The table shows the values, unless the package has none.
ValsNodes == Vals!Fresh => ui.nodes = ui.values

\* A switch has no debounce.
ValsWaits == \A p \in ValsParams : calls[p] # None => p \notin Immediate

\* In the YAML editor nothing waits that a save did not cut short.
ValsTab == ui.tab = "yaml" => Vals!InDebounce \cup Vals!Unsaved \subseteq past.spoiled

\* What is sent was saved.
ValsSent ==
    /\ ui.page = "deploying" => ui.unsaved = Vals!NoChanges /\ Vals!InDebounce \subseteq past.spoiled
    /\ Vals!Sent => ui.page = "deploying" /\ store.sent = ui.values

\* Edits of a form that was not modified yet wait, or are unsaved.
ValsUnmarked ==
    ui.event = "install" /\ ~ui.valuesModified =>
        \A p \in ValsParams \ past.spoiled :
            past.wanted[p] = IF calls[p] # None THEN calls[p] ELSE ui.unsaved[p]

\* An edit is found where the form has it latest; the rest is that of the version.
ValsLatest(p) == CASE calls[p] # None -> calls[p]
                   [] calls[p] = None /\ ui.unsaved[p] # None -> ui.unsaved[p]
                   [] OTHER -> ui.values[p]
ValsKept(p) == IF past.wanted[p] # None THEN ValsLatest(p) = past.wanted[p]
               ELSE /\ calls[p] = None /\ ui.unsaved[p] = None
                    /\ ui.values[p] = Vals!FreshValues(ui.event, past.base)[p]
ValsKeeps == Vals!Fresh => \A p \in ValsParams \ past.spoiled : ValsKept(p)

ValsInv == ValsTyped /\ ValsNodes /\ ValsWaits /\ ValsTab /\ ValsSent /\ ValsUnmarked /\ ValsKeeps

LEMMA ValsGivenIs ==
  ASSUME NEW x
  PROVE  x \in ValsGiven <=>
            (\E v \in FormVersions : x \in ValsOf(Defaults[v])) \/ x \in ValsOf(Applied) \/ x = Unset
<1> DEFINE D == {ValsOf(Defaults[v]) : v \in FormVersions}
<1>1. ValsGiven = (UNION D) \cup ValsOf(Applied) \cup {Unset}
  BY DEF ValsGiven
<1>2. \A d : d \in D <=> \E v \in FormVersions : d = ValsOf(Defaults[v])
  OBVIOUS
<1> HIDE DEF D
<1>3. x \in UNION D <=> \E d : d \in D /\ x \in d
  OBVIOUS
<1>4. (\E d : d \in D /\ x \in d) <=> \E v \in FormVersions : x \in ValsOf(Defaults[v])
  BY <1>2
<1> QED
  BY <1>1, <1>3, <1>4

LEMMA ValsConstants ==
  ASSUME Vals!ConstantsAssumption
  PROVE  /\ None \notin ValsData /\ None \notin ValsTypes /\ Unset \notin ValsTypes /\ Deployed \in FormVersions
         /\ \A v \in FormVersions : Defaults[v] \in ValsFiles
         /\ Applied \in ValsFiles /\ Vals!Empty \in ValsFiles /\ Vals!NoChanges \in ValsEdits
         /\ ValsTypes \subseteq ValsData /\ ValsParams = Debounced \cup Immediate \cup {ArrayParam}
         /\ Debounced \cap Immediate = {} /\ ArrayParam \notin Immediate
<1>1. /\ Debounced \cap Immediate = {} /\ ArrayParam \notin Debounced \cup Immediate
      /\ {None, Unset} \cap (Values \cup Seq(Values)) = {} /\ None # Unset
      /\ Deployed \in FormVersions
      /\ \A values \in {Defaults[v] : v \in FormVersions} \cup {Applied} :
          values = [p \in ValsParams |-> values[p]] /\ \A p \in ValsParams : values[p] # None
  BY DEF Vals!ConstantsAssumption, ValsParams
<1>2. None \notin ValsTypes /\ Unset \notin ValsTypes /\ ValsTypes \subseteq ValsData
  BY <1>1 DEF ValsTypes, ValsData
<1>3. ASSUME NEW v \in FormVersions
      PROVE  /\ Defaults[v] = [p \in ValsParams |-> Defaults[v][p]]
             /\ \A p \in ValsParams : Defaults[v][p] # None /\ Defaults[v][p] \in ValsData
  <2>1. Defaults[v] \in {Defaults[w] : w \in FormVersions} \cup {Applied}
    OBVIOUS
  <2>2. \A p \in ValsParams : Defaults[v][p] \in ValsData
    <3>1. SUFFICES ASSUME NEW p \in ValsParams PROVE Defaults[v][p] \in ValsGiven
      BY DEF ValsData
    <3>2. Defaults[v][p] \in ValsOf(Defaults[v])
      BY DEF ValsOf
    <3> QED
      BY <3>2, ValsGivenIs
  <2> QED
    BY <1>1, <2>1, <2>2
<1>4. /\ Applied = [p \in ValsParams |-> Applied[p]]
      /\ \A p \in ValsParams : Applied[p] # None /\ Applied[p] \in ValsData
  <2>1. Applied \in {Defaults[w] : w \in FormVersions} \cup {Applied}
    OBVIOUS
  <2>2. \A p \in ValsParams : Applied[p] \in ValsData
    <3>1. \A p \in ValsParams : Applied[p] \in ValsOf(Applied)
      BY DEF ValsOf
    <3> QED
      BY <3>1, ValsGivenIs DEF ValsData
  <2> QED
    BY <1>1, <2>1, <2>2
<1>5. \A v \in FormVersions : Defaults[v] \in ValsFiles
  <2> SUFFICES ASSUME NEW v \in FormVersions PROVE Defaults[v] \in ValsFiles
    OBVIOUS
  <2> QED
    BY <1>3 DEF ValsFiles
<1>6. Applied \in ValsFiles
  BY <1>4 DEF ValsFiles
<1>7. Vals!Empty \in ValsFiles
  <2>1. Unset \in ValsData
    BY ValsGivenIs DEF ValsData
  <2>2. Vals!Empty = [p \in ValsParams |-> Unset]
    BY DEF Vals!Empty, ValsParams
  <2> QED
    BY <2>1, <2>2 DEF ValsFiles
<1>8. Vals!NoChanges \in ValsEdits
  BY DEF Vals!NoChanges, ValsEdits, ValsParams
<1>9. None \notin ValsData
  <2> SUFFICES ASSUME None \in ValsGiven PROVE FALSE
    BY <1>2 DEF ValsData
  <2>1. CASE None \in ValsOf(Applied)
    BY <1>4, <2>1 DEF ValsOf
  <2>2. CASE \E v \in FormVersions : None \in ValsOf(Defaults[v])
    BY <1>3, <2>2 DEF ValsOf
  <2> QED
    BY <1>1, <2>1, <2>2, ValsGivenIs
<1> QED
  BY <1>1, <1>2, <1>5, <1>6, <1>7, <1>8, <1>9 DEF ValsParams, Vals!Params

LEMMA ValsFreshValues ==
  ASSUME Vals!ConstantsAssumption, NEW v \in FormVersions, NEW event \in {"install", "upgrade"}
  PROVE  Vals!FreshValues(event, v) \in ValsFiles /\ Vals!FreshValues("install", v) = Defaults[v]
<1>1. Vals!FreshValues("install", v) = Defaults[v]
  BY DEF Vals!FreshValues
<1>2. Vals!FreshValues("upgrade", v) \in ValsFiles
  <2>1. CASE Defaults[v] # Vals!Empty
    <3>1. Vals!FreshValues("upgrade", v) = Vals!applyModifications(Vals!Modifications, Defaults[v])
      BY <2>1 DEF Vals!FreshValues
    <3> DEFINE M == Vals!Modifications
    <3>2. Vals!applyModifications(M, Defaults[v])
             = [p \in ValsParams |-> IF p \in M THEN Applied[p] ELSE Defaults[v][p]]
      BY DEF Vals!applyModifications, ValsParams
    <3> HIDE DEF M
    <3> QED
      BY <3>1, <3>2, ValsConstants DEF ValsFiles, M
  <2>2. CASE Defaults[v] = Vals!Empty
    BY <2>2, ValsConstants DEF Vals!FreshValues
  <2> QED
    BY <2>1, <2>2
<1> QED
  BY <1>1, <1>2, ValsConstants

-----------------------------------------------------------------------------
\* What the parts of the form do to it.
LEMMA ValsSets ==
  ASSUME NEW u \in ValsUi, NEW f \in ValsFiles
  PROVE  LET t == Vals!SetValues(u, f)
         IN /\ t \in ValsUi /\ t.event = u.event /\ t.page = u.page /\ t.tab = u.tab
            /\ t.valuesModified = u.valuesModified /\ t.unsaved = u.unsaved /\ t.items = u.items
            /\ t.values = f /\ (f # Vals!Empty => t.nodes = f)
BY DEF Vals!SetValues, ValsUi

LEMMA ValsRenders ==
  ASSUME NEW u \in ValsUi
  PROVE  LET t == Vals!Rendered(u)
         IN /\ t \in ValsUi /\ t.event = u.event /\ t.page = u.page /\ t.tab = u.tab
            /\ t.valuesModified = u.valuesModified /\ t.unsaved = u.unsaved
            /\ t.values = u.values /\ t.nodes = u.nodes
BY EmptySeq DEF Vals!Rendered, ValsUi

\* What a save leaves of the form: all in its values.
ValsSavedAs(u, t) ==
    /\ t \in ValsUi /\ t.event = u.event /\ t.unsaved = Vals!NoChanges
    /\ ~t.valuesModified => ~u.valuesModified /\ u.unsaved = Vals!NoChanges
    /\ u.nodes = u.values =>
          /\ t.nodes = t.values
          /\ \A p \in ValsParams : t.values[p] = IF u.unsaved[p] # None THEN u.unsaved[p] ELSE u.values[p]

LEMMA ValsSaves ==
  ASSUME Vals!ConstantsAssumption, NEW u \in ValsUi
  PROVE  LET t == Vals!saveAllChanges(u)
         IN ValsSavedAs(u, t) /\ t.page = u.page /\ t.tab = u.tab
<1> DEFINE b == u.unsaved # Vals!NoChanges
           w == Vals!saveUnmarked(u)
           t == Vals!saveAllChanges(u)
<1>1. t = [w EXCEPT !.valuesModified = w.valuesModified \/ b]
  BY DEF Vals!saveAllChanges
<1>2. CASE ~b
  <2>1. w = u
    BY <1>2 DEF Vals!saveUnmarked
  <2>2. t \in ValsUi /\ t = [u EXCEPT !.valuesModified = u.valuesModified \/ b]
    BY <1>1, <2>1, ZenonT(120) DEF ValsUi
  <2>3. /\ t.event = u.event /\ t.page = u.page /\ t.tab = u.tab /\ t.unsaved = u.unsaved
        /\ t.values = u.values /\ t.nodes = u.nodes /\ t.valuesModified = (u.valuesModified \/ b)
    BY <2>2 DEF ValsUi
  <2>4. \A p \in ValsParams : u.unsaved[p] = None
    BY <1>2 DEF Vals!NoChanges, ValsParams
  <2> HIDE DEF t, w
  <2> QED
    BY <1>2, <2>2, <2>3, <2>4 DEF ValsSavedAs, t
<1>3. CASE b
  <2> DEFINE f == [p \in ValsParams |-> IF u.unsaved[p] # None THEN u.unsaved[p] ELSE u.nodes[p]]
             s == Vals!SetValues(u, f)
             x == [s EXCEPT !.unsaved = Vals!NoChanges]
  <2>1. f \in ValsFiles
    BY ValsConstants DEF ValsUi, ValsFiles, ValsEdits
  <2>2. f # Vals!Empty
    <3>1. PICK p \in ValsParams : u.unsaved[p] # None
      <4>1. u.unsaved = [p \in ValsParams |-> u.unsaved[p]]
        BY DEF ValsUi, ValsEdits
      <4> QED
        BY <1>3, <4>1 DEF Vals!NoChanges, ValsParams
    <3>2. u.unsaved[p] \in ValsTypes
      BY <3>1 DEF ValsUi, ValsEdits
    <3>3. f[p] # Unset
      BY <3>1, <3>2, ValsConstants
    <3> QED
      BY <3>3 DEF Vals!Empty, ValsParams
  <2>3. w = Vals!Rendered(x)
    BY <1>3 DEF Vals!saveUnmarked, ValsParams
  <2>4. \A p \in ValsParams : f[p] = IF u.unsaved[p] # None THEN u.unsaved[p] ELSE u.nodes[p]
    OBVIOUS
  <2> HIDE DEF f
  <2>5. s \in ValsUi /\ s.event = u.event /\ s.page = u.page /\ s.tab = u.tab /\ s.values = f /\ s.nodes = f
    BY <2>1, <2>2, ValsSets
  <2> HIDE DEF s
  <2>6. /\ x \in ValsUi /\ x.event = u.event /\ x.page = u.page /\ x.tab = u.tab /\ x.values = f /\ x.nodes = f
        /\ x.unsaved = Vals!NoChanges
    BY <2>5, ValsConstants DEF ValsUi
  <2> HIDE DEF x
  <2>7. /\ w \in ValsUi /\ w.event = u.event /\ w.page = u.page /\ w.tab = u.tab /\ w.values = f /\ w.nodes = f
        /\ w.unsaved = Vals!NoChanges
    BY <2>3, <2>6, ValsRenders
  <2> HIDE DEF w
  <2>8. /\ t \in ValsUi /\ t.event = u.event /\ t.page = u.page /\ t.tab = u.tab /\ t.values = f /\ t.nodes = f
        /\ t.unsaved = Vals!NoChanges /\ t.valuesModified
    BY <1>1, <1>3, <2>7, ZenonT(60) DEF ValsUi
  <2> QED
    BY <2>4, <2>8 DEF ValsSavedAs, t
<1> QED
  BY <1>2, <1>3

LEMMA ValsBodies ==
  ASSUME Vals!ConstantsAssumption, NEW u, u.event \in {"install", "upgrade"}, NEW f \in ValsFiles
  PROVE  LET t == Vals!NewBody(u, f)
         IN /\ t \in ValsUi /\ t.event = u.event /\ t.page = "form" /\ t.tab = "visual"
            /\ t.values = f /\ t.nodes = f /\ ~t.valuesModified /\ t.unsaved = Vals!NoChanges
BY ValsConstants, EmptySeq DEF Vals!NewBody, ValsUi

LEMMA ValsFunctions ==
  ASSUME ValsTyped
  PROVE  /\ ui.unsaved \in ValsEdits /\ ui.values \in ValsFiles /\ ui.nodes \in ValsFiles /\ ui.items \in Seq(Values)
         /\ store.version \in FormVersions /\ past.base \in FormVersions /\ ui.event \in {"install", "upgrade"}
         /\ past.wanted \in [ValsParams -> ValsData \cup {None}] /\ past.spoiled \subseteq ValsParams
         /\ past.moves + 1 \in Nat
BY DEF ValsTyped, ValsStore, ValsUi, ValsPast

LEMMA ValsWants ==
  ASSUME Vals!ConstantsAssumption, ValsTyped, NEW p \in ValsParams, NEW x \in ValsTypes,
         past' = [past EXCEPT !.moves = past.moves + 1, !.wanted[p] = x]
  PROVE  /\ past' \in ValsPast /\ past'.spoiled = past.spoiled /\ past'.base = past.base
         /\ past'.wanted[p] = x /\ \A q \in ValsParams : q # p => past'.wanted[q] = past.wanted[q]
<1>1. past.wanted \in [ValsParams -> ValsData \cup {None}] /\ past.moves + 1 \in Nat /\ past \in ValsPast
  BY ValsFunctions DEF ValsTyped
<1> DEFINE w == [past.wanted EXCEPT ![p] = x]
<1>2. /\ w \in [ValsParams -> ValsData \cup {None}] /\ w[p] = x
      /\ \A q \in ValsParams : q # p => w[q] = past.wanted[q]
  BY <1>1, ValsConstants
<1>3. past' = [past EXCEPT !.moves = past.moves + 1, !.wanted = w]
  BY <1>1 DEF ValsPast
<1> HIDE DEF w
<1>4. past' \in ValsPast /\ past'.spoiled = past.spoiled /\ past'.base = past.base /\ past'.wanted = w
  BY <1>1, <1>2, <1>3 DEF ValsPast
<1> QED
  BY <1>2, <1>4

\* An edit that waits for its debounce.
LEMMA ValsWaitsFor ==
  ASSUME Vals!ConstantsAssumption, ValsInv, NEW p \in ValsParams, p \notin Immediate, NEW x \in ValsTypes,
         ui.page = "form", ui.tab = "visual", calls' = [calls EXCEPT ![p] = x],
         past' = [past EXCEPT !.moves = past.moves + 1, !.wanted[p] = x],
         ui' \in ValsUi, ui'.page = ui.page, ui'.tab = ui.tab, ui'.event = ui.event,
         ui'.values = ui.values, ui'.nodes = ui.nodes, ui'.unsaved = ui.unsaved,
         ui'.valuesModified = ui.valuesModified, UNCHANGED store
  PROVE  ValsInv'
<1>0. ValsTyped /\ ValsNodes /\ ValsWaits /\ ValsSent /\ ValsUnmarked /\ ValsKeeps
  BY DEF ValsInv
<1>1. /\ past' \in ValsPast /\ past'.spoiled = past.spoiled /\ past'.base = past.base
      /\ past'.wanted[p] = x /\ \A q \in ValsParams : q # p => past'.wanted[q] = past.wanted[q]
  BY <1>0, ValsWants
<1>2. /\ calls' \in ValsEdits /\ calls'[p] = x /\ x # None
      /\ \A q \in ValsParams : q # p => calls'[q] = calls[q]
  BY <1>0, ValsConstants DEF ValsTyped, ValsEdits
<1>3. ValsTyped' /\ ValsNodes' /\ ValsWaits' /\ ValsTab' /\ ValsSent'
  BY <1>0, <1>1, <1>2 DEF ValsTyped, ValsNodes, ValsWaits, ValsTab, ValsSent, Vals!Fresh, Vals!Sent
<1>4. ValsUnmarked'
  BY <1>0, <1>1, <1>2 DEF ValsUnmarked
<1>5. ASSUME NEW q \in ValsParams, q \notin past.spoiled, Vals!Fresh PROVE ValsKept(q)'
  <2>1. ValsKept(q)
    BY <1>0, <1>5 DEF ValsKeeps
  <2> QED
    BY <1>1, <1>2, <2>1 DEF ValsKept, ValsLatest
<1>6. ValsKeeps'
  BY <1>1, <1>5 DEF ValsKeeps, Vals!Fresh
<1> QED
  BY <1>3, <1>4, <1>6 DEF ValsInv

LEMMA ValsOnChange ==
  ASSUME Vals!ConstantsAssumption, ValsInv, NEW p \in ValsParams, NEW x \in Values, Vals!onChange(p, x)
  PROVE  ValsInv'
<1>1. /\ ui.page = "form" /\ ui.tab = "visual" /\ p \in Debounced
      /\ calls' = [calls EXCEPT ![p] = x] /\ UNCHANGED <<store, ui>>
      /\ past' = [past EXCEPT !.moves = past.moves + 1, !.wanted[p] = x]
  BY DEF Vals!onChange, Vals!Move
<1>2. p \notin Immediate /\ x \in ValsTypes /\ ui' \in ValsUi
  BY <1>1, ValsConstants DEF ValsTypes, ValsInv, ValsTyped
<1> QED
  BY <1>1, <1>2, ValsWaitsFor

LEMMA ValsOnChangeArrayItem ==
  ASSUME Vals!ConstantsAssumption, ValsInv, NEW x \in Values, Vals!onChangeArrayItem(x) PROVE ValsInv'
<1>0. ValsTyped
  BY DEF ValsInv
<1>1. PICK items \in {Append(ui.items, x)} \cup {[ui.items EXCEPT ![i] = x] : i \in 1..Len(ui.items)} :
         /\ ui' = [ui EXCEPT !.items = items]
         /\ calls' = [calls EXCEPT ![ArrayParam] = items]
         /\ past' = [past EXCEPT !.moves = past.moves + 1, !.wanted[ArrayParam] = items]
  BY DEF Vals!onChangeArrayItem
<1>2. ui.page = "form" /\ ui.tab = "visual" /\ UNCHANGED store
  BY DEF Vals!onChangeArrayItem, Vals!Move
<1>3. ui.items \in Seq(Values)
  BY <1>0, ValsFunctions
<1>4. items \in Seq(Values)
  <2>1. CASE items = Append(ui.items, x)
    BY <1>3, <2>1
  <2>2. CASE \E i \in 1..Len(ui.items) : items = [ui.items EXCEPT ![i] = x]
    BY <1>3, <2>2
  <2> QED
    BY <1>1, <2>1, <2>2
<1>5. ArrayParam \in ValsParams /\ ArrayParam \notin Immediate /\ items \in ValsTypes
  BY <1>4, ValsConstants DEF ValsTypes
<1>6. /\ ui' \in ValsUi /\ ui'.page = ui.page /\ ui'.tab = ui.tab /\ ui'.event = ui.event
      /\ ui'.values = ui.values /\ ui'.nodes = ui.nodes /\ ui'.unsaved = ui.unsaved
      /\ ui'.valuesModified = ui.valuesModified
  BY <1>0, <1>1, <1>4 DEF ValsTyped, ValsUi
<1> QED
  BY <1>1, <1>2, <1>5, <1>6, ValsWaitsFor

LEMMA ValsOnToggle ==
  ASSUME Vals!ConstantsAssumption, ValsInv, NEW p \in ValsParams, NEW x \in Values, Vals!onToggle(p, x)
  PROVE  ValsInv'
<1>0. ValsTyped /\ ValsNodes /\ ValsWaits /\ ValsSent /\ ValsUnmarked /\ ValsKeeps
  BY DEF ValsInv
<1>1. /\ ui.page = "form" /\ ui.tab = "visual" /\ p \in Immediate
      /\ ui' = [ui EXCEPT !.unsaved[p] = x] /\ UNCHANGED <<store, calls>>
      /\ past' = [past EXCEPT !.moves = past.moves + 1, !.wanted[p] = x]
  BY DEF Vals!onToggle, Vals!Move
<1>2. x \in ValsTypes /\ x # None /\ calls[p] = None
  BY <1>0, <1>1, ValsConstants DEF ValsTypes, ValsWaits
<1>3. /\ past' \in ValsPast /\ past'.spoiled = past.spoiled /\ past'.base = past.base
      /\ past'.wanted[p] = x /\ \A q \in ValsParams : q # p => past'.wanted[q] = past.wanted[q]
  BY <1>0, <1>1, <1>2, ValsWants
<1>4. /\ ui' \in ValsUi /\ ui'.page = ui.page /\ ui'.tab = ui.tab /\ ui'.event = ui.event
      /\ ui'.values = ui.values /\ ui'.nodes = ui.nodes /\ ui'.valuesModified = ui.valuesModified
      /\ ui'.unsaved[p] = x /\ \A q \in ValsParams : q # p => ui'.unsaved[q] = ui.unsaved[q]
  <2> DEFINE e == [ui.unsaved EXCEPT ![p] = x]
  <2>1. e \in ValsEdits /\ e[p] = x /\ \A q \in ValsParams : q # p => e[q] = ui.unsaved[q]
    BY <1>0, <1>2, ValsFunctions DEF ValsEdits
  <2>2. ui' = [ui EXCEPT !.unsaved = e]
    BY <1>0, <1>1 DEF ValsTyped, ValsUi
  <2> HIDE DEF e
  <2>3. /\ ui' \in ValsUi /\ ui'.page = ui.page /\ ui'.tab = ui.tab /\ ui'.event = ui.event
        /\ ui'.values = ui.values /\ ui'.nodes = ui.nodes /\ ui'.valuesModified = ui.valuesModified
        /\ ui'.unsaved = e
    BY <1>0, <2>1, <2>2 DEF ValsTyped, ValsUi
  <2> QED
    BY <2>1, <2>3
<1>5. ValsTyped' /\ ValsNodes' /\ ValsWaits' /\ ValsTab' /\ ValsSent'
  BY <1>0, <1>1, <1>3, <1>4 DEF ValsTyped, ValsNodes, ValsWaits, ValsTab, ValsSent, Vals!Fresh, Vals!Sent
<1>6. ValsUnmarked'
  BY <1>0, <1>1, <1>2, <1>3, <1>4 DEF ValsUnmarked
<1>7. ASSUME NEW q \in ValsParams, q \notin past.spoiled, Vals!Fresh PROVE ValsKept(q)'
  <2>1. ValsKept(q)
    BY <1>0, <1>7 DEF ValsKeeps
  <2> QED
    BY <1>1, <1>2, <1>3, <1>4, <2>1 DEF ValsKept, ValsLatest
<1>8. ValsKeeps'
  BY <1>3, <1>7 DEF ValsKeeps, Vals!Fresh
<1> QED
  BY <1>5, <1>6, <1>8 DEF ValsInv

LEMMA ValsOnDeleteArrayItem ==
  ASSUME Vals!ConstantsAssumption, ValsInv, Vals!onDeleteArrayItem PROVE ValsInv'
<1>0. ValsTyped /\ ValsNodes /\ ValsWaits /\ ValsTab /\ ValsSent /\ ValsUnmarked /\ ValsKeeps
  BY DEF ValsInv
<1> DEFINE items == SubSeq(ui.items, 1, Len(ui.items) - 1)
           s == past.spoiled \cup {ArrayParam}
<1>1. /\ ui.page = "form" /\ ui.tab = "visual" /\ ui.items # <<>>
      /\ ui' = [ui EXCEPT !.items = items] /\ UNCHANGED <<store, calls>>
      /\ past' = [past EXCEPT !.moves = past.moves + 1, !.wanted[ArrayParam] = items, !.spoiled = s]
  BY DEF Vals!onDeleteArrayItem, Vals!Move
<1>2. items \in Seq(Values)
  BY <1>0, <1>1, ValsFunctions
<1> HIDE DEF items
<1>3. ArrayParam \in ValsParams /\ items \in ValsData
  BY <1>2, ValsConstants DEF ValsTypes
<1>4. /\ past' \in ValsPast /\ past'.spoiled = s /\ past'.base = past.base
      /\ \A q \in ValsParams : q # ArrayParam => past'.wanted[q] = past.wanted[q]
  <2> DEFINE w == [past.wanted EXCEPT ![ArrayParam] = items]
  <2>1. past.wanted \in [ValsParams -> ValsData \cup {None}] /\ past.moves + 1 \in Nat /\ past \in ValsPast
    BY <1>0, ValsFunctions DEF ValsTyped
  <2>2. /\ w \in [ValsParams -> ValsData \cup {None}]
        /\ \A q \in ValsParams : q # ArrayParam => w[q] = past.wanted[q]
    BY <1>3, <2>1
  <2>3. past' = [past EXCEPT !.moves = past.moves + 1, !.wanted = w, !.spoiled = s]
    BY <1>1, <2>1 DEF ValsPast
  <2>4. s \subseteq ValsParams
    BY <1>0, <1>3, ValsFunctions
  <2> HIDE DEF w, s
  <2>5. past' \in ValsPast /\ past'.spoiled = s /\ past'.base = past.base /\ past'.wanted = w
    BY <2>1, <2>2, <2>3, <2>4 DEF ValsPast
  <2> QED
    BY <2>2, <2>5
<1>5. /\ ui' \in ValsUi /\ ui'.page = ui.page /\ ui'.tab = ui.tab /\ ui'.event = ui.event
      /\ ui'.values = ui.values /\ ui'.nodes = ui.nodes /\ ui'.unsaved = ui.unsaved
      /\ ui'.valuesModified = ui.valuesModified
  BY <1>0, <1>1, <1>2 DEF ValsTyped, ValsUi
<1>6. ValsTyped' /\ ValsNodes' /\ ValsWaits' /\ ValsTab' /\ ValsSent'
  BY <1>0, <1>1, <1>4, <1>5 DEF ValsTyped, ValsNodes, ValsWaits, ValsTab, ValsSent, Vals!Fresh, Vals!Sent
<1>7. ValsUnmarked'
  BY <1>0, <1>1, <1>4, <1>5 DEF ValsUnmarked
<1>8. ASSUME NEW q \in ValsParams, q \notin s, Vals!Fresh PROVE ValsKept(q)'
  <2>1. ValsKept(q)
    BY <1>0, <1>8 DEF ValsKeeps
  <2> QED
    BY <1>1, <1>4, <1>5, <1>8, <2>1 DEF ValsKept, ValsLatest
<1>9. ValsKeeps'
  BY <1>4, <1>8 DEF ValsKeeps, Vals!Fresh
<1> QED
  BY <1>6, <1>7, <1>9 DEF ValsInv

LEMMA ValsDebounceEnds ==
  ASSUME Vals!ConstantsAssumption, ValsInv, NEW p \in ValsParams, Vals!DebounceEnds(p) PROVE ValsInv'
<1>0. ValsTyped /\ ValsNodes /\ ValsWaits /\ ValsTab /\ ValsSent /\ ValsUnmarked /\ ValsKeeps
  BY DEF ValsInv
<1>1. /\ calls[p] # None /\ calls' = [calls EXCEPT ![p] = None] /\ UNCHANGED <<store, past>>
      /\ ui' = IF ui.page = "form" THEN [ui EXCEPT !.unsaved[p] = calls[p]] ELSE ui
  BY DEF Vals!DebounceEnds
<1>2. calls' \in ValsEdits /\ calls'[p] = None /\ \A q \in ValsParams : q # p => calls'[q] = calls[q]
  BY <1>0, <1>1 DEF ValsTyped, ValsEdits
<1>3. /\ ui' \in ValsUi /\ ui'.page = ui.page /\ ui'.tab = ui.tab /\ ui'.event = ui.event
      /\ ui'.values = ui.values /\ ui'.nodes = ui.nodes /\ ui'.valuesModified = ui.valuesModified
      /\ ui.page = "form" => ui'.unsaved[p] = calls[p]
      /\ ui.page # "form" => ui'.unsaved = ui.unsaved
      /\ \A q \in ValsParams : q # p => ui'.unsaved[q] = ui.unsaved[q]
  <2>1. CASE ui.page = "form"
    <3> DEFINE e == [ui.unsaved EXCEPT ![p] = calls[p]]
    <3>1. e \in ValsEdits /\ e[p] = calls[p] /\ \A q \in ValsParams : q # p => e[q] = ui.unsaved[q]
      BY <1>0, <1>1, ValsFunctions DEF ValsTyped, ValsEdits
    <3>2. ui' = [ui EXCEPT !.unsaved = e]
      BY <1>0, <1>1, <2>1 DEF ValsTyped, ValsUi
    <3> HIDE DEF e
    <3>3. /\ ui' \in ValsUi /\ ui'.page = ui.page /\ ui'.tab = ui.tab /\ ui'.event = ui.event
          /\ ui'.values = ui.values /\ ui'.nodes = ui.nodes /\ ui'.valuesModified = ui.valuesModified
          /\ ui'.unsaved = e
      BY <1>0, <3>1, <3>2 DEF ValsTyped, ValsUi
    <3> QED
      BY <2>1, <3>1, <3>3
  <2>2. CASE ui.page # "form"
    BY <1>0, <1>1, <2>2 DEF ValsTyped
  <2> QED
    BY <2>1, <2>2
<1>4. ValsTyped' /\ ValsNodes' /\ ValsWaits'
  BY <1>0, <1>1, <1>2, <1>3 DEF ValsTyped, ValsNodes, ValsWaits, Vals!Fresh
<1>5. p \in ValsParams /\ ValsParams = Vals!Params
  BY DEF ValsParams
<1>6. ValsTab'
  BY <1>0, <1>1, <1>2, <1>3, <1>5 DEF ValsTab, Vals!InDebounce, Vals!Unsaved
<1>7. ValsSent'
  BY <1>0, <1>1, <1>2, <1>3, <1>5 DEF ValsSent, Vals!InDebounce, Vals!Sent
<1>8. ui.page = "form" \/ p \in past.spoiled
  BY <1>0, <1>1, <1>5 DEF ValsSent, Vals!InDebounce, ValsTyped, ValsUi
<1>9. ValsUnmarked'
  BY <1>0, <1>1, <1>2, <1>3, <1>8 DEF ValsUnmarked
<1>10. ASSUME NEW q \in ValsParams, q \notin past.spoiled, Vals!Fresh PROVE ValsKept(q)'
  <2>1. ValsKept(q)
    BY <1>0, <1>10 DEF ValsKeeps
  <2> QED
    BY <1>1, <1>2, <1>3, <1>8, <1>10, <2>1 DEF ValsKept, ValsLatest
<1>11. ValsKeeps'
  BY <1>1, <1>10 DEF ValsKeeps, Vals!Fresh
<1> QED
  BY <1>4, <1>6, <1>7, <1>9, <1>11 DEF ValsInv

\* A save, of which what follows shows all or the table anew.
LEMMA ValsSavedSteps ==
  ASSUME Vals!ConstantsAssumption, ValsInv, ui.page = "form", NEW t, ValsSavedAs(ui, t),
         ui' \in ValsUi, ui'.event = t.event, ui'.values = t.values, ui'.nodes = t.nodes,
         ui'.unsaved = t.unsaved, ui'.valuesModified = t.valuesModified,
         past' = [past EXCEPT !.moves = past.moves + 1, !.spoiled = past.spoiled \cup Vals!InDebounce],
         UNCHANGED calls,
         \/ ui'.page = "form" /\ UNCHANGED store
         \/ ui'.page = "deploying" /\ store' = [store EXCEPT !.sent = ui'.values]
  PROVE  ValsInv'
<1>0. ValsTyped /\ ValsNodes /\ ValsWaits /\ ValsSent /\ ValsUnmarked /\ ValsKeeps
  BY DEF ValsInv
<1> DEFINE s == past.spoiled \cup Vals!InDebounce
<1>1. s \subseteq ValsParams /\ \A p \in ValsParams \ s : p \notin past.spoiled /\ calls[p] = None
  BY <1>0, ValsFunctions DEF Vals!InDebounce, ValsParams
<1>2. Vals!InDebounce \subseteq s
  OBVIOUS
<1> HIDE DEF s
<1>3. /\ past' \in ValsPast /\ past'.spoiled = s /\ past'.base = past.base /\ past'.wanted = past.wanted
  <2>1. past \in ValsPast /\ past.moves + 1 \in Nat
    BY <1>0, ValsFunctions DEF ValsTyped
  <2> QED
    BY <1>1, <2>1 DEF ValsPast, s
<1>4. /\ ui'.unsaved = Vals!NoChanges /\ ui'.event = ui.event
      /\ \A p \in ValsParams : ui'.unsaved[p] = None
      /\ ~ui'.valuesModified => ~ui.valuesModified /\ \A p \in ValsParams : ui.unsaved[p] = None
  BY DEF ValsSavedAs, Vals!NoChanges, ValsParams
<1>5. ui.nodes = ui.values =>
          /\ ui'.nodes = ui'.values
          /\ \A p \in ValsParams : ui'.values[p] = IF ui.unsaved[p] # None THEN ui.unsaved[p] ELSE ui.values[p]
  BY DEF ValsSavedAs
<1>6. ~Vals!Sent
  BY <1>0 DEF ValsSent
<1>7. /\ store' \in ValsStore
      /\ Vals!Sent' => ui'.page = "deploying" /\ store'.sent = ui'.values
  BY <1>0, <1>6 DEF ValsTyped, ValsStore, ValsUi, Vals!Sent
<1>8. ValsTyped' /\ ValsNodes' /\ ValsWaits'
  BY <1>0, <1>3, <1>5, <1>7 DEF ValsTyped, ValsNodes, ValsWaits, Vals!Fresh
<1>9. Vals!InDebounce' = Vals!InDebounce /\ Vals!Unsaved' = {}
  BY <1>4 DEF Vals!InDebounce, Vals!Unsaved, ValsParams
<1>10. ValsTab' /\ ValsSent'
  BY <1>2, <1>3, <1>4, <1>7, <1>9 DEF ValsTab, ValsSent, Vals!NoChanges
<1>11. ValsUnmarked'
  BY <1>0, <1>1, <1>3, <1>4 DEF ValsUnmarked
<1>12. ASSUME NEW q \in ValsParams, q \notin s, Vals!Fresh PROVE ValsKept(q)'
  <2>1. ValsKept(q) /\ ui.nodes = ui.values
    BY <1>0, <1>1, <1>12 DEF ValsKeeps, ValsNodes
  <2> QED
    BY <1>1, <1>3, <1>4, <1>5, <1>12, <2>1 DEF ValsKept, ValsLatest
<1>13. ValsKeeps'
  BY <1>3, <1>12 DEF ValsKeeps, Vals!Fresh
<1> QED
  BY <1>8, <1>10, <1>11, <1>13 DEF ValsInv

LEMMA ValsSave ==
  ASSUME Vals!ConstantsAssumption, ValsInv, Vals!Save PROVE ValsInv'
<1> DEFINE t == Vals!saveAllChanges(ui)
<1>0. ui \in ValsUi
  BY DEF ValsInv, ValsTyped
<1>1. /\ ui.page = "form" /\ ui' = Vals!Rendered(t) /\ UNCHANGED <<store, calls>>
      /\ past' = [past EXCEPT !.moves = past.moves + 1, !.spoiled = past.spoiled \cup Vals!InDebounce]
  BY DEF Vals!Save, Vals!Move
<1>2. ValsSavedAs(ui, t) /\ t.page = ui.page /\ t \in ValsUi
  BY <1>0, ValsSaves DEF ValsSavedAs
<1> HIDE DEF t
<1>3. /\ ui' \in ValsUi /\ ui'.event = t.event /\ ui'.page = t.page /\ ui'.values = t.values
      /\ ui'.nodes = t.nodes /\ ui'.unsaved = t.unsaved /\ ui'.valuesModified = t.valuesModified
  BY <1>1, <1>2, ValsRenders
<1> QED
  BY <1>1, <1>2, <1>3, ValsSavedSteps

LEMMA ValsSwitchTab ==
  ASSUME Vals!ConstantsAssumption, ValsInv, NEW tab \in {"visual", "yaml"}, Vals!SwitchTab(tab)
  PROVE  ValsInv'
<1>0. ValsTyped /\ ValsNodes /\ ValsWaits /\ ValsTab /\ ValsSent /\ ValsUnmarked /\ ValsKeeps /\ ui \in ValsUi
  BY DEF ValsInv, ValsTyped
<1> DEFINE s == past.spoiled \cup Vals!InDebounce
<1>1. /\ ui.page = "form" /\ UNCHANGED <<store, calls>>
      /\ ui' = IF tab = "yaml" THEN [Vals!saveAllChanges(ui) EXCEPT !.tab = tab]
                               ELSE Vals!Rendered([ui EXCEPT !.tab = tab])
      /\ past' = [past EXCEPT !.moves = past.moves + 1, !.spoiled = s]
  BY DEF Vals!SwitchTab, Vals!Move
<1>2. CASE tab = "yaml"
  <2> DEFINE t == Vals!saveAllChanges(ui)
  <2>1. ValsSavedAs(ui, t) /\ t.page = ui.page /\ t \in ValsUi
    BY <1>0, ValsSaves DEF ValsSavedAs
  <2>2. ui' = [t EXCEPT !.tab = tab]
    BY <1>1, <1>2
  <2> HIDE DEF t
  <2>3. /\ ui' \in ValsUi /\ ui'.event = t.event /\ ui'.page = t.page /\ ui'.values = t.values
        /\ ui'.nodes = t.nodes /\ ui'.unsaved = t.unsaved /\ ui'.valuesModified = t.valuesModified
    BY <2>1, <2>2 DEF ValsUi
  <2> QED
    BY <1>1, <2>1, <2>3, ValsSavedSteps
<1>3. CASE tab = "visual"
  <2> DEFINE t == [ui EXCEPT !.tab = tab]
  <2>1. /\ t \in ValsUi /\ t.event = ui.event /\ t.page = ui.page /\ t.values = ui.values /\ t.tab = "visual"
        /\ t.nodes = ui.nodes /\ t.unsaved = ui.unsaved /\ t.valuesModified = ui.valuesModified
    BY <1>0, <1>3 DEF ValsUi
  <2>2. ui' = Vals!Rendered(t)
    BY <1>1, <1>3
  <2> HIDE DEF t
  <2>3. /\ ui' \in ValsUi /\ ui'.event = ui.event /\ ui'.page = ui.page /\ ui'.values = ui.values /\ ui'.tab = "visual"
        /\ ui'.nodes = ui.nodes /\ ui'.unsaved = ui.unsaved /\ ui'.valuesModified = ui.valuesModified
    BY <2>1, <2>2, ValsRenders
  <2>4. s \subseteq ValsParams /\ past.spoiled \subseteq s
    BY <1>0, ValsFunctions DEF Vals!InDebounce, ValsParams
  <2>5. /\ past' \in ValsPast /\ past'.spoiled = s /\ past'.base = past.base /\ past'.wanted = past.wanted
    <3> HIDE DEF s
    <3>1. past \in ValsPast /\ past.moves + 1 \in Nat
      BY <1>0, ValsFunctions DEF ValsTyped
    <3> QED
      BY <1>1, <2>4, <3>1 DEF ValsPast
  <2> HIDE DEF s
  <2>6. ValsTyped' /\ ValsNodes' /\ ValsWaits' /\ ValsTab' /\ ValsSent'
    BY <1>0, <1>1, <2>3, <2>5 DEF ValsTyped, ValsNodes, ValsWaits, ValsTab, ValsSent, Vals!Fresh, Vals!Sent
  <2>7. ValsUnmarked'
    BY <1>0, <1>1, <2>3, <2>4, <2>5 DEF ValsUnmarked
  <2>8. ASSUME NEW q \in ValsParams, q \notin s, Vals!Fresh PROVE ValsKept(q)'
    <3>1. ValsKept(q)
      BY <1>0, <2>4, <2>8 DEF ValsKeeps
    <3> QED
      BY <1>1, <2>3, <2>5, <3>1 DEF ValsKept, ValsLatest
  <2>9. ValsKeeps'
    BY <2>5, <2>8 DEF ValsKeeps, Vals!Fresh
  <2> QED
    BY <2>6, <2>7, <2>9 DEF ValsInv
<1> QED
  BY <1>2, <1>3

LEMMA ValsYamlEdits ==
  ASSUME Vals!ConstantsAssumption, ValsInv, NEW p \in ValsParams, NEW x \in Values,
         Vals!handleYAMLEditorChange(p, x)
  PROVE  ValsInv'
<1>0. ValsTyped /\ ValsNodes /\ ValsWaits /\ ValsTab /\ ValsSent /\ ValsUnmarked /\ ValsKeeps /\ ui \in ValsUi
  BY DEF ValsInv, ValsTyped
<1> DEFINE f == [ui.values EXCEPT ![p] = x]
           t == Vals!SetValues(ui, f)
<1>1. /\ ui.page = "form" /\ ui.tab = "yaml" /\ UNCHANGED <<store, calls>>
      /\ ui' = [t EXCEPT !.valuesModified = TRUE]
      /\ past' = [past EXCEPT !.moves = past.moves + 1, !.wanted[p] = x]
  BY DEF Vals!handleYAMLEditorChange, Vals!Move
<1>2. x \in ValsTypes /\ x # None /\ x # Unset
  BY ValsConstants DEF ValsTypes
<1>3. f \in ValsFiles /\ f[p] = x /\ \A q \in ValsParams : q # p => f[q] = ui.values[q]
  BY <1>0, <1>2, ValsFunctions, ValsConstants DEF ValsFiles
<1> HIDE DEF f
<1>4. f # Vals!Empty
  BY <1>2, <1>3 DEF Vals!Empty, ValsParams
<1>5. /\ t \in ValsUi /\ t.event = ui.event /\ t.page = ui.page /\ t.tab = ui.tab
      /\ t.unsaved = ui.unsaved /\ t.values = f /\ t.nodes = f
  BY <1>0, <1>3, <1>4, ValsSets
<1> HIDE DEF t
<1>6. /\ ui' \in ValsUi /\ ui'.event = ui.event /\ ui'.page = ui.page /\ ui'.tab = ui.tab
      /\ ui'.unsaved = ui.unsaved /\ ui'.values = f /\ ui'.nodes = f /\ ui'.valuesModified
  BY <1>1, <1>5 DEF ValsUi
<1>7. /\ past' \in ValsPast /\ past'.spoiled = past.spoiled /\ past'.base = past.base
      /\ past'.wanted[p] = x /\ \A q \in ValsParams : q # p => past'.wanted[q] = past.wanted[q]
  BY <1>0, <1>1, <1>2, ValsWants
<1>8. ValsTyped' /\ ValsNodes' /\ ValsWaits' /\ ValsUnmarked'
  BY <1>0, <1>1, <1>6, <1>7 DEF ValsTyped, ValsNodes, ValsWaits, ValsUnmarked
<1>9. ValsTab'
  BY <1>0, <1>1, <1>6, <1>7 DEF ValsTab, Vals!InDebounce, Vals!Unsaved
<1>10. ValsSent'
  BY <1>0, <1>1, <1>6, <1>7, ValsFunctions DEF ValsSent, Vals!Sent
<1>11. ASSUME NEW q \in ValsParams, q \notin past.spoiled, Vals!Fresh PROVE ValsKept(q)'
  <2>1. ValsKept(q)
    BY <1>0, <1>11 DEF ValsKeeps
  <2>2. calls[q] = None /\ ui.unsaved[q] = None
    BY <1>0, <1>1, <1>11 DEF ValsTab, Vals!InDebounce, Vals!Unsaved, ValsParams
  <2> QED
    BY <1>1, <1>2, <1>3, <1>6, <1>7, <2>1, <2>2 DEF ValsKept, ValsLatest
<1>12. ValsKeeps'
  BY <1>7, <1>11 DEF ValsKeeps, Vals!Fresh
<1> QED
  BY <1>8, <1>9, <1>10, <1>12 DEF ValsInv

LEMMA ValsRestore ==
  ASSUME Vals!ConstantsAssumption, ValsInv, Vals!Restore PROVE ValsInv'
<1>0. ValsTyped /\ ValsNodes /\ ValsWaits /\ ValsTab /\ ValsSent /\ ValsUnmarked /\ ValsKeeps /\ ui \in ValsUi
  BY DEF ValsInv, ValsTyped
<1> DEFINE s == past.spoiled \cup Vals!InDebounce \cup Vals!Unsaved
           f == Defaults[store.version]
           w == IF ui.event = "install" /\ ~ui.valuesModified THEN Vals!NoChanges ELSE f
           t == Vals!SetValues(ui, f)
<1>1. /\ ui.page = "form" /\ UNCHANGED <<store, calls>> /\ ui' = Vals!Rendered(t)
      /\ past' = [past EXCEPT !.moves = past.moves + 1, !.base = store.version, !.wanted = w, !.spoiled = s]
  BY DEF Vals!Restore, Vals!Move, Vals!restoreDefaultValues
<1>2. /\ s \subseteq ValsParams /\ Vals!InDebounce \cup Vals!Unsaved \subseteq s
      /\ \A p \in ValsParams \ s : p \notin past.spoiled /\ calls[p] = None /\ ui.unsaved[p] = None
  BY <1>0, ValsFunctions DEF Vals!InDebounce, Vals!Unsaved, ValsParams
<1>3. f \in ValsFiles /\ store.version \in FormVersions /\ \A p \in ValsParams : f[p] # None
  BY <1>0, ValsFunctions, ValsConstants DEF ValsFiles
<1>4. /\ w \in [ValsParams -> ValsData \cup {None}]
      /\ ui.event = "install" /\ ~ui.valuesModified => \A p \in ValsParams : w[p] = None
      /\ ~(ui.event = "install" /\ ~ui.valuesModified) => w = f
  <2>1. Vals!NoChanges \in [ValsParams -> ValsData \cup {None}] /\ f \in [ValsParams -> ValsData \cup {None}]
    BY <1>3 DEF Vals!NoChanges, ValsFiles, ValsParams
  <2>2. \A p \in ValsParams : Vals!NoChanges[p] = None
    BY DEF Vals!NoChanges, ValsParams
  <2> QED
    BY <2>1, <2>2
<1> HIDE DEF s, w
<1>5. /\ t \in ValsUi /\ t.event = ui.event /\ t.page = ui.page /\ t.tab = ui.tab
      /\ t.valuesModified = ui.valuesModified /\ t.unsaved = ui.unsaved
      /\ t.values = f /\ (f # Vals!Empty => t.nodes = f)
  BY <1>0, <1>3, ValsSets
<1> HIDE DEF t
<1>6. /\ ui' \in ValsUi /\ ui'.event = ui.event /\ ui'.page = ui.page /\ ui'.tab = ui.tab
      /\ ui'.valuesModified = ui.valuesModified /\ ui'.unsaved = ui.unsaved
      /\ ui'.values = f /\ (f # Vals!Empty => ui'.nodes = f)
  BY <1>1, <1>5, ValsRenders
<1>7. past' \in ValsPast /\ past'.spoiled = s /\ past'.base = store.version /\ past'.wanted = w
  <2>1. past \in ValsPast /\ past.moves + 1 \in Nat
    BY <1>0, ValsFunctions DEF ValsTyped
  <2> QED
    BY <1>1, <1>2, <1>3, <1>4, <2>1 DEF ValsPast
<1>8. ValsTyped' /\ ValsWaits' /\ ValsNodes'
  BY <1>0, <1>1, <1>6, <1>7 DEF ValsTyped, ValsWaits, ValsNodes, Vals!Fresh
<1>9. ValsTab' /\ ValsSent'
  BY <1>0, <1>1, <1>2, <1>6, <1>7 DEF ValsTab, ValsSent, Vals!Sent, Vals!InDebounce, Vals!Unsaved
<1>10. ValsUnmarked'
  BY <1>1, <1>2, <1>4, <1>6, <1>7 DEF ValsUnmarked
<1>11. ASSUME NEW q \in ValsParams, q \notin s, Vals!Fresh' PROVE ValsKept(q)'
  <2>1. calls'[q] = None /\ ui'.unsaved[q] = None /\ ui'.values[q] = f[q]
    BY <1>1, <1>2, <1>6, <1>11
  <2>2. CASE ui.event = "install" /\ ~ui.valuesModified
    <3>1. past'.wanted[q] = None
      BY <1>4, <1>7, <2>2
    <3>2. Vals!FreshValues(ui'.event, past'.base) = f
      BY <1>3, <1>6, <1>7, <2>2, ValsFreshValues
    <3> QED
      BY <2>1, <3>1, <3>2 DEF ValsKept
  <2>3. CASE ~(ui.event = "install" /\ ~ui.valuesModified)
    <3>1. past'.wanted[q] = f[q] /\ f[q] # None
      BY <1>3, <1>4, <1>7, <2>3
    <3> QED
      BY <2>1, <3>1 DEF ValsKept, ValsLatest
  <2> QED
    BY <2>2, <2>3
<1>12. ValsKeeps'
  BY <1>7, <1>11 DEF ValsKeeps
<1> QED
  BY <1>8, <1>9, <1>10, <1>12 DEF ValsInv

\* The form of an upgrade starts anew with the version.
LEMMA ValsUpgrades ==
  ASSUME Vals!ConstantsAssumption, ValsInv, NEW v \in FormVersions, Vals!SelectVersion(v),
         ui.event = "upgrade"
  PROVE  ValsInv'
<1>0. ValsTyped /\ ValsWaits /\ ValsSent /\ ui \in ValsUi
  BY DEF ValsInv, ValsTyped
<1> DEFINE s == Vals!InDebounce
           f == Vals!FreshValues("upgrade", v)
           w == Vals!NoChanges
<1>1. /\ ui.page = "form" /\ store' = [store EXCEPT !.version = v] /\ UNCHANGED calls
      /\ ui' = Vals!NewBody(ui, f)
      /\ past' = [past EXCEPT !.moves = past.moves + 1, !.wanted = w, !.base = v, !.spoiled = s]
  BY DEF Vals!SelectVersion, Vals!Move
<1>2. s \subseteq ValsParams /\ \A p \in ValsParams \ s : calls[p] = None
  BY DEF Vals!InDebounce, ValsParams
<1>3. f \in ValsFiles
  BY ValsFreshValues
<1>4. w \in [ValsParams -> ValsData \cup {None}] /\ \A p \in ValsParams : w[p] = None
  BY DEF Vals!NoChanges, ValsParams
<1> HIDE DEF f, w
<1>5. /\ ui' \in ValsUi /\ ui'.event = "upgrade" /\ ui'.page = "form" /\ ui'.tab = "visual"
      /\ ui'.values = f /\ ui'.nodes = f /\ ui'.unsaved = Vals!NoChanges
  BY <1>0, <1>1, <1>3, ValsBodies
<1>6. \A p \in ValsParams : ui'.unsaved[p] = None
  BY <1>5 DEF Vals!NoChanges, ValsParams
<1> HIDE DEF s
<1>7. past' \in ValsPast /\ past'.spoiled = s /\ past'.base = v /\ past'.wanted = w
  <2>1. past \in ValsPast /\ past.moves + 1 \in Nat
    BY <1>0, ValsFunctions DEF ValsTyped
  <2> QED
    BY <1>1, <1>2, <1>4, <2>1 DEF ValsPast
<1>8. store' \in ValsStore /\ store'.sent = store.sent
  BY <1>0, <1>1 DEF ValsTyped, ValsStore
<1>9. ValsTyped' /\ ValsNodes' /\ ValsWaits' /\ ValsTab' /\ ValsSent' /\ ValsUnmarked'
  BY <1>0, <1>1, <1>5, <1>7, <1>8
     DEF ValsTyped, ValsNodes, ValsWaits, ValsTab, ValsSent, ValsUnmarked, Vals!Sent
<1>10. ASSUME NEW q \in ValsParams, q \notin s PROVE ValsKept(q)'
  <2>1. calls'[q] = None /\ ui'.unsaved[q] = None /\ past'.wanted[q] = None
    BY <1>1, <1>2, <1>4, <1>6, <1>7, <1>10
  <2>2. ui'.values[q] = Vals!FreshValues(ui'.event, past'.base)[q]
    BY <1>5, <1>7 DEF f
  <2> QED
    BY <2>1, <2>2 DEF ValsKept
<1>11. ValsKeeps'
  BY <1>7, <1>10 DEF ValsKeeps
<1> QED
  BY <1>9, <1>11 DEF ValsInv

LEMMA ValsSelectVersion ==
  ASSUME Vals!ConstantsAssumption, ValsInv, NEW v \in FormVersions, Vals!SelectVersion(v)
  PROVE  ValsInv'
<1>0. ValsTyped /\ ValsNodes /\ ValsWaits /\ ValsTab /\ ValsSent /\ ValsUnmarked /\ ValsKeeps /\ ui \in ValsUi
  BY DEF ValsInv, ValsTyped
<1>1. CASE ui.event = "upgrade"
  BY <1>1, ValsUpgrades
<1>2. CASE ui.event # "upgrade"
  <2> DEFINE b == IF ui.valuesModified THEN past.base ELSE v
             f == Defaults[v]
             t == Vals!SetValues(ui, f)
  <2>1. /\ ui.page = "form" /\ store' = [store EXCEPT !.version = v] /\ UNCHANGED calls
        /\ ui' = IF ui.valuesModified THEN Vals!Rendered(ui) ELSE Vals!Rendered(t)
        /\ past' = [past EXCEPT !.moves = past.moves + 1, !.base = b]
    BY <1>2, ValsFreshValues DEF Vals!SelectVersion, Vals!Move
  <2>2. ui.event = "install" /\ b \in FormVersions /\ f \in ValsFiles
    BY <1>0, <1>2, ValsFunctions, ValsConstants
  <2>3. past' \in ValsPast /\ past'.spoiled = past.spoiled /\ past'.base = b /\ past'.wanted = past.wanted
    <3>1. past \in ValsPast /\ past.moves + 1 \in Nat
      BY <1>0, ValsFunctions DEF ValsTyped
    <3> QED
      BY <2>1, <2>2, <3>1 DEF ValsPast
  <2>4. store' \in ValsStore /\ store'.sent = store.sent
    BY <1>0, <2>1 DEF ValsTyped, ValsStore
  <2>5. /\ t \in ValsUi /\ t.event = ui.event /\ t.page = ui.page /\ t.tab = ui.tab
        /\ t.valuesModified = ui.valuesModified /\ t.unsaved = ui.unsaved
        /\ t.values = f /\ (f # Vals!Empty => t.nodes = f)
    BY <1>0, <2>2, ValsSets
  <2> HIDE DEF t
  <2>6. /\ ui' \in ValsUi /\ ui'.event = ui.event /\ ui'.page = ui.page /\ ui'.tab = ui.tab
        /\ ui'.valuesModified = ui.valuesModified /\ ui'.unsaved = ui.unsaved
        /\ ui.valuesModified => ui'.values = ui.values /\ ui'.nodes = ui.nodes
        /\ ~ui.valuesModified => ui'.values = f /\ (f # Vals!Empty => ui'.nodes = f)
    BY <1>0, <2>1, <2>5, ValsRenders
  <2>7. ValsTyped' /\ ValsWaits' /\ ValsTab' /\ ValsSent' /\ ValsUnmarked'
    BY <1>0, <2>1, <2>3, <2>4, <2>6
       DEF ValsTyped, ValsWaits, ValsTab, ValsSent, ValsUnmarked, Vals!Sent, Vals!InDebounce, Vals!Unsaved
  <2>8. ValsNodes'
    BY <1>0, <2>3, <2>6 DEF ValsNodes, Vals!Fresh
  <2>9. ASSUME NEW q \in ValsParams, q \notin past.spoiled, Vals!Fresh' PROVE ValsKept(q)'
    <3>1. CASE ui.valuesModified
      <4>1. ValsKept(q)
        BY <1>0, <2>3, <2>9, <3>1 DEF ValsKeeps, Vals!Fresh
      <4> QED
        BY <2>1, <2>3, <2>6, <3>1, <4>1 DEF ValsKept, ValsLatest
    <3>2. CASE ~ui.valuesModified
      <4>1. past.wanted[q] = IF calls[q] # None THEN calls[q] ELSE ui.unsaved[q]
        BY <1>0, <2>2, <2>9, <3>2 DEF ValsUnmarked
      <4>2. Vals!FreshValues(ui'.event, past'.base) = f
        BY <2>2, <2>3, <2>6, <3>2, ValsFreshValues
      <4> QED
        BY <2>1, <2>3, <2>6, <3>2, <4>1, <4>2 DEF ValsKept, ValsLatest
    <3> QED
      BY <3>1, <3>2
  <2>10. ValsKeeps'
    BY <2>3, <2>9 DEF ValsKeeps
  <2> QED
    BY <2>7, <2>8, <2>10 DEF ValsInv
<1> QED
  BY <1>1, <1>2

LEMMA ValsHandleDeployClick ==
  ASSUME Vals!ConstantsAssumption, ValsInv, Vals!handleDeployClick PROVE ValsInv'
<1> DEFINE t == Vals!saveAllChanges(ui)
<1>0. ui \in ValsUi
  BY DEF ValsInv, ValsTyped
<1>1. /\ ui.page = "form" /\ ui' = [t EXCEPT !.page = "deploying"] /\ UNCHANGED calls
      /\ store' = [store EXCEPT !.sent = ui'.values]
      /\ past' = [past EXCEPT !.moves = past.moves + 1, !.spoiled = past.spoiled \cup Vals!InDebounce]
  BY DEF Vals!handleDeployClick, Vals!Move
<1>2. ValsSavedAs(ui, t) /\ t.page = ui.page /\ t \in ValsUi
  BY <1>0, ValsSaves DEF ValsSavedAs
<1> HIDE DEF t
<1>3. /\ ui' \in ValsUi /\ ui'.event = t.event /\ ui'.page = "deploying" /\ ui'.values = t.values
      /\ ui'.nodes = t.nodes /\ ui'.unsaved = t.unsaved /\ ui'.valuesModified = t.valuesModified
  BY <1>1, <1>2 DEF ValsUi
<1> QED
  BY <1>1, <1>2, <1>3, ValsSavedSteps

LEMMA ValsDeployFails ==
  ASSUME Vals!ConstantsAssumption, ValsInv, Vals!DeployFails PROVE ValsInv'
<1>0. ValsTyped /\ ValsNodes /\ ValsWaits /\ ValsTab /\ ValsSent /\ ValsUnmarked /\ ValsKeeps /\ ui \in ValsUi
  BY DEF ValsInv, ValsTyped
<1> DEFINE t == Vals!NewBody(ui, ui.values)
<1>1. /\ ui.page = "deploying" /\ ui' = [t EXCEPT !.valuesModified = ui.valuesModified]
      /\ store' = [store EXCEPT !.sent = None] /\ UNCHANGED <<calls, past>>
  BY DEF Vals!DeployFails
<1>2. ui.event \in {"install", "upgrade"} /\ ui.values \in ValsFiles
  BY <1>0, ValsFunctions
<1>3. /\ t \in ValsUi /\ t.event = ui.event /\ t.page = "form" /\ t.tab = "visual"
      /\ t.values = ui.values /\ t.nodes = ui.values /\ t.unsaved = Vals!NoChanges
  BY <1>2, ValsBodies
<1> HIDE DEF t
<1>4. /\ ui' \in ValsUi /\ ui'.event = ui.event /\ ui'.page = "form" /\ ui'.tab = "visual"
      /\ ui'.values = ui.values /\ ui'.nodes = ui.values /\ ui'.unsaved = ui.unsaved
      /\ ui'.valuesModified = ui.valuesModified
  BY <1>0, <1>1, <1>3 DEF ValsUi, ValsSent
<1>5. store' \in ValsStore /\ store'.sent = None
  BY <1>0, <1>1 DEF ValsTyped, ValsStore
<1>6. ValsTyped' /\ ValsNodes' /\ ValsWaits' /\ ValsTab' /\ ValsSent' /\ ValsUnmarked'
  BY <1>0, <1>1, <1>4, <1>5
     DEF ValsTyped, ValsNodes, ValsWaits, ValsTab, ValsSent, ValsUnmarked, Vals!Sent
<1>7. ASSUME NEW q \in ValsParams, q \notin past.spoiled, Vals!Fresh PROVE ValsKept(q)'
  <2>1. ValsKept(q)
    BY <1>0, <1>7 DEF ValsKeeps
  <2> QED
    BY <1>1, <1>4, <2>1 DEF ValsKept, ValsLatest
<1>8. ValsKeeps'
  BY <1>1, <1>7 DEF ValsKeeps, Vals!Fresh
<1> QED
  BY <1>6, <1>8 DEF ValsInv

LEMMA ValsInits ==
  ASSUME Vals!ConstantsAssumption, Vals!Init PROVE ValsInv
<1>1. PICK event \in {"install", "upgrade"} :
         ui = Vals!NewBody([event |-> event], Vals!FreshValues(event, Deployed))
  BY DEF Vals!Init
<1>2. /\ store = [version |-> Deployed, sent |-> None] /\ calls = Vals!NoChanges
      /\ past = [moves |-> 0, wanted |-> Vals!NoChanges, spoiled |-> {}, base |-> Deployed]
  BY DEF Vals!Init
<1> DEFINE f == Vals!FreshValues(event, Deployed)
<1>3. f \in ValsFiles /\ Deployed \in FormVersions
  BY ValsFreshValues, ValsConstants
<1> HIDE DEF f
<1>4. /\ ui \in ValsUi /\ ui.event = event /\ ui.page = "form" /\ ui.tab = "visual"
      /\ ui.values = f /\ ui.nodes = f /\ ~ui.valuesModified /\ ui.unsaved = Vals!NoChanges
  <2> DEFINE u == [event |-> event]
  <2>1. u.event = event /\ u.event \in {"install", "upgrade"}
    OBVIOUS
  <2>2. ui = Vals!NewBody(u, f)
    BY <1>1 DEF f
  <2> HIDE DEF u
  <2> QED
    BY <1>3, <2>1, <2>2, ValsBodies
<1>5. /\ Vals!NoChanges \in ValsEdits /\ Vals!NoChanges \in [ValsParams -> ValsData \cup {None}]
      /\ \A p \in ValsParams : Vals!NoChanges[p] = None
  BY ValsConstants DEF Vals!NoChanges, ValsParams
<1>6. ValsTyped
  BY <1>2, <1>3, <1>4, <1>5 DEF ValsTyped, ValsStore, ValsPast
<1>7. ValsNodes /\ ValsWaits /\ ValsTab /\ ValsSent /\ ValsUnmarked
  BY <1>2, <1>4, <1>5 DEF ValsNodes, ValsWaits, ValsTab, ValsSent, ValsUnmarked, Vals!Sent
<1>8. \A p \in ValsParams : ValsKept(p)
  BY <1>2, <1>4, <1>5 DEF ValsKept, f
<1> QED
  BY <1>6, <1>7, <1>8 DEF ValsInv, ValsKeeps

LEMMA ValsStutters == ASSUME ValsInv, UNCHANGED vars PROVE ValsInv'
<1>1. UNCHANGED <<store, ui, calls, past>>
  BY DEF vars
<1> QED
  BY <1>1 DEF ValsInv, ValsTyped, ValsNodes, ValsWaits, ValsTab, ValsSent, ValsUnmarked, ValsKeeps, ValsKept,
              ValsLatest, Vals!Fresh, Vals!Sent, Vals!InDebounce, Vals!Unsaved

LEMMA ValsSteps ==
  ASSUME Vals!ConstantsAssumption, ValsInv, Vals!Next PROVE ValsInv'
<1>1. CASE \E p \in ValsParams : Vals!DebounceEnds(p)
  BY <1>1, ValsDebounceEnds
<1>2. CASE \E p \in ValsParams, x \in Values :
              Vals!onChange(p, x) \/ Vals!onToggle(p, x) \/ Vals!handleYAMLEditorChange(p, x)
  BY <1>2, ValsOnChange, ValsOnToggle, ValsYamlEdits
<1>3. CASE \E x \in Values : Vals!onChangeArrayItem(x)
  BY <1>3, ValsOnChangeArrayItem
<1>4. CASE \E tab \in {"visual", "yaml"} : Vals!SwitchTab(tab)
  BY <1>4, ValsSwitchTab
<1>5. CASE \E v \in FormVersions : Vals!SelectVersion(v)
  BY <1>5, ValsSelectVersion
<1>6. CASE \/ Vals!Save \/ Vals!onDeleteArrayItem \/ Vals!Restore \/ Vals!handleDeployClick
           \/ Vals!DeployFails
  BY <1>6, ValsSave, ValsOnDeleteArrayItem, ValsRestore, ValsHandleDeployClick, ValsDeployFails
<1> QED
  BY <1>1, <1>2, <1>3, <1>4, <1>5, <1>6 DEF Vals!Next, ValsParams

LEMMA ValsProperties ==
  ASSUME ValsInv PROVE Vals!TypeOK /\ Vals!SendsEdits /\ Vals!KeepsTheRest
<1>0. ValsTyped /\ ValsSent /\ ValsKeeps
  BY DEF ValsInv
<1>1. Vals!TypeOK
  <2>1. /\ store.version \in FormVersions /\ ui.page \in {"form", "deploying"}
        /\ ui.valuesModified \in BOOLEAN /\ ui.items \in Seq(Values)
    BY <1>0 DEF ValsTyped, ValsStore, ValsUi
  <2>2. /\ DOMAIN ui.values = ValsParams /\ DOMAIN ui.nodes = ValsParams /\ DOMAIN ui.unsaved = ValsParams
        /\ DOMAIN calls = ValsParams /\ DOMAIN past.wanted = ValsParams
    BY <1>0, ValsFunctions DEF ValsTyped, ValsFiles, ValsEdits
  <2> QED
    BY <2>1, <2>2 DEF Vals!TypeOK, ValsParams
<1>2. ASSUME Vals!Sent, Vals!Fresh, NEW p \in ValsParams, p \notin past.spoiled
      PROVE  /\ ValsKept(p) /\ calls[p] = None /\ ui.unsaved[p] = None /\ store.sent = ui.values
  <2>1. ui.unsaved = Vals!NoChanges /\ Vals!InDebounce \subseteq past.spoiled /\ store.sent = ui.values
    BY <1>0, <1>2 DEF ValsSent
  <2> QED
    BY <1>0, <1>2, <2>1 DEF ValsKeeps, Vals!InDebounce, Vals!NoChanges, ValsParams
<1>3. Vals!SendsEdits
  <2>1. ASSUME Vals!Sent, Vals!Fresh, NEW p \in ValsParams, p \notin past.spoiled, past.wanted[p] # None
        PROVE  store.sent[p] = past.wanted[p]
    BY <1>2, <2>1 DEF ValsKept, ValsLatest
  <2> QED
    BY <2>1 DEF Vals!SendsEdits, ValsParams
<1>4. Vals!KeepsTheRest
  <2>1. ASSUME Vals!Sent, Vals!Fresh, NEW p \in ValsParams, p \notin past.spoiled, past.wanted[p] = None
        PROVE  store.sent[p] = Vals!FreshValues(ui.event, past.base)[p]
    BY <1>2, <2>1 DEF ValsKept
  <2> QED
    BY <2>1 DEF Vals!KeepsTheRest, ValsParams
<1> QED
  BY <1>1, <1>3, <1>4

-----------------------------------------------------------------------------
(* The catalog: the invariant is CatInv. *)

CatQueries == [ns : Namespaces, filter : Filters]
CatSlices  == Slices(Cat!Packages, {None}, {}, {None})
CatCalls   == [id : Nat, kind : {"list", "timer", "detail"}, query : CatQueries, token : Nat,
               old : BOOLEAN, gone : BOOLEAN]
CatSeen    == [query : CatQueries, urlFilter : Filters, isFetching : BOOLEAN, finished : BOOLEAN,
               token : Nat, requested : BOOLEAN]
CatUi      == [page : {"catalog", "package"}, ns : Namespaces, urlFilter : Filters, filter : Filters,
               token : Nat, requested : BOOLEAN, loaded : BOOLEAN, fetchingRef : BOOLEAN,
               typing : {Cat!NotRun} \cup [ns : Namespaces, filter : Filters, gone : BOOLEAN],
               seen : {Cat!NotRun} \cup CatSeen]
CatPast    == [moves : Nat, errors : Nat, polluted : BOOLEAN, failed : BOOLEAN, skips : BOOLEAN]

CatCallsOK(cs) ==
    cs \subseteq CatCalls /\ IsFiniteSet(cs) /\ \A c, d \in cs : c.id = d.id => c = d
CatTyped ==
    /\ store \in CatSlices /\ (store.hasFinishedFetching => store.nextPageToken = 0)
    /\ ui \in CatUi /\ past \in CatPast /\ CatCallsOK(calls)

\* Calls for the list that is shown, or will be.
CatNow(c) == ~c.old /\ c.kind # "detail"
CatShows  == Cat!Mounted /\ ui.seen # Cat!NotRun
CatPages  == Cat!Pages(ui.seen.query)

\* A list that was reset is empty, and nobody asked for one.
CatBlank ==
    /\ Cat!Mounted /\ ~CatShows => ui.token = 0
    /\ ~CatShows /\ ~past.polluted =>
          /\ store.items = {} /\ store.nextPageToken = 0 /\ ~store.hasFinishedFetching
          /\ \A c \in calls : ~CatNow(c)

\* What is listed, and asked for, is of the query that was rendered.
CatQuery ==
    CatShows /\ ~past.polluted =>
        /\ store.items \subseteq Cat!All(ui.seen.query)
        /\ \A c \in calls : CatNow(c) => c.query = ui.seen.query

CatErrs == store.selected.error => past.failed

\* One request for it is sent at a time, and its answer will not be ignored.
CatGood == CatShows /\ ~past.polluted /\ ~past.failed
CatAsks ==
    CatGood => \A c \in calls : CatNow(c) /\ c.kind = "list" =>
        store.isFetching /\ \A d \in calls : CatNow(d) /\ d.kind = "list" => d = c

\* The first page is there, or asked for, or will be by the next render.
CatFirst ==
    CatGood => \/ Len(CatPages) = 0
               \/ Len(CatPages) > 0 /\ CatPages[1] \subseteq store.items
               \/ \E c \in calls : CatNow(c) /\ c.token = 0
               \/ /\ ui.token = 0 /\ ~store.hasFinishedFetching
                  /\ ui.seen.finished \/ ui.seen.token # 0

\* The pages from the second to the m-th are there, and nothing is asked for, or will be,
\* that is further on than the next.
CatReach(m) ==
    /\ \A i \in 2..Len(CatPages) : i <= m => CatPages[i] \subseteq store.items
    /\ \A c \in calls : CatNow(c) => c.token <= m
    /\ store.nextPageToken <= m /\ ui.token <= m
    /\ store.hasFinishedFetching => m >= Len(CatPages)
CatSkipped == past.skips /\ Len(CatPages) > 1
CatRest == CatGood /\ ~CatSkipped => \E m \in Nat : m >= 1 /\ CatReach(m)

CatInv == CatTyped /\ CatBlank /\ CatQuery /\ CatErrs /\ CatAsks /\ CatFirst /\ CatRest

LEMMA CatReducers == \* those of the instance are those of the slice
  ASSUME NEW s
  PROVE  /\ Cat!P!requestSelectedAvailablePackageDetail(s) = P!requestSelectedAvailablePackageDetail(s)
         /\ Cat!P!requestAvailablePackageSummaries(s) = P!requestAvailablePackageSummaries(s)
         /\ Cat!P!resetSelectedAvailablePackageDetail(s) = P!resetSelectedAvailablePackageDetail(s)
         /\ Cat!P!resetAvailablePackageSummaries(s) = P!resetAvailablePackageSummaries(s)
         /\ \A a : Cat!P!receiveAvailablePackageSummaries(s, a) = P!receiveAvailablePackageSummaries(s, a)
         /\ Cat!P!createErrorPackage(s) = P!createErrorPackage(s)
         /\ Cat!P!clearErrorPackage(s) = P!clearErrorPackage(s)
         /\ Cat!P!initialState = P!initialState /\ Cat!FirstPage = 0
<1>1. Cat!P!NoSelection = P!NoSelection /\ Cat!P!FirstPage = P!FirstPage
  BY DEF Cat!P!NoSelection, P!NoSelection, Cat!P!FirstPage, P!FirstPage
<1>2. /\ Cat!P!requestSelectedAvailablePackageDetail(s) = P!requestSelectedAvailablePackageDetail(s)
      /\ Cat!P!requestAvailablePackageSummaries(s) = P!requestAvailablePackageSummaries(s)
  BY DEF Cat!P!requestSelectedAvailablePackageDetail, P!requestSelectedAvailablePackageDetail,
         Cat!P!requestAvailablePackageSummaries, P!requestAvailablePackageSummaries
<1>3. /\ Cat!P!resetSelectedAvailablePackageDetail(s) = P!resetSelectedAvailablePackageDetail(s)
      /\ Cat!P!resetAvailablePackageSummaries(s) = P!resetAvailablePackageSummaries(s)
  BY <1>1 DEF Cat!P!resetSelectedAvailablePackageDetail, P!resetSelectedAvailablePackageDetail,
              Cat!P!resetAvailablePackageSummaries, P!resetAvailablePackageSummaries
<1>4. \A a : Cat!P!receiveAvailablePackageSummaries(s, a) = P!receiveAvailablePackageSummaries(s, a)
  BY <1>1 DEF Cat!P!receiveAvailablePackageSummaries, P!receiveAvailablePackageSummaries
<1>5. /\ Cat!P!createErrorPackage(s) = P!createErrorPackage(s)
      /\ Cat!P!clearErrorPackage(s) = P!clearErrorPackage(s)
  BY DEF Cat!P!createErrorPackage, P!createErrorPackage, Cat!P!clearErrorPackage, P!clearErrorPackage
<1>6. Cat!P!initialState = P!initialState /\ Cat!FirstPage = 0
  BY <1>1 DEF Cat!P!initialState, P!initialState, Cat!FirstPage, P!FirstPage
<1> QED
  BY <1>2, <1>3, <1>4, <1>5, <1>6

LEMMA CatPagesAre ==
  ASSUME Cat!ConstantsAssumption, NEW q \in CatQueries
  PROVE  /\ Len(Cat!Pages(q)) \in Nat /\ Cat!All(q) \subseteq Cat!Packages
         /\ \A i \in 1..Len(Cat!Pages(q)) : Cat!Pages(q)[i] \subseteq Cat!All(q)
<1>1. Cat!Pages(q) = Listing[q.ns][q.filter] /\ q.ns \in Namespaces /\ q.filter \in Filters
  BY DEF Cat!Pages, CatQueries
<1>2. Cat!Pages(q) \in Seq(SUBSET Cat!Packages)
  BY <1>1 DEF Cat!ConstantsAssumption
<1> DEFINE pg == Cat!Pages(q)
<1> HIDE DEF pg
<1>3. Cat!All(q) = UNION {pg[i] : i \in 1..Len(pg)}
  BY DEF Cat!All, pg
<1>4. Len(pg) \in Nat /\ \A i \in 1..Len(pg) : pg[i] \subseteq Cat!Packages
  BY <1>2 DEF pg
<1>5. Cat!All(q) \subseteq Cat!Packages /\ \A i \in 1..Len(pg) : pg[i] \subseteq Cat!All(q)
  BY <1>3, <1>4
<1> QED
  BY <1>4, <1>5 DEF pg

LEMMA CatAnswers ==
  ASSUME Cat!ConstantsAssumption, NEW q \in CatQueries, NEW token \in Nat
  PROVE  LET a == Cat!Answer(q, token)
         IN /\ a.items \subseteq Cat!All(q) /\ a.items \subseteq Cat!Packages /\ a.next \in Nat
            /\ token < Len(Cat!Pages(q)) => a.items = Cat!Pages(q)[token + 1]
            /\ IF token + 1 < Len(Cat!Pages(q)) THEN a.next = token + 1 ELSE a.next = 0
<1> DEFINE a == Cat!Answer(q, token)
<1>1. /\ Len(Cat!Pages(q)) \in Nat /\ Cat!All(q) \subseteq Cat!Packages
      /\ \A i \in 1..Len(Cat!Pages(q)) : Cat!Pages(q)[i] \subseteq Cat!All(q)
  BY CatPagesAre
<1>2. /\ a.items = IF token < Len(Cat!Pages(q)) THEN Cat!Pages(q)[token + 1] ELSE {}
      /\ a.next = IF token + 1 < Len(Cat!Pages(q)) THEN token + 1 ELSE 0
  BY CatReducers DEF Cat!Answer
<1> HIDE DEF a
<1>3. token < Len(Cat!Pages(q)) => token + 1 \in 1..Len(Cat!Pages(q))
  BY <1>1
<1>4. a.items \subseteq Cat!All(q)
  BY <1>1, <1>2, <1>3
<1> QED
  BY <1>1, <1>2, <1>4 DEF a

LEMMA CatFetched ==
  ASSUME NEW s \in CatSlices
  PROVE  LET t == Cat!Fetched(s)
         IN /\ t \in CatSlices /\ t.items = s.items /\ t.nextPageToken = s.nextPageToken
            /\ s.isFetching => ~t.isFetching /\ ~t.hasFinishedFetching /\ t.selected.error
            /\ ~s.isFetching => /\ t.isFetching /\ t.hasFinishedFetching = s.hasFinishedFetching
                                /\ t.selected = s.selected
<1>1. CASE s.isFetching
  <2>1. Cat!Fetched(s) = P!createErrorPackage(s)
    BY <1>1, CatReducers DEF Cat!Fetched
  <2> QED
    BY <1>1, <2>1, SliceErrs DEF CatSlices
<1>2. CASE ~s.isFetching
  <2>1. Cat!Fetched(s) = P!requestSelectedAvailablePackageDetail(s)
    BY <1>2, CatReducers, SliceRequests DEF Cat!Fetched, CatSlices
  <2> QED
    BY <1>2, <2>1, SliceRequests DEF CatSlices, SameList
<1> QED
  BY <1>1, <1>2

LEMMA CatResets ==
  ASSUME NEW s \in CatSlices
  PROVE  LET t == P!resetSelectedAvailablePackageDetail(s)
         IN t \in CatSlices /\ SameList(s, t) /\ t.isFetching = s.isFetching
            /\ t.selected = P!NoSelection
BY DEF P!resetSelectedAvailablePackageDetail, P!NoSelection, CatSlices, Slices, Selections, SameList

LEMMA CatFresh ==
  ASSUME CatCallsOK(calls)
  PROVE  Cat!FreeId \in Nat /\ \A c \in calls : c.id # Cat!FreeId
<1>1. Cat!Cardinality(calls) = Cardinality(calls)
  BY DEF Cat!Cardinality, Cardinality
<1>2. /\ \E i \in 1..(Cardinality(calls) + 1) : \A c \in calls : c.id # i
      /\ Cardinality(calls) \in Nat
  BY FreeIdExists DEF CatCallsOK
<1> DEFINE I == 1..(Cardinality(calls) + 1)
           Free(i) == \A c \in calls : c.id # i
<1>3. Cat!FreeId = CHOOSE i \in I : Free(i)
  BY <1>1 DEF Cat!FreeId
<1>4. (\E i \in I : Free(i)) /\ I \subseteq Nat
  BY <1>2
<1> HIDE DEF I
<1>5. Cat!FreeId \in I /\ Free(Cat!FreeId)
  BY <1>3, <1>4
<1> QED
  BY <1>4, <1>5

\* One more call.
LEMMA CatCalled ==
  ASSUME CatCallsOK(calls), NEW kind \in {"list", "timer", "detail"}, NEW q \in CatQueries, NEW token \in Nat,
         NEW cs, CatCallsOK(cs), \A c \in cs : \E d \in calls : c.id = d.id
  PROVE  LET k == Cat!Call(kind, q, token)
         IN /\ CatCallsOK(cs \cup {k}) /\ k.kind = kind /\ k.query = q /\ k.token = token /\ ~k.old
<1> DEFINE k == Cat!Call(kind, q, token)
<1>1. k \in CatCalls /\ k.id = Cat!FreeId /\ k.kind = kind /\ k.query = q /\ k.token = token /\ ~k.old
  BY CatFresh DEF Cat!Call, CatCalls
<1> HIDE DEF k
<1>2. \A c \in cs : c.id # k.id
  BY <1>1, CatFresh
<1>3. IsFiniteSet(cs \cup {k})
  BY FS_AddElement DEF CatCallsOK
<1>4. \A c, d \in cs \cup {k} : c.id = d.id => c = d
  BY <1>2 DEF CatCallsOK
<1> QED
  BY <1>1, <1>3, <1>4 DEF CatCallsOK, k

\* Calls that are let go.
LEMMA CatAged ==
  ASSUME NEW cs, CatCallsOK(cs), NEW ds, ds \in {Cat!Age(cs), Cat!Leave(cs)}
  PROVE  CatCallsOK(ds) /\ \A c \in ds : c.old /\ \E d \in cs : c.id = d.id
<1> DEFINE g(c) == IF ds = Cat!Age(cs) THEN [c EXCEPT !.old = TRUE] ELSE [c EXCEPT !.old = TRUE, !.gone = TRUE]
<1>1. ds = {g(c) : c \in cs}
  BY ZenonT(120) DEF Cat!Age, Cat!Leave
<1>2. \A c \in cs : g(c) \in CatCalls /\ g(c).id = c.id /\ g(c).old
  BY DEF CatCallsOK, CatCalls
<1>3. IsFiniteSet(ds)
  <2> DEFINE f == [c \in cs |-> g(c)]
  <2>1. f \in Surjection(cs, ds)
    <3>1. f \in [cs -> ds] /\ \A d \in ds : \E c \in cs : f[c] = d
      BY <1>1
    <3> QED
      BY <3>1 DEF Surjection
  <2> QED
    BY <2>1, FS_Surjection DEF CatCallsOK
<1> HIDE DEF g
<1>4. \A c, d \in ds : c.id = d.id => c = d
  <2> SUFFICES ASSUME NEW c \in ds, NEW d \in ds, c.id = d.id PROVE c = d
    OBVIOUS
  <2>1. PICK c0 \in cs : c = g(c0)
    BY <1>1
  <2>2. PICK d0 \in cs : d = g(d0)
    BY <1>1
  <2>3. c0.id = d0.id
    BY <1>2, <2>1, <2>2
  <2> QED
    BY <2>1, <2>2, <2>3 DEF CatCallsOK
<1> QED
  BY <1>1, <1>2, <1>3, <1>4 DEF CatCallsOK

\* Calls that end, or go from the timer to the server.
LEMMA CatEnds ==
  ASSUME CatCallsOK(calls), NEW c \in calls
  PROVE  /\ CatCallsOK(calls \ {c})
         /\ LET k == [c EXCEPT !.kind = "list"]
            IN /\ CatCallsOK((calls \ {c}) \cup {k}) /\ k.kind = "list" /\ k.query = c.query
               /\ k.token = c.token /\ k.old = c.old
<1> DEFINE k == [c EXCEPT !.kind = "list"]
<1>1. k \in CatCalls /\ k.kind = "list" /\ k.query = c.query /\ k.token = c.token /\ k.old = c.old /\ k.id = c.id
  BY DEF CatCallsOK, CatCalls
<1> HIDE DEF k
<1>2. CatCallsOK(calls \ {c})
  <2>1. IsFiniteSet(calls \ {c})
    BY FS_Subset DEF CatCallsOK
  <2> QED
    BY <2>1 DEF CatCallsOK
<1>3. IsFiniteSet((calls \ {c}) \cup {k})
  BY <1>2, FS_AddElement DEF CatCallsOK
<1>4. CatCallsOK((calls \ {c}) \cup {k})
  BY <1>1, <1>2, <1>3 DEF CatCallsOK
<1> QED
  BY <1>1, <1>2, <1>4 DEF k

LEMMA CatRenderedIs ==
  ASSUME CatTyped
  PROVE  /\ Cat!Query \in CatQueries /\ Cat!Rendered \in CatSeen
         /\ \A r \in CatSeen : r # Cat!NotRun
<1>1. Cat!Query \in CatQueries
  BY DEF Cat!Query, CatQueries, CatTyped, CatUi
<1>2. Cat!Rendered \in CatSeen
  BY <1>1 DEF Cat!Rendered, CatSeen, CatTyped, CatUi, CatSlices, Slices
<1>3. ASSUME NEW r \in CatSeen PROVE r # Cat!NotRun
  <2>1. DOMAIN r = {"query", "urlFilter", "isFetching", "finished", "token", "requested"}
    BY DEF CatSeen
  <2>2. DOMAIN Cat!NotRun = {"query"}
    BY DEF Cat!NotRun
  <2>3. "token" # "query"
    OBVIOUS
  <2> QED
    BY <2>1, <2>2, <2>3
<1> QED
  BY <1>1, <1>2, <1>3

LEMMA CatIdle ==
  ASSUME CatTyped, Cat!Idle, Cat!Mounted
  PROVE  /\ CatShows /\ ui.seen.query = Cat!Query /\ ui.seen.query \in CatQueries
         /\ ui.seen.finished = store.hasFinishedFetching /\ ui.seen.token = ui.token
<1>1. ui.seen = Cat!Rendered
  BY DEF Cat!Idle
<1> QED
  BY <1>1, CatRenderedIs DEF CatShows, Cat!Rendered

\* What the user types and pushes changes nothing yet.
LEMMA CatSame ==
  ASSUME CatInv, ui' \in CatUi, past' \in CatPast, UNCHANGED <<store, calls>>,
         ui'.page = ui.page, ui'.seen = ui.seen, ui'.token = ui.token,
         past'.polluted = past.polluted, past'.failed = past.failed, past'.skips = past.skips
  PROVE  CatInv'
<1>1. CatTyped' /\ CatBlank' /\ CatErrs'
  BY DEF CatInv, CatTyped, CatBlank, CatErrs, CatShows, Cat!Mounted
<1>2. CatQuery' /\ CatAsks'
  BY DEF CatInv, CatQuery, CatAsks, CatGood, CatShows, Cat!Mounted, Cat!All, Cat!Pages
<1>3. CatFirst' /\ CatRest'
  BY DEF CatInv, CatFirst, CatRest, CatReach, CatSkipped, CatPages, CatGood, CatShows, Cat!Mounted, Cat!Pages
<1> QED
  BY <1>1, <1>2, <1>3 DEF CatInv

LEMMA CatMounts ==
  ASSUME CatInv, ~Cat!Mounted, ui' \in CatUi, past' \in CatPast, UNCHANGED <<store, calls>>,
         ui'.page = "catalog", ui'.seen = Cat!NotRun, ui'.token = 0,
         past'.polluted = past.polluted, past'.failed = past.failed
  PROVE  CatInv'
<1>1. ~CatShows /\ ~CatShows'
  BY DEF CatShows, Cat!NotRun
<1>2. CatTyped' /\ CatBlank' /\ CatErrs'
  BY <1>1 DEF CatInv, CatTyped, CatBlank, CatErrs
<1>3. CatQuery' /\ CatAsks' /\ CatFirst' /\ CatRest'
  BY <1>1 DEF CatQuery, CatAsks, CatFirst, CatRest, CatGood
<1> QED
  BY <1>2, <1>3 DEF CatInv

LEMMA CatMountIs ==
  ASSUME CatTyped, NEW n \in Namespaces, NEW f \in Filters, Cat!ConstantsAssumption
  PROVE  LET t == Cat!Mount("catalog", n, f)
         IN t \in CatUi /\ t.page = "catalog" /\ t.seen = Cat!NotRun /\ t.token = 0
<1> DEFINE t == Cat!Mount("catalog", n, f)
<1>1. Cat!FirstPage = 0 /\ NoFilter \in Filters
  BY CatReducers DEF Cat!ConstantsAssumption
<1>2. store.isFetching \in BOOLEAN
  BY DEF CatTyped, CatSlices, Slices
<1>3. ui.typing \in {Cat!NotRun} \cup [ns : Namespaces, filter : Filters, gone : BOOLEAN]
  BY DEF CatTyped, CatUi
<1>4. t = [page |-> "catalog", ns |-> n, urlFilter |-> f, filter |-> NoFilter, token |-> 0,
           requested |-> FALSE, loaded |-> FALSE, fetchingRef |-> store.isFetching,
           typing |-> ui.typing, seen |-> Cat!NotRun]
  BY <1>1 DEF Cat!Mount
<1> HIDE DEF t
<1> QED
  <2>1. t \in CatUi
    BY <1>1, <1>2, <1>3, <1>4 DEF CatUi
  <2>2. t.page = "catalog" /\ t.seen = Cat!NotRun /\ t.token = 0
    BY <1>4
  <2> QED
    BY <2>1, <2>2 DEF t

LEMMA CatBack ==
  ASSUME CatInv, Cat!ConstantsAssumption, NEW f \in Filters, Cat!Back(f) PROVE CatInv'
<1>1. /\ ~Cat!Mounted /\ ui' = Cat!Mount("catalog", ui.ns, f) /\ UNCHANGED <<store, calls>>
      /\ past' = [past EXCEPT !.moves = past.moves + 1]
  BY DEF Cat!Back
<1>2. CatTyped /\ ui.ns \in Namespaces
  BY DEF CatInv, CatTyped, CatUi
<1>3. ui' \in CatUi /\ ui'.page = "catalog" /\ ui'.seen = Cat!NotRun /\ ui'.token = 0
  BY <1>1, <1>2, CatMountIs
<1>4. past' \in CatPast /\ past'.polluted = past.polluted /\ past'.failed = past.failed
  BY <1>1, <1>2 DEF CatTyped, CatPast
<1> QED
  BY <1>1, <1>3, <1>4, CatMounts

LEMMA CatTypingEnds ==
  ASSUME CatInv, Cat!ConstantsAssumption, Cat!TypingEnds PROVE CatInv'
<1>0. CatTyped
  BY DEF CatInv
<1> DEFINE w == ui.typing
<1>1. w \in [ns : Namespaces, filter : Filters, gone : BOOLEAN] /\ UNCHANGED <<store, calls, past>>
  BY <1>0 DEF Cat!TypingEnds, CatTyped, CatUi
<1>2. CASE Cat!Mounted
  <2> DEFINE f == IF w.gone THEN ui.filter ELSE w.filter
  <2>1. ui' = [ui EXCEPT !.ns = w.ns, !.urlFilter = w.filter, !.filter = f, !.typing = Cat!NotRun]
    BY <1>0, <1>2 DEF Cat!TypingEnds, CatTyped, CatUi
  <2>2. f \in Filters
    BY <1>0, <1>1 DEF CatTyped, CatUi
  <2> HIDE DEF f
  <2>3. ui' \in CatUi /\ ui'.page = ui.page /\ ui'.seen = ui.seen /\ ui'.token = ui.token
    BY <1>0, <1>1, <2>1, <2>2 DEF CatTyped, CatUi
  <2> QED
    BY <1>0, <1>1, <2>3, CatSame DEF CatTyped
<1>3. CASE ~Cat!Mounted
  <2> DEFINE t == Cat!Mount("catalog", w.ns, w.filter)
  <2>1. t \in CatUi /\ t.page = "catalog" /\ t.seen = Cat!NotRun /\ t.token = 0
    BY <1>0, <1>1, CatMountIs
  <2>2. ui' = [t EXCEPT !.typing = Cat!NotRun]
    BY <1>3 DEF Cat!TypingEnds
  <2> HIDE DEF t
  <2>3. ui' \in CatUi /\ ui'.page = "catalog" /\ ui'.seen = Cat!NotRun /\ ui'.token = 0
    BY <2>1, <2>2 DEF CatUi
  <2> QED
    BY <1>0, <1>1, <1>3, <2>3, CatMounts DEF CatTyped
<1> QED
  BY <1>2, <1>3

LEMMA CatPushes ==
  ASSUME CatInv, NEW f \in Filters, Cat!Type(f) \/ \E n \in Namespaces : Cat!pushFilters(n, f)
  PROVE  CatInv'
<1>0. ui \in CatUi /\ past \in CatPast /\ ui.ns \in Namespaces
  BY DEF CatInv, CatTyped, CatUi
<1>1. past' = [past EXCEPT !.moves = past.moves + 1] /\ UNCHANGED <<store, calls>>
  BY DEF Cat!Type, Cat!pushFilters
<1>2. /\ past' \in CatPast /\ past'.polluted = past.polluted /\ past'.failed = past.failed
      /\ past'.skips = past.skips
  BY <1>0, <1>1 DEF CatPast
<1>3. ui' \in CatUi /\ ui'.page = ui.page /\ ui'.seen = ui.seen /\ ui'.token = ui.token
  <2>1. CASE Cat!Type(f)
    <3> DEFINE w == [ns |-> ui.ns, filter |-> f, gone |-> FALSE]
    <3>1. w \in [ns : Namespaces, filter : Filters, gone : BOOLEAN]
      BY <1>0
    <3>2. ui' = [ui EXCEPT !.typing = w]
      BY <2>1 DEF Cat!Type
    <3> HIDE DEF w
    <3> QED
      BY <1>0, <3>1, <3>2 DEF CatUi
  <2>2. CASE \E n \in Namespaces : Cat!pushFilters(n, f)
    BY <1>0, <2>2, ZenonT(60) DEF Cat!pushFilters, CatUi
  <2> QED
    BY <2>1, <2>2
<1> QED
  BY <1>1, <1>2, <1>3, CatSame

LEMMA CatScroll ==
  ASSUME CatInv, Cat!Scroll PROVE CatInv'
<1>0. CatTyped /\ CatBlank /\ CatQuery /\ CatErrs /\ CatAsks /\ CatFirst /\ CatRest
  BY DEF CatInv
<1>1. /\ Cat!Idle /\ Cat!Mounted /\ ui' = [ui EXCEPT !.token = store.nextPageToken]
      /\ UNCHANGED <<store, calls, past>>
  BY DEF Cat!Scroll
<1>2. CatShows /\ ui.seen.finished = store.hasFinishedFetching /\ ui.seen.token = ui.token
  BY <1>0, <1>1, CatIdle
<1>3. /\ ui' \in CatUi /\ ui'.page = ui.page /\ ui'.seen = ui.seen /\ ui'.token = store.nextPageToken
  BY <1>0, <1>1 DEF CatTyped, CatUi, CatSlices, Slices
<1>4. CatTyped' /\ CatErrs'
  BY <1>0, <1>1, <1>3 DEF CatTyped, CatErrs
<1>5. CatShows' /\ CatBlank' /\ CatGood' = CatGood /\ CatPages' = CatPages /\ CatSkipped' = CatSkipped
  BY <1>1, <1>2, <1>3 DEF CatShows, CatBlank, CatGood, CatPages, CatSkipped, Cat!Mounted, Cat!Pages
<1>6. CatQuery' /\ CatAsks'
  <2>1. Cat!All(ui.seen.query)' = Cat!All(ui.seen.query)
    BY <1>3 DEF Cat!All, Cat!Pages
  <2>2. CatQuery'
    BY <1>0, <1>1, <1>2, <1>3, <1>5, <2>1 DEF CatQuery
  <2>3. CatAsks'
    BY <1>0, <1>1, <1>5 DEF CatAsks
  <2> QED
    BY <2>2, <2>3
<1>7. CatFirst'
  BY <1>0, <1>1, <1>2, <1>5 DEF CatFirst
<1>8. CatRest'
  <2> SUFFICES ASSUME CatGood, ~CatSkipped PROVE \E m \in Nat : m >= 1 /\ CatReach(m)'
    BY <1>5 DEF CatRest
  <2>1. PICK m \in Nat : m >= 1 /\ CatReach(m)
    BY <1>0 DEF CatRest
  <2>2. CatReach(m)'
    BY <1>1, <1>3, <1>5, <2>1 DEF CatReach
  <2> QED
    BY <2>1, <2>2
<1> QED
  BY <1>4, <1>5, <1>6, <1>7, <1>8 DEF CatInv

\* A request that ends, and leaves the list as it is; a failure spoils what is shown.
LEMMA CatLoses ==
  ASSUME CatInv, NEW c \in calls, calls' = calls \ {c}, ui' = ui,
         store' \in CatSlices, store'.items = store.items, store'.nextPageToken = store.nextPageToken,
         store'.hasFinishedFetching => store.hasFinishedFetching, past' \in CatPast,
         store'.selected.error => past'.failed, past.polluted => past'.polluted,
         past.failed => past'.failed, past'.skips = past.skips,
         CatShows => past'.polluted \/ past'.failed \/ (store' = store /\ ~CatNow(c))
  PROVE  CatInv'
<1>0. CatTyped /\ CatBlank /\ CatQuery /\ CatErrs /\ CatAsks /\ CatFirst /\ CatRest
  BY DEF CatInv
<1>1. CatCallsOK(calls')
  BY <1>0, CatEnds DEF CatTyped
<1>2. CatTyped' /\ CatErrs'
  BY <1>0, <1>1 DEF CatTyped, CatErrs
<1>3. CatShows' = CatShows /\ CatPages' = CatPages /\ CatSkipped' = CatSkipped
  BY DEF CatShows, CatPages, CatSkipped, Cat!Mounted, Cat!Pages
<1>4. CatBlank' /\ CatQuery'
  BY <1>0, <1>3 DEF CatBlank, CatQuery, Cat!Mounted, Cat!All, Cat!Pages
<1>5. CatGood' => CatGood /\ store' = store /\ ~CatNow(c)
  BY <1>3 DEF CatGood
<1>6. CatAsks' /\ CatFirst'
  BY <1>0, <1>3, <1>5 DEF CatAsks, CatFirst
<1>7. CatRest'
  <2> SUFFICES ASSUME CatGood', ~CatSkipped PROVE \E m \in Nat : m >= 1 /\ CatReach(m)'
    BY <1>3 DEF CatRest
  <2>1. PICK m \in Nat : m >= 1 /\ CatReach(m)
    BY <1>0, <1>5 DEF CatRest
  <2>2. CatReach(m)'
    BY <1>3, <1>5, <2>1 DEF CatReach
  <2> QED
    BY <2>1, <2>2
<1> QED
  BY <1>2, <1>4, <1>6, <1>7 DEF CatInv

LEMMA CatDetailAnswered ==
  ASSUME CatInv, NEW c \in calls, Cat!DetailAnswered(c) PROVE CatInv'
<1>0. CatTyped /\ CatErrs /\ store \in CatSlices /\ past \in CatPast
  BY DEF CatInv, CatTyped
<1>1. /\ c.kind = "detail" /\ calls' = calls \ {c} /\ ui' = ui
      /\ store' = [store EXCEPT !.isFetching = FALSE]
      /\ past' = [past EXCEPT !.polluted = past.polluted \/ (Cat!Mounted /\ store.isFetching)]
  BY DEF Cat!DetailAnswered
<1>2. store' \in CatSlices /\ SameList(store, store') /\ store'.selected = store.selected
  BY <1>0, <1>1, SliceEnds DEF CatSlices
<1>3. /\ past' \in CatPast /\ past'.failed = past.failed /\ past'.skips = past.skips
      /\ past'.polluted = (past.polluted \/ (Cat!Mounted /\ store.isFetching))
  BY <1>0, <1>1 DEF CatPast
<1>4. ~store.isFetching => store' = store
  BY <1>0, <1>1 DEF CatSlices, Slices
<1>5. CatShows => past'.polluted \/ past'.failed \/ (store' = store /\ ~CatNow(c))
  BY <1>1, <1>3, <1>4 DEF CatShows, CatNow
<1> QED
  BY <1>0, <1>1, <1>2, <1>3, <1>5, CatLoses DEF SameList, CatErrs

LEMMA CatCallFails ==
  ASSUME CatInv, NEW c \in calls, Cat!CallFails(c) PROVE CatInv'
<1>0. CatTyped /\ store \in CatSlices /\ past \in CatPast
  BY DEF CatInv, CatTyped
<1>1. /\ calls' = calls \ {c} /\ ui' = ui /\ store' = P!createErrorPackage(store)
      /\ past' = [past EXCEPT !.errors = past.errors + 1, !.failed = TRUE]
  BY CatReducers DEF Cat!CallFails
<1>2. /\ store' \in CatSlices /\ store'.items = store.items /\ store'.nextPageToken = store.nextPageToken
      /\ ~store'.hasFinishedFetching
  BY <1>0, <1>1, SliceErrs DEF CatSlices
<1>3. past' \in CatPast /\ past'.failed /\ past'.skips = past.skips /\ past'.polluted = past.polluted
  <2>1. past.errors + 1 \in Nat
    BY <1>0 DEF CatPast
  <2> QED
    BY <1>0, <1>1, <2>1 DEF CatPast
<1> QED
  BY <1>1, <1>2, <1>3, CatLoses

LEMMA CatListAnswered ==
  ASSUME CatInv, Cat!ConstantsAssumption, NEW c \in calls, Cat!ListAnswered(c) PROVE CatInv'
<1>0. CatTyped /\ CatBlank /\ CatQuery /\ CatErrs /\ CatAsks /\ CatFirst /\ CatRest
      /\ store \in CatSlices /\ past \in CatPast /\ c \in CatCalls
  BY DEF CatInv, CatTyped, CatCallsOK
<1> DEFINE a == Cat!Answer(c.query, c.token)
<1>1. /\ Cat!Idle /\ c.kind = "list" /\ calls' = calls \ {c} /\ ui' = ui
      /\ store' = P!receiveAvailablePackageSummaries(store, a)
      /\ past' = [past EXCEPT !.polluted = past.polluted \/ (c.old /\ store.isFetching)]
  BY CatReducers DEF Cat!ListAnswered
<1>2. c.query \in CatQueries /\ c.token \in Nat
  BY <1>0 DEF CatCalls
<1>3. /\ a.items \subseteq Cat!All(c.query) /\ a.items \subseteq Cat!Packages /\ a.next \in Nat
      /\ c.token < Len(Cat!Pages(c.query)) => a.items = Cat!Pages(c.query)[c.token + 1]
      /\ IF c.token + 1 < Len(Cat!Pages(c.query)) THEN a.next = c.token + 1 ELSE a.next = 0
  BY <1>2, CatAnswers
<1> HIDE DEF a
<1>4. /\ store' \in CatSlices /\ store'.selected = store.selected
      /\ store.isFetching => /\ store'.hasFinishedFetching = (a.next = 0)
                             /\ store'.nextPageToken = a.next /\ store'.items = store.items \cup a.items
      /\ ~store.isFetching => store' = store
  <2>1. LET t == P!receiveAvailablePackageSummaries(store, a)
        IN t \in CatSlices /\ t.selected = store.selected /\ ~t.isFetching
           /\ IF store.isFetching THEN /\ t.hasFinishedFetching = (a.next = 0)
                                       /\ t.nextPageToken = a.next /\ t.items = store.items \cup a.items
                                  ELSE t = store
    <3>1. store \in Slices(Cat!Packages, {None}, {}, {None}) /\ a.items \subseteq Cat!Packages /\ a.next \in Nat
      BY <1>0, <1>3 DEF CatSlices
    <3> QED
      BY <3>1, SliceOfAnswers DEF CatSlices
  <2> QED
    BY <1>1, <2>1
<1>5. /\ past' \in CatPast /\ past'.failed = past.failed /\ past'.skips = past.skips
      /\ past'.polluted = (past.polluted \/ (c.old /\ store.isFetching))
  BY <1>0, <1>1 DEF CatPast
<1>6. CASE ~store.isFetching
  <2>1. CatShows => past'.polluted \/ past'.failed \/ (store' = store /\ ~CatNow(c))
    BY <1>0, <1>1, <1>4, <1>5, <1>6 DEF CatGood, CatAsks
  <2> QED
    BY <1>0, <1>1, <1>4, <1>5, <1>6, <2>1, CatLoses DEF CatErrs
<1>7. CASE store.isFetching
  <2>1. CatCallsOK(calls')
    BY <1>0, <1>1, CatEnds DEF CatTyped
  <2>2. CatTyped' /\ CatErrs'
    BY <1>0, <1>1, <1>4, <1>5, <1>7, <2>1 DEF CatTyped, CatErrs
  <2>3. CatShows' = CatShows /\ CatPages' = CatPages /\ CatSkipped' = CatSkipped /\ Cat!Mounted' = Cat!Mounted
    BY <1>1, <1>5 DEF CatShows, CatPages, CatSkipped, Cat!Mounted, Cat!Pages
  <2>4. ~past'.polluted => ~past.polluted /\ CatNow(c)
    BY <1>1, <1>5, <1>7 DEF CatNow
  <2>5. CatShows \/ past'.polluted
    BY <1>0, <2>4 DEF CatBlank
  <2>6. CatBlank'
    BY <1>0, <1>1, <2>3, <2>5 DEF CatBlank
  <2>7. ~past'.polluted => c.query = ui.seen.query
    BY <1>0, <2>4, <2>5 DEF CatQuery
  <2>8. CatQuery'
    <3> SUFFICES ASSUME CatShows, ~past'.polluted
                 PROVE  /\ store'.items \subseteq Cat!All(ui.seen.query)
                        /\ \A d \in calls' : CatNow(d) => d.query = ui.seen.query
      BY <1>1, <2>3 DEF CatQuery, Cat!All, Cat!Pages, CatNow
    <3> QED
      BY <1>0, <1>1, <1>3, <1>4, <1>7, <2>4, <2>7, SMTT(60) DEF CatQuery
  <2>9. CatGood' => CatGood /\ CatNow(c) /\ CatPages = Cat!Pages(c.query)
    BY <1>5, <2>3, <2>4, <2>7 DEF CatGood, CatPages
  <2>10. CatAsks'
    BY <1>0, <1>1, <2>9 DEF CatAsks, CatNow
  <2>11. CatFirst'
    <3> SUFFICES ASSUME CatGood'
                 PROVE  \/ Len(CatPages) = 0
                        \/ Len(CatPages) > 0 /\ CatPages[1] \subseteq store'.items
                        \/ \E d \in calls' : CatNow(d) /\ d.token = 0
      BY <1>1, <2>3 DEF CatFirst, CatNow
    <3>1. CatGood /\ CatPages = Cat!Pages(c.query) /\ ui.seen.query \in CatQueries
      BY <1>0, <1>1, <2>5, <2>9, CatIdle DEF CatGood, CatShows
    <3>2. Len(CatPages) \in Nat
      BY <3>1, CatPagesAre DEF CatPages
    <3>3. ~(ui.seen.finished # store.hasFinishedFetching) /\ ui.seen.token = ui.token
      BY <1>0, <1>1, <3>1, CatIdle DEF CatGood, CatShows
    <3>4. CASE c.token = 0
      BY <1>3, <1>4, <1>7, <3>1, <3>2, <3>4
    <3>5. CASE c.token # 0
      BY <1>0, <1>1, <1>4, <1>7, <3>1, <3>3, <3>5 DEF CatFirst
    <3> QED
      BY <3>4, <3>5
  <2>12. CatRest'
    <3> SUFFICES ASSUME CatGood', ~CatSkipped PROVE \E m \in Nat : m >= 1 /\ CatReach(m)'
      BY <2>3 DEF CatRest
    <3>1. CatGood /\ CatNow(c) /\ CatPages = Cat!Pages(c.query) /\ ui.seen.query \in CatQueries
      BY <1>0, <1>1, <2>5, <2>9, CatIdle DEF CatGood, CatShows
    <3>2. Len(CatPages) \in Nat
      BY <3>1, CatPagesAre DEF CatPages
    <3>3. PICK m \in Nat : m >= 1 /\ CatReach(m)
      BY <1>0, <3>1 DEF CatRest
    <3> DEFINE n == IF c.token = m THEN m + 1 ELSE m
    <3>4. c.token <= m
      BY <3>1, <3>3 DEF CatReach
    <3>5. n \in Nat /\ n >= 1 /\ n >= m /\ c.token + 1 <= n
      BY <1>2, <3>3, <3>4
    <3>6. \A i \in 2..Len(CatPages) : i <= n => CatPages[i] \subseteq store'.items
      <4> SUFFICES ASSUME NEW i \in 2..Len(CatPages), i <= n PROVE CatPages[i] \subseteq store'.items
        OBVIOUS
      <4>1. CASE i <= m
        BY <1>4, <1>7, <3>3, <4>1 DEF CatReach
      <4>2. CASE ~(i <= m)
        <5>1. i = m + 1 /\ c.token = m /\ c.token < Len(CatPages)
          BY <3>2, <3>3, <4>2
        <5> QED
          BY <1>3, <1>4, <1>7, <3>1, <5>1
      <4> QED
        BY <4>1, <4>2
    <3>7. store'.nextPageToken <= n /\ (store'.hasFinishedFetching => n >= Len(CatPages))
      <4>1. /\ store'.nextPageToken = a.next /\ store'.hasFinishedFetching = (a.next = 0)
            /\ IF c.token + 1 < Len(CatPages) THEN a.next = c.token + 1 ELSE a.next = 0
        BY <1>3, <1>4, <1>7, <3>1
      <4> HIDE DEF n
      <4>2. CASE c.token + 1 < Len(CatPages)
        <5>1. a.next = c.token + 1 /\ a.next # 0
          BY <1>2, <4>1, <4>2
        <5> QED
          BY <3>5, <4>1, <5>1
      <4>3. CASE ~(c.token + 1 < Len(CatPages))
        BY <1>2, <3>2, <3>5, <4>1, <4>3
      <4> QED
        BY <4>2, <4>3
    <3>8. ui.token <= n /\ \A d \in calls' : CatNow(d) => d.token <= n
      <4>1. ui.token \in Nat /\ \A d \in calls' : d.token \in Nat
        BY <1>0, <1>1 DEF CatTyped, CatUi, CatCallsOK, CatCalls
      <4> QED
        BY <1>1, <3>3, <3>5, <4>1 DEF CatReach
    <3> HIDE DEF n
    <3>9. CatReach(n)'
      BY <1>1, <2>3, <3>6, <3>7, <3>8 DEF CatReach, CatNow
    <3> QED
      BY <3>5, <3>9
  <2> QED
    BY <2>2, <2>6, <2>8, <2>10, <2>11, <2>12 DEF CatInv
<1> QED
  BY <1>6, <1>7

LEMMA CatTimeoutEnds ==
  ASSUME CatInv, NEW c \in calls, Cat!TimeoutEnds(c) PROVE CatInv'
<1>0. CatTyped /\ CatBlank /\ CatQuery /\ CatErrs /\ CatAsks /\ CatFirst /\ CatRest
      /\ store \in CatSlices /\ past \in CatPast /\ ui \in CatUi
  BY DEF CatInv, CatTyped
<1> DEFINE k == [c EXCEPT !.kind = "list"]
           r == IF c.gone THEN ui.fetchingRef ELSE FALSE
<1>1. /\ Cat!Idle /\ c.kind = "timer" /\ ui' = [ui EXCEPT !.fetchingRef = r]
      /\ store' = Cat!Fetched(store)
      /\ calls' = (calls \ {c}) \cup (IF store.isFetching THEN {} ELSE {k})
      /\ past' = [past EXCEPT !.failed = past.failed \/ store.isFetching]
  BY DEF Cat!TimeoutEnds
<1>2. /\ CatCallsOK(calls \ {c}) /\ CatCallsOK((calls \ {c}) \cup {k}) /\ k.kind = "list"
      /\ k.query = c.query /\ k.token = c.token /\ k.old = c.old
  BY <1>0, CatEnds DEF CatTyped
<1> HIDE DEF k
<1>3. ui' \in CatUi /\ ui'.page = ui.page /\ ui'.seen = ui.seen /\ ui'.token = ui.token
  <2>1. r \in BOOLEAN
    BY <1>0 DEF CatUi
  <2> HIDE DEF r
  <2> QED
    BY <1>0, <1>1, <2>1 DEF CatUi
<1>4. /\ store' \in CatSlices /\ store'.items = store.items /\ store'.nextPageToken = store.nextPageToken
      /\ store.isFetching => ~store'.isFetching /\ ~store'.hasFinishedFetching
      /\ ~store.isFetching => /\ store'.isFetching /\ store'.hasFinishedFetching = store.hasFinishedFetching
                              /\ store'.selected = store.selected
  BY <1>0, <1>1, CatFetched
<1>5. /\ past' \in CatPast /\ past'.failed = (past.failed \/ store.isFetching)
      /\ past'.polluted = past.polluted /\ past'.skips = past.skips
  BY <1>0, <1>1 DEF CatPast, CatSlices, Slices
<1>6. CatCallsOK(calls')
  BY <1>1, <1>2
<1>7. CatTyped' /\ CatErrs'
  BY <1>0, <1>3, <1>4, <1>5, <1>6 DEF CatTyped, CatErrs
<1>8. CatShows' = CatShows /\ Cat!Mounted' = Cat!Mounted /\ CatPages' = CatPages /\ CatSkipped' = CatSkipped
  BY <1>3, <1>5 DEF CatShows, CatPages, CatSkipped, Cat!Mounted, Cat!Pages
<1>9. \A d \in calls' : CatNow(d) =>
         \E e \in calls : CatNow(e) /\ e.query = d.query /\ e.token = d.token
  BY <1>1, <1>2 DEF CatNow
<1>10. CatBlank' /\ CatQuery'
  <2>1. Cat!All(ui.seen.query)' = Cat!All(ui.seen.query)
    BY <1>3 DEF Cat!All, Cat!Pages
  <2>2. CatBlank'
    BY <1>0, <1>3, <1>4, <1>5, <1>8, <1>9 DEF CatBlank
  <2>3. CatQuery'
    BY <1>0, <1>3, <1>4, <1>5, <1>8, <1>9, <2>1 DEF CatQuery
  <2> QED
    BY <2>2, <2>3
<1>11. CatGood' => CatGood /\ ~store.isFetching
  BY <1>5, <1>8 DEF CatGood
<1>12. CatAsks'
  <2> SUFFICES ASSUME CatGood', NEW d \in calls', CatNow(d), d.kind = "list"
               PROVE  store'.isFetching /\ d = k
    BY DEF CatAsks, CatNow
  <2> QED
    BY <1>0, <1>1, <1>4, <1>11 DEF CatAsks
<1>13. CatFirst'
  <2> SUFFICES ASSUME CatGood'
               PROVE  \/ Len(CatPages) = 0
                      \/ Len(CatPages) > 0 /\ CatPages[1] \subseteq store'.items
                      \/ \E d \in calls' : CatNow(d) /\ d.token = 0
    BY <1>8 DEF CatFirst, CatNow
  <2>1. ui.seen.finished = store.hasFinishedFetching /\ ui.seen.token = ui.token
    BY <1>0, <1>1, <1>11, CatIdle DEF CatGood, CatShows
  <2>2. \A e \in calls : CatNow(e) /\ e.token = 0 => \E d \in calls' : CatNow(d) /\ d.token = 0
    BY <1>1, <1>2, <1>11 DEF CatNow
  <2> QED
    BY <1>0, <1>4, <1>11, <2>1, <2>2 DEF CatFirst
<1>14. CatRest'
  <2> SUFFICES ASSUME CatGood', ~CatSkipped PROVE \E m \in Nat : m >= 1 /\ CatReach(m)'
    BY <1>8 DEF CatRest
  <2>1. PICK m \in Nat : m >= 1 /\ CatReach(m)
    BY <1>0, <1>11 DEF CatRest
  <2>2. \A d \in calls' : CatNow(d) => d.token <= m
    BY <1>9, <2>1 DEF CatReach
  <2>3. CatReach(m)'
    BY <1>3, <1>4, <1>8, <1>11, <2>1, <2>2 DEF CatReach, CatNow
  <2> QED
    BY <2>1, <2>3
<1> QED
  BY <1>7, <1>10, <1>12, <1>13, <1>14 DEF CatInv

LEMMA CatRetries ==
  ASSUME CatInv, Cat!forceRetry PROVE CatInv'
<1>0. CatTyped /\ CatBlank /\ CatQuery /\ CatErrs /\ store \in CatSlices /\ past \in CatPast /\ ui \in CatUi
  BY DEF CatInv, CatTyped
<1> DEFINE s == P!clearErrorPackage(store)
<1>1. /\ Cat!Idle /\ Cat!Mounted /\ store.selected.error /\ ui' = ui
      /\ store' = Cat!Fetched(s)
      /\ calls' = calls \cup Cat!Requests(store, Cat!Query, ui.token)
      /\ past' = [past EXCEPT !.moves = past.moves + 1]
  BY CatReducers DEF Cat!forceRetry, Cat!Move, Cat!Shown
<1>2. CatShows /\ ui.seen.query = Cat!Query /\ Cat!Query \in CatQueries
  BY <1>0, <1>1, CatIdle
<1>3. s \in CatSlices /\ SameList(store, s)
  BY <1>0, SliceOfLists DEF CatSlices
<1> HIDE DEF s
<1>4. /\ store' \in CatSlices /\ store'.items = store.items /\ store'.nextPageToken = store.nextPageToken
      /\ store'.hasFinishedFetching => store.hasFinishedFetching
  BY <1>1, <1>3, CatFetched DEF SameList
<1>5. past' \in CatPast /\ past'.failed /\ past'.polluted = past.polluted
  <2>1. past.failed /\ past.moves + 1 \in Nat
    BY <1>0, <1>1 DEF CatErrs, CatPast
  <2> QED
    BY <1>0, <1>1, <2>1 DEF CatPast
<1>6. CatCallsOK(calls') /\ \A d \in calls' : d \in calls \/ d.query = Cat!Query
  <2> DEFINE k == Cat!Call("list", Cat!Query, ui.token)
  <2>1. ui.token \in Nat /\ CatCallsOK(calls)
    BY <1>0 DEF CatUi, CatTyped
  <2>2. CatCallsOK(calls \cup {k}) /\ k.query = Cat!Query
    BY <1>2, <2>1, CatCalled
  <2>3. Cat!Requests(store, Cat!Query, ui.token) \in {{}, {k}}
    BY DEF Cat!Requests
  <2> HIDE DEF k
  <2> QED
    BY <1>1, <2>1, <2>2, <2>3
<1>7. CatTyped' /\ CatErrs'
  BY <1>0, <1>1, <1>4, <1>5, <1>6 DEF CatTyped, CatErrs
<1>8. CatBlank' /\ CatAsks' /\ CatFirst' /\ CatRest'
  BY <1>1, <1>2, <1>5 DEF CatBlank, CatAsks, CatFirst, CatRest, CatGood, CatShows, Cat!Mounted
<1>9. CatQuery'
  BY <1>0, <1>1, <1>2, <1>4, <1>5, <1>6 DEF CatQuery, CatShows, Cat!Mounted, Cat!All, Cat!Pages, CatNow
<1> QED
  BY <1>7, <1>8, <1>9 DEF CatInv

LEMMA CatOpens ==
  ASSUME CatInv, Cat!OpenPackage PROVE CatInv'
<1>0. CatTyped /\ store \in CatSlices /\ past \in CatPast /\ ui \in CatUi /\ CatCallsOK(calls)
  BY DEF CatInv, CatTyped
<1> DEFINE w == IF ui.typing = Cat!NotRun THEN ui.typing ELSE [ui.typing EXCEPT !.gone = TRUE]
           s == P!resetSelectedAvailablePackageDetail(P!resetAvailablePackageSummaries(store))
           k == Cat!Call("detail", Cat!Query, 0)
<1>1. /\ ui' = [ui EXCEPT !.page = "package", !.typing = w]
      /\ store' = P!requestSelectedAvailablePackageDetail(s)
      /\ calls' = Cat!Leave(calls) \cup {k}
      /\ past' = [past EXCEPT !.moves = past.moves + 1, !.failed = FALSE, !.polluted = FALSE, !.skips = FALSE]
  BY CatReducers DEF Cat!OpenPackage
<1>2. ui' \in CatUi /\ ui'.page = "package"
  <2>1. w \in {Cat!NotRun} \cup [ns : Namespaces, filter : Filters, gone : BOOLEAN]
    BY <1>0 DEF CatUi
  <2> HIDE DEF w
  <2> QED
    BY <1>0, <1>1, <2>1 DEF CatUi
<1>3. /\ store' \in CatSlices /\ store'.items = {} /\ store'.nextPageToken = 0
      /\ ~store'.hasFinishedFetching /\ ~store'.selected.error
  <2> DEFINE t == P!resetAvailablePackageSummaries(store)
  <2>1. t \in CatSlices /\ ~t.hasFinishedFetching /\ t.nextPageToken = 0 /\ t.items = {}
    BY <1>0, SliceOfLists DEF CatSlices
  <2>2. s = P!resetSelectedAvailablePackageDetail(t)
    OBVIOUS
  <2> HIDE DEF t, s
  <2>3. s \in CatSlices /\ SameList(t, s) /\ s.selected = P!NoSelection
    BY <2>1, <2>2, CatResets
  <2>4. store' \in CatSlices /\ SameList(s, store') /\ store'.selected = s.selected
    BY <1>1, <2>3, SliceRequests DEF CatSlices
  <2> QED
    BY <2>1, <2>3, <2>4 DEF SameList, P!NoSelection
<1>4. past' \in CatPast /\ ~past'.failed /\ ~past'.polluted
  <2>1. past.moves + 1 \in Nat
    BY <1>0 DEF CatPast
  <2> QED
    BY <1>0, <1>1, <2>1 DEF CatPast
<1>5. CatCallsOK(calls') /\ \A d \in calls' : ~CatNow(d)
  <2> DEFINE ds == Cat!Leave(calls)
  <2>1. CatCallsOK(ds) /\ \A d \in ds : d.old /\ \E e \in calls : d.id = e.id
    BY <1>0, CatAged
  <2>2. Cat!Query \in CatQueries
    BY <1>0, CatRenderedIs
  <2> HIDE DEF ds
  <2>3. CatCallsOK(ds \cup {k}) /\ k.kind = "detail"
    BY <1>0, <2>1, <2>2, CatCalled
  <2> HIDE DEF k
  <2> QED
    BY <1>1, <2>1, <2>3 DEF CatNow, ds
<1>6. CatTyped' /\ CatErrs'
  BY <1>2, <1>3, <1>4, <1>5 DEF CatTyped, CatErrs
<1>7. ~CatShows' /\ ~Cat!Mounted'
  BY <1>2 DEF CatShows, Cat!Mounted
<1>8. CatBlank' /\ CatQuery' /\ CatAsks' /\ CatFirst' /\ CatRest'
  BY <1>3, <1>5, <1>7 DEF CatBlank, CatQuery, CatAsks, CatFirst, CatRest, CatGood, CatNow
<1> QED
  BY <1>6, <1>8 DEF CatInv

\* The list of a query that is rendered for the first time is a new one.
LEMMA CatCleans ==
  ASSUME CatTyped, NEW newQ \in BOOLEAN, NEW clean, NEW aged,
         clean = IF newQ THEN P!resetSelectedAvailablePackageDetail(P!resetAvailablePackageSummaries(store))
                         ELSE store,
         aged = IF newQ THEN Cat!Age(calls) ELSE calls
  PROVE  /\ clean \in CatSlices /\ (clean.hasFinishedFetching => clean.nextPageToken = 0)
         /\ CatCallsOK(aged) /\ \A c \in aged : \E d \in calls : c.id = d.id
         /\ newQ => /\ clean.items = {} /\ clean.nextPageToken = 0 /\ ~clean.hasFinishedFetching
                    /\ ~clean.isFetching /\ ~clean.selected.error /\ \A c \in aged : ~CatNow(c)
         /\ ~newQ => clean = store /\ aged = calls
<1>1. CASE newQ
  <2> DEFINE t == P!resetAvailablePackageSummaries(store)
  <2>1. /\ t \in CatSlices /\ ~t.hasFinishedFetching /\ t.nextPageToken = 0 /\ t.items = {}
        /\ ~t.isFetching
    BY SliceOfLists DEF CatSlices, CatTyped
  <2>2. clean = P!resetSelectedAvailablePackageDetail(t)
    BY <1>1
  <2> HIDE DEF t
  <2>3. clean \in CatSlices /\ SameList(t, clean) /\ clean.isFetching = t.isFetching /\ clean.selected = P!NoSelection
    BY <2>1, <2>2, CatResets
  <2>4. CatCallsOK(aged) /\ \A d \in aged : d.old /\ \E e \in calls : d.id = e.id
    BY <1>1, CatAged DEF CatTyped
  <2> QED
    BY <1>1, <2>1, <2>3, <2>4 DEF SameList, P!NoSelection, CatNow
<1>2. CASE ~newQ
  BY <1>2 DEF CatTyped
<1> QED
  BY <1>1, <1>2

LEMMA CatRender ==
  ASSUME CatInv, Cat!ConstantsAssumption, Cat!Render PROVE CatInv'
<1>0. CatTyped /\ CatBlank /\ CatQuery /\ CatErrs /\ CatAsks /\ CatFirst /\ CatRest
      /\ store \in CatSlices /\ past \in CatPast /\ ui \in CatUi
  BY DEF CatInv, CatTyped
<1> DEFINE now == Cat!Rendered
           first == ui.seen = Cat!NotRun
           newQ == ~first /\ now.query # ui.seen.query
           clean == IF newQ
                    THEN P!resetSelectedAvailablePackageDetail(P!resetAvailablePackageSummaries(store))
                    ELSE store
           aged == IF newQ THEN Cat!Age(calls) ELSE calls
           ref == IF first \/ now.isFetching # ui.seen.isFetching THEN now.isFetching ELSE ui.fetchingRef
           asks == /\ \/ first \/ newQ
                      \/ now.finished # ui.seen.finished \/ now.token # ui.seen.token
                   /\ ~now.finished
           fails == asks /\ ~ref /\ clean.isFetching
           tok == IF newQ THEN 0 ELSE ui.token
           fil == IF first \/ now.urlFilter # ui.seen.urlFilter THEN ui.urlFilter ELSE ui.filter
           req == ui.requested \/ now.isFetching
           loa == ui.loaded \/ (now.requested /\ ~now.isFetching)
           skp == IF newQ THEN asks /\ now.token > 1 ELSE past.skips
<1> DEFINE raw == IF newQ
                  THEN Cat!P!resetSelectedAvailablePackageDetail(Cat!P!resetAvailablePackageSummaries(store))
                  ELSE store
           rawTok == IF newQ THEN Cat!FirstPage ELSE ui.token
<1>1. /\ Cat!Mounted
      /\ ui' = [ui EXCEPT !.seen = now, !.token = tok, !.filter = fil, !.fetchingRef = ref,
                          !.requested = req, !.loaded = loa]
      /\ store' = IF asks /\ ~ref THEN Cat!Fetched(clean) ELSE clean
      /\ calls' = aged \cup (IF ~asks   THEN {}
                             ELSE IF ref THEN {Cat!Call("timer", now.query, now.token)}
                             ELSE Cat!Requests(clean, now.query, now.token))
      /\ past' = [past EXCEPT !.failed = (past.failed /\ ~newQ) \/ fails,
                              !.polluted = past.polluted /\ ~newQ, !.skips = skp]
  <2>1. Cat!Mounted
    BY DEF Cat!Render
  <2>2. ui' = [ui EXCEPT !.seen = now, !.token = rawTok, !.filter = fil, !.fetchingRef = ref,
                         !.requested = req, !.loaded = loa]
    BY Zenon DEF Cat!Render
  <2>3. store' = IF asks /\ ~ref THEN Cat!Fetched(raw) ELSE raw
    BY Zenon DEF Cat!Render
  <2>4. calls' = aged \cup (IF ~asks   THEN {}
                           ELSE IF ref THEN {Cat!Call("timer", now.query, now.token)}
                           ELSE Cat!Requests(raw, now.query, now.token))
    BY Zenon DEF Cat!Render
  <2>5. past' = [past EXCEPT !.failed = (past.failed /\ ~newQ) \/ (asks /\ ~ref /\ raw.isFetching),
                             !.polluted = past.polluted /\ ~newQ, !.skips = skp]
    BY Zenon DEF Cat!Render
  <2>6. raw = clean /\ rawTok = tok
    BY CatReducers
  <2>7. fails = (asks /\ ~ref /\ clean.isFetching)
    OBVIOUS
  <2> HIDE DEF raw, rawTok, clean, aged, asks, ref, now, tok, fil, req, loa, skp, newQ, fails
  <2> QED
    BY <2>1, <2>2, <2>3, <2>4, <2>5, <2>6, <2>7
<1>3. /\ now \in CatSeen /\ now # Cat!NotRun /\ now.query \in CatQueries /\ now.token \in Nat
      /\ now.token = ui.token /\ now.finished = store.hasFinishedFetching
  <2>1. now \in CatSeen /\ now # Cat!NotRun /\ now.token = ui.token /\ now.finished = store.hasFinishedFetching
    BY <1>0, CatRenderedIs DEF Cat!Rendered
  <2> HIDE DEF now
  <2> QED
    BY <2>1 DEF CatSeen
<1>4. /\ tok \in Nat /\ fil \in Filters /\ ref \in BOOLEAN /\ req \in BOOLEAN /\ loa \in BOOLEAN
      /\ asks \in BOOLEAN /\ fails \in BOOLEAN /\ skp \in BOOLEAN /\ newQ \in BOOLEAN
  <2> HIDE DEF now, clean
  <2> QED
    BY <1>0, <1>3 DEF CatUi, CatPast, CatSeen
<1>5. /\ clean \in CatSlices /\ (clean.hasFinishedFetching => clean.nextPageToken = 0)
      /\ CatCallsOK(aged) /\ \A c \in aged : \E d \in calls : c.id = d.id
      /\ newQ => /\ clean.items = {} /\ clean.nextPageToken = 0 /\ ~clean.hasFinishedFetching
                 /\ ~clean.isFetching /\ ~clean.selected.error /\ \A c \in aged : ~CatNow(c)
      /\ ~newQ => clean = store /\ aged = calls
  <2>1. /\ clean = IF newQ
                   THEN P!resetSelectedAvailablePackageDetail(P!resetAvailablePackageSummaries(store))
                   ELSE store
        /\ aged = IF newQ THEN Cat!Age(calls) ELSE calls
    OBVIOUS
  <2> HIDE DEF clean, aged, newQ
  <2> QED
    BY <1>0, <1>4, <2>1, CatCleans, SMTT(60)
<1>6. fails = (asks /\ ~ref /\ clean.isFetching) /\ tok = IF newQ THEN 0 ELSE ui.token
  OBVIOUS
<1>7. first => asks \/ now.finished
  OBVIOUS
<1>8. newQ => ~first /\ (asks \/ now.finished)
  OBVIOUS
<1>9. /\ ~first /\ ~newQ => now.query = ui.seen.query
      /\ ~first /\ ~now.finished /\ (ui.seen.finished \/ ui.seen.token # now.token) => asks
  <2> HIDE DEF now
  <2> QED
    BY <1>3 DEF CatSeen
<1>10. (newQ => (skp <=> asks /\ now.token > 1)) /\ (~newQ => skp = past.skips)
  OBVIOUS
<1>11. first = (ui.seen = Cat!NotRun)
  OBVIOUS
<1> HIDE DEF now, newQ, clean, aged, ref, asks, fails, tok, fil, req, loa, skp, first
<1>12. ui' \in CatUi /\ ui'.page = ui.page /\ ui'.seen = now /\ ui'.token = tok
  BY <1>0, <1>1, <1>3, <1>4, ZenonT(60) DEF CatUi
<1>13. /\ past' \in CatPast /\ past'.failed = ((past.failed /\ ~newQ) \/ fails)
       /\ past'.polluted = (past.polluted /\ ~newQ) /\ past'.skips = skp
  BY <1>0, <1>1, <1>4, ZenonT(60) DEF CatPast
<1>14. /\ store' \in CatSlices /\ store'.items = clean.items /\ store'.nextPageToken = clean.nextPageToken
       /\ store'.hasFinishedFetching => clean.hasFinishedFetching
       /\ store'.selected.error => clean.selected.error \/ fails
       /\ CatCallsOK(calls') /\ aged \subseteq calls'
       /\ \A c \in calls' : c \in aged \/ (asks /\ c.query = now.query /\ c.token = now.token)
       /\ ~fails /\ asks => \E c \in calls' : CatNow(c) /\ c.token = now.token
       /\ ~fails /\ clean.isFetching => store'.isFetching
       /\ ~fails => \A c \in calls' : c.kind = "list" /\ c \notin aged =>
                        /\ ~clean.isFetching /\ store'.isFetching
                        /\ \A d \in calls' : d \notin aged => d = c
  <2> DEFINE more == IF ~asks   THEN {}
                     ELSE IF ref THEN {Cat!Call("timer", now.query, now.token)}
                     ELSE Cat!Requests(clean, now.query, now.token)
  <2>1. /\ store' = IF asks /\ ~ref THEN Cat!Fetched(clean) ELSE clean
        /\ fails = (asks /\ ~ref /\ clean.isFetching) /\ calls' = aged \cup more
    BY <1>1, <1>6
  <2>2. CASE ~asks
    BY <1>5, <2>1, <2>2
  <2>3. CASE asks /\ ref
    <3> DEFINE k == Cat!Call("timer", now.query, now.token)
    <3>1. CatCallsOK(aged \cup {k}) /\ k.kind = "timer" /\ k.query = now.query /\ k.token = now.token /\ ~k.old
      BY <1>0, <1>3, <1>5, CatCalled DEF CatTyped
    <3>2. calls' = aged \cup {k} /\ store' = clean /\ ~fails
      BY <2>1, <2>3
    <3> HIDE DEF k
    <3> QED
      BY <1>5, <2>3, <3>1, <3>2 DEF CatNow
  <2>4. CASE asks /\ ~ref
    <3> DEFINE k == Cat!Call("list", now.query, now.token)
    <3>1. CatCallsOK(aged \cup {k}) /\ k.kind = "list" /\ k.query = now.query /\ k.token = now.token /\ ~k.old
      BY <1>0, <1>3, <1>5, CatCalled DEF CatTyped
    <3>2. calls' = aged \cup (IF clean.isFetching THEN {} ELSE {k}) /\ store' = Cat!Fetched(clean)
      BY <2>1, <2>4 DEF Cat!Requests
    <3>3. fails = clean.isFetching
      BY <1>5, <2>1, <2>4 DEF CatSlices, Slices
    <3> HIDE DEF k
    <3>4. /\ store' \in CatSlices /\ store'.items = clean.items /\ store'.nextPageToken = clean.nextPageToken
          /\ clean.isFetching => ~store'.isFetching /\ ~store'.hasFinishedFetching /\ store'.selected.error
          /\ ~clean.isFetching => /\ store'.isFetching /\ store'.selected = clean.selected
                                  /\ store'.hasFinishedFetching = clean.hasFinishedFetching
      BY <1>5, <3>2, CatFetched
    <3> QED
      BY <1>5, <2>4, <3>1, <3>2, <3>3, <3>4 DEF CatNow
  <2> QED
    BY <2>2, <2>3, <2>4
<1>15. CatTyped' /\ CatErrs'
  BY <1>0, <1>5, <1>12, <1>13, <1>14 DEF CatTyped, CatErrs
<1>16. /\ CatShows' /\ CatPages' = Cat!Pages(now.query) /\ CatShows = ~first
       /\ ~first /\ ~newQ => CatPages = CatPages'
  BY <1>1, <1>3, <1>9, <1>11, <1>12 DEF CatShows, CatPages, Cat!Mounted, Cat!Pages
<1>17. CatBlank'
  BY <1>16 DEF CatBlank
<1>18. first /\ ~past.polluted =>
          /\ store.items = {} /\ store.nextPageToken = 0 /\ ~store.hasFinishedFetching
          /\ ui.token = 0 /\ \A c \in calls : ~CatNow(c)
  BY <1>0, <1>1, <1>16 DEF CatBlank
<1>19. CatQuery'
  <2> SUFFICES ASSUME ~past'.polluted
               PROVE  /\ store'.items \subseteq Cat!All(now.query)
                      /\ \A c \in calls' : CatNow(c) => c.query = now.query
    BY <1>12 DEF CatQuery, Cat!All, Cat!Pages, CatNow
  <2>1. clean.items \subseteq Cat!All(now.query) /\ \A c \in aged : CatNow(c) => c.query = now.query
    BY <1>0, <1>5, <1>9, <1>13, <1>16, <1>18 DEF CatQuery
  <2> QED
    BY <1>14, <2>1
<1>20. CatGood' => /\ ~fails /\ (newQ \/ (~past.failed /\ ~past.polluted))
                   /\ ~first /\ ~newQ => CatGood
  BY <1>13, <1>16 DEF CatGood
<1>21. CatAsks'
  <2> SUFFICES ASSUME CatGood', NEW c \in calls', CatNow(c), c.kind = "list"
               PROVE  store'.isFetching /\ \A d \in calls' : CatNow(d) /\ d.kind = "list" => d = c
    BY DEF CatAsks, CatNow
  <2>1. \A d \in aged : CatNow(d) /\ d.kind = "list" =>
           clean.isFetching /\ \A e \in aged : CatNow(e) /\ e.kind = "list" => e = d
    BY <1>0, <1>5, <1>18, <1>20 DEF CatAsks
  <2> QED
    BY <1>14, <1>20, <2>1
<1>22. CatFirst'
  <2> SUFFICES ASSUME CatGood'
               PROVE  \/ Len(CatPages') = 0
                      \/ Len(CatPages') > 0 /\ CatPages'[1] \subseteq store'.items
                      \/ \E c \in calls' : CatNow(c) /\ c.token = 0
                      \/ /\ tok = 0 /\ ~store'.hasFinishedFetching
                         /\ now.finished \/ now.token # 0
    BY <1>12 DEF CatFirst, CatNow
  <2>1. CASE newQ
    BY <1>5, <1>6, <1>8, <1>14, <1>20, <2>1
  <2>2. CASE first
    BY <1>3, <1>7, <1>8, <1>14, <1>18, <1>20, <2>2
  <2>3. CASE ~first /\ ~newQ
    <3>1. CatGood /\ clean = store /\ aged = calls
      BY <1>5, <1>20, <2>3
    <3>2. ui.token = 0 /\ ~store.hasFinishedFetching /\ (ui.seen.finished \/ ui.seen.token # 0) => asks
      BY <1>3, <1>9, <2>3
    <3> QED
      BY <1>0, <1>3, <1>14, <1>16, <1>20, <2>3, <3>1, <3>2 DEF CatFirst
  <2> QED
    BY <2>1, <2>2, <2>3
<1>23. CatRest'
  <2> SUFFICES ASSUME CatGood', ~CatSkipped' PROVE \E m \in Nat : m >= 1 /\ CatReach(m)'
    BY DEF CatRest
  <2> DEFINE pg == Cat!Pages(now.query)
  <2>1. Len(pg) \in Nat
    BY <1>3, CatPagesAre
  <2>2. CatPages' = pg
    BY <1>16
  <2> HIDE DEF pg
  <2>3. ASSUME NEW m \in Nat, m >= 1,
               \A i \in 2..Len(pg) : i <= m => pg[i] \subseteq clean.items,
               \A c \in aged : CatNow(c) => c.token <= m,
               asks => now.token <= m,
               clean.nextPageToken <= m, tok <= m, clean.hasFinishedFetching => m >= Len(pg)
        PROVE  CatReach(m)'
    <3>1. \A c \in calls' : CatNow(c) => c.token <= m
      BY <1>14, <2>3
    <3>2. \A i \in 2..Len(pg) : i <= m => pg[i] \subseteq store'.items
      BY <1>14, <2>3
    <3> QED
      BY <1>12, <1>14, <2>2, <2>3, <3>1, <3>2 DEF CatReach, CatNow
  <2>4. CASE newQ
    <3>0. PICK m \in Nat : m = IF Len(pg) <= 1 THEN now.token + 1 ELSE 1
      BY <1>3
    <3>1. m \in Nat /\ m >= 1 /\ 0 <= m /\ clean.nextPageToken = 0 /\ tok = 0
      BY <1>3, <1>5, <1>6, <2>4, <3>0
    <3>2. asks => now.token <= m
      <4>1. ~(skp /\ Len(pg) > 1)
        BY <1>13, <2>2 DEF CatSkipped
      <4> QED
        BY <1>3, <1>10, <2>1, <2>4, <3>0, <4>1
    <3>3. \A i \in 2..Len(pg) : ~(i <= m)
      BY <1>3, <2>1, <3>0
    <3>4. CatReach(m)'
      BY <1>5, <2>3, <2>4, <3>1, <3>2, <3>3
    <3> QED
      BY <3>1, <3>4
  <2>5. CASE first
    <3>1. /\ clean = store /\ aged = calls /\ ~newQ /\ tok = 0 /\ now.token = 0 /\ clean.nextPageToken = 0
          /\ ~clean.hasFinishedFetching /\ \A c \in aged : ~CatNow(c)
      BY <1>3, <1>5, <1>6, <1>8, <1>18, <1>20, <2>5
    <3>2. \A i \in 2..Len(pg) : ~(i <= 1)
      BY <2>1
    <3>3. CatReach(1)'
      BY <2>3, <3>1, <3>2
    <3> QED
      BY <3>3
  <2>6. CASE ~first /\ ~newQ
    <3>1. CatGood /\ clean = store /\ aged = calls /\ tok = ui.token /\ now.token = ui.token /\ CatPages = pg
      BY <1>3, <1>5, <1>6, <1>16, <1>20, <2>2, <2>6
    <3>2. CatSkipped' = CatSkipped
      BY <1>10, <1>13, <2>2, <2>6, <3>1 DEF CatSkipped
    <3>3. PICK m \in Nat : m >= 1 /\ CatReach(m)
      BY <1>0, <3>1, <3>2 DEF CatRest
    <3>4. CatReach(m)'
      BY <2>3, <3>1, <3>3 DEF CatReach
    <3> QED
      BY <3>3, <3>4
  <2> QED
    BY <2>4, <2>5, <2>6
<1> QED
  BY <1>15, <1>17, <1>19, <1>21, <1>22, <1>23 DEF CatInv

LEMMA CatInits ==
  ASSUME Cat!ConstantsAssumption, Cat!Init PROVE CatInv
<1>1. PICK n \in Namespaces, f \in Filters :
          ui = [page |-> "catalog", ns |-> n, urlFilter |-> f, filter |-> NoFilter,
                token |-> 0, requested |-> FALSE, loaded |-> FALSE,
                fetchingRef |-> FALSE, typing |-> Cat!NotRun, seen |-> Cat!NotRun]
  BY CatReducers DEF Cat!Init
<1>2. /\ store = P!initialState /\ calls = {}
      /\ past = [moves |-> 0, errors |-> 0, polluted |-> FALSE, failed |-> FALSE, skips |-> FALSE]
  BY CatReducers DEF Cat!Init
<1>3. ui \in CatUi /\ ui.seen = Cat!NotRun /\ ui.token = 0
  BY <1>1 DEF CatUi, Cat!ConstantsAssumption
<1>4. /\ store \in CatSlices /\ ~store.hasFinishedFetching /\ store.items = {} /\ store.nextPageToken = 0
      /\ ~store.selected.error
  <2>1. P!initialState \in CatSlices
    BY DEF P!initialState, P!NoSelection, P!FirstPage, CatSlices, Slices, Selections
  <2> QED
    BY <1>2, <2>1 DEF P!initialState, P!NoSelection, P!FirstPage
<1>5. CatCallsOK(calls) /\ past \in CatPast
  BY <1>2, FS_EmptySet DEF CatCallsOK, CatPast
<1>6. ~CatShows
  BY <1>3 DEF CatShows
<1> QED
  BY <1>2, <1>3, <1>4, <1>5, <1>6
     DEF CatInv, CatTyped, CatBlank, CatQuery, CatErrs, CatAsks, CatFirst, CatRest, CatGood

LEMMA CatStutters == ASSUME CatInv, UNCHANGED vars PROVE CatInv'
<1>1. UNCHANGED <<store, ui, calls, past>>
  BY DEF vars
<1>2. ui' \in CatUi /\ past' \in CatPast
  BY <1>1 DEF CatInv, CatTyped
<1> QED
  BY <1>1, <1>2, CatSame

LEMMA CatSteps ==
  ASSUME CatInv, Cat!ConstantsAssumption, Cat!Next PROVE CatInv'
<1>1. CASE Cat!Render
  BY <1>1, CatRender
<1>2. CASE Cat!Scroll \/ Cat!TypingEnds \/ Cat!forceRetry \/ Cat!OpenPackage
  BY <1>2, CatScroll, CatTypingEnds, CatRetries, CatOpens
<1>3. CASE \E f \in Filters : Cat!Type(f) \/ Cat!Back(f) \/ \E n \in Namespaces : Cat!pushFilters(n, f)
  BY <1>3, CatPushes, CatBack
<1>4. CASE \E c \in calls : Cat!TimeoutEnds(c) \/ Cat!ListAnswered(c) \/ Cat!DetailAnswered(c) \/ Cat!CallFails(c)
  BY <1>4, CatTimeoutEnds, CatListAnswered, CatDetailAnswered, CatCallFails
<1> QED
  BY <1>1, <1>2, <1>3, <1>4 DEF Cat!Next, Cat!User, Cat!Answered

LEMMA CatProperties ==
  ASSUME CatInv, Cat!ConstantsAssumption
  PROVE  Cat!TypeOK /\ Cat!ListsWhatIsAsked /\ Cat!FinishedIsComplete
<1>0. CatTyped /\ CatQuery /\ CatFirst /\ CatRest
  BY DEF CatInv
<1>1. Cat!TypeOK
  <2>1. /\ store.isFetching \in BOOLEAN /\ store.hasFinishedFetching \in BOOLEAN
        /\ store.items \subseteq Cat!Packages /\ store.nextPageToken \in Nat
        /\ store.hasFinishedFetching => store.nextPageToken = Cat!FirstPage
    BY <1>0, CatReducers DEF CatTyped, CatSlices, Slices
  <2>2. /\ ui.page \in {"catalog", "package"} /\ ui.ns \in Namespaces
        /\ {ui.filter, ui.urlFilter} \subseteq Filters /\ ui.token \in Nat
    BY <1>0 DEF CatTyped, CatUi
  <2>3. IsFiniteSet(calls) <=> Cat!IsFiniteSet(calls)
    BY DEF IsFiniteSet, Cat!IsFiniteSet
  <2>4. /\ Cat!IsFiniteSet(calls)
        /\ \A c \in calls : c.kind \in {"list", "timer", "detail"} /\ c.token \in Nat
        /\ \A c, d \in calls : c.id = d.id => c = d
    BY <1>0, <2>3 DEF CatTyped, CatCallsOK, CatCalls
  <2> QED
    BY <2>1, <2>2, <2>4 DEF Cat!TypeOK
<1>2. Cat!ListsWhatIsAsked
  <2> SUFFICES ASSUME Cat!Mounted, Cat!Idle, ~past.polluted
               PROVE  Cat!Shown.items \subseteq Cat!All(Cat!Query)
    BY DEF Cat!ListsWhatIsAsked
  <2>1. store.items \subseteq Cat!All(Cat!Query)
    BY <1>0, CatIdle DEF CatQuery
  <2>2. Cat!Shown.items = IF ui.loaded THEN store.items ELSE {}
    BY DEF Cat!Shown
  <2> QED
    BY <2>1, <2>2
<1>3. Cat!FinishedIsComplete
  <2> DEFINE q == Cat!Query
             pg == Cat!Pages(q)
  <2> SUFFICES ASSUME Cat!Mounted, Cat!Idle, calls = {}, ~past.polluted, ~past.failed, ~Cat!Skipped,
                      store.hasFinishedFetching
               PROVE  store.items = Cat!All(q)
    <3>1. Cat!Shown.message # "" => store.hasFinishedFetching /\ store.items = {}
      BY DEF Cat!Shown
    <3> QED
      BY <3>1 DEF Cat!FinishedIsComplete
  <2>1. CatGood /\ CatPages = pg /\ ui.seen.query = q /\ q \in CatQueries
        /\ ui.seen.finished = store.hasFinishedFetching /\ ui.seen.token = ui.token
    BY <1>0, CatIdle DEF CatGood, CatPages
  <2>2. store.items \subseteq Cat!All(q)
    BY <1>0, <2>1 DEF CatQuery, CatGood
  <2>3. ~CatSkipped
    BY <2>1 DEF CatSkipped, Cat!Skipped
  <2> HIDE DEF q
  <2>4. Len(pg) \in Nat /\ Cat!All(q) = UNION {pg[i] : i \in 1..Len(pg)}
    BY <2>1, CatPagesAre DEF Cat!All
  <2> HIDE DEF pg
  <2>5. PICK m \in Nat : m >= 1 /\ CatReach(m)
    BY <1>0, <2>1, <2>3 DEF CatRest
  <2>6. \A i \in 1..Len(pg) : pg[i] \subseteq store.items
    <3> SUFFICES ASSUME NEW i \in 1..Len(pg) PROVE pg[i] \subseteq store.items
      OBVIOUS
    <3>1. CASE i = 1
      BY <1>0, <2>1, <2>4, <3>1 DEF CatFirst
    <3>2. CASE i # 1
      <4>1. i \in 2..Len(pg) /\ i <= m
        BY <2>1, <2>4, <2>5, <3>2 DEF CatReach
      <4> QED
        BY <2>1, <2>5, <4>1 DEF CatReach
    <3> QED
      BY <3>1, <3>2
  <2> QED
    BY <2>2, <2>4, <2>6
<1> QED
  BY <1>1, <1>2, <1>3

-----------------------------------------------------------------------------
(* The parts together. *)

\* A behaviour of Packages keeps the invariant of the part it is of.
CatalogInv   == part = "catalog"   => CatInv
PackageInv   == part = "package"   => PkgInv
ValuesInv    == part = "values"    => ValsInv
InstalledInv == part = "installed" => InsInv

LEMMA CatalogAlways == Cat!ConstantsAssumption => (Spec => []CatalogInv)
<1> SUFFICES ASSUME Cat!ConstantsAssumption PROVE Spec => []CatalogInv
  OBVIOUS
<1>1. Init => CatalogInv
  BY CatInits DEF Init, CatalogInv
<1>2. CatalogInv /\ [Next]_vars => CatalogInv'
  BY CatSteps, CatStutters DEF CatalogInv, Next, On, vars
<1> QED
  BY <1>1, <1>2, PTL DEF Spec

LEMMA PackageAlways == Pkg!ConstantsAssumption => (Spec => []PackageInv)
<1> SUFFICES ASSUME Pkg!ConstantsAssumption PROVE Spec => []PackageInv
  OBVIOUS
<1>1. Init => PackageInv
  BY PkgInits DEF Init, PackageInv
<1>2. PackageInv /\ [Next]_vars => PackageInv'
  BY PkgSteps, PkgStutters DEF PackageInv, Next, On, vars
<1> QED
  BY <1>1, <1>2, PTL DEF Spec

LEMMA ValuesAlways == Vals!ConstantsAssumption => (Spec => []ValuesInv)
<1> SUFFICES ASSUME Vals!ConstantsAssumption PROVE Spec => []ValuesInv
  OBVIOUS
<1>1. Init => ValuesInv
  BY ValsInits DEF Init, ValuesInv
<1>2. ValuesInv /\ [Next]_vars => ValuesInv'
  BY ValsSteps, ValsStutters DEF ValuesInv, Next, On, vars
<1> QED
  BY <1>1, <1>2, PTL DEF Spec

LEMMA InstalledAlways == Ins!ConstantsAssumption => (Spec => []InstalledInv)
<1> SUFFICES ASSUME Ins!ConstantsAssumption PROVE Spec => []InstalledInv
  OBVIOUS
<1>1. Init => InstalledInv
  BY InsInits DEF Init, InstalledInv
<1>2. InstalledInv /\ [Next]_vars => InstalledInv'
  BY InsSteps, InsStutters DEF InstalledInv, Next, On, vars
<1> QED
  BY <1>1, <1>2, PTL DEF Spec

\* Every variable keeps its type, on each page, for any constants that the parts may have.
THEOREM PackagesTypes == ConstantsAssumption => (Spec => []TypeOK)
<1> SUFFICES ASSUME ConstantsAssumption PROVE Spec => []TypeOK
  OBVIOUS
<1>1. CatalogInv /\ PackageInv /\ ValuesInv /\ InstalledInv => TypeOK
  BY CatProperties, PkgProperties, ValsProperties, InsProperties
     DEF ConstantsAssumption, CatalogInv, PackageInv, ValuesInv, InstalledInv, TypeOK
<1>2. Spec => []CatalogInv /\ []PackageInv /\ []ValuesInv /\ []InstalledInv
  BY CatalogAlways, PackageAlways, ValuesAlways, InstalledAlways DEF ConstantsAssumption
<1> QED
  BY <1>1, <1>2, PTL

\* The catalog lists nothing but what its namespace and filters ask for, and has every package of
\* them when it says that there is no more, or nothing: for any packages in any number of pages,
\* through timers, changes of the query, visits of a package, and answers that come late or fail.
THEOREM PackagesCatalog == Cat!ConstantsAssumption => (Spec => []CatalogIsRight)
<1> SUFFICES ASSUME Cat!ConstantsAssumption PROVE Spec => []CatalogIsRight
  OBVIOUS
<1>1. CatalogInv => CatalogIsRight
  BY CatProperties DEF CatalogInv, CatalogIsRight
<1> QED
  BY <1>1, CatalogAlways, PTL

\* What a form sends has every edit, as it was last made, and is for the rest as the version, or
\* the installed application, says: for any values and versions, with edits that wait for their
\* timer, changes of tab, of version and of what is deployed, restored defaults and requests
\* that fail.
THEOREM PackagesForms == Vals!ConstantsAssumption => (Spec => []FormsSend)
<1> SUFFICES ASSUME Vals!ConstantsAssumption PROVE Spec => []FormsSend
  OBVIOUS
<1>1. ValuesInv => FormsSend
  BY ValsProperties DEF ValuesInv, FormsSend
<1> QED
  BY <1>1, ValuesAlways, PTL

\* A request is sent for the package, version or application that the URL names, whatever was
\* selected for another page and whatever is answered late.
THEOREM PackagesActs ==
    Pkg!ConstantsAssumption /\ Ins!ConstantsAssumption => (Spec => []ActsOnUrl)
<1> SUFFICES ASSUME Pkg!ConstantsAssumption, Ins!ConstantsAssumption PROVE Spec => []ActsOnUrl
  OBVIOUS
<1>1. PackageInv /\ InstalledInv => ActsOnUrl
  BY InsProperties DEF PackageInv, PkgInv, InstalledInv, ActsOnUrl
<1> QED
  BY <1>1, PackageAlways, InstalledAlways, PTL

\* A page that waits for nothing shows what its URL names, or an error.
THEOREM PackagesSettle ==
    Pkg!ConstantsAssumption /\ Ins!ConstantsAssumption => (Spec => []PagesSettle)
<1> SUFFICES ASSUME Pkg!ConstantsAssumption, Ins!ConstantsAssumption PROVE Spec => []PagesSettle
  OBVIOUS
<1>1. PackageInv /\ InstalledInv => PagesSettle
  BY PkgProperties, InsProperties DEF PackageInv, InstalledInv, PagesSettle
<1> QED
  BY <1>1, PackageAlways, InstalledAlways, PTL
=============================================================================

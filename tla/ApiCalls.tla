------------------------------- MODULE ApiCalls -------------------------------
(* A call of the dashboard to the server: what the functions of src/shared build *)
(* out of their arguments, what the server understands, what the caller gets,    *)
(* and what becomes of an error: convertGrpcAuthError, then handleErrorAction,   *)
(* which ends the session when the call was refused for its credentials.         *)
(* RepoForm has the request of a repository's form, field by field; here it is   *)
(* taken as built, but for the custom detail, which is encoded apart.            *)
EXTENDS Messages

CONSTANTS None,         \* nothing of the kind
          Kinds         \* which of the cases, enums and details its messages have (bound)

VARIABLES store,        \* the session: "in" or "out"
          ui,           \* the method called, by whom, and what the caller has of the call
          calls,        \* the call that is not yet answered, and its answer
          past          \* the arguments, what the server understood and what it answered

vars == <<store, ui, calls, past>>

-----------------------------------------------------------------------------
(* The methods of the services. *)

PackagesService ==
    {"GetAvailablePackageSummaries", "GetAvailablePackageDetail", "GetAvailablePackageVersions",
     "GetAvailablePackageMetadatas", "GetInstalledPackageSummaries", "GetInstalledPackageDetail",
     "CreateInstalledPackage", "UpdateInstalledPackage", "DeleteInstalledPackage",
     "GetInstalledPackageResourceRefs"}
RepositoriesService ==
    {"AddPackageRepository", "GetPackageRepositoryDetail", "GetPackageRepositorySummaries",
     "UpdatePackageRepository", "DeletePackageRepository", "GetPackageRepositoryPermissions"}
PluginsService   == {"GetConfiguredPlugins"}
HelmPackagesService == {"RollbackInstalledPackage"}
ResourcesService ==
    {"GetResources", "GetServiceAccountNames", "GetNamespaceNames", "CreateNamespace",
     "CheckNamespaceExists", "CanI"}
Methods == PackagesService \cup RepositoriesService \cup PluginsService
             \cup HelmPackagesService \cup ResourcesService

I(m) == m \o "Request"
O_(m) == m \o "Response"

-----------------------------------------------------------------------------
(* Arguments.  A scalar is named after the field it is meant for, and in a       *)
(* message every field is set, so that one in the place of another shows.        *)

\* The class in the Any of a custom detail; an available package has none here.
Detail(T) ==
    CASE T = "InstalledPackageDetail" -> {"InstalledPackageDetailCustomDataHelm"}
      [] T \in {"PackageRepositoryDetail", "AddPackageRepositoryRequest",
                 "UpdatePackageRepositoryRequest"} ->
            {"HelmPackageRepositoryCustomDetail", "FluxPackageRepositoryCustomDetail"}
      [] OTHER -> {}

\* Every field set, and of the cases of the oneof the n-th, modulo their number.
RECURSIVE Full(_, _)
Full(T, n) ==
    LET Cases == SelectSeq(FieldsOf(T), LAMBDA d : d.kind = "oneof")
        Custom == SetToSeq(Detail(T))
        One(d) ==
            CASE d.kind = "enum" -> d.names[(n % Len(d.names)) + 1]
              [] d.kind = "map"  -> d.name :> d.name
              [] d.of = "Any" /\ Custom = <<>> -> Unset
              [] d.of = "Any" /\ Custom # <<>> ->
                    LET U == Custom[(n % Len(Custom)) + 1]
                    IN  [typeUrl |-> U, value |-> Full(U, n)]
              [] d.kind # "enum" /\ d.kind # "map" /\ d.of = "" -> d.name
              [] OTHER -> Full(d.of, n)
        Set(d) ==
            CASE d.kind = "list"  -> <<One(d)>>
              [] d.kind = "oneof" -> IF d = Cases[(n % Len(Cases)) + 1] THEN One(d) ELSE Unset
              [] OTHER -> One(d)
    IN  [f \in Names(T) |-> Set(Field(T, f))]

\* A custom detail of which only these fields are kept.
Only(c, names) == [c EXCEPT !.value = Complete(c.typeUrl, [f \in names |-> c.value[f]])]
OfHelm(c) == c.typeUrl = "HelmPackageRepositoryCustomDetail"

\* The fields of a custom detail that the form of a repository has an input for.
InForm(c) ==
    IF OfHelm(c) THEN {"ociRepositories", "performValidation", "filterRule", "imagesPullSecret"}
    ELSE {"provider"}
Filled(T, n) == LET r == Full(T, n) IN [r EXCEPT !.customDetail = Only(@, InForm(@))]

Scalars(names)  == [f \in names |-> f]
Message(f, T, n) == f :> Full(T, n)
PackageRef(n)   == Message("availablePackageRef", "AvailablePackageReference", n)
InstalledRef(n) == Message("installedPackageRef", "InstalledPackageReference", n)
RepoRef(n)      == Message("packageRepoRef", "PackageRepositoryReference", n)
Version(n)      == Message("pkgVersionReference", "VersionReference", n)
Reconciled(n)   == Message("reconciliationOptions", "ReconciliationOptions", n)

\* What each method is called with.
Args(m, n) ==
    CASE m = "GetAvailablePackageSummaries" ->
            Scalars({"cluster", "namespace", "query", "pageToken", "pageSize"})
              @@ "repositories" :> <<"r1", "r2">>
      [] m = "GetInstalledPackageSummaries" -> Scalars({"cluster", "namespace", "pageToken", "pageSize"})
      [] m \in {"GetAvailablePackageDetail", "GetAvailablePackageMetadatas"} ->
            PackageRef(n) @@ Scalars({"pkgVersion"})
      [] m = "GetAvailablePackageVersions" -> PackageRef(n)
      [] m \in {"GetInstalledPackageDetail", "GetInstalledPackageResourceRefs",
                "DeleteInstalledPackage"} -> InstalledRef(n)
      [] m = "CreateInstalledPackage" ->
            Message("targetContext", "Context", n) @@ PackageRef(n) @@ Version(n) @@ Reconciled(n)
              @@ Scalars({"name", "values"})
      [] m = "UpdateInstalledPackage" ->
            InstalledRef(n) @@ Version(n) @@ Reconciled(n) @@ Scalars({"values"})
      [] m = "RollbackInstalledPackage" -> InstalledRef(n) @@ Scalars({"releaseRevision"})
      [] m \in {"AddPackageRepository", "UpdatePackageRepository"} -> Filled(I(m), n)
      [] m \in {"GetPackageRepositoryDetail", "DeletePackageRepository"} -> RepoRef(n)
      [] m = "GetResources" ->
            InstalledRef(n) @@ "resourceRefs" :> <<Full("ResourceRef", n)>> @@ Scalars({"watch"})
      [] m = "CreateNamespace" -> Scalars({"cluster", "namespace"}) @@ "labels" :> ("k" :> "v")
      [] m = "GetNamespaceNames" -> Scalars({"cluster"})
      [] m = "CanI" -> Scalars({"cluster", "namespace", "group", "resource", "verb"})
      [] m = "GetConfiguredPlugins" -> Scalars({})
      [] OTHER -> Scalars({"cluster", "namespace"})

\* Those that the signature lets a caller leave out.
Optional(m) ==
    CASE m = "GetAvailablePackageSummaries" -> {"query"}
      [] m = "GetAvailablePackageDetail"    -> {"pkgVersion", "availablePackageRef"}
      [] m = "GetAvailablePackageVersions"  -> {"availablePackageRef"}
      [] m = "GetInstalledPackageSummaries" -> {"namespace", "pageToken", "pageSize"}
      [] m \in {"GetInstalledPackageDetail", "GetInstalledPackageResourceRefs"} -> {"installedPackageRef"}
      [] m \in {"CreateInstalledPackage", "UpdateInstalledPackage"} -> {"values", "reconciliationOptions"}
      [] OTHER -> {}

\* The arguments, all of them or without one of those.
ArgsOf(m, n) == {[a \in DOMAIN all \ {f} |-> all[a]] : all \in {Args(m, n)}, f \in Optional(m) \cup {""}}

-----------------------------------------------------------------------------
(* The requests that src/shared builds; g are the arguments given.               *)

Given(g, f) == IF f \in DOMAIN g THEN g[f] ELSE Unset
ContextOf(g) == [cluster |-> Given(g, "cluster"), namespace |-> Given(g, "namespace")]

Taken(g, names) == [f \in names |-> Given(g, f)]
InContext(g) == [context |-> ContextOf(g)]
InPages(g)   == [paginationOptions |-> Taken(g, {"pageSize", "pageToken"})]

getAvailablePackageSummaries(g) ==
    InContext(g) @@ InPages(g) @@ [filterOptions |-> Taken(g, {"query", "repositories"})]
getAvailablePackageVersions(g)     == Taken(g, {"availablePackageRef"})
getAvailablePackageDetail(g)       == Taken(g, {"pkgVersion", "availablePackageRef"})
getAvailablePackageMetadatas(g)    == Taken(g, {"availablePackageRef", "pkgVersion"})
GetInstalledPackageSummaries(g)    == InContext(g) @@ InPages(g)
GetInstalledPackageDetail(g)       == Taken(g, {"installedPackageRef"})
GetInstalledPackageResourceRefs(g) == Taken(g, {"installedPackageRef"})
CreateInstalledPackage(g) ==
    Taken(g, {"name", "values", "targetContext", "availablePackageRef", "pkgVersionReference",
              "reconciliationOptions"})
UpdateInstalledPackage(g) ==
    Taken(g, {"installedPackageRef", "pkgVersionReference", "values", "reconciliationOptions"})
RollbackInstalledPackage(g) == Taken(g, {"installedPackageRef", "releaseRevision"})
DeleteInstalledPackage(g)   == Taken(g, {"installedPackageRef"})

getPackageRepositorySummaries(g) == InContext(g)
getPackageRepositoryDetail(g)    == Taken(g, {"packageRepoRef"})
deletePackageRepository(g)       == Taken(g, {"packageRepoRef"})
getRepositoriesPermissions(g)    == InContext(g)
getConfiguredPlugins             == Taken(<<>>, {})

getResources(g)           == Taken(g, {"installedPackageRef", "resourceRefs", "watch"})
canI(g)                   == InContext(g) @@ Taken(g, {"group", "resource", "verb"})
getServiceAccountNames(g) == InContext(g)
getNamespaceNames(g)      == Taken(g, {"cluster"})
namespaceWithoutContext(g) == Taken(g, {"cluster", "namespace", "labels"})
createNamespace(g)        == InContext(g) @@ Taken(g, {"labels"})
checkNamespaceExists(g)   == InContext(g)

\* The detail for helm is built anew and encoded; that for flux is put in as the object that
\* it is, where bytes are expected, and the library makes no bytes of it.
buildEncodedCustomDetail(c) == Only(c, IF OfHelm(c) THEN InForm(c) \cup {"proxyOptions"} ELSE {})
addPackageRepository(g) == [g EXCEPT !.customDetail = buildEncodedCustomDetail(@)]

Request(m, g) ==
    CASE m = "GetAvailablePackageSummaries"    -> getAvailablePackageSummaries(g)
      [] m = "GetAvailablePackageVersions"     -> getAvailablePackageVersions(g)
      [] m = "GetAvailablePackageDetail"       -> getAvailablePackageDetail(g)
      [] m = "GetAvailablePackageMetadatas"    -> getAvailablePackageMetadatas(g)
      [] m = "GetInstalledPackageSummaries"    -> GetInstalledPackageSummaries(g)
      [] m = "GetInstalledPackageDetail"       -> GetInstalledPackageDetail(g)
      [] m = "GetInstalledPackageResourceRefs" -> GetInstalledPackageResourceRefs(g)
      [] m = "CreateInstalledPackage"          -> CreateInstalledPackage(g)
      [] m = "UpdateInstalledPackage"          -> UpdateInstalledPackage(g)
      [] m = "RollbackInstalledPackage"        -> RollbackInstalledPackage(g)
      [] m = "DeleteInstalledPackage"          -> DeleteInstalledPackage(g)
      [] m = "GetPackageRepositorySummaries"   -> getPackageRepositorySummaries(g)
      [] m = "GetPackageRepositoryDetail"      -> getPackageRepositoryDetail(g)
      [] m = "DeletePackageRepository"         -> deletePackageRepository(g)
      [] m = "GetPackageRepositoryPermissions" -> getRepositoriesPermissions(g)
      [] m = "GetConfiguredPlugins"            -> getConfiguredPlugins
      [] m = "GetResources"                    -> getResources(g)
      [] m = "CanI"                            -> canI(g)
      [] m = "GetServiceAccountNames"          -> getServiceAccountNames(g)
      [] m = "GetNamespaceNames"               -> getNamespaceNames(g)
      [] m = "CreateNamespace"                 -> createNamespace(g)
      [] m = "CheckNamespaceExists"            -> checkNamespaceExists(g)
      [] m \in {"AddPackageRepository", "UpdatePackageRepository"} -> addPackageRepository(g)

-----------------------------------------------------------------------------
(* Errors. *)

\* A code, and whether the message has "credentials" or "unauthorized" in it.
Codes == {"Canceled", "Unknown", "InvalidArgument", "DeadlineExceeded", "NotFound", "AlreadyExists",
          "PermissionDenied", "ResourceExhausted", "FailedPrecondition", "Aborted", "OutOfRange",
          "Unimplemented", "Internal", "Unavailable", "DataLoss", "Unauthenticated"}
Refused(e) ==
    \/ e.code = "Unauthenticated"
    \/ e.code \in {"FailedPrecondition", "Internal"} /\ e.credentials

convertGrpcAuthError(e) ==
    CASE Refused(e) -> "UnauthorizedNetworkError"
      [] ~Refused(e) /\ e.code \in {"FailedPrecondition", "InvalidArgument", "OutOfRange"} ->
            "BadRequestNetworkError"
      [] ~Refused(e) /\ e.code \in {"Internal", "DataLoss", "Unknown"} -> "InternalServerNetworkError"
      [] e.code = "PermissionDenied"  -> "ForbiddenNetworkError"
      [] e.code = "NotFound"          -> "NotFoundNetworkError"
      [] e.code \in {"AlreadyExists", "Aborted"} -> "ConflictNetworkError"
      [] e.code = "DeadlineExceeded"  -> "GatewayTimeoutNetworkError"
      [] e.code = "ResourceExhausted" -> "TooManyRequestsNetworkError"
      [] e.code = "Unimplemented"     -> "NotImplementedNetworkError"
      [] e.code = "Unavailable"       -> "ServerUnavailableNetworkError"
      [] e.code = "Canceled"          -> "RequestTimeoutNetworkError"

\* These two let the error through as it came.
Unconverted == {"GetAvailablePackageMetadatas", "GetPackageRepositoryPermissions"}
Thrown(m, e) == IF m \in Unconverted THEN e.code ELSE convertGrpcAuthError(e)

\* Who calls: the action of the method, or another that does not treat its errors alike.
Callers(m) == {"action"} \cup (IF m = "GetPackageRepositoryDetail" THEN {"findPackageInRepo"} ELSE {})

\* What the caller makes of an error.  Two of them have no action for it.
WithoutAction == {"GetInstalledPackageResourceRefs", "GetServiceAccountNames"}
Caught(m, caller) ==
    CASE m = "CanI"                 -> "false"      \* answered by the function itself
      [] m = "GetResources"         -> "dropped"    \* nothing waits for the end of the stream
      [] m = "GetConfiguredPlugins" -> "shown"      \* errorConfig, whatever the error
      [] caller = "findPackageInRepo" -> "nothing"  \* before its try, and nobody awaits it
      [] OTHER                      -> "handled"

\* handleErrorAction: the session ends, or the error goes to the store.
handleErrorAction(m, e) ==
    IF Thrown(m, e) = "UnauthorizedNetworkError"
    THEN /\ store' = "out" /\ ui' = [ui EXCEPT !.got = "loggedOut"]
    ELSE /\ ui' = [ui EXCEPT !.got = IF m \in WithoutAction THEN "nothing" ELSE "shown"]
         /\ UNCHANGED store

-----------------------------------------------------------------------------

Init ==
    /\ store = "in" /\ calls = {} /\ past = None
    /\ ui = [method |-> None, caller |-> None, got |-> None, value |-> None]

\* Is there a client for the call?  For a rollback only if the plugin of the application has it.
Sent(m, rollbackable) == m = "RollbackInstalledPackage" => rollbackable

\* A rollback that the plugin does not support is not sent, and shown as an error.
Call(m, caller, g, rollbackable) ==
    /\ ui.method = None /\ store = "in"
    /\ past' = [args |-> g, understood |-> None, answered |-> None]
    /\ ui' = [ui EXCEPT !.method = m, !.caller = caller,
                        !.got = IF Sent(m, rollbackable) THEN None ELSE "shown"]
    /\ calls' = IF Sent(m, rollbackable)
                THEN {[body |-> Encode(I(m), Complete(I(m), Request(m, g))), answer |-> None]}
                ELSE {}
    /\ UNCHANGED store

\* The server reads the request, and answers or fails.
Serve(c, answer) ==
    /\ c.answer = None /\ ui.got = None
    /\ past' = [past EXCEPT !.understood = Decode(I(ui.method), c.body), !.answered = answer]
    /\ calls' = {[c EXCEPT !.answer = IF "code" \in DOMAIN answer THEN answer
                                     ELSE [body |-> Encode(O_(ui.method), answer)]]}
    /\ UNCHANGED <<store, ui>>

Answers(m) ==
    [code : Codes, credentials : BOOLEAN]
      \cup {Full(O_(m), n) : n \in Kinds}

Receive(c) ==
    /\ c.answer # None /\ "body" \in DOMAIN c.answer
    /\ calls' = {}
    /\ ui' = [ui EXCEPT !.got = "value", !.value = Decode(O_(ui.method), c.answer.body)]
    /\ UNCHANGED <<store, past>>

Fail(c) ==
    /\ c.answer # None /\ "code" \in DOMAIN c.answer
    /\ calls' = {}
    /\ LET caught == Caught(ui.method, ui.caller)
       IN  IF caught = "handled" THEN handleErrorAction(ui.method, c.answer)
           ELSE ui' = [ui EXCEPT !.got = caught] /\ UNCHANGED store
    /\ UNCHANGED past

Next ==
    \/ \E m \in Methods, n \in Kinds :
          \E caller \in Callers(m), g \in ArgsOf(m, n), r \in BOOLEAN : Call(m, caller, g, r)
    \/ \E c \in calls : \/ \E a \in Answers(ui.method) : Serve(c, a)
                        \/ Receive(c)
                        \/ Fail(c)
Spec == Init /\ [][Next]_vars

-----------------------------------------------------------------------------

\* What is not there is None, and a session only ends by an answer.
TypeOK ==
    /\ store \in {"in", "out"}
    /\ \/ ui.method = None /\ ui.caller = None
       \/ ui.method \in Methods /\ ui.caller \in Callers(ui.method)
    /\ ui.got \in {None, "value", "loggedOut", "shown", "nothing", "false", "dropped"}
    /\ Cardinality(calls) <= 1 /\ (calls # {} => ui.got = None)
    /\ (ui.method = None) = (past = None)

\* The fields that are set, those of the messages a request is wrapped in as its own.
RECURSIVE Told(_, _)
Told(T, u) ==
    UNION {IF d.name \in {"context", "filterOptions", "paginationOptions"}
           THEN Told(d.of, u[d.name]) ELSE {<<d.name, u[d.name]>>} :
              d \in {d \in ToSet(FieldsOf(T)) : u[d.name] # Default(d)}}
Said(g) ==
    UNION {IF a = "context" THEN Told("Context", g[a]) ELSE {<<a, g[a]>>} : a \in DOMAIN g}

\* The server understands what the caller said, each argument in the field that it is meant
\* for and nothing beside them, although the requests are plain objects that are cast to the
\* class (InstalledPackage.ts:85 and others), whose unknown names are dropped in silence; but
\* for the custom detail of a flux repository, of which the server gets the class alone.
RequestsArrive ==
    past # None /\ past.understood # None =>
        LET g == past.args
            OfFlux == "customDetail" \in DOMAIN g /\ ~OfHelm(g.customDetail)
        IN  Told(I(ui.method), past.understood)
              = Said(IF OfFlux THEN [g EXCEPT !.customDetail = Only(@, {})] ELSE g)

\* The caller gets the answer as the server meant it, with the case of each oneof and the
\* custom detail that it has.
AnswersArrive == ui.got = "value" /\ past.answered # None => ui.value = past.answered

\* A call that is refused ends the session (actions/auth.ts:87), and any other error is shown,
\* whatever function made the call; but for those that do not wait for the answer, or do
\* without it, and five that shared/, the actions and the components forget.
ErrorsAreHandled ==
    past # None /\ past.answered # None /\ calls = {} /\ "code" \in DOMAIN past.answered =>
        LET m == ui.method
            Forgotten == m \in Unconverted \/ ui.caller = "findPackageInRepo"
            Apart == m \in {"CanI", "GetResources"}
        IN  /\ Refused(past.answered) /\ ~Forgotten /\ ~Apart /\ m # "GetConfiguredPlugins"
                 => store = "out"
            /\ ~Forgotten /\ ~Apart /\ m \notin WithoutAction => ui.got \in {"shown", "loggedOut"}
=============================================================================

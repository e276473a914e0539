------------------------------- MODULE Messages -------------------------------
(* The messages of the API as the dashboard has them: the field table of each    *)
(* class that protoc-gen-es made (src/dashboard/src/gen), and what the library   *)
(* does with these tables: a partial message is completed, encoded field by      *)
(* field, and decoded by the numbers of the fields.  A scalar is a name, the     *)
(* empty one its zero; a message is a function from the names of its fields.     *)
EXTENDS Naturals, Sequences, SequencesExt, TLC

CONSTANT Unset          \* a field that is not there

Descriptor(no, name, kind, of, names) ==
    [no |-> no, name |-> name, kind |-> kind, of |-> of, names |-> names]
S(no, name)        == Descriptor(no, name, "scalar", "", <<>>)
E(no, name, names) == Descriptor(no, name, "enum", "", names)
O(no, name)        == Descriptor(no, name, "optional", "", <<>>)
M(no, name, of)    == Descriptor(no, name, "message", of, <<>>)
L(no, name, of)    == Descriptor(no, name, "list", of, <<>>)
D(no, name)        == Descriptor(no, name, "map", "", <<>>)
C(no, name, of)    == Descriptor(no, name, "oneof", of, <<>>)  \* a case of its one oneof

-----------------------------------------------------------------------------
(* core/packages/v1alpha1/packages_pb.ts *)

GetAvailablePackageSummariesRequest ==
    <<M(1, "context", "Context"), M(2, "filterOptions", "FilterOptions"),
      M(3, "paginationOptions", "PaginationOptions")>>

GetAvailablePackageDetailRequest ==
    <<M(1, "availablePackageRef", "AvailablePackageReference"), S(2, "pkgVersion")>>

GetAvailablePackageVersionsRequest ==
    <<M(1, "availablePackageRef", "AvailablePackageReference"), S(2, "pkgVersion")>>

GetAvailablePackageMetadatasRequest ==
    <<M(1, "availablePackageRef", "AvailablePackageReference"), S(2, "pkgVersion")>>

GetInstalledPackageSummariesRequest ==
    <<M(1, "context", "Context"), M(2, "paginationOptions", "PaginationOptions")>>

GetInstalledPackageDetailRequest ==
    <<M(1, "installedPackageRef", "InstalledPackageReference")>>

CreateInstalledPackageRequest ==
    <<M(1, "availablePackageRef", "AvailablePackageReference"),
      M(2, "targetContext", "Context"), S(3, "name"),
      M(4, "pkgVersionReference", "VersionReference"), S(5, "values"),
      M(6, "reconciliationOptions", "ReconciliationOptions")>>

UpdateInstalledPackageRequest ==
    <<M(1, "installedPackageRef", "InstalledPackageReference"),
      M(2, "pkgVersionReference", "VersionReference"), S(3, "values"),
      M(4, "reconciliationOptions", "ReconciliationOptions")>>

DeleteInstalledPackageRequest ==
    <<M(1, "installedPackageRef", "InstalledPackageReference")>>

GetInstalledPackageResourceRefsRequest ==
    <<M(1, "installedPackageRef", "InstalledPackageReference")>>

GetAvailablePackageSummariesResponse ==
    <<L(1, "availablePackageSummaries", "AvailablePackageSummary"), S(2, "nextPageToken"),
      L(3, "categories", "")>>

GetAvailablePackageDetailResponse ==
    <<M(1, "availablePackageDetail", "AvailablePackageDetail")>>

GetAvailablePackageVersionsResponse == <<L(1, "packageAppVersions", "PackageAppVersion")>>

GetAvailablePackageMetadatasResponse ==
    <<M(1, "availablePackageRef", "AvailablePackageReference"),
      L(2, "packageMetadata", "PackageMetadata")>>

GetInstalledPackageSummariesResponse ==
    <<L(1, "installedPackageSummaries", "InstalledPackageSummary"), S(2, "nextPageToken")>>

GetInstalledPackageDetailResponse ==
    <<M(1, "installedPackageDetail", "InstalledPackageDetail")>>

CreateInstalledPackageResponse ==
    <<M(1, "installedPackageRef", "InstalledPackageReference")>>

UpdateInstalledPackageResponse ==
    <<M(1, "installedPackageRef", "InstalledPackageReference")>>

DeleteInstalledPackageResponse == <<>>

GetInstalledPackageResourceRefsResponse ==
    <<M(1, "context", "Context"), L(2, "resourceRefs", "ResourceRef")>>

AvailablePackageSummary ==
    <<M(1, "availablePackageRef", "AvailablePackageReference"), S(2, "name"),
      M(3, "latestVersion", "PackageAppVersion"), S(4, "iconUrl"), S(5, "displayName"),
      S(6, "shortDescription"), L(7, "categories", "")>>

AvailablePackageDetail ==
    <<M(1, "availablePackageRef", "AvailablePackageReference"), S(2, "name"),
      M(3, "version", "PackageAppVersion"), S(4, "repoUrl"), S(5, "homeUrl"),
      S(6, "iconUrl"), S(7, "displayName"), S(8, "shortDescription"),
      S(9, "longDescription"), S(10, "readme"), S(11, "defaultValues"),
      D(17, "additionalDefaultValues"), S(12, "valuesSchema"), L(13, "sourceUrls", ""),
      L(14, "maintainers", "Maintainer"), L(15, "categories", ""),
      M(16, "customDetail", "Any")>>

InstalledPackageSummary ==
    <<M(1, "installedPackageRef", "InstalledPackageReference"), S(2, "name"),
      M(3, "pkgVersionReference", "VersionReference"),
      M(4, "currentVersion", "PackageAppVersion"), S(5, "iconUrl"), S(6, "pkgDisplayName"),
      S(7, "shortDescription"), M(8, "latestMatchingVersion", "PackageAppVersion"),
      M(9, "latestVersion", "PackageAppVersion"), M(10, "status", "InstalledPackageStatus")>>

InstalledPackageDetail ==
    <<M(1, "installedPackageRef", "InstalledPackageReference"),
      M(2, "pkgVersionReference", "VersionReference"), S(3, "name"),
      M(4, "currentVersion", "PackageAppVersion"), S(5, "valuesApplied"),
      M(6, "reconciliationOptions", "ReconciliationOptions"),
      M(7, "status", "InstalledPackageStatus"), S(8, "postInstallationNotes"),
      M(9, "availablePackageRef", "AvailablePackageReference"),
      M(10, "latestMatchingVersion", "PackageAppVersion"),
      M(11, "latestVersion", "PackageAppVersion"), M(14, "customDetail", "Any")>>

Context == <<S(1, "cluster"), S(2, "namespace")>>

AvailablePackageReference ==
    <<M(1, "context", "Context"), S(2, "identifier"), M(3, "plugin", "Plugin")>>

Maintainer == <<S(1, "name"), S(2, "email")>>

FilterOptions ==
    <<S(1, "query"), L(2, "categories", ""), L(3, "repositories", ""), S(4, "pkgVersion"),
      S(5, "appVersion")>>

PaginationOptions == <<S(1, "pageToken"), S(2, "pageSize")>>

InstalledPackageReference ==
    <<M(1, "context", "Context"), S(2, "identifier"), M(3, "plugin", "Plugin")>>

VersionReference == <<S(1, "version")>>

InstalledPackageStatus_StatusReason ==
    <<"UNSPECIFIED", "INSTALLED", "UNINSTALLED", "FAILED", "PENDING">>

InstalledPackageStatus == <<S(1, "ready"), E(2, "reason", InstalledPackageStatus_StatusReason), S(3, "userReason")>>

ReconciliationOptions == <<S(1, "interval"), S(2, "suspend"), S(3, "serviceAccountName")>>

PackageAppVersion == <<S(1, "pkgVersion"), S(2, "appVersion")>>

PackageMetadata ==
    <<S(1, "mediaType"), S(2, "artifactType"), S(3, "digest"), S(4, "name"),
      S(5, "description"), S(6, "url")>>

ResourceRef == <<S(1, "apiVersion"), S(2, "kind"), S(3, "name"), S(4, "namespace")>>

-----------------------------------------------------------------------------
(* core/packages/v1alpha1/repositories_pb.ts *)

AddPackageRepositoryRequest ==
    <<M(1, "context", "Context"), S(2, "name"), S(3, "description"),
      S(4, "namespaceScoped"), S(5, "type"), S(6, "url"), S(7, "interval"),
      M(8, "tlsConfig", "PackageRepositoryTlsConfig"),
      M(9, "auth", "PackageRepositoryAuth"), M(10, "plugin", "Plugin"),
      M(11, "customDetail", "Any")>>

PackageRepositoryTlsConfig ==
    <<S(1, "insecureSkipVerify"), C(2, "certAuthority", ""),
      C(3, "secretRef", "SecretKeyReference")>>

PackageRepositoryAuth_PackageRepositoryAuthType ==
    <<"UNSPECIFIED", "BASIC_AUTH", "TLS", "BEARER", "AUTHORIZATION_HEADER",
      "DOCKER_CONFIG_JSON", "SSH", "OPAQUE">>

PackageRepositoryAuth ==
    <<E(1, "type", PackageRepositoryAuth_PackageRepositoryAuthType), C(2, "usernamePassword", "UsernamePassword"),
      C(3, "tlsCertKey", "TlsCertKey"), C(4, "dockerCreds", "DockerCredentials"),
      C(5, "header", ""), C(6, "secretRef", "SecretKeyReference"),
      C(8, "sshCreds", "SshCredentials"), C(9, "opaqueCreds", "OpaqueCredentials"),
      S(7, "passCredentials")>>

UsernamePassword == <<S(1, "username"), S(2, "password")>>

TlsCertKey == <<S(1, "cert"), S(2, "key")>>

DockerCredentials == <<S(1, "server"), S(2, "username"), S(3, "password"), S(4, "email")>>

SshCredentials == <<S(1, "privateKey"), S(2, "knownHosts")>>

OpaqueCredentials == <<D(1, "data")>>

SecretKeyReference == <<S(1, "name"), S(2, "key")>>

GetPackageRepositoryDetailRequest ==
    <<M(1, "packageRepoRef", "PackageRepositoryReference")>>

GetPackageRepositorySummariesRequest == <<M(1, "context", "Context")>>

UpdatePackageRepositoryRequest ==
    <<M(1, "packageRepoRef", "PackageRepositoryReference"), S(2, "url"),
      S(3, "description"), S(4, "interval"),
      M(5, "tlsConfig", "PackageRepositoryTlsConfig"),
      M(6, "auth", "PackageRepositoryAuth"), M(11, "customDetail", "Any")>>

DeletePackageRepositoryRequest == <<M(1, "packageRepoRef", "PackageRepositoryReference")>>

PackageRepositoryReference ==
    <<M(1, "context", "Context"), S(2, "identifier"), M(3, "plugin", "Plugin")>>

AddPackageRepositoryResponse == <<M(1, "packageRepoRef", "PackageRepositoryReference")>>

PackageRepositoryStatus_StatusReason ==
    <<"UNSPECIFIED", "SUCCESS", "FAILED", "PENDING">>

PackageRepositoryStatus == <<S(1, "ready"), E(2, "reason", PackageRepositoryStatus_StatusReason), S(3, "userReason")>>

PackageRepositoryDetail ==
    <<M(1, "packageRepoRef", "PackageRepositoryReference"), S(2, "name"),
      S(3, "description"), S(4, "namespaceScoped"), S(5, "type"), S(6, "url"),
      S(7, "interval"), M(8, "tlsConfig", "PackageRepositoryTlsConfig"),
      M(9, "auth", "PackageRepositoryAuth"), M(10, "customDetail", "Any"),
      M(11, "status", "PackageRepositoryStatus")>>

GetPackageRepositoryDetailResponse == <<M(1, "detail", "PackageRepositoryDetail")>>

PackageRepositorySummary ==
    <<M(1, "packageRepoRef", "PackageRepositoryReference"), S(2, "name"),
      S(3, "description"), S(4, "namespaceScoped"), S(5, "type"), S(6, "url"),
      M(7, "status", "PackageRepositoryStatus"), S(8, "requiresAuth")>>

GetPackageRepositorySummariesResponse ==
    <<L(1, "packageRepositorySummaries", "PackageRepositorySummary")>>

UpdatePackageRepositoryResponse == <<M(1, "packageRepoRef", "PackageRepositoryReference")>>

DeletePackageRepositoryResponse == <<>>

GetPackageRepositoryPermissionsRequest == <<M(1, "context", "Context")>>

PackageRepositoriesPermissions ==
    <<M(1, "plugin", "Plugin"), D(2, "global"), D(3, "namespace")>>

GetPackageRepositoryPermissionsResponse ==
    <<L(1, "permissions", "PackageRepositoriesPermissions")>>

-----------------------------------------------------------------------------
(* core/plugins/v1alpha1/plugins_pb.ts *)

GetConfiguredPluginsRequest == <<>>

GetConfiguredPluginsResponse == <<L(1, "plugins", "Plugin")>>

Plugin == <<S(1, "name"), S(2, "version")>>

-----------------------------------------------------------------------------
(* plugins/fluxv2/packages/v1alpha1/fluxv2_pb.ts *)

FluxPackageRepositoryCustomDetail == <<S(1, "provider")>>

-----------------------------------------------------------------------------
(* plugins/helm/packages/v1alpha1/helm_pb.ts *)

InstalledPackageDetailCustomDataHelm == <<S(2, "releaseRevision")>>

RollbackInstalledPackageRequest ==
    <<M(1, "installedPackageRef", "InstalledPackageReference"), S(2, "releaseRevision")>>

RollbackInstalledPackageResponse ==
    <<M(1, "installedPackageRef", "InstalledPackageReference")>>

ImagesPullSecret == <<C(1, "secretRef", ""), C(2, "credentials", "DockerCredentials")>>

HelmPackageRepositoryCustomDetail ==
    <<M(1, "imagesPullSecret", "ImagesPullSecret"), L(2, "ociRepositories", ""),
      M(3, "filterRule", "RepositoryFilterRule"), S(4, "performValidation"),
      M(5, "proxyOptions", "ProxyOptions"), D(6, "nodeSelector"),
      L(7, "tolerations", "Toleration"), M(8, "securityContext", "PodSecurityContext")>>

RepositoryFilterRule == <<S(1, "jq"), D(4, "variables")>>

ProxyOptions == <<S(1, "enabled"), S(2, "httpProxy"), S(3, "httpsProxy"), S(4, "noProxy")>>

Toleration ==
    <<O(1, "key"), O(2, "operator"), O(3, "value"), O(4, "effect"),
      O(5, "tolerationSeconds")>>

PodSecurityContext ==
    <<O(1, "runAsUser"), O(6, "runAsGroup"), O(3, "runAsNonRoot"),
      L(4, "supplementalGroups", ""), O(5, "fSGroup")>>

-----------------------------------------------------------------------------
(* plugins/resources/v1alpha1/resources_pb.ts *)

GetResourcesRequest ==
    <<M(1, "installedPackageRef", "InstalledPackageReference"),
      L(2, "resourceRefs", "ResourceRef"), S(3, "watch")>>

GetResourcesResponse == <<M(1, "resourceRef", "ResourceRef"), S(2, "manifest")>>

GetServiceAccountNamesRequest == <<M(1, "context", "Context")>>

GetServiceAccountNamesResponse == <<L(1, "serviceaccountNames", "")>>

GetNamespaceNamesRequest == <<S(1, "cluster")>>

GetNamespaceNamesResponse == <<L(1, "namespaceNames", "")>>

CreateNamespaceRequest == <<M(1, "context", "Context"), D(2, "labels")>>

CreateNamespaceResponse == <<>>

CheckNamespaceExistsRequest == <<M(1, "context", "Context")>>

CheckNamespaceExistsResponse == <<S(1, "exists")>>

CanIRequest == <<M(1, "context", "Context"), S(2, "group"), S(3, "resource"), S(4, "verb")>>

CanIResponse == <<S(1, "allowed")>>

-----------------------------------------------------------------------------
FieldsOf(T) ==
    CASE T = "GetAvailablePackageSummariesRequest" -> GetAvailablePackageSummariesRequest
      [] T = "GetAvailablePackageDetailRequest" -> GetAvailablePackageDetailRequest
      [] T = "GetAvailablePackageVersionsRequest" -> GetAvailablePackageVersionsRequest
      [] T = "GetAvailablePackageMetadatasRequest" -> GetAvailablePackageMetadatasRequest
      [] T = "GetInstalledPackageSummariesRequest" -> GetInstalledPackageSummariesRequest
      [] T = "GetInstalledPackageDetailRequest" -> GetInstalledPackageDetailRequest
      [] T = "CreateInstalledPackageRequest" -> CreateInstalledPackageRequest
      [] T = "UpdateInstalledPackageRequest" -> UpdateInstalledPackageRequest
      [] T = "DeleteInstalledPackageRequest" -> DeleteInstalledPackageRequest
      [] T = "GetInstalledPackageResourceRefsRequest" -> GetInstalledPackageResourceRefsRequest
      [] T = "GetAvailablePackageSummariesResponse" -> GetAvailablePackageSummariesResponse
      [] T = "GetAvailablePackageDetailResponse" -> GetAvailablePackageDetailResponse
      [] T = "GetAvailablePackageVersionsResponse" -> GetAvailablePackageVersionsResponse
      [] T = "GetAvailablePackageMetadatasResponse" -> GetAvailablePackageMetadatasResponse
      [] T = "GetInstalledPackageSummariesResponse" -> GetInstalledPackageSummariesResponse
      [] T = "GetInstalledPackageDetailResponse" -> GetInstalledPackageDetailResponse
      [] T = "CreateInstalledPackageResponse" -> CreateInstalledPackageResponse
      [] T = "UpdateInstalledPackageResponse" -> UpdateInstalledPackageResponse
      [] T = "DeleteInstalledPackageResponse" -> DeleteInstalledPackageResponse
      [] T = "GetInstalledPackageResourceRefsResponse" -> GetInstalledPackageResourceRefsResponse
      [] T = "AvailablePackageSummary" -> AvailablePackageSummary
      [] T = "AvailablePackageDetail" -> AvailablePackageDetail
      [] T = "InstalledPackageSummary" -> InstalledPackageSummary
      [] T = "InstalledPackageDetail" -> InstalledPackageDetail
      [] T = "Context" -> Context
      [] T = "AvailablePackageReference" -> AvailablePackageReference
      [] T = "Maintainer" -> Maintainer
      [] T = "FilterOptions" -> FilterOptions
      [] T = "PaginationOptions" -> PaginationOptions
      [] T = "InstalledPackageReference" -> InstalledPackageReference
      [] T = "VersionReference" -> VersionReference
      [] T = "InstalledPackageStatus" -> InstalledPackageStatus
      [] T = "ReconciliationOptions" -> ReconciliationOptions
      [] T = "PackageAppVersion" -> PackageAppVersion
      [] T = "PackageMetadata" -> PackageMetadata
      [] T = "ResourceRef" -> ResourceRef
      [] T = "AddPackageRepositoryRequest" -> AddPackageRepositoryRequest
      [] T = "PackageRepositoryTlsConfig" -> PackageRepositoryTlsConfig
      [] T = "PackageRepositoryAuth" -> PackageRepositoryAuth
      [] T = "UsernamePassword" -> UsernamePassword
      [] T = "TlsCertKey" -> TlsCertKey
      [] T = "DockerCredentials" -> DockerCredentials
      [] T = "SshCredentials" -> SshCredentials
      [] T = "OpaqueCredentials" -> OpaqueCredentials
      [] T = "SecretKeyReference" -> SecretKeyReference
      [] T = "GetPackageRepositoryDetailRequest" -> GetPackageRepositoryDetailRequest
      [] T = "GetPackageRepositorySummariesRequest" -> GetPackageRepositorySummariesRequest
      [] T = "UpdatePackageRepositoryRequest" -> UpdatePackageRepositoryRequest
      [] T = "DeletePackageRepositoryRequest" -> DeletePackageRepositoryRequest
      [] T = "PackageRepositoryReference" -> PackageRepositoryReference
      [] T = "AddPackageRepositoryResponse" -> AddPackageRepositoryResponse
      [] T = "PackageRepositoryStatus" -> PackageRepositoryStatus
      [] T = "PackageRepositoryDetail" -> PackageRepositoryDetail
      [] T = "GetPackageRepositoryDetailResponse" -> GetPackageRepositoryDetailResponse
      [] T = "PackageRepositorySummary" -> PackageRepositorySummary
      [] T = "GetPackageRepositorySummariesResponse" -> GetPackageRepositorySummariesResponse
      [] T = "UpdatePackageRepositoryResponse" -> UpdatePackageRepositoryResponse
      [] T = "DeletePackageRepositoryResponse" -> DeletePackageRepositoryResponse
      [] T = "GetPackageRepositoryPermissionsRequest" -> GetPackageRepositoryPermissionsRequest
      [] T = "PackageRepositoriesPermissions" -> PackageRepositoriesPermissions
      [] T = "GetPackageRepositoryPermissionsResponse" -> GetPackageRepositoryPermissionsResponse
      [] T = "GetConfiguredPluginsRequest" -> GetConfiguredPluginsRequest
      [] T = "GetConfiguredPluginsResponse" -> GetConfiguredPluginsResponse
      [] T = "Plugin" -> Plugin
      [] T = "FluxPackageRepositoryCustomDetail" -> FluxPackageRepositoryCustomDetail
      [] T = "InstalledPackageDetailCustomDataHelm" -> InstalledPackageDetailCustomDataHelm
      [] T = "RollbackInstalledPackageRequest" -> RollbackInstalledPackageRequest
      [] T = "RollbackInstalledPackageResponse" -> RollbackInstalledPackageResponse
      [] T = "ImagesPullSecret" -> ImagesPullSecret
      [] T = "HelmPackageRepositoryCustomDetail" -> HelmPackageRepositoryCustomDetail
      [] T = "RepositoryFilterRule" -> RepositoryFilterRule
      [] T = "ProxyOptions" -> ProxyOptions
      [] T = "Toleration" -> Toleration
      [] T = "PodSecurityContext" -> PodSecurityContext
      [] T = "GetResourcesRequest" -> GetResourcesRequest
      [] T = "GetResourcesResponse" -> GetResourcesResponse
      [] T = "GetServiceAccountNamesRequest" -> GetServiceAccountNamesRequest
      [] T = "GetServiceAccountNamesResponse" -> GetServiceAccountNamesResponse
      [] T = "GetNamespaceNamesRequest" -> GetNamespaceNamesRequest
      [] T = "GetNamespaceNamesResponse" -> GetNamespaceNamesResponse
      [] T = "CreateNamespaceRequest" -> CreateNamespaceRequest
      [] T = "CreateNamespaceResponse" -> CreateNamespaceResponse
      [] T = "CheckNamespaceExistsRequest" -> CheckNamespaceExistsRequest
      [] T = "CheckNamespaceExistsResponse" -> CheckNamespaceExistsResponse
      [] T = "CanIRequest" -> CanIRequest
      [] T = "CanIResponse" -> CanIResponse

-----------------------------------------------------------------------------
(* The library. *)

Names(T)    == {d.name : d \in ToSet(FieldsOf(T))}
Field(T, f) == CHOOSE d \in ToSet(FieldsOf(T)) : d.name = f
Default(d) ==
    CASE d.kind = "scalar" -> "" [] d.kind = "enum" -> d.names[1]
      [] d.kind \in {"list", "map"} -> <<>> [] OTHER -> Unset

\* The fields of a partial message that the class has; the others are dropped in silence.
RECURSIVE Complete(_, _)
Complete(T, p) ==
    LET Value(d) == IF d.name \in DOMAIN p THEN p[d.name] ELSE Unset
        Filled(d) ==
            CASE Value(d) = Unset     -> Default(d)
              [] d.of \in {"", "Any"} -> Value(d)
              [] d.kind = "list"      -> [i \in DOMAIN Value(d) |-> Complete(d.of, Value(d)[i])]
              [] OTHER                -> Complete(d.of, Value(d))
    IN  [f \in Names(T) |-> Filled(Field(T, f))]

\* The entries of a message, each a field's number and what is on the wire for it; an Any has
\* the name of a class and what that class encodes, a map an entry for each of its keys.
RECURSIVE Encode(_, _)
Scalar(v) == [scalar |-> v]
Encode(T, m) ==
    LET Payload(d, v) ==
            CASE d.kind = "enum" -> [enum |-> CHOOSE i \in DOMAIN d.names : d.names[i] = v]
              [] d.of = "Any"    -> [any |-> v.typeUrl, message |-> Encode(v.typeUrl, v.value)]
              [] d.kind # "enum" /\ d.of = "" -> Scalar(v)
              [] OTHER           -> [message |-> Encode(d.of, v)]
        Pair(k, v) == [message |-> <<<<1, Scalar(k)>>, <<2, Scalar(v)>>>>]
        Entries(d, v) ==
            CASE v = Default(d)     -> <<>>
              [] d.kind = "list"    -> [i \in DOMAIN v |-> <<d.no, Payload(d, v[i])>>]
              [] d.kind = "map"     -> SetToSeq({<<d.no, Pair(k, v[k])>> : k \in DOMAIN v})
              [] OTHER              -> <<<<d.no, Payload(d, v)>>>>
    IN  FoldLeft(LAMBDA e, d : e \o Entries(d, m[d.name]), <<>>, FieldsOf(T))

\* A number the class has no field for is skipped; a case of a oneof takes the others away.
RECURSIVE Decode(_, _)
Decode(T, entries) ==
    LET Fields == ToSet(FieldsOf(T))
        Payload(d, w) ==
            CASE d.kind = "enum" -> d.names[w.enum]
              [] d.of = "Any"    -> [typeUrl |-> w.any, value |-> Decode(w.any, w.message)]
              [] d.kind # "enum" /\ d.of = "" -> w.scalar
              [] OTHER           -> Decode(d.of, w.message)
        OneOf == {d.name : d \in {d \in Fields : d.kind = "oneof"}}
        Set(m, d, v) ==
            CASE d.kind = "list"  -> [m EXCEPT ![d.name] = Append(@, Payload(d, v))]
              [] d.kind = "map"   ->
                    [m EXCEPT ![d.name] = v.message[1][2].scalar :> v.message[2][2].scalar @@ @]
              [] d.kind = "oneof" ->
                    [f \in DOMAIN m |-> CASE f = d.name -> Payload(d, v)
                                          [] f \in OneOf \ {d.name} -> Unset
                                          [] OTHER -> m[f]]
              [] OTHER -> [m EXCEPT ![d.name] = Payload(d, v)]
        Put(m, e) ==
            IF \A d \in Fields : d.no # e[1] THEN m
            ELSE Set(m, CHOOSE d \in Fields : d.no = e[1], e[2])
    IN  FoldLeft(Put, Complete(T, [f \in {} |-> f]), entries)
=============================================================================

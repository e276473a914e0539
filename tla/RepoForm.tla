------------------------------ MODULE RepoForm ------------------------------
(***************************************************************************)
(* The form of a package repository (PkgRepoForm.tsx): how it is filled    *)
(* from the detail of a repository, what its inputs do to one another, and *)
(* the request it becomes (install, then PackageRepositoriesService.ts).   *)
(* A text is "", "old" as it came, or "new" as typed; the fields of one    *)
(* kind of credentials are one text.                                       *)
(***************************************************************************)
EXTENDS Naturals, FiniteSets

CONSTANTS NoDetail,
          MaxFeatures,  \* bound: what a repository has that is not the default
          MaxEdits,     \* bound: edits of the form of a new repository
          MaxFixes      \* bound: edits of the form of one that exists

VARIABLES
    store,  \* repoDetail, of the repository that is edited
    ui,     \* the state of PkgRepoForm
    calls,  \* the request, when it is sent
    past    \* bounds, the parts the user touched, whether the namespace is the global one

vars == <<store, ui, calls, past>>

Methods == {"header", "basic", "bearer", "docker", "ssh", "tls", "opaque"}
NoAuth  == "unspecified"
Clouds  == {"aws", "azure", "gcp"}

\* getSupportedPackageRepositoryAuthTypes (shared/utils.ts)
Supported(plugin, type) ==
    CASE plugin = "helm"                  -> {"header", "basic", "bearer", "docker"}
      [] plugin = "flux" /\ type = "oci"  -> {"basic", "docker"}
      [] plugin = "flux" /\ type # "oci"  -> {"basic", "tls"}
      [] OTHER                            -> {}

-----------------------------------------------------------------------------
(* What repositories there are *)

NoFilter == [test |-> FALSE, not |-> FALSE, variables |-> ""]
Filters  == {NoFilter, [test |-> FALSE, not |-> TRUE, variables |-> "old"],
             [test |-> TRUE, not |-> FALSE, variables |-> "old"]}

Plain(p, t) ==
    [plugin |-> p, type |-> t, scoped |-> TRUE, method |-> NoAuth, auth |-> "none", tls |-> "none",
     skip |-> FALSE, pass |-> FALSE, pull |-> "none", filter |-> NoFilter, oci |-> "",
     provider |-> ""]

\* Those of Flux are of a namespace, and have neither filter nor pull secret; a provider is of
\* an OCI registry of Flux, and the generic one is not told.  Of no repository does the server
\* tell whether it was validated, or a proxy.
Details ==
    {d \in [plugin : {"helm", "flux"}, type : {"helm", "oci"}, scoped : BOOLEAN,
            method : Methods \cup {NoAuth}, auth : {"none", "secretRef", "creds"},
            tls : {"none", "certAuthority", "secretRef"}, skip : BOOLEAN, pass : BOOLEAN,
            pull : {"none", "secretRef", "credentials"}, filter : Filters, oci : {"", "old"},
            provider : {"", "aws"}] :
        /\ d.method \in Supported(d.plugin, d.type) \cup {NoAuth}
        /\ d.auth = "none" <=> d.method = NoAuth
        /\ d.oci = "old" => d.plugin = "helm" /\ d.type = "oci"
        /\ d.plugin = "flux" => d.scoped /\ d.pull = "none" /\ d.filter = NoFilter
        /\ d.provider # "" => d.plugin = "flux" /\ d.type = "oci"}

\* Has the detail a custom one?  An ordinary repository has none.
Custom(d) == d.pull # "none" \/ d.filter # NoFilter \/ d.oci # "" \/ d.provider # ""

ConstantsAssumption == NoDetail \notin Details

Featured(d) == Cardinality({f \in {"scoped", "method", "tls", "skip", "pass", "pull", "filter", "provider"} :
                              d[f] # Plain(d.plugin, d.type)[f]})
Likely(d)   == Featured(d) <= MaxFeatures /\ (d.provider # "" => d.method = NoAuth)

-----------------------------------------------------------------------------
(* The form *)

\* The states of a form that is mounted.
Fresh ==
    [plugin |-> "none", type |-> "none", scoped |-> TRUE, method |-> NoAuth, provider |-> "",
     showProvider |-> FALSE, creds |-> [m \in Methods |-> ""], managed |-> FALSE, secretAuthName |-> "",
     customCA |-> "", caManaged |-> FALSE, secretTLSName |-> "", skip |-> FALSE, pass |-> FALSE,
     psMethod |-> NoAuth, same |-> FALSE, psManaged |-> FALSE, psName |-> "", psCreds |-> "",
     url |-> "", interval |-> "10m", oci |-> "", names |-> "", regex |-> FALSE, exclude |-> FALSE,
     validation |-> TRUE, proxy |-> FALSE]

\* toParams of shared/jq.ts
toParams(rule) == [names |-> rule.variables, regex |-> rule.test, exclude |-> rule.not]

\* toFilterRule of shared/jq.ts
toFilterRule(names, regex, exclude) == [test |-> regex, not |-> exclude, variables |-> names]

\* Of the header both the custom one and the bearer token are set.
Secrets(d) == [m \in Methods |->
    IF d.auth = "creds" /\ (m = d.method \/ {m, d.method} \subseteq {"header", "bearer"}) THEN "old" ELSE ""]

LoadBasic(f, d) ==
    [f EXCEPT !.plugin = d.plugin, !.type = d.type, !.scoped = d.scoped, !.skip = d.skip, !.pass = d.pass,
              !.url = "old", !.interval = "old", !.method = d.method, !.creds = Secrets(d),
              !.managed = d.auth = "secretRef",
              !.secretAuthName = IF d.auth = "secretRef" THEN "old" ELSE "",
              !.customCA = IF d.tls = "certAuthority" THEN "old" ELSE "",
              !.caManaged = d.tls = "secretRef",
              !.secretTLSName = IF d.tls = "secretRef" THEN "old" ELSE ""]

\* The custom detail of the Helm plugin; an empty rule, and no pull secret, leave the state.
\* The server tells of no validation, which clears the switch.
LoadHelm(f, d) ==
    LET f1 == [f EXCEPT !.oci = d.oci, !.validation = FALSE]
        f2 == IF d.filter = NoFilter THEN f1
              ELSE [f1 EXCEPT !.names = toParams(d.filter).names, !.regex = toParams(d.filter).regex,
                              !.exclude = toParams(d.filter).exclude]
    IN IF d.pull = "none" THEN f2
       ELSE [f2 EXCEPT !.same = FALSE, !.psMethod = "docker", !.psManaged = d.pull = "secretRef",
                       !.psName = IF d.pull = "secretRef" THEN "old" ELSE "",
                       !.psCreds = IF d.pull = "credentials" THEN "old" ELSE ""]

\* The effect that resets the provider as soon as a method is selected.
Settle(f) ==
    IF f.method # NoAuth THEN [f EXCEPT !.showProvider = FALSE, !.provider = ""]
    ELSE [f EXCEPT !.showProvider = @ \/ f.provider # ""]

\* The effect on repoDetail, which without a custom detail leaves what is in it as it was when
\* the form was mounted, the validation among it; that of a new repository is {}, whose fields are undefined.
Load(d) ==
    IF d = NoDetail THEN [Fresh EXCEPT !.scoped = FALSE, !.interval = ""]
    ELSE LET f == LoadBasic(Fresh, d)
         IN Settle(CASE d.plugin = "helm" /\ Custom(d) -> LoadHelm(f, d)
                     [] d.plugin = "flux" /\ Custom(d) -> [f EXCEPT !.provider = d.provider]
                     [] OTHER -> f)

Init ==
    /\ store \in {d \in Details : Likely(d)} \cup {NoDetail}
    /\ ui = Load(store)
    /\ calls = {}
    /\ \E g \in BOOLEAN : past = [edits |-> 0, touched |-> {}, global |-> g]

-----------------------------------------------------------------------------
(* The inputs, where they are shown and enabled *)

New      == store = NoDetail
IsHelm   == ui.plugin = "helm"
HasPlugin == ui.plugin # "none"

Edit(part, f) ==
    /\ calls = {} /\ past.edits < (IF New THEN MaxEdits ELSE MaxFixes)
    /\ ui' = Settle(f)
    /\ past' = [past EXCEPT !.edits = @ + 1, !.touched = @ \cup {part}]
    /\ UNCHANGED <<store, calls>>

handleURLChange == \E u \in {"new", "bare"} : Edit("url", [ui EXCEPT !.url = u])
handleIntervalChange == \E i \in {"", "new"} : Edit("interval", [ui EXCEPT !.interval = i])

\* What the method becomes, if the plugin and the type do not support it.
MethodFor(plugin, type) == IF ui.method \in Supported(plugin, type) THEN ui.method ELSE NoAuth

handleTypeRadioButtonChange(t) ==
    /\ New /\ HasPlugin
    /\ Edit("type", [ui EXCEPT !.type = t, !.method = MethodFor(ui.plugin, t)])

\* (mutant) The method stays, whatever the plugin.
pluginKeepsMethod(p) ==
    /\ New
    /\ Edit("plugin", [ui EXCEPT !.plugin = p, !.interval = IF @ = "" THEN "10m" ELSE @,
                                 !.type = IF @ = "none" THEN "helm" ELSE @,
                                 !.scoped = p = "flux" \/ ~past.global])

handlePluginRadioButtonChange(p) ==
    /\ New
    /\ Edit("plugin", [ui EXCEPT !.plugin = p, !.interval = IF @ = "" THEN "10m" ELSE @,
                                 !.method = MethodFor(p, ui.type),
                                 !.type = IF @ = "none" THEN "helm" ELSE @,
                                 !.scoped = p = "flux" \/ ~past.global])

handleRepoScopeChange == New /\ IsHelm /\ ~past.global /\ Edit("scope", [ui EXCEPT !.scoped = ~@])

\* Docker credentials suggest the same ones for the images.
handleAuthRadioButtonChange(m) ==
    /\ m = NoAuth \/ m \in Supported(ui.plugin, ui.type)
    /\ LET f == [ui EXCEPT !.method = m, !.showProvider = FALSE, !.provider = "", !.same = FALSE]
       IN Edit("auth", IF m # "docker" THEN f
                       ELSE [f EXCEPT !.psMethod = "docker", !.same = ui.psName = "" /\ ui.psCreds = ""])

handleFluxAuthProviderAuthChange ==
    /\ ui.plugin = "flux" /\ ui.type = "oci"
    /\ Edit("auth", [ui EXCEPT !.method = NoAuth, !.showProvider = TRUE,
                               !.provider = IF @ = "" THEN "generic" ELSE @])

handleFluxAuthProviderChange(v) ==
    /\ ui.showProvider /\ (~New => store.provider \notin Clouds)
    /\ Edit("auth", [ui EXCEPT !.provider = v])

\* The details of the method: the switch, and then the name of a secret or its values.
HasMethod == ui.method # NoAuth
handleIsUserManagedSecretChange ==
    HasMethod /\ (~New => store.method = NoAuth) /\ Edit("auth", [ui EXCEPT !.managed = ~@])
handleSecretAuthNameChange ==
    HasMethod /\ ui.managed /\ Edit("auth", [ui EXCEPT !.secretAuthName = "new"])
handleCredentialsChange ==
    HasMethod /\ ~ui.managed /\ Edit("auth", [ui EXCEPT !.creds[ui.method] = "new"])

\* The pull secret of the images.
HasPull == IsHelm /\ ui.psMethod = "docker"
OldPull == ~New /\ store.pull # "none"
handleImgPSChange(m) == IsHelm /\ Edit("pull", [ui EXCEPT !.psMethod = m])
handleUseSameAuthCredsChange ==
    HasPull /\ ui.method = "docker" /\ OldPull /\ Edit("pull", [ui EXCEPT !.same = ~@])
handleIsUserManagedPSSecretChange ==
    HasPull /\ ~ui.same /\ ~OldPull /\ Edit("pull", [ui EXCEPT !.psManaged = ~@])
setSecretPSNameChange ==
    HasPull /\ ~ui.same /\ ui.psManaged /\ Edit("pull", [ui EXCEPT !.psName = "new"])
handleImgPSCredentialsChange ==
    HasPull /\ ~ui.same /\ ~ui.psManaged /\ Edit("pull", [ui EXCEPT !.psCreds = "new"])

\* The filtering panel.
handleFiltering ==
    /\ IsHelm
    /\ \/ ui.type = "oci" /\ Edit("oci", [ui EXCEPT !.oci = "new"])
       \/ \E n \in {"", "new"} : Edit("filter", [ui EXCEPT !.names = n])
       \/ Edit("filter", [ui EXCEPT !.regex = ~@])
       \/ Edit("filter", [ui EXCEPT !.exclude = ~@])

\* The advanced panel.
handleAdvanced ==
    \/ IsHelm /\ Edit("validation", [ui EXCEPT !.validation = ~@])
    \/ HasPlugin /\ ~ui.skip /\ (~New => store.tls = "none") /\ Edit("tls", [ui EXCEPT !.caManaged = ~@])
    \/ HasPlugin /\ ~ui.skip /\ ui.caManaged /\ Edit("tls", [ui EXCEPT !.secretTLSName = "new"])
    \/ HasPlugin /\ ~ui.skip /\ ~ui.caManaged /\ Edit("tls", [ui EXCEPT !.customCA = "new"])
    \/ IsHelm /\ Edit("skip", [ui EXCEPT !.skip = ~@])
    \/ HasPlugin /\ Edit("pass", [ui EXCEPT !.pass = ~@])
    \/ IsHelm /\ New /\ Edit("proxy", [ui EXCEPT !.proxy = ~@])

-----------------------------------------------------------------------------
(* install *)

\* The browser submits a form whose required inputs are filled.
Complete(f) ==
    /\ f.url # "" /\ f.plugin # "none" /\ f.type # "none"
    /\ f.method # NoAuth => IF f.managed THEN f.secretAuthName # "" ELSE f.creds[f.method] # ""
    /\ f.plugin = "helm" /\ f.psMethod = "docker" /\ ~f.same =>
          IF f.psManaged THEN f.psName # "" ELSE f.psCreds # ""

\* The form as IPkgRepoFormData: what is managed by the user is not sent as a value.
FormData(f) ==
    LET own(t) == IF f.managed THEN "" ELSE t
    IN [plugin |-> f.plugin, type |-> f.type, scoped |-> f.scoped, isUserManaged |-> f.managed,
        namespace |-> IF ~f.scoped /\ f.plugin = "helm" THEN "global" ELSE "own",
        authMethod |-> IF f.plugin = "flux" /\ f.provider # "" THEN NoAuth ELSE f.method,
        creds |-> [m \in Methods |-> own(f.creds[m])],
        secretAuthName |-> IF f.managed THEN f.secretAuthName ELSE "",
        customCA |-> IF f.caManaged THEN "" ELSE f.customCA,
        secretTLSName |-> IF f.caManaged THEN f.secretTLSName ELSE "",
        skip |-> f.skip, pass |-> f.pass, interval |-> f.interval,
        url |-> IF f.plugin = "helm" /\ f.url = "bare" THEN "new" ELSE f.url]

\* (mutant) The flags are swapped.
SwappedFlags(f) ==
    IF f.plugin = "helm" /\ f.type = "helm" /\ f.names # ""
    THEN toFilterRule(f.names, f.exclude, f.regex) ELSE NoFilter

\* The rule of a Helm repository, and none for an OCI registry.
FilterRule(f) ==
    IF f.plugin = "helm" /\ f.type = "helm" /\ f.names # ""
    THEN toFilterRule(f.names, f.regex, f.exclude) ELSE NoFilter

\* imagesPullSecret, which is not encoded when it has no values.
PullSecret(f) ==
    LET value == IF f.same THEN f.creds["docker"] ELSE f.psCreds
    IN CASE f.plugin # "helm" \/ f.psMethod # "docker" -> <<"none", "">>
         [] f.plugin = "helm" /\ f.psMethod = "docker" /\ f.psManaged ->
                <<"secretRef", IF f.same THEN f.secretAuthName ELSE f.psName>>
         [] OTHER -> IF value = "" THEN <<"none", "">> ELSE <<"credentials", value>>

\* The detail of a plugin.  The proxy is in no request.  That of Flux is an object where the
\* bytes should be, not encoded: the library makes of it an empty array, so that who decodes
\* it finds no provider.
CustomDetail(f) ==
    [oci |-> IF f.plugin = "helm" THEN f.oci ELSE "",
     validation |-> f.plugin = "helm" /\ f.validation,
     filter |-> FilterRule(f), pull |-> PullSecret(f), provider |-> ""]

\* The credentials of the method.  `case (AUTHORIZATION_HEADER, BEARER):` is the case of
\* BEARER alone (PackageRepositoriesService.ts:130).
OwnAuth(q) ==
    IF q.authMethod \in Methods \ {"header"} /\ q.creds[q.authMethod] # ""
    THEN <<q.authMethod, q.creds[q.authMethod]>> ELSE <<"none", "">>

\* (mutant) The secret of the user is not looked at.
NoManagedAuth(q) == <<"none", "">>

ManagedAuth(q) ==
    IF q.authMethod # NoAuth /\ q.secretAuthName # "" THEN <<"secretRef", q.secretAuthName>> ELSE <<"none", "">>

\* The certificate is sent with values for the credentials, its secret with a secret for them.
TlsConfig(q) ==
    CASE ~q.isUserManaged /\ q.customCA # ""     -> <<"certAuthority", q.customCA>>
      [] q.isUserManaged /\ q.secretTLSName # "" -> <<"secretRef", q.secretTLSName>>
      [] OTHER                                   -> <<"none", "">>

buildAddOrUpdateRequest(q, c) ==
    [plugin |-> q.plugin, type |-> q.type, scoped |-> q.scoped, namespace |-> q.namespace,
     url |-> q.url, interval |-> q.interval, method |-> q.authMethod,
     auth |-> IF q.isUserManaged THEN ManagedAuth(q) ELSE OwnAuth(q),
     tls |-> TlsConfig(q), skip |-> q.skip, pass |-> q.pass,
     oci |-> c.oci, validation |-> c.validation, filter |-> c.filter, pull |-> c.pull,
     provider |-> c.provider, proxy |-> FALSE]

install ==
    /\ calls = {} /\ Complete(ui)
    /\ calls' = {buildAddOrUpdateRequest(FormData(ui), CustomDetail(ui))}
    /\ UNCHANGED <<store, ui, past>>

Next == \/ handleURLChange \/ handleIntervalChange \/ handleRepoScopeChange
        \/ \E t \in {"helm", "oci"} : handleTypeRadioButtonChange(t)
        \/ \E p \in {"helm", "flux"} : handlePluginRadioButtonChange(p)
        \/ \E m \in Methods \cup {NoAuth} : handleAuthRadioButtonChange(m)
        \/ handleFluxAuthProviderAuthChange
        \/ \E v \in {"generic"} \cup Clouds : handleFluxAuthProviderChange(v)
        \/ handleIsUserManagedSecretChange \/ handleSecretAuthNameChange \/ handleCredentialsChange
        \/ \E m \in {"docker", NoAuth} : handleImgPSChange(m)
        \/ handleUseSameAuthCredsChange \/ handleIsUserManagedPSSecretChange
        \/ setSecretPSNameChange \/ handleImgPSCredentialsChange
        \/ handleFiltering \/ handleAdvanced \/ install

Spec == Init /\ [][Next]_vars

-----------------------------------------------------------------------------
(* Properties *)

\* Every variable keeps its type.
TypeOK ==
    /\ store # NoDetail => store.method \in Supported(store.plugin, store.type) \cup {NoAuth}
    /\ DOMAIN ui = DOMAIN Fresh
    /\ ui.method \in Methods \cup {NoAuth} /\ ui.psMethod \in {"docker", NoAuth}
    /\ Cardinality(calls) <= 1

\* An update leaves what the user did not touch as it was: but for the custom header, the
\* provider, the filter of an OCI registry, and a certificate managed otherwise than the
\* credentials; and it asks for a validation just if the repository has no custom detail,
\* whatever its creator asked for (install, buildAddOrUpdateRequest, PkgRepoForm.tsx:293).
KeepsUntouched ==
    \A q \in calls : ~New =>
        /\ "url" \notin past.touched => q.url = "old"
        /\ "auth" \notin past.touched =>
              /\ q.method = store.method
              /\ store.auth = "secretRef" => q.auth = <<"secretRef", "old">>
              /\ store.auth = "creds" /\ store.method # "header" => q.auth = <<store.method, "old">>
        /\ "tls" \notin past.touched /\ (store.tls = "secretRef") = ui.managed =>
              q.tls = (IF store.tls = "none" THEN <<"none", "">> ELSE <<store.tls, "old">>)
        /\ {"auth", "pull"} \cap past.touched = {} =>
              q.pull = (IF store.pull = "none" THEN <<"none", "">> ELSE <<store.pull, "old">>)
        /\ "filter" \notin past.touched /\ store.type = "helm" => q.filter = store.filter
        /\ "validation" \notin past.touched => q.validation = (store.plugin = "helm" /\ ~Custom(store))
        /\ \A p \in {"oci", "skip", "pass"} \ past.touched : q[p] = store[p]

\* What the form shows is what is sent, whatever was shown and filled in before, with the
\* same exceptions (install, buildAddOrUpdateRequest).
SendsWhatIsShown ==
    \A q \in calls :
        /\ ui.method # NoAuth /\ ui.managed => q.auth = <<"secretRef", ui.secretAuthName>>
        /\ ui.method \in Methods \ {"header"} /\ ~ui.managed => q.auth = <<ui.method, ui.creds[ui.method]>>
        /\ ui.method = NoAuth => q.auth = <<"none", "">>
        /\ HasPull /\ ~ui.same => q.pull[2] = (IF ui.psManaged THEN ui.psName ELSE ui.psCreds)
        /\ HasPull /\ ui.same /\ ui.psManaged = ui.managed =>
              q.pull[2] = (IF ui.managed THEN ui.secretAuthName ELSE ui.creds["docker"])
        /\ ui.plugin = "helm" /\ ui.type = "helm" /\ ui.names # "" =>
              toParams(q.filter) = [names |-> ui.names, regex |-> ui.regex, exclude |-> ui.exclude]

\* The method that is sent is one the plugin supports for the storage, none beside a provider
\* that is shown, and the scope one that the plugin knows, in any order of the choices
\* (handlePluginRadioButtonChange, handleTypeRadioButtonChange).
SendsSupported ==
    \A q \in calls :
        /\ q.method \in Supported(q.plugin, q.type) \cup {NoAuth}
        /\ ui.provider # "" => q.method = NoAuth
        /\ q.plugin = "flux" => q.scoped
        /\ q.namespace = "own" => q.scoped

\* "send the proper header depending on the auth method" (PkgRepoForm.tsx:411)
SendsHeader ==
    \A q \in calls : q.method = "header" /\ ~ui.managed => q.auth = <<"header", ui.creds["header"]>>

\* The value of the custom detail "is the result of the encoding (+finish(), to get the
\* Uint8Array) of the actual custom object" (PackageRepositoriesService.ts:285), so that the
\* server finds the provider that is shown.
SendsProvider == \A q \in calls : q.plugin = "flux" => q.provider = ui.provider
=============================================================================

--------------------------- MODULE CreateResources ---------------------------
(***************************************************************************)
(* `flux create` of everything that is neither a source nor a secret.  Of  *)
(* the flags that are only copied, a few stand for all.                    *)
(***************************************************************************)
EXTENDS CommandArgs

----------------------------------------------------------------------------
(* Kustomization, HelmRelease.                                             *)

KustomizationFlags ==
    [source |-> "", path |-> <<".", "">>, healthCheck |-> <<>>, wait |-> FALSE,
     decryptionProvider |-> "", decryptionSecret |-> "", healthTimeout |-> "",
     saName |-> "", labels |-> <<>>]

HealthCheckKinds == {"Deployment", "DaemonSet", "StatefulSet", "HelmRelease"}

\* kind/name.namespace with exactly one dot.
HealthCheckValid(w) ==
    /\ Len(w) = 2 /\ Len(w[1]) = 1 /\ w[1][1] \in HealthCheckKinds
    /\ Len(w[2]) = 2

CreateKustomization(f) ==
    LET checks == f.healthCheck # <<>> /\ ~f.wait
        spec == ("path" :> f.path) @@ ("source" :> f.source) @@ ("suspend" :> FALSE)
                @@ ("labels" :> ParseLabels(f.labels))
                @@ (IF checks THEN "healthChecks" :> f.healthCheck ELSE Nothing)
                @@ (IF f.wait THEN "wait" :> TRUE ELSE Nothing)
                @@ (IF checks \/ f.wait THEN "timeout" :> f.healthTimeout ELSE Nothing)
                @@ Given("serviceAccountName", f.saName)
                @@ (IF f.decryptionProvider = "" THEN Nothing
                    ELSE ("decryption" :> f.decryptionProvider)
                         @@ Given("decryptionSecret", f.decryptionSecret))
    IN Checked(\/ f.path = <<>> \/ f.path[1] # "."
               \/ f.source = "" \/ ~LabelsValid(f.labels)
               \/ checks /\ \E i \in DOMAIN f.healthCheck : ~HealthCheckValid(f.healthCheck[i]),
               Plain(spec, "dynamic", FALSE))

HelmReleaseFlags ==
    [source |-> "", chart |-> "", chartVersion |-> "", chartRef |-> <<>>,
     targetNamespace |-> "", storageNamespace |-> "", createNamespace |-> FALSE,
     crds |-> "", reconcileStrategy |-> "ChartVersion", values |-> <<>>,
     valuesFrom |-> <<>>, labels |-> <<>>]

ChartRefKinds == {"OCIRepository", "HelmChart"}
ValuesFromKinds == {"Secret", "ConfigMap"}

ValidateStrategy(s) == s \in {"Revision", "ChartVersion"}

\* The values files are merged, later ones over earlier ones.
MergedValues(files) ==
    FoldLeft(LAMBDA acc, v : v @@ acc, Nothing, files)

CreateHelmRelease(f) ==
    LET ref == ParseObjectKindNameNamespace(f.chartRef)
        storage == IF f.storageNamespace = "" THEN f.targetNamespace ELSE f.storageNamespace
        spec == ("targetNamespace" :> f.targetNamespace) @@ ("storageNamespace" :> storage)
                @@ ("suspend" :> FALSE) @@ ("labels" :> ParseLabels(f.labels))
                @@ (IF f.chart # ""
                    THEN ("chart" :> <<f.chart, f.chartVersion, f.source, f.reconcileStrategy>>)
                    ELSE ("chartRef" :> ref))
                @@ (IF f.createNamespace THEN "installCreateNamespace" :> TRUE ELSE Nothing)
                @@ (IF f.crds = "" THEN Nothing
                    ELSE ("installCRDs" :> "Create") @@ ("upgradeCRDs" :> f.crds))
                @@ (IF f.values = <<>> THEN Nothing ELSE "values" :> MergedValues(f.values))
                @@ GivenSeq("valuesFrom", f.valuesFrom)
    IN Checked(\/ f.chart = "" /\ f.chartRef = <<>>
               \/ f.chart # "" /\ f.chartRef # <<>>
               \/ ~LabelsValid(f.labels) \/ ~ValidateStrategy(f.reconcileStrategy)
               \/ f.chart = "" /\ f.chartRef # <<>>
                    /\ (Len(ref.kind) # 1 \/ ref.kind[1] \notin ChartRefKinds)
               \/ \E i \in DOMAIN f.valuesFrom :
                     LET v == ParseObjectKindName(f.valuesFrom[i]) IN
                     Len(v.kind) # 1 \/ v.kind[1] \notin ValuesFromKinds,
               Plain(spec, "dynamic", FALSE))

----------------------------------------------------------------------------
(* Notifications.                                                          *)

AlertFlags == [providerRef |-> "", severity |-> "", eventSources |-> <<>>, labels |-> <<>>]

CreateAlert(f) ==
    LET source(i) == ParseObjectKindNameNamespace(f.eventSources[i])
        spec == ("providerRef" :> f.providerRef) @@ ("eventSeverity" :> f.severity)
                @@ ("eventSources" :> [i \in DOMAIN f.eventSources |-> source(i)])
                @@ ("suspend" :> FALSE) @@ ("labels" :> ParseLabels(f.labels))
    IN Checked(\/ f.providerRef = "" \/ f.eventSources = <<>> \/ ~LabelsValid(f.labels)
               \/ \E i \in DOMAIN f.eventSources : source(i).kind = Nothing,
               Plain(spec, "static", FALSE))

AlertProviderFlags ==
    [type |-> "", channel |-> "", username |-> "", address |-> "", secretRef |-> "", labels |-> <<>>]

CreateAlertProvider(f) ==
    LET spec == ("type" :> f.type) @@ ("channel" :> f.channel) @@ ("username" :> f.username)
                @@ ("address" :> f.address) @@ Given("secretRef", f.secretRef)
                @@ ("labels" :> ParseLabels(f.labels))
    IN Checked(f.type = "" \/ ~LabelsValid(f.labels), Plain(spec, "static", FALSE))

ReceiverFlags ==
    [type |-> "", secretRef |-> "", events |-> <<>>, resources |-> <<>>, labels |-> <<>>]

\* A resource is kind/name: what follows a dot in it belongs to the name.
CreateReceiver(f) ==
    LET resource(i) == ParseObjectKindName(f.resources[i])
        spec == ("type" :> f.type) @@ ("secretRef" :> f.secretRef) @@ ("events" :> f.events)
                @@ ("resources" :> [i \in DOMAIN f.resources |-> resource(i)])
                @@ ("suspend" :> FALSE) @@ ("labels" :> ParseLabels(f.labels))
    IN Checked(\/ f.type = "" \/ f.secretRef = "" \/ f.resources = <<>> \/ ~LabelsValid(f.labels)
               \/ \E i \in DOMAIN f.resources : resource(i).kind = Nothing,
               Plain(spec, "dynamic", FALSE))

----------------------------------------------------------------------------
(* Image automation.                                                       *)

ImageRepositoryFlags ==
    [image |-> "", secretRef |-> "", certSecretRef |-> "", timeout |-> "", labels |-> <<>>]

\* An image that is not a repository's name is "invalid".
CreateImageRepository(f) ==
    LET spec == ("image" :> f.image) @@ Given("timeout", f.timeout) @@ Given("secretRef", f.secretRef)
                @@ Given("certSecretRef", f.certSecretRef) @@ ("labels" :> ParseLabels(f.labels))
    IN Checked(f.image \in {"", "invalid"} \/ ~LabelsValid(f.labels), Plain(spec, "dynamic", FALSE))

ImagePolicyFlags ==
    [imageRef |-> "", semver |-> "", alpha |-> "", numeric |-> "", filterRegex |-> <<>>,
     filterExtract |-> <<>>, reflectDigest |-> "", interval |-> "", labels |-> <<>>]

Orders == {"asc", "desc"}

\* validateExtractStr: the references of the template; "$" is a malformed one,
\* a numbered one is taken as it is, a named one must be a group of the pattern.
ExtractValid(template, groups) ==
    \A i \in DOMAIN template :
        /\ template[i] # "$"
        /\ template[i] \in {"1", "2"} \/ template[i] \in ToSet(groups)

\* A pattern is the sequence of its groups, a broken one <<"(">>.
CreateImagePolicy(f) ==
    LET chosen == {x \in {"semver", "alpha", "numeric"} : f[x] # ""}
        policy == CHOOSE x \in chosen : TRUE
        spec == ("imageRef" :> f.imageRef) @@ ("policy" :> <<policy, f[policy]>>)
                @@ GivenSeq("filterTags", f.filterRegex) @@ GivenSeq("extract", f.filterExtract)
                @@ Given("digestReflectionPolicy", f.reflectDigest) @@ Given("interval", f.interval)
                @@ ("labels" :> ParseLabels(f.labels))
    IN Checked(\/ f.imageRef = "" \/ ~LabelsValid(f.labels)
               \/ Cardinality(chosen) # 1
               \/ f.alpha \notin Orders \cup {""} \/ f.numeric \notin Orders \cup {""}
               \/ f.filterRegex = <<"(">>
               \/ IF f.filterRegex = <<>> THEN f.filterExtract # <<>>
                                         ELSE ~ExtractValid(f.filterExtract, f.filterRegex)
               \/ f.reflectDigest \notin {"", "Never", "IfNotPresent", "Always"}
               \/ f.interval # "" /\ f.reflectDigest # "Always",
               Plain(spec, "dynamic", FALSE))

ImageUpdateFlags ==
    [gitRepo |-> "", namespace |-> "", path |-> "", checkoutBranch |-> "", pushBranch |-> "",
     author |-> "", email |-> "", signingKeySecret |-> "", signingKeyType |-> "", delay |-> "",
     labels |-> <<>>]

CreateImageUpdate(f) ==
    LET spec == ("source" :> <<f.gitRepo, f.namespace>>) @@ ("checkout" :> f.checkoutBranch)
                @@ ("author" :> <<f.author, f.email>>) @@ Given("push", f.pushBranch)
                @@ (IF f.path = "" THEN Nothing ELSE ("path" :> f.path) @@ ("strategy" :> "Setters"))
                @@ Given("policyChangeDelay", f.delay)
                @@ (IF f.signingKeySecret = "" THEN Nothing
                    ELSE "signingKey" :> <<f.signingKeySecret, f.signingKeyType>>)
                @@ ("labels" :> ParseLabels(f.labels))
    IN Checked(\/ f.gitRepo = "" \/ f.checkoutBranch = "" \/ f.author = "" \/ f.email = ""
               \/ f.signingKeyType # "" /\ f.signingKeySecret = ""
               \/ f.signingKeyType \notin {"", "gpg", "ssh"}
               \/ ~LabelsValid(f.labels),
               Plain(spec, "dynamic", FALSE))

----------------------------------------------------------------------------
(* Tenant.                                                                 *)

TenantFlags ==
    [namespaces |-> <<>>, clusterRole |-> "", account |-> "", skipNamespace |-> FALSE, labels |-> <<>>]

\* Per namespace the namespace, the account and the binding of the tenant; all
\* carry the tenant's label.
TenantObjects(f, tenant) ==
    LET account == IF f.account = "" THEN tenant ELSE f.account
        objects(ns) ==
            (IF f.skipNamespace THEN <<>> ELSE <<[kind |-> "Namespace", namespace |-> ns]>>)
            \o <<[kind |-> "ServiceAccount", namespace |-> ns, name |-> account],
                 [kind |-> "RoleBinding", namespace |-> ns, name |-> account, role |-> f.clusterRole]>>
    IN FlattenSeq([i \in DOMAIN f.namespaces |-> objects(f.namespaces[i])])

CreateTenant(f) ==
    LET spec == ("objects" :> TenantObjects(f, "tenant")) @@ ("labels" :> ParseLabels(f.labels))
    IN Checked(\/ f.clusterRole = "" \/ f.namespaces = <<>> \/ ~LabelsValid(f.labels),
               Plain(spec, "none", FALSE))
=============================================================================

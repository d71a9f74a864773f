----------------------------- MODULE MCCommands -----------------------------
(* Every combination of a few values of each flag.                         *)
EXTENDS Commands

Text == {"", "x"}
Names == {<<>>, <<<<"team", "a">>>>, <<<<"team">>>>}
Good == {<<>>, <<<<"team", "a">>>>}
File == {"", "file"}

MCCreateInputs ==
    [kustomization |->
        [source : Text, path : {<<".", "deploy">>, <<"deploy">>},
         healthCheck : {<<>>, <<<<<<"Deployment">>, <<"app", "prod">>>>>>, <<<<<<"Pod">>, <<"app", "prod">>>>>>},
         wait : BOOLEAN, decryptionProvider : {"", "sops"}, decryptionSecret : Text,
         healthTimeout : {"", "1m"}, saName : Text, labels : Names],
     helmrelease |->
        [source : Text, chart : Text, chartVersion : {"", "1.x"},
         chartRef : {<<>>, <<<<"OCIRepository">>, <<"podinfo">>>>, <<<<"Bucket">>, <<"podinfo">>>>},
         targetNamespace : {"", "apps"}, storageNamespace : {"", "apps", "store"},
         createNamespace : BOOLEAN, crds : {"", "CreateReplace"},
         reconcileStrategy : {"ChartVersion", "Revision", "other"},
         values : {<<>>, <<[a |-> 1, b |-> 1], [a |-> 2]>>},
         valuesFrom : {<<>>, <<<<<<"Secret">>, <<"values">>>>>>, <<<<<<"Pod">>, <<"values">>>>>>},
         labels : Good],
     alert |->
        [providerRef : Text, severity : {"", "error"},
         eventSources : {<<>>, <<<<<<"Kustomization">>, <<"apps", "prod">>>>>>, <<<<<<"apps">>>>>>},
         labels : Names],
     provider |->
        [type : Text, channel : Text, username : Text, address : Text, secretRef : Text, labels : Names],
     receiver |->
        [type : Text, secretRef : Text, events : {<<>>, <<"push">>},
         resources : {<<>>, <<<<<<"GitRepository">>, <<"apps", "prod">>>>>>, <<<<<<"apps">>>>>>},
         labels : Names],
     imageRepository |->
        [image : {"", "ghcr.io/app", "invalid"}, secretRef : Text, certSecretRef : Text,
         timeout : {"", "1m"}, labels : Names],
     imagePolicy |->
        [imageRef : Text, semver : {"", "1.x"}, alpha : {"", "asc", "up"}, numeric : {"", "desc"},
         filterRegex : {<<>>, <<"ts">>, <<"(">>}, filterExtract : {<<>>, <<"ts">>, <<"1">>, <<"$">>},
         reflectDigest : {"", "Never", "Always"}, interval : {"", "1m"}, labels : Good],
     imageUpdate |->
        [gitRepo : Text, namespace : Text, path : Text, checkoutBranch : Text, pushBranch : Text,
         author : Text, email : Text, signingKeySecret : Text, signingKeyType : {"", "gpg", "pgp"},
         delay : {"", "1m"}, labels : Good],
     tenant |->
        [namespaces : {<<>>, <<"apps">>, <<"apps", "web">>}, clusterRole : {"", "admin"},
         account : {"", "sa"}, skipNamespace : BOOLEAN, labels : Names],
     sourceGit |->
        [scheme : {"", "ssh", "http", "https"}, branch : {"", "main"}, tag : {"", "v1"}, semver : {"", "1.x"},
         refName : {"", "refs/pull"}, commit : {"", "abc"}, username : Text, password : Text,
         secretRef : {"", "mine"}, caFile : File, privateKeyFile : File, labels : Good],
     sourceOCI |->
        [url : Text, tag : {"", "v1"}, semver : {"", "1.x"}, digest : {"", "sha256"},
         layerSelector : {<<>>, <<"tar", "extract">>, <<"tar", "unpack">>, <<"tar">>},
         verifyProvider : {"", "cosign"}, verifySecretRef : Text, verifyOIDCIssuer : Text,
         verifySubject : Text, secretRef : {"", "mine"}, labels : Good],
     sourceHelm |->
        [scheme : {"", "http", "https", "oci"}, host : Text, username : Text, password : Text,
         certFile : File, keyFile : File, caFile : File, secretRef : {"", "mine"},
         ociProvider : {"", "aws"}, passCredentials : BOOLEAN, labels : Good],
     sourceBucket |->
        [name : Text, endpoint : Text, accessKey : Text, secretKey : Text, secretRef : {"", "mine"},
         proxySecretRef : Text, ignorePaths : {<<>>, <<".txt">>}, labels : Names],
     sourceChart |->
        [source : Text, chart : Text, chartVersion : {"", "1.x"}, verifyProvider : {"", "cosign"},
         verifySecretRef : Text, verifyOIDCIssuer : Text, verifySubject : {""}, labels : Names],
     secretGit |->
        [scheme : {"", "ssh", "http", "https"}, username : Text, password : Text, bearerToken : Text,
         caFile : File, privateKeyFile : File, labels : Names],
     secretHelm |->
        [username : Text, password : Text, certFile : File, keyFile : File, caFile : File, labels : Names],
     secretTLS |-> [certFile : File, keyFile : File, caFile : File, labels : Names],
     secretOCI |-> [registry : Text, username : Text, password : Text, labels : Names],
     secretProxy |-> [address : Text, username : Text, password : Text, labels : Names],
     secretNotation |->
        [crts : {<<>>, <<<<"a", "ca.crt">>>>, <<<<"a", "ca.crt">>, <<"root.crt">>>>},
         trustPolicy : File, labels : Names],
     secretGitHubApp |->
        [appID : Text, clientID : Text, owner : Text, installationID : Text, baseURL : Text,
         privateKey : File, labels : Names],
     secretReceiver |->
        [type : {"", "github", "gcr"}, hostname : Text, token : Text, emailClaim : Text,
         audienceClaim : Text, labels : Names]]

Arguments ==
    {Args!Flag(x) : x \in {"verbose", "n", "all", "withSource"}}
    \cup {Args!Dash, Args!Resource("hr", "a"), Args!Resource("hr", "b"),
          Args!Resource("gitrepo", "a"), Args!Resource("hr", "-all"),
          Args!Qualified("hr", "a", "unknown"), Args!Word("helmreleases"),
          Args!Word("helmrelease"), Args!Word("x")}

MCCommandLines ==
    {<<Args!Word(v)>> \o l : v \in {"get", "reconcile"}, l \in BoundedSeq(Arguments, 3)}
    \cup {<<Args!Flag("n"), Args!Word("x"), Args!Word("reconcile"), Args!Resource("alert", "a")>>}
    \cup {<<Args!Flag("n"), Args!Word("get"), Args!Word("get")>> \o l : l \in BoundedSeq(Arguments, 2)}
    \cup {<<Args!Word("get"), Args!Resource("gitrepo", "a")>> \o l : l \in BoundedSeq(Arguments, 3)}

\* A workload and its owners, each with managers of its own, and what those come
\* from; one Kustomization that is named by labels does not exist.
Pod == <<"Pod", "apps", "web">>
ReplicaSet == <<"ReplicaSet", "apps", "web">>
Deployment == <<"Deployment", "apps", "web">>
Certificate == <<"Certificate", "apps", "web">>
Ks == <<"Kustomization", "flux", "apps">>
Hr == <<"HelmRelease", "flux", "apps">>
Ref(kind) == [kind |-> kind, name |-> "web"]
KsFar == <<"Kustomization", "flux", "infra">>
HrFar == <<"HelmRelease", "flux", "infra">>
KsGone == <<"Kustomization", "flux", "gone">>
Managers(ks, hr) == {Tracing!NotManaged, "kustomize" :> ks, "helm" :> hr}
Owned(managers, owners) == [managers |-> managers, owners |-> owners, ready |-> "True"]
Source(ready, hasSource) == [Owned(<<>>, <<>>) EXCEPT !.ready = ready] @@ [hasSource |-> hasSource]
KsObject(ref, ready) == [Owned(<<>>, <<>>) EXCEPT !.ready = ready] @@ [sourceRef |-> ref]
HrObject(chart, chartRef, helmChart) ==
    Owned(<<>>, <<>>) @@ [chart |-> chart, chartRef |-> chartRef, helmChart |-> helmChart]

OwnedClusters ==
    {(Pod :> Owned(p, po)) @@ (ReplicaSet :> Owned(r, ro)) @@ (Deployment :> Owned(d, <<>>))
     @@ (Certificate :> Owned(c, <<>>))
     @@ (Ks :> KsObject([kind |-> "Other", namespace |-> "", name |-> "x"], "True"))
     @@ (KsFar :> KsObject([kind |-> "Other", namespace |-> "", name |-> "x"], "False"))
     @@ [k \in {Hr, HrFar} |-> HrObject(<<>>, <<>>, <<>>)] :
        p \in {<<>>, "helm" :> HrFar}, r \in Managers(Ks, Hr), d \in Managers(KsFar, HrFar),
        c \in Managers(KsGone, Hr),
        po \in BoundedSeq({Ref("ReplicaSet"), Ref("Certificate"), Ref("Missing")}, 2),
        ro \in BoundedSeq({Ref("Deployment"), Ref("Certificate")}, 2)}

SourceKinds == {"GitRepository", "HelmRepository", "OCIRepository", "ExternalArtifact", "Bucket"}
SourceRefs == [kind : SourceKinds, namespace : {"", "infra"}, name : {"repo"}]

SourceClusters ==
    {(Pod :> Owned(("kustomize" :> Ks), <<>>)) @@ (Ks :> KsObject(ref, ready))
     @@ [k \in {<<kind, "flux", "repo">> : kind \in present} |-> Source(ready, real)] :
        ref \in SourceRefs, ready \in {"True", "False", "none"}, real \in BOOLEAN,
        present \in {SourceKinds, {}, {"Bucket"}}}
    \cup
    {(Pod :> Owned(("helm" :> Hr), <<>>)) @@ (Hr :> HrObject(chart, chartRef, helmChart))
     @@ [k \in {<<kind, "flux", "repo">> : kind \in present} |-> Source("True", real)]
     @@ (<<"HelmChart", "flux", "web">> :> Owned(<<>>, <<>>)) :
        chart \in {<<>>} \cup {<<r>> : r \in SourceRefs}, chartRef \in {<<>>} \cup {<<r>> : r \in SourceRefs},
        helmChart \in {<<>>, <<"flux", "web">>, <<"flux", "gone">>}, real \in BOOLEAN,
        present \in {SourceKinds, {}}}

MCTracedObjects ==
    {[cluster |-> c, objects |-> <<Pod>>] : c \in SourceClusters}
    \cup {[cluster |-> c, objects |-> <<Pod, ReplicaSet>>] : c \in OwnedClusters}

\* Three Kustomizations that may apply one another, a release and what is in it.
KsA == <<"Kustomization", "a">>
KsB == <<"Kustomization", "b">>
KsC == <<"Kustomization", "c">>
Release == <<"HelmRelease", "r">>
Workload == <<"Deployment", "w">>
Definition == <<"CustomResourceDefinition", "d">>
TreeKustomizationObject(inventory, remote) == [inventory |-> inventory, remote |-> remote]
Releases ==
    {[remote |-> remote, stored |-> stored, manifest |-> m, handlesCRDs |-> TRUE, labelledCRDs |-> <<Definition>>] :
        remote \in BOOLEAN, stored \in {"none", "broken", "there"}, m \in {<<Workload, KsB>>, <<Definition>>}}

MCTreeClusters ==
    {[root |-> KsA,
      cluster |-> (KsA :> TreeKustomizationObject(a, aRemote)) @@ (KsB :> TreeKustomizationObject(b, bRemote))
                  @@ (KsC :> TreeKustomizationObject(c, FALSE)) @@ (Release :> r)] :
        a \in BoundedSeq({KsA, KsB, KsC, Release, Workload}, 2), b \in {<<>>, <<KsC>>, <<KsA>>, <<Release, KsC>>},
        c \in {<<>>, <<Workload>>, <<KsB>>}, aRemote \in BOOLEAN, bRemote \in BOOLEAN, r \in Releases}
    \cup {[root |-> KsC, cluster |-> KsA :> TreeKustomizationObject(<<>>, FALSE)]}

\* Two names, one of them in two namespaces, of three kinds.
Listed(namespace, name, ready) ==
    [namespace |-> namespace, name |-> name, ready |-> ready, oci |-> FALSE, labelled |-> name = "a"]
Items(ready, oci) ==
    {<<>>, <<Listed("apps", "a", "True"), Listed("flux", "a", ready), [Listed("flux", "b", "none") EXCEPT !.oci = oci]>>,
     <<Listed("flux", "b", ready)>>}
ListedKind(items, served, fails) == [items |-> items, served |-> served, fails |-> fails]

GetClusters ==
    {[HelmRepository |-> ListedKind(h, TRUE, fails), Kustomization |-> ListedKind(k, served, FALSE),
      Alert |-> ListedKind(a, TRUE, FALSE)] :
        h \in Items("none", TRUE), k \in Items("False", FALSE), a \in Items("True", FALSE),
        fails \in BOOLEAN, served \in BOOLEAN}
GetFlags ==
    [names : {<<>>, <<"a">>, <<"c">>, <<"a", "b">>, <<"b", "a">>, <<"c", "a">>, <<"c", "c">>, <<"b", "a", "b">>},
     allNamespaces : BOOLEAN, labels : BOOLEAN,
     selector : {<<>>, <<"=", "True">>, <<"=", "False">>, <<"!=", "True">>, <<"~">>}]

MCGetCommands == {[cluster |-> c, flags |-> f] : c \in GetClusters, f \in GetFlags}

\* Three objects that may share a secret and have fields the next one has not.
Exported(name, fields) == [name |-> name, fields |-> fields]
ExportedFields == {"url" :> "x", ("url" :> "y") @@ ("secretRef" :> "s"), ("suspend" :> TRUE) @@ ("secretRef" :> "t")}
ExportClusters ==
    {[objects |-> o, secrets |-> secrets] :
        o \in {<<>>} \cup {<<Exported("a", x), Exported("b", y)>> : x \in ExportedFields, y \in ExportedFields}
              \cup {<<Exported("a", x), Exported("b", y), Exported("c", z)>> :
                      x \in ExportedFields, y \in ExportedFields, z \in ExportedFields},
        secrets \in SUBSET {"s", "t"}}
MCExportCommands ==
    {[cluster |-> c, flags |-> f] : c \in ExportClusters,
        f \in [names : BoundedSeq({"a", "b", "c"}, 3), all : BOOLEAN, credentials : BOOLEAN]}

\* Objects that refer to a source here or elsewhere, and events of all of them.
RefTo(kind, namespace, name) == [kind |-> kind, namespace |-> namespace, name |-> name]
Reference(ref) == [ref |-> ref]
ReleaseRefs(chartRef, source, template) == [chartRef |-> chartRef, source |-> source, template |-> template]
EventObjects ==
    {(<<"Kustomization", "flux", "app">> :> Reference(RefTo("GitRepository", namespace, "repo")))
     @@ (<<"Alert", "flux", "app">> :> Reference(RefTo("Provider", "", "repo")))
     @@ (<<"ImagePolicy", "flux", "app">> :> Reference(RefTo("ImageRepository", namespace, "repo")))
     @@ (<<"GitRepository", "flux", "app">> :> <<>>)
     @@ (<<"HelmRelease", "flux", "app">> :> hr) :
        namespace \in {"", "infra"},
        hr \in {ReleaseRefs(<<RefTo("HelmChart", "infra", "repo")>>, <<>>, <<>>),
                ReleaseRefs(<<>>, <<RefTo("HelmRepository", "", "repo")>>, <<RefTo("HelmChart", "", "flux-app")>>),
                ReleaseRefs(<<>>, <<>>, <<RefTo("OCIRepository", "", "app")>>)}}
Event(kind, namespace, name, type, series, last, time) ==
    [object |-> <<kind, namespace, name>>, type |-> type, series |-> series, last |-> last, time |-> time]
EventLists ==
    {<<Event("Kustomization", "flux", "app", "Warning", s, 2, 1), Event("Kustomization", "apps", "app", "Normal", 0, 1, 0),
       Event("GitRepository", n, "repo", "Normal", 0, l, 5), Event("ImageRepository", n, "repo", "Warning", 0, 2, 0),
       Event("HelmRelease", "flux", "app", "Normal", 0, 0, 4), Event("HelmChart", "infra", "repo", "Normal", 0, 2, 0),
       Event("HelmChart", "flux", "flux-app", "Normal", 0, 5, 0), Event("HelmRepository", n, "repo", "Warning", 0, 3, 0),
       Event("Provider", n, "repo", "Normal", 0, 3, 2), Event("Alert", "flux", "app", "Normal", 0, 1, 0),
       Event("Pod", "flux", "app", "Normal", 0, 1, 0), Event("OCIRepository", "flux", "app", "Normal", 0, 1, 0)>> :
        s \in {0, 4}, l \in {0, 3}, n \in {"flux", "infra"}}
MCEventCommands ==
    {[objects |-> o, events |-> e, flags |-> f] : o \in EventObjects, e \in EventLists,
        f \in [kind : {"Kustomization", "Alert", "ImagePolicy", "HelmRelease", "GitRepository", "Pod"},
               name : {"", "app", "gone"}, allNamespaces : BOOLEAN, types : {{}, {"Warning"}}]
              \cup [kind : {""}, name : {""}, allNamespaces : BOOLEAN, types : {{}, {"Warning"}}]}

\* Two Kustomizations: the first may apply the second, which may apply the first;
\* secrets with encrypted and other values in data and stringData, with and without
\* the metadata of SOPS; objects that moved, went or drifted.
Built(key, data) ==
    [key |-> key, data |-> data, strings |-> <<>>, docker |-> FALSE, secret |-> "no",
     fails |-> FALSE, excluded |-> FALSE, remote |-> FALSE]
Key(kind, name) == <<kind, name>>
Values(a, b) == ("user" :> a) @@ ("token" :> b)
User == <<"u">>
Token == <<"t">>
Encrypted == <<Building!Enc>>
SecretOf(secret, data, strings) ==
    [Built(Key("Secret", "s"), data) EXCEPT !.strings = strings, !.secret = secret]
SecretsWithMetadata ==
    {SecretOf("encrypted", Values(Encrypted, Building!Encode(Token)), <<>>),
     SecretOf("encrypted", <<>>, Values(Encrypted, Token)),
     [SecretOf("encrypted", "user" :> Encrypted, "token" :> Encrypted) EXCEPT !.docker = TRUE]}
PlainSecrets ==
    {SecretOf("plain", Values(Building!Encode(User), Building!Encode(t)), <<>>) : t \in {Token, Encrypted}}
    \cup {SecretOf("plain", "user" :> Building!Encode(u), "token" :> t) :
            u \in {User, Encrypted}, t \in {Token, Encrypted}}
    \cup {SecretOf("plain", Values(Building!Encode(User), Building!Encode(Encrypted)), "token" :> Token),
          SecretOf("plain", "user" :> User, <<>>)}
ConfigMap(value) == Built(Key("ConfigMap", "c"), "x" :> value)
Nested(name) == Built(Key("Kustomization", name), "path" :> name)
OfA ==
    {<<>>, <<ConfigMap("1")>>, <<[ConfigMap("1") EXCEPT !.fails = TRUE]>>,
     <<[ConfigMap("2") EXCEPT !.excluded = TRUE], Nested("a")>>,
     <<Nested("b"), ConfigMap("1")>>,
     <<[Nested("b") EXCEPT !.remote = TRUE]>>, <<Nested("gone"), ConfigMap("1")>>}
    \cup {<<x, Nested("b")>> : x \in SecretsWithMetadata} \cup {<<x, ConfigMap("2")>> : x \in PlainSecrets}
OfB == {<<ConfigMap("2")>>, <<Nested("a")>>, <<SecretOf("encrypted", Values(Encrypted, Encrypted), <<>>)>>,
        <<SecretOf("plain", "user" :> User, <<>>)>>}
RepositoryOf(objects, prune, inventory) == [objects |-> objects, prune |-> prune, inventory |-> inventory]
Live(data, owner, keep) == [data |-> data, owner |-> owner, keep |-> keep]
LiveClusters ==
    {(Key("Kustomization", "b") :> Live("path" :> "b", "a", FALSE)) @@ c @@ s :
        c \in {<<>>} \cup {Key("ConfigMap", "c") :> Live("x" :> "1", o, keep) : o \in {"a", "b"}, keep \in BOOLEAN},
        s \in {<<>>} \cup {Key("Secret", "s") :> Live(d, "a", FALSE) :
                 d \in {Values(Building!Encode(User), Building!Encode(Token)), "user" :> Building!Encode(User),
                        Values(Building!Encode(<<"other">>), Building!Encode(<<Building!Mask>>))}}}
    \cup {<<>>}
Inventories ==
    {{}, {Key("ConfigMap", "c")}, {Key("ConfigMap", "c"), Key("Secret", "s"), Key("Kustomization", "b")}}

MCRepositories ==
    {[repo |-> ("a" :> RepositoryOf(a, prune, i)) @@ b, cluster |-> c, name |-> "a"] :
        a \in OfA, prune \in BOOLEAN, i \in Inventories, c \in LiveClusters,
        b \in {<<>>} \cup {"b" :> RepositoryOf(x, TRUE, {Key("ConfigMap", "c")}) : x \in OfB}}

\* One file with two objects, and another; every kind of field in either place.
Field(name, value) == [name |-> name, value |-> value]
Object(kind, version, place, fields) == [kind |-> kind, version |-> version, place |-> place, fields |-> fields]
ObjectsIn(place) ==
    {Object("Alert", v, place, f) : v \in {"v1beta2", "v1"},
        f \in {<<>>, <<Field("summary", "quoted")>>, <<Field("interval", "nested"), Field("summary", "scalar")>>,
              <<Field("summary", "nested"), Field("providerRef", "nested")>>}}
    \cup {Object("Provider", "v1beta3", place, f) :
        f \in {<<Field("interval", "scalar"), Field("proxy", "quoted"), Field("type", "scalar")>>,
              <<Field("type", "scalar"), Field("interval", "quoted"), Field("proxy", "nested")>>}}
    \cup {Object(k, "v1beta2", place, <<Field("interval", "scalar")>>) : k \in {"ImagePolicy", "Pod"}}
FileOf(objects, matches, regular) ==
    [objects |-> objects, lines |-> Migrating!FileText(objects), matches |-> matches, regular |-> regular]
MCManifests ==
    {[files |-> f, flags |-> [version |-> v, single |-> FALSE, dryRun |-> FALSE, confirmed |-> TRUE,
                            unreadable |-> 0, unwritable |-> u]] :
        f \in {<<FileOf(<<a, b>>, TRUE, TRUE)>> :
                 a \in UNION {ObjectsIn(p) : p \in {"document", "list", "text"}}, b \in ObjectsIn("document")}
            \cup {<<FileOf(<<a, b>>, TRUE, TRUE)>> : a \in ObjectsIn("list"), b \in ObjectsIn("list")},
        v \in {"2.10", "2.7"}, u \in {0, 1}}
    \cup {[files |-> <<FileOf(<<Object("Alert", "v1beta3", "document", <<Field("summary", "scalar")>>)>>, m, r),
                      FileOf(<<Object("Alert", "v1", "document", <<>>)>>, TRUE, TRUE),
                      FileOf(<<Object("Provider", "v1beta3", "document", <<Field("proxy", "scalar")>>)>>, TRUE, TRUE)>>,
           flags |-> f] : m \in BOOLEAN, r \in BOOLEAN,
             f \in [version : {"2.10", "2.9", "2.6", "2.1"}, single : BOOLEAN, dryRun : BOOLEAN, confirmed : BOOLEAN,
                   unreadable : {0, 2}, unwritable : 0 .. 3]}

\* Directories that link to each other, to the one above, to a file and to nothing.
AnEntry(name, link, is, to) == [name |-> name, link |-> link, is |-> is, to |-> to]
Below == {AnEntry("file", FALSE, "file", "x"), AnEntry("file", TRUE, "file", "y"), AnEntry("up", TRUE, "dir", "root"),
          AnEntry("other", TRUE, "dir", "other"), AnEntry("gone", TRUE, "broken", ""), AnEntry("pipe", FALSE, "other", "")}
MCDirectories ==
    {[fs |-> [root |-> <<AnEntry("a", FALSE, "dir", "sub"), b, AnEntry("z", TRUE, "dir", "other")>>,
              sub |-> sub, other |-> <<o>>], flags |-> f] :
        b \in {AnEntry("b", TRUE, "dir", d) : d \in {"root", "sub", "other"}} \cup {AnEntry("b", FALSE, "file", "x")},
        sub \in {<<x, y>> : x \in Below, y \in {AnEntry("q", TRUE, "dir", d) : d \in {"root", "sub", "other"}}},
        o \in Below \cup {AnEntry("back", TRUE, "dir", "sub")},
        f \in [resolveSymlinks : BOOLEAN, ignorePaths : {<<>>, <<"pipe">>}, addIgnorePaths : {<<>>, <<"q">>}]}
=============================================================================

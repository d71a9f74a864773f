---------------------------- MODULE CreateSources ----------------------------
(***************************************************************************)
(* `flux create source`: what the flags make of the source, and of the     *)
(* secret that is applied before it.                                       *)
(***************************************************************************)
EXTENDS CreateSecrets

SourceGitFlags ==
    [scheme |-> "", branch |-> "", tag |-> "", semver |-> "", refName |-> "", commit |-> "",
     username |-> "", password |-> "", secretRef |-> "", caFile |-> "", privateKeyFile |-> "",
     labels |-> <<>>]

\* One reference is taken, a branch along with the commit.
GitReference(f) ==
    CASE f.commit # "" -> ("commit" :> f.commit) @@ Given("branch", f.branch)
      [] f.commit = "" /\ f.refName # "" -> "name" :> f.refName
      [] f.commit = "" /\ f.refName = "" /\ f.semver # "" -> "semver" :> f.semver
      [] f.commit = "" /\ f.refName = "" /\ f.semver = "" /\ f.tag # "" -> "tag" :> f.tag
      [] OTHER -> Given("branch", f.branch)

GitSecretOptions(f) ==
    CASE f.scheme = "ssh" -> [NoGitOptions EXCEPT !.keypair = f.privateKeyFile,
                               !.algorithm = "ecdsa", !.host = "host", !.password = f.password]
      [] f.scheme = "https" -> [NoGitOptions EXCEPT !.username = f.username,
                               !.password = f.password, !.caFile = f.caFile]
      [] OTHER -> [NoGitOptions EXCEPT !.username = f.username, !.password = f.password]

CreateSourceGit(f) ==
    LET exported == ("url" :> f.scheme) @@ ("reference" :> GitReference(f))
                    @@ ("labels" :> ParseLabels(f.labels)) @@ Given("secretRef", f.secretRef)
        secret == IF f.secretRef = "" THEN GenerateGit(GitSecretOptions(f)) ELSE Nothing
    IN Checked(\/ f.scheme \notin {"ssh", "http", "https"}
               \/ /\ f.branch = "" /\ f.tag = "" /\ f.semver = "" /\ f.commit = ""
                  /\ f.refName = ""
               \/ f.caFile # "" /\ f.scheme = "ssh"
               \/ ~LabelsValid(f.labels),
               Outcome(exported, secret,
                       exported @@ (IF secret = Nothing THEN Nothing ELSE "secretRef" :> "own"),
                       "dynamic", TRUE))

\* media-type:operation; a text without a colon has one part.
LayerSelectorValid(s) == Len(s) = 2 /\ s[1] # "" /\ s[2] \in {"extract", "copy"}

SourceOCIFlags ==
    [url |-> "", tag |-> "", semver |-> "", digest |-> "", layerSelector |-> <<>>,
     verifyProvider |-> "", verifySecretRef |-> "", verifyOIDCIssuer |-> "",
     verifySubject |-> "", secretRef |-> "", labels |-> <<>>]

\* The verification an OCIRepository or a HelmChart asks for.
Verification(f) ==
    IF f.verifyProvider = "" THEN Nothing
    ELSE ("verify" :> f.verifyProvider) @@ Given("verifySecret", f.verifySecretRef)
         @@ (IF f.verifyOIDCIssuer # "" \/ f.verifySubject # ""
             THEN "identity" :> <<f.verifyOIDCIssuer, f.verifySubject>> ELSE Nothing)

CreateSourceOCI(f) ==
    LET spec == ("url" :> f.url) @@ Given("digest", f.digest) @@ Given("semver", f.semver)
                @@ Given("tag", f.tag) @@ GivenSeq("layerSelector", f.layerSelector)
                @@ Given("secretRef", f.secretRef) @@ Verification(f)
                @@ ("labels" :> ParseLabels(f.labels))
    IN Checked(\/ f.url = ""
               \/ f.semver = "" /\ f.tag = "" /\ f.digest = ""
               \/ f.layerSelector # <<>> /\ ~LayerSelectorValid(f.layerSelector)
               \/ ~LabelsValid(f.labels)
               \/ /\ f.verifyProvider = ""
                  /\ f.verifySecretRef # "" \/ f.verifyOIDCIssuer # "" \/ f.verifySubject # "",
               Plain(spec, "dynamic", TRUE))

SourceHelmFlags ==
    [scheme |-> "", host |-> "", username |-> "", password |-> "", certFile |-> "",
     keyFile |-> "", caFile |-> "", secretRef |-> "", ociProvider |-> "",
     passCredentials |-> FALSE, labels |-> <<>>]

CreateSourceHelm(f) ==
    LET oci == f.scheme = "oci"
        pair == f.certFile # "" /\ f.keyFile # ""
        exported == ("url" :> <<f.scheme, f.host>>) @@ ("labels" :> ParseLabels(f.labels))
                    @@ (IF oci THEN ("type" :> "oci") @@ Given("provider", f.ociProvider) ELSE Nothing)
                    @@ (IF f.secretRef = "" THEN Nothing
                        ELSE ("secretRef" :> f.secretRef) @@ ("passCredentials" :> f.passCredentials))
        secret == IF f.secretRef # "" THEN Nothing
                  ELSE GenerateHelm(IF pair THEN f ELSE [f EXCEPT !.certFile = "", !.keyFile = ""])
    IN Checked(\/ f.scheme \notin {"http", "https", "oci"} \/ f.host = ""
               \/ ~LabelsValid(f.labels),
               Outcome(exported, secret,
                       exported @@ (IF secret = Nothing THEN Nothing
                                    ELSE ("secretRef" :> "helm-own")
                                         @@ ("passCredentials" :> f.passCredentials)),
                       IF oci THEN "static" ELSE "dynamic", ~oci))

SourceBucketFlags ==
    [name |-> "", endpoint |-> "", accessKey |-> "", secretKey |-> "", secretRef |-> "",
     proxySecretRef |-> "", ignorePaths |-> <<>>, labels |-> <<>>]

\* Mutant of BucketSecret: the keys make a secret whatever secret is named.
BucketSecretAlways(f) ==
    IF f.accessKey # "" /\ f.secretKey # ""
    THEN ("accesskey" :> f.accessKey) @@ ("secretkey" :> f.secretKey) ELSE Nothing

BucketSecret(f) ==
    IF f.secretRef = "" /\ f.accessKey # "" /\ f.secretKey # ""
    THEN ("accesskey" :> f.accessKey) @@ ("secretkey" :> f.secretKey) ELSE Nothing

CreateSourceBucket(f) ==
    LET exported == ("bucketName" :> f.name) @@ ("endpoint" :> f.endpoint)
                    @@ GivenSeq("ignore", f.ignorePaths) @@ ("labels" :> ParseLabels(f.labels))
                    @@ Given("secretRef", f.secretRef) @@ Given("proxySecretRef", f.proxySecretRef)
        secret == BucketSecret(f)
    IN Checked(f.name = "" \/ f.endpoint = "" \/ ~LabelsValid(f.labels),
               Outcome(exported, secret,
                       exported @@ (IF secret = Nothing THEN Nothing ELSE "secretRef" :> "bucket-own"),
                       "dynamic", TRUE))

SourceChartFlags ==
    [source |-> "", chart |-> "", chartVersion |-> "", verifyProvider |-> "",
     verifySecretRef |-> "", verifyOIDCIssuer |-> "", verifySubject |-> "", labels |-> <<>>]

\* The subject that is tested without a provider is that of another command's
\* flags, sourceOCIRepositoryArgs, and never set here.
CreateSourceChart(f) ==
    LET spec == ("chart" :> <<f.chart, f.chartVersion, f.source>>) @@ Verification(f)
                @@ ("labels" :> ParseLabels(f.labels))
    IN Checked(\/ f.source = "" \/ f.chart = "" \/ ~LabelsValid(f.labels)
               \/ f.verifyProvider = "" /\ (f.verifySecretRef # "" \/ f.verifyOIDCIssuer # ""),
               Plain(spec, "dynamic", TRUE))
=============================================================================

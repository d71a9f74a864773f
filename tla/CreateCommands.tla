--------------------------- MODULE CreateCommands ---------------------------
(***************************************************************************)
(* The `flux create` commands as functions of their flags, and what every  *)
(* one of them owes its user: what was asked for is in the object, what is *)
(* exported is what would be applied, and credentials reach their user.    *)
(***************************************************************************)
EXTENDS CreateSources, CreateResources

\* Command -> its flags when none is given.
Flags ==
    [kustomization |-> KustomizationFlags, helmrelease |-> HelmReleaseFlags,
     alert |-> AlertFlags, provider |-> AlertProviderFlags, receiver |-> ReceiverFlags,
     imageRepository |-> ImageRepositoryFlags, imagePolicy |-> ImagePolicyFlags,
     imageUpdate |-> ImageUpdateFlags, tenant |-> TenantFlags,
     sourceGit |-> SourceGitFlags, sourceOCI |-> SourceOCIFlags, sourceHelm |-> SourceHelmFlags,
     sourceBucket |-> SourceBucketFlags, sourceChart |-> SourceChartFlags,
     secretGit |-> SecretGitFlags, secretHelm |-> SecretHelmFlags, secretTLS |-> SecretTLSFlags,
     secretOCI |-> SecretOCIFlags, secretProxy |-> SecretProxyFlags,
     secretNotation |-> SecretNotationFlags, secretGitHubApp |-> SecretGitHubAppFlags,
     secretReceiver |-> SecretReceiverFlags]

Create(command, f) ==
    CASE command = "kustomization" -> CreateKustomization(f)
      [] command = "helmrelease" -> CreateHelmRelease(f)
      [] command = "alert" -> CreateAlert(f)
      [] command = "provider" -> CreateAlertProvider(f)
      [] command = "receiver" -> CreateReceiver(f)
      [] command = "imageRepository" -> CreateImageRepository(f)
      [] command = "imagePolicy" -> CreateImagePolicy(f)
      [] command = "imageUpdate" -> CreateImageUpdate(f)
      [] command = "tenant" -> CreateTenant(f)
      [] command = "sourceGit" -> CreateSourceGit(f)
      [] command = "sourceOCI" -> CreateSourceOCI(f)
      [] command = "sourceHelm" -> CreateSourceHelm(f)
      [] command = "sourceBucket" -> CreateSourceBucket(f)
      [] command = "sourceChart" -> CreateSourceChart(f)
      [] command = "secretGit" -> CreateSecretGit(f)
      [] command = "secretHelm" -> CreateSecretHelm(f)
      [] command = "secretTLS" -> CreateSecretTLS(f)
      [] command = "secretOCI" -> CreateSecretOCI(f)
      [] command = "secretProxy" -> CreateSecretProxy(f)
      [] command = "secretNotation" -> CreateSecretNotation(f)
      [] command = "secretGitHubApp" -> CreateSecretGitHubApp(f)
      [] command = "secretReceiver" -> CreateSecretReceiver(f)

----------------------------------------------------------------------------
(* What is said of an accepted command.                                    *)

\* The flags a command takes without a word although they change nothing: the
\* one that another flag given with it leaves without meaning.
Idle(command, f) ==
    CASE command = "sourceGit" ->
            (IF f.commit # "" THEN {"refName", "semver", "tag"}
             ELSE IF f.refName # "" THEN {"semver", "tag", "branch"}
             ELSE IF f.semver # "" THEN {"tag", "branch"}
             ELSE IF f.tag # "" THEN {"branch"} ELSE {})
            \cup (IF f.scheme # "ssh" THEN {"privateKeyFile"} ELSE {"username"})
            \cup (IF f.scheme = "http" THEN {"caFile"} ELSE {})
            \cup (IF f.secretRef # "" THEN {"username", "password", "privateKeyFile", "caFile"}
                  ELSE IF (f.username = "") # (f.password = "") THEN {"username", "password"} ELSE {})
      [] command = "secretGit" ->
            IF f.scheme = "ssh" THEN {"username", "bearerToken", "caFile"}
            ELSE {"privateKeyFile"}
                 \cup (IF (f.username = "") # (f.password = "") THEN {"username", "password"} ELSE {})
      [] command = "sourceHelm" ->
            (IF f.scheme # "oci" THEN {"ociProvider"} ELSE {})
            \cup (IF f.secretRef # "" THEN {"username", "password", "certFile", "keyFile", "caFile"}
                  ELSE IF f.certFile # "" /\ f.keyFile # "" THEN {"username", "password"}
                  ELSE {"certFile", "keyFile"}
                       \cup (IF f.username = "" /\ f.password = "" /\ f.caFile = ""
                             THEN {"passCredentials"} ELSE {}))
      [] command = "secretHelm" ->
            IF f.certFile # "" THEN {"username", "password"} ELSE {}
      [] command = "sourceBucket" ->
            IF f.secretRef # "" \/ f.accessKey = "" \/ f.secretKey = ""
            THEN {"accessKey", "secretKey"} ELSE {}
      [] command = "kustomization" ->
            (IF f.wait THEN {"healthCheck"} ELSE IF f.healthCheck = <<>> THEN {"healthTimeout"} ELSE {})
            \cup (IF f.decryptionProvider = "" THEN {"decryptionSecret"} ELSE {})
      [] command = "helmrelease" ->
            (IF f.chart = "" THEN {"source", "chartVersion", "reconcileStrategy"} ELSE {})
            \cup (IF f.storageNamespace = f.targetNamespace THEN {"storageNamespace"} ELSE {})
      [] command = "secretReceiver" -> IF f.type # "gcr" THEN {"emailClaim", "audienceClaim"} ELSE {}
      [] command \in {"secretOCI", "secretGitHubApp"} -> {"labels"}
      [] OTHER -> {}

\* The flag x of the command has a say: unset, the outcome would be another.
Tells(command, f, x) ==
    Create(command, [f EXCEPT ![x] = Flags[command][x]]) # Create(command, f)

\* A secret of the command is what the object it applies refers to, and it is
\* made exactly when there are credentials and the user names no other secret.
SecretUsed(f, r) ==
    /\ r.secret # Nothing =>
          /\ r.applied["secretRef"] \in {"own", "helm-own", "bucket-own"}
          /\ "secretRef" \in DOMAIN f => f.secretRef = ""
    /\ "secretRef" \in DOMAIN f /\ f.secretRef # "" => r.applied["secretRef"] = f.secretRef
=============================================================================

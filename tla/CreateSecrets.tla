---------------------------- MODULE CreateSecrets ----------------------------
(***************************************************************************)
(* pkg/manifestgen/sourcesecret and the `flux create secret` commands: the *)
(* data of the secret that is exported or applied.                         *)
(***************************************************************************)
EXTENDS CommandArgs

----------------------------------------------------------------------------
(* sourcesecret.                                                           *)

\* GenerateGit, buildGitSecret: credentials are put
\* in by pairs, a key only with the key of the host.
GenerateGit(o) ==
    LET basic == o.username # "" /\ o.password # ""
        keys == ~basic /\ (o.keypair # "" \/ o.algorithm # "")
    IN (IF basic THEN ("username" :> o.username) @@ ("password" :> o.password) ELSE Nothing)
       @@ Given("bearerToken", o.bearerToken)
       @@ Given("ca.crt", o.caFile)
       @@ (IF keys THEN ("identity" :> (IF o.keypair # "" THEN o.keypair ELSE "generated"))
                        @@ ("identity.pub" :> "public") @@ ("known_hosts" :> o.host)
                        @@ Given("password", o.password)
                   ELSE Nothing)

NoGitOptions == [username |-> "", password |-> "", keypair |-> "", algorithm |-> "", host |-> "",
                 bearerToken |-> "", caFile |-> ""]

\* Mutant of GenerateHelm: the CA goes with a client certificate only.
GenerateHelmNoCA(o) ==
    IF o.certFile # "" \/ o.keyFile # ""
    THEN ("tls.crt" :> o.certFile) @@ ("tls.key" :> o.keyFile) @@ Given("ca.crt", o.caFile)
    ELSE IF o.username # "" \/ o.password # ""
    THEN ("username" :> o.username) @@ ("password" :> o.password) ELSE Nothing

\* GenerateHelm: a client certificate before credentials; the CA with either.
GenerateHelm(o) ==
    IF o.certFile # "" \/ o.keyFile # ""
    THEN ("tls.crt" :> o.certFile) @@ ("tls.key" :> o.keyFile) @@ Given("ca.crt", o.caFile)
    ELSE (IF o.username # "" \/ o.password # ""
          THEN ("username" :> o.username) @@ ("password" :> o.password) ELSE Nothing)
         @@ Given("ca.crt", o.caFile)

\* GenerateTLS: a certificate with its key, an authority, or both.
GenerateTLS(o) ==
    (IF o.certFile # "" \/ o.keyFile # ""
     THEN ("tls.crt" :> o.certFile) @@ ("tls.key" :> o.keyFile) ELSE Nothing)
    @@ Given("ca.crt", o.caFile)

\* secrets.MakeTLSSecret, external: half a key pair and nothing at all are refused.
TLSRefused(o) == \/ (o.certFile = "") # (o.keyFile = "")
                 \/ o.certFile = "" /\ o.keyFile = "" /\ o.caFile = ""

\* GenerateOCI, GenerateDockerConfigJson: the registry's entry.
GenerateOCI(o) == ".dockerconfigjson" :> <<o.registry, o.username, o.password>>

\* GenerateProxy
GenerateProxy(o) ==
    ("address" :> o.address) @@ Given("username", o.username) @@ Given("password", o.password)

\* GenerateNotation: certificates by the base names of their files; of two with
\* the same base name the later stays.
GenerateNotation(crts, policy) ==
    [n \in {Last(crts[i]) : i \in DOMAIN crts} |-> Last(SelectSeq(crts, LAMBDA c : Last(c) = n))]
    @@ ("trustpolicy.json" :> policy)

\* GenerateGitHubApp
GenerateGitHubApp(o) ==
    Given("githubAppID", o.appID) @@ Given("githubAppClientID", o.clientID)
    @@ Given("githubAppInstallationOwner", o.owner)
    @@ Given("githubAppInstallationID", o.installationID)
    @@ Given("githubAppBaseURL", o.baseURL) @@ ("githubAppPrivateKey" :> o.privateKey)

\* GenerateReceiver: the path of the webhook is a digest of the token and the
\* object's name, which notification-controller computes likewise; the audience
\* of a gcr receiver is the URL unless it is given.
GenerateReceiver(o, name) ==
    LET token == IF o.token = "" THEN "random" ELSE o.token
        url == <<o.hostname, token, name>>
    IN ("webhook" :> url) @@ ("token" :> token)
       @@ (IF o.type # "gcr" THEN Nothing
           ELSE ("email" :> o.emailClaim)
                @@ ("audience" :> IF o.audienceClaim = "" THEN url ELSE <<o.audienceClaim>>))

----------------------------------------------------------------------------
(* The commands.  A secret is exported as it would be applied.             *)

Secret(refused, data, labels) ==
    Checked(refused, Plain(("data" :> data) @@ ("labels" :> ParseLabels(labels)), "none", FALSE))

SecretGitFlags ==
    [scheme |-> "", username |-> "", password |-> "", bearerToken |-> "", caFile |-> "",
     privateKeyFile |-> "", labels |-> <<>>]

CreateSecretGit(f) ==
    LET basic == f.username # "" /\ f.password # ""
        options == IF f.scheme = "ssh"
                   THEN [NoGitOptions EXCEPT !.keypair = f.privateKeyFile, !.algorithm = "ecdsa",
                                             !.host = "host", !.password = f.password]
                   ELSE [NoGitOptions EXCEPT !.username = f.username, !.password = f.password,
                                             !.bearerToken = f.bearerToken, !.caFile = f.caFile]
    IN Secret(\/ f.scheme \notin {"ssh", "http", "https"} \/ ~LabelsValid(f.labels)
              \/ f.scheme # "ssh" /\ (basic <=> f.bearerToken # ""),
              GenerateGit(options), f.labels)

SecretHelmFlags ==
    [username |-> "", password |-> "", certFile |-> "", keyFile |-> "", caFile |-> "", labels |-> <<>>]

\* GenerateHelm hands a client certificate, or an authority alone, to
\* MakeTLSSecret; with nothing given the secret is empty.
CreateSecretHelm(f) ==
    Secret(\/ ~LabelsValid(f.labels)
           \/ (f.certFile # "" \/ f.keyFile # "") /\ TLSRefused(f),
           GenerateHelm(f), f.labels)

SecretTLSFlags == [certFile |-> "", keyFile |-> "", caFile |-> "", labels |-> <<>>]

CreateSecretTLS(f) ==
    Secret(~LabelsValid(f.labels) \/ TLSRefused(f), GenerateTLS(f), f.labels)

SecretOCIFlags == [registry |-> "", username |-> "", password |-> "", labels |-> <<>>]

\* The labels are neither validated nor set.
CreateSecretOCI(f) ==
    Secret(f.registry = "" \/ f.username = "" \/ f.password = "", GenerateOCI(f), <<>>)

SecretProxyFlags == [address |-> "", username |-> "", password |-> "", labels |-> <<>>]

CreateSecretProxy(f) ==
    Secret(~LabelsValid(f.labels) \/ f.address = "", GenerateProxy(f), f.labels)

SecretNotationFlags == [crts |-> <<>>, trustPolicy |-> "", labels |-> <<>>]

CreateSecretNotation(f) ==
    Secret(f.crts = <<>> \/ f.trustPolicy = "" \/ ~LabelsValid(f.labels),
           GenerateNotation(f.crts, f.trustPolicy), f.labels)

SecretGitHubAppFlags ==
    [appID |-> "", clientID |-> "", owner |-> "", installationID |-> "", baseURL |-> "",
     privateKey |-> "", labels |-> <<>>]

\* secrets.MakeGitHubAppSecret, external: the application and its key are needed.
GitHubAppRefused(f) == \/ f.privateKey = ""
                       \/ f.appID = "" /\ f.clientID = ""

\* The labels are neither validated nor set.
CreateSecretGitHubApp(f) == Secret(GitHubAppRefused(f), GenerateGitHubApp(f), <<>>)

SecretReceiverFlags ==
    [type |-> "", hostname |-> "", token |-> "", emailClaim |-> "", audienceClaim |-> "", labels |-> <<>>]

CreateSecretReceiver(f) ==
    Secret(\/ f.type = "" \/ f.hostname = "" \/ ~LabelsValid(f.labels)
           \/ f.type = "gcr" /\ f.emailClaim = "",
           GenerateReceiver(f, "name"), f.labels)
=============================================================================

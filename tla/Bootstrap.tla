----------------------------- MODULE Bootstrap ------------------------------
(***************************************************************************)
(* `flux bootstrap`: a pipeline over four systems that others change too - *)
(* the Git provider (repository, team access, deploy key or token), the    *)
(* Git remote, the temporary clone, and the cluster with its controllers.  *)
(* A run may fail at any call or be killed between two of them, and is     *)
(* then started again with the same or other options; what it left behind  *)
(* in the outside systems stays.                                           *)
(*                                                                         *)
(* bootstrap.Run is the order of the steps:                                *)
(*   ReconcileRepository, ReconcileComponents, ReconcileSourceSecret,      *)
(*   ReconcileSyncConfig, the health reports                               *)
(* and each step is one action per outside call.                           *)
(***************************************************************************)
EXTENDS Naturals, FiniteSets

CONSTANTS
    Paths,        \* target paths in the repository
    Versions,     \* versions of the components, positive numbers
    RunOptions,   \* the combinations of options the command is run with
    MaxRuns,      \* bound: runs of the command
    MaxForeign    \* bound: commits pushed by others

Auths == {"ssh", "keyFile", "basic", "bearer", "deployToken"}

\* mode: `bootstrap git`, or a sub-command that manages the repository too.
AllOptions == [mode : {"git", "provider"}, auth : Auths, path : Paths,
               version : Versions, teams : BOOLEAN, pull : BOOLEAN]

\* Deploy tokens and teams need a provider, bearer tokens are for `git`.
ASSUME BootstrapAssumption ==
    /\ Versions \subseteq Nat \ {0}
    /\ MaxRuns \in Nat /\ MaxForeign \in Nat
    /\ RunOptions \subseteq AllOptions /\ RunOptions # {}
    /\ \A o \in RunOptions : CASE o.mode = "git" -> o.auth # "deployToken" /\ ~o.teams
                             [] o.mode = "provider" -> o.auth # "bearer"

VARIABLES
    provider,   \* [repo, teams, keys, tokens] at the Git hosting service
    remote,     \* head of the branch: [id, comps, sync, others]
    cluster,    \* [comps, exists, secret, pull, kust, url, artifact, applied]
    pc,         \* the next step of the running command, or "idle"
    opts,       \* its options
    run,        \* number of the run; names the credentials of that run
    clone,      \* the temporary clone
    newSecret,  \* the secret being prepared
    failures,   \* health checks failed
    warned,     \* this run could not grant a team access
    exit        \* outcome of the last run: "none", "ok" or "err"

vars == <<provider, remote, cluster, pc, opts, run, clone, newSecret, failures,
          warned, exit>>
world == <<provider, remote, cluster>>
local == <<opts, run, clone, newSecret, failures, warned>>

NoSecret == [key |-> 0, basic |-> 0, bearer |-> 0]

\* A head is its depth and what the tree at it holds: the version of the
\* components and the transport of the sync manifests of each path, and how
\* many commits of others it includes.
Empty(id) == [id |-> id, comps |-> [p \in Paths |-> 0],
              sync |-> [p \in Paths |-> "none"], others |-> 0]
NoRevision == Empty(0)

Init ==
    /\ provider = [repo |-> FALSE, teams |-> FALSE, keys |-> {}, tokens |-> {}]
    /\ remote = Empty(1)
    /\ cluster = [comps |-> 0, exists |-> FALSE, secret |-> NoSecret, pull |-> FALSE,
                  kust |-> {}, url |-> "none",
                  artifact |-> NoRevision, applied |-> NoRevision]
    /\ pc = "idle"
    /\ opts \in RunOptions
    /\ run = 0
    /\ clone = NoRevision
    /\ newSecret = NoSecret
    /\ failures = 0
    /\ warned = FALSE
    /\ exit = "none"

\* The command is run again; options may differ between runs.
Start ==
    /\ pc = "idle" /\ run < MaxRuns
    /\ run' = run + 1
    /\ opts' \in RunOptions
    /\ pc' = IF opts'.mode = "provider" THEN "repository" ELSE "clone"
    /\ clone' = NoRevision /\ newSecret' = NoSecret
    /\ failures' = 0 /\ warned' = FALSE /\ exit' = "none"
    /\ UNCHANGED world

\* Any call fails and the run returns its error; or the process is killed.  In
\* both cases the temporary clone is gone.
Abort ==
    /\ pc # "idle"
    /\ pc' = "idle" /\ exit' = "err"
    /\ clone' = NoRevision /\ newSecret' = NoSecret /\ failures' = 0 /\ warned' = FALSE
    /\ UNCHANGED <<world, opts, run>>

Goto(l) == pc' = l /\ UNCHANGED exit

----------------------------------------------------------------------------
(* ReconcileRepository.                                                    *)

\* The repository is looked up and created if it does not exist.
ReconcileRepository ==
    /\ pc = "repository"
    /\ provider' = [provider EXCEPT !.repo = TRUE]
    /\ Goto(IF opts.teams THEN "teams" ELSE "clone")
    /\ UNCHANGED <<remote, cluster, local>>

\* Team access is best effort: a failure is a warning and the run goes on.
ReconcileTeamAccess ==
    /\ pc = "teams"
    /\ \/ provider' = [provider EXCEPT !.teams = TRUE] /\ UNCHANGED warned
       \/ warned' = TRUE /\ UNCHANGED provider
    /\ Goto("clone")
    /\ UNCHANGED <<remote, cluster, opts, run, clone, newSecret, failures>>

----------------------------------------------------------------------------
(* ReconcileComponents.                                                    *)

Clone ==
    /\ pc = "clone"
    /\ clone' = remote
    /\ Goto("commitComponents")
    /\ UNCHANGED <<world, opts, run, newSecret, failures, warned>>

\* A commit is made only if something changed.
CommitComponents ==
    /\ pc = "commitComponents"
    /\ IF clone.comps[opts.path] = opts.version
         THEN UNCHANGED clone /\ Goto("install")
         ELSE /\ clone' = [clone EXCEPT !.id = @ + 1, !.comps[opts.path] = opts.version]
              /\ Goto("pushComponents")
    /\ UNCHANGED <<world, opts, run, newSecret, failures, warned>>

\* Mutant of FastForward: the push is forced.
FastForwardForced == TRUE

\* The remote accepts a push only as a fast-forward of its head.
FastForward == clone.id = remote.id + 1 /\ clone.others = remote.others

\* A push that is refused ends the run (Abort).
PushComponents ==
    /\ pc = "pushComponents"
    /\ FastForward
    /\ remote' = clone
    /\ Goto("install")
    /\ UNCHANGED <<provider, cluster, local>>

\* mustInstallManifests: Flux does not run here yet.
MustInstallManifests == cluster.kust = {} \/ cluster.applied = NoRevision

\* The manifests of the clone are applied unless Flux runs already and upgrades
\* itself from the repository.
InstallManifests ==
    /\ pc = "install"
    /\ cluster' = IF MustInstallManifests
                  THEN [cluster EXCEPT !.comps = clone.comps[opts.path]] ELSE cluster
    /\ Goto(IF opts.pull THEN "pullSecret"
            ELSE IF opts.auth = "deployToken" THEN "token" ELSE "secret")
    /\ UNCHANGED <<provider, remote, local>>

ReconcileImagePullSecret ==
    /\ pc = "pullSecret"
    /\ cluster' = [cluster EXCEPT !.pull = TRUE]
    /\ Goto(IF opts.auth = "deployToken" THEN "token" ELSE "secret")
    /\ UNCHANGED <<provider, remote, local>>

----------------------------------------------------------------------------
(* ReconcileSourceSecret.                                                  *)

\* The provider hands out the value of a deploy token only when it creates it;
\* the name of the token is made from the target path.
ReconcileDeployToken ==
    /\ pc = "token"
    /\ IF \E t \in provider.tokens : t[1] = opts.path
         THEN UNCHANGED <<provider, newSecret>>
         ELSE /\ provider' = [provider EXCEPT !.tokens = @ \cup {<<opts.path, run>>}]
              /\ newSecret' = [newSecret EXCEPT !.basic = run]
    /\ Goto("secret")
    /\ UNCHANGED <<remote, cluster, opts, run, clone, failures, warned>>

\* Mutant of CustomCredentials: only a key file counts as custom configuration.
CustomCredentialsKeyOnly == opts.auth = "keyFile"

\* Keypair, Username or Password are set; BearerToken is not looked at.
CustomCredentials == opts.auth \in {"keyFile", "basic"} \/ newSecret.basic # 0

\* GenerateGit: the credentials that go into the secret.  A key pair, given or
\* generated, is used unless there are a user name and a password.
GenerateGit(given) ==
    CASE opts.auth \in {"ssh", "keyFile"} -> [given EXCEPT !.key = run]
      [] opts.auth = "basic" -> [given EXCEPT !.basic = run]
      [] opts.auth = "bearer" -> [given EXCEPT !.bearer = run]
      [] opts.auth = "deployToken" -> given

\* An existing secret is left alone unless there are credentials to store.
GenerateSecret ==
    /\ pc = "secret"
    /\ IF cluster.exists /\ ~CustomCredentials
         THEN UNCHANGED newSecret /\ Goto("syncPath")
         ELSE /\ newSecret' = GenerateGit(newSecret)
              /\ Goto(IF newSecret'.key # 0 THEN "deployKey" ELSE "applySecret")
    /\ UNCHANGED <<world, opts, run, clone, failures, warned>>

\* postGenerateSecret: the command registers the public key under a name made
\* from the target path, in place of the key of that name; `bootstrap git`
\* prompts the user to add it.
ReconcileDeployKey ==
    /\ pc = "deployKey"
    /\ provider' = [provider EXCEPT !.keys =
         {k \in @ : opts.mode = "git" \/ k[1] # opts.path} \cup {<<opts.path, newSecret.key>>}]
    /\ Goto("applySecret")
    /\ UNCHANGED <<remote, cluster, local>>

\* reconcileSecret creates the secret or updates it; StringData leaves the
\* fields it does not name as they are.
ReconcileSecret ==
    /\ pc = "applySecret"
    /\ cluster' = [cluster EXCEPT !.exists = TRUE,
         !.secret = [f \in DOMAIN NoSecret |-> IF newSecret[f] # 0 THEN newSecret[f] ELSE @[f]]]
    /\ Goto("syncPath")
    /\ UNCHANGED <<provider, remote, local>>

----------------------------------------------------------------------------
(* ReconcileSyncConfig.                                                    *)

\* Mutant of SyncPathAllowed: the path of an existing Kustomization is not read.
SyncPathAllowedAlways == TRUE

\* kustomizationPathDiffers: an existing sync configuration of another path is
\* not overwritten; the run ends (Abort).
SyncPathAllowed == cluster.kust \subseteq {opts.path}

Transport == IF opts.auth \in {"ssh", "keyFile"} THEN "ssh" ELSE "https"

\* The sync manifests are committed if they changed; the URL is part of them.
CommitSync ==
    /\ pc = "syncPath"
    /\ SyncPathAllowed
    /\ IF clone.sync[opts.path] = Transport
         THEN UNCHANGED clone /\ Goto("applySync")
         ELSE /\ clone' = [clone EXCEPT !.id = @ + 1, !.sync[opts.path] = Transport]
              /\ Goto("pushSync")
    /\ UNCHANGED <<world, opts, run, newSecret, failures, warned>>

PushSync ==
    /\ pc = "pushSync"
    /\ FastForward
    /\ remote' = clone
    /\ Goto("applySync")
    /\ UNCHANGED <<provider, cluster, local>>

\* A conflict: the clone is thrown away, made again, and the step starts over.
PushConflict ==
    /\ pc = "pushSync"
    /\ ~FastForward
    /\ clone' = remote
    /\ Goto("syncPath")
    /\ UNCHANGED <<world, opts, run, newSecret, failures, warned>>

ApplySync ==
    /\ pc = "applySync"
    /\ cluster' = [cluster EXCEPT !.kust = {opts.path}, !.url = Transport]
    /\ Goto("gitRepoHealth")
    /\ UNCHANGED <<provider, remote, local>>

----------------------------------------------------------------------------
(* The health reports wait for the head of the clone.                      *)

\* Mutant of Reached: any revision will do.
ReachedAny(revision) == revision.id # 0

\* objectReconciled: the object is ready and at the expected revision.
Reached(revision) == revision.id = clone.id

\* A health report ends: the object is healthy, or it is suspended, failed, gone
\* or the poll timed out, which is one more failure.
HealthStep(label, healthy, next) ==
    /\ pc = label
    /\ \/ healthy /\ UNCHANGED failures
       \/ failures' = failures + 1
    /\ Goto(next)
    /\ UNCHANGED <<world, opts, run, clone, newSecret, warned>>

ReportGitRepoHealth ==
    HealthStep("gitRepoHealth", Reached(cluster.artifact), "kustomizationHealth")

ReportKustomizationHealth ==
    HealthStep("kustomizationHealth", Reached(cluster.applied), "componentsHealth")

ReportComponentsHealth == HealthStep("componentsHealth", cluster.comps # 0, "done")

\* The result of Run: the health failures, else what ReconcileRepository
\* returned.  getCloneURL's nil has replaced the warning there.
Finish ==
    /\ pc = "done"
    /\ pc' = "idle"
    /\ exit' = IF failures > 0 THEN "err" ELSE "ok"
    /\ UNCHANGED <<world, local>>

----------------------------------------------------------------------------
(* Everybody else.                                                         *)

ForeignPush ==
    /\ remote.others < MaxForeign
    /\ remote' = [remote EXCEPT !.id = @ + 1, !.others = @ + 1]
    /\ UNCHANGED <<provider, cluster, pc, local, exit>>

\* Can the cluster read the repository with its secret?  Passwords and bearer
\* tokens given to the command are valid.
Authorised ==
    IF cluster.url = "ssh"
      THEN \E k \in provider.keys : k[2] = cluster.secret.key
      ELSE cluster.secret.basic # 0 \/ cluster.secret.bearer # 0

\* source-controller fetches the head of the branch.
Fetch ==
    /\ cluster.comps # 0 /\ cluster.kust # {} /\ Authorised
    /\ cluster.artifact # remote
    /\ cluster' = [cluster EXCEPT !.artifact = remote]
    /\ UNCHANGED <<provider, remote, pc, local, exit>>

\* kustomize-controller applies the synced path of it: the components and the
\* sync manifests, those of an older revision included.
ApplyRevision ==
    /\ cluster.comps # 0 /\ cluster.artifact # NoRevision
    /\ cluster.applied # cluster.artifact
    /\ \E p \in cluster.kust :
         cluster' = [cluster EXCEPT !.applied = cluster.artifact,
            !.comps = IF cluster.artifact.comps[p] # 0 THEN cluster.artifact.comps[p] ELSE @,
            !.url = IF cluster.artifact.sync[p] # "none" THEN cluster.artifact.sync[p] ELSE @]
    /\ UNCHANGED <<provider, remote, pc, local, exit>>

Terminated == pc = "idle" /\ run = MaxRuns /\ UNCHANGED vars

Command ==
    \/ ReconcileRepository \/ ReconcileTeamAccess
    \/ Clone \/ CommitComponents \/ PushComponents \/ InstallManifests
    \/ ReconcileImagePullSecret
    \/ ReconcileDeployToken \/ GenerateSecret \/ ReconcileDeployKey \/ ReconcileSecret
    \/ CommitSync \/ PushSync \/ PushConflict \/ ApplySync
    \/ ReportGitRepoHealth \/ ReportKustomizationHealth \/ ReportComponentsHealth
    \/ Finish

Next == Start \/ Abort \/ Command \/ ForeignPush \/ Fetch \/ ApplyRevision \/ Terminated

Spec == Init /\ [][Next]_vars

----------------------------------------------------------------------------
(* Properties.                                                             *)

Heads == [id : Nat, comps : [Paths -> Versions \cup {0}],
          sync : [Paths -> {"none", "ssh", "https"}], others : 0..MaxForeign]
Secrets == [DOMAIN NoSecret -> 0..MaxRuns]
Labels == {"idle", "repository", "teams", "clone", "commitComponents", "pushComponents",
           "install", "pullSecret", "token", "secret", "deployKey", "applySecret",
           "syncPath", "pushSync", "applySync", "gitRepoHealth",
           "kustomizationHealth", "componentsHealth", "done"}

\* Type invariant of the bootstrap pipeline.
TypeOK ==
    /\ provider \in [repo : BOOLEAN, teams : BOOLEAN,
                     keys : SUBSET (Paths \X (1..MaxRuns)),
                     tokens : SUBSET (Paths \X (1..MaxRuns))]
    /\ remote \in Heads /\ clone \in Heads
    /\ cluster \in [comps : Versions \cup {0}, exists : BOOLEAN, secret : Secrets,
                    pull : BOOLEAN, kust : SUBSET Paths, url : {"none", "ssh", "https"},
                    artifact : Heads, applied : Heads]
    /\ pc \in Labels /\ opts \in RunOptions /\ run \in 0..MaxRuns
    /\ newSecret \in Secrets /\ failures \in 0..3 /\ warned \in BOOLEAN
    /\ exit \in {"none", "ok", "err"}

\* bootstrap.Run returns nil only for a deployment that is complete: both
\* manifests are in the repository for the path and version asked for, the
\* cluster syncs that path over the transport asked for, and it has applied a
\* revision that holds them, whatever earlier runs were killed half way and
\* whoever pushed in between (ReconcileComponents, ReconcileSyncConfig,
\* objectReconciled).
SuccessMeansDeployed ==
    /\ TypeOK
    /\ exit = "ok" =>
       /\ remote.comps[opts.path] = opts.version
       /\ remote.sync[opts.path] = Transport
       /\ cluster.kust = {opts.path}
       /\ cluster.url = Transport
       /\ cluster.comps = opts.version
       /\ cluster.applied.comps[opts.path] = opts.version
       /\ cluster.applied.sync[opts.path] = Transport

\* The steps of a run that is past its secret.
PastSecret == {"syncPath", "pushSync", "applySync", "gitRepoHealth",
               "kustomizationHealth", "componentsHealth", "done"}

\* Once a run is past the secret there is one.  A key file and a password given to
\* the command are in it, whatever was there before; so is all the run has made
\* or been given on the way - a generated key, a bearer token, a new deploy token -
\* and the Git service knows the key and the deploy token.  A secret without any
\* credentials is left only by runs that found a deploy token and could not read
\* its value any more.
CredentialsStored ==
    /\ pc \in PastSecret =>
         /\ cluster.exists
         /\ opts.auth = "keyFile" => newSecret.key = run
         /\ opts.auth = "basic" => newSecret.basic = run
         /\ \A f \in DOMAIN NoSecret :
              newSecret[f] # 0 => newSecret[f] = run /\ cluster.secret[f] = run
         /\ newSecret.key # 0 => <<opts.path, run>> \in provider.keys
         /\ opts.auth = "deployToken" /\ newSecret.basic # 0
              => <<opts.path, run>> \in provider.tokens
    /\ cluster.exists /\ cluster.secret = NoSecret => provider.tokens # {}

\* A secret that exists is changed only by a run that brings credentials of its
\* own, and only in the fields those are for: a run that would generate a key or
\* was given a bearer token keeps what it finds.
SecretKept ==
    cluster.exists =>
       \A f \in DOMAIN NoSecret : cluster'.secret[f] # cluster.secret[f] =>
          /\ opts.auth \in {"keyFile", "basic", "deployToken"}
          /\ newSecret[f] = run /\ cluster'.secret[f] = run

\* ReconcileSourceSecret: what the secret holds after every step, over the secrets
\* of earlier runs and of runs killed between any two steps, what the Git service was
\* told of it, and what a step leaves alone.
CredentialsReplaced == [][CredentialsStored' /\ SecretKept]_vars

\* ReconcileSyncConfig and ReconcileComponents push only on top of what others
\* pushed: no step takes a commit of somebody else out of the branch, and the
\* components and sync manifests of other paths stay.
NoLostCommits ==
    [][ /\ remote'.others >= remote.others
        /\ \A p \in Paths \ {opts.path} :
             remote'.comps[p] = remote.comps[p] /\ remote'.sync[p] = remote.sync[p] ]_vars

\* kustomizationPathDiffers: once the cluster syncs a path, no run of bootstrap
\* moves it to another one.
SyncPathKept == [][cluster.kust # {} => cluster'.kust = cluster.kust]_vars

\* No run undoes what others rely on: their commits, their paths of the
\* repository, and the path the cluster is synced from (bootstrap.go, the push
\* and the checks of bootstrap_plain_git.go).
OthersKept == NoLostCommits /\ SyncPathKept
=============================================================================

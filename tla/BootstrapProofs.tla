-------------------------- MODULE BootstrapProofs --------------------------
(***************************************************************************)
(* Proofs about Bootstrap, for any paths, versions, options, number of     *)
(* runs and commits of others.                                             *)
(*                                                                         *)
(* A run knows the branch only by its clone.  The invariant relates the    *)
(* clone to the remote head and to the two revisions the cluster holds:    *)
(* heads are numbered (Numbered), what is not older than the clone has     *)
(* what the clone has for the path of the run (Contained), and as long as  *)
(* nobody else has pushed the clone differs from the remote there only     *)
(* (SameElsewhere).  So a push that is a fast-forward loses nothing, and   *)
(* a revision that a health report has waited for is as it was asked to be.*)
(***************************************************************************)
EXTENDS Bootstrap, TLAPS

\* The run is at one of the steps, or was the last to end, with success.
At(steps) == pc \in steps \/ (pc = "idle" /\ exit = "ok")

Pushing == {"pushComponents", "pushSync"}
Healthy3 == {"done"}
Healthy2 == {"componentsHealth"} \cup Healthy3
Healthy1 == {"kustomizationHealth"} \cup Healthy2
Synced == {"gitRepoHealth"} \cup Healthy1
SyncWritten == {"applySync"} \cup Synced
SecretWritten == {"syncPath", "pushSync"} \cup SyncWritten
ComponentsWritten == {"install", "pullSecret", "token", "secret", "deployKey",
                      "applySecret"} \cup SecretWritten
Cloned == {"commitComponents", "pushComponents"} \cup ComponentsWritten

\* The later a head the greater its number.
Numbered ==
    /\ remote.id >= 1
    /\ \A x \in {cluster.artifact, cluster.applied} :
          /\ x.id <= remote.id
          /\ x.id = remote.id => x = remote
          /\ x.id = 0 => x = NoRevision

\* A clone that was pushed is a head of the branch; what is not older than it has
\* what it has for the path of the run.
Contained ==
    At(Cloned \ Pushing) =>
        /\ 1 <= clone.id /\ clone.id <= remote.id
        /\ \A x \in {remote, cluster.artifact, cluster.applied} : x.id >= clone.id =>
              /\ x.comps[opts.path] = clone.comps[opts.path]
              /\ x.sync[opts.path] = clone.sync[opts.path]

SameElsewhere ==
    At(Cloned) =>
        /\ clone.others <= remote.others
        /\ clone.others = remote.others =>
              \A p \in Paths \ {opts.path} :
                 remote.comps[p] = clone.comps[p] /\ remote.sync[p] = clone.sync[p]

\* What the run has written to its clone and to the branch so far.
Committed ==
    /\ pc = "pushComponents" \/ At(ComponentsWritten) => clone.comps[opts.path] = opts.version
    /\ At(ComponentsWritten) => remote.comps[opts.path] = opts.version
    /\ pc = "pushSync" \/ At(SyncWritten) => clone.sync[opts.path] = Transport

\* The path the cluster is synced from, once there is one, is that of every run
\* which comes as far as the sync manifests.
PathChosen ==
    /\ \A p, q \in cluster.kust : p = q
    /\ pc \in {"pushSync", "applySync"} => cluster.kust \subseteq {opts.path}
    /\ At(Synced) => cluster.kust = {opts.path}

\* The components in the cluster are those of the revision it has applied.
AppliedRuns ==
    cluster.applied # NoRevision =>
        \E p \in cluster.kust :
            cluster.applied.comps[p] # 0 => cluster.comps = cluster.applied.comps[p]

\* A health report without a failure has seen what it has waited for.
Reported ==
    /\ At(Synced) /\ cluster.applied.id >= clone.id => cluster.url = Transport
    /\ At(Healthy1) /\ failures = 0 => cluster.artifact.id >= clone.id
    /\ At(Healthy2) /\ failures = 0 => cluster.applied.id >= clone.id
    /\ exit = "ok" => pc = "idle" /\ failures = 0
    /\ pc \notin Healthy1 \cup {"idle"} => failures = 0
    /\ pc = "kustomizationHealth" => failures <= 1
    /\ pc = "componentsHealth" => failures <= 2

\* The credentials of the run on their way into the secret: they are of its own
\* making, of the kind its options ask for, and the Git service knows them before
\* the cluster does.  A run that does not bring any gets there only if the cluster
\* has no secret.
Credentials ==
    /\ pc # "idle" => run >= 1
    /\ \A f \in DOMAIN NoSecret : newSecret[f] \in {0, run}
    /\ newSecret.key # 0 => opts.auth \in {"ssh", "keyFile"}
    /\ newSecret.basic # 0 => opts.auth \in {"basic", "deployToken"}
    /\ newSecret.bearer # 0 => opts.auth = "bearer"
    /\ pc \notin {"idle", "deployKey", "applySecret"} \cup SecretWritten =>
          newSecret.key = 0 /\ newSecret.bearer = 0
    /\ pc = "token" => opts.auth = "deployToken"
    /\ pc = "deployKey" => newSecret.key # 0
    /\ opts.auth = "deployToken" =>
          /\ newSecret.basic # 0 => <<opts.path, run>> \in provider.tokens
          /\ pc \in {"secret", "applySecret"} => provider.tokens # {}
    /\ pc \in {"deployKey", "applySecret"} =>
          /\ opts.auth \in {"ssh", "keyFile"} => newSecret.key = run
          /\ opts.auth = "basic" => newSecret.basic = run
          /\ opts.auth = "bearer" => newSecret.bearer = run
          /\ opts.auth \in {"ssh", "bearer"} => ~cluster.exists
    /\ pc = "applySecret" /\ newSecret.key # 0 => <<opts.path, run>> \in provider.keys

IInv ==
    /\ TypeOK
    /\ Numbered
    /\ Contained
    /\ SameElsewhere
    /\ Committed
    /\ PathChosen
    /\ AppliedRuns
    /\ Reported
    /\ Credentials
    /\ CredentialsStored

----------------------------------------------------------------------------
(* The strengthened invariant holds in the initial states and is kept by   *)
(* every step.                                                             *)

\* The options of a run name a path, a version and a way to authenticate.
LEMMA OptionsTyped ==
    TypeOK => opts.path \in Paths /\ opts.version \in Versions /\ opts.auth \in Auths
              /\ opts.version # 0
BY BootstrapAssumption DEF TypeOK, AllOptions

LEMMA StartKeeps ==
    ASSUME IInv, Start
    PROVE  IInv'
<1> USE DEF IInv, world, local, Goto
<1>1. TypeOK'
  <2>1. provider' \in [repo : BOOLEAN, teams : BOOLEAN,
                     keys : SUBSET (Paths \X (1..MaxRuns)),
                     tokens : SUBSET (Paths \X (1..MaxRuns))]
      BY DEF TypeOK, Start
  <2>2. remote' \in Heads /\ clone' \in Heads
      BY BootstrapAssumption DEF TypeOK, Start, NoRevision, Empty, Heads
  <2>3. cluster' \in [comps : Versions \cup {0}, exists : BOOLEAN, secret : Secrets,
                    pull : BOOLEAN, kust : SUBSET Paths, url : {"none", "ssh", "https"},
                    artifact : Heads, applied : Heads]
      BY DEF TypeOK, Start
  <2>4. pc' \in Labels /\ opts' \in RunOptions /\ run' \in 0..MaxRuns
      BY BootstrapAssumption DEF TypeOK, Start, Labels
  <2>5. newSecret' \in Secrets
      BY BootstrapAssumption DEF Start, NoSecret, Secrets
  <2>6. failures' \in 0..3 /\ warned' \in BOOLEAN /\ exit' \in {"none", "ok", "err"}
    <3>1. failures' \in 0..3 /\ exit' \in {"none", "ok", "err"}
      BY DEF Start
    <3>2. warned' \in BOOLEAN
      BY DEF Start
    <3> QED BY <3>1, <3>2
  <2> QED BY <2>1, <2>2, <2>3, <2>4, <2>5, <2>6 DEF TypeOK
<1>2. Contained'
      BY DEF Contained, Start, At, Cloned, ComponentsWritten, SecretWritten,
             SyncWritten, Synced, Healthy1, Healthy2, Healthy3
<1>3. SameElsewhere'
      BY DEF SameElsewhere, Start, At, Cloned, ComponentsWritten, SecretWritten,
             SyncWritten, Synced, Healthy1, Healthy2, Healthy3
<1>4. Committed'
      BY DEF Committed, Start, At, ComponentsWritten, SecretWritten, SyncWritten,
             Synced, Healthy1, Healthy2, Healthy3
<1>5. PathChosen'
      BY DEF PathChosen, Start, At, Synced, Healthy1, Healthy2, Healthy3
<1>6. Reported'
      BY DEF Reported, Start, At, Synced, Healthy1, Healthy2, Healthy3
<1>7. Credentials'
      BY DEF Credentials, Start, NoSecret, TypeOK
<1>8. Numbered' /\ AppliedRuns' /\ CredentialsStored'
      BY DEF Numbered, AppliedRuns, CredentialsStored, PastSecret, Start
<1> QED BY <1>1, <1>2, <1>3, <1>4, <1>5, <1>6, <1>7, <1>8

LEMMA AbortKeeps ==
    ASSUME IInv, Abort
    PROVE  IInv'
<1> USE DEF IInv, world, local, Goto
<1>1. TypeOK'
  <2>1. provider' \in [repo : BOOLEAN, teams : BOOLEAN,
                     keys : SUBSET (Paths \X (1..MaxRuns)),
                     tokens : SUBSET (Paths \X (1..MaxRuns))]
      BY DEF TypeOK, Abort
  <2>2. remote' \in Heads /\ clone' \in Heads
      BY BootstrapAssumption DEF TypeOK, Abort, NoRevision, Empty, Heads
  <2>3. cluster' \in [comps : Versions \cup {0}, exists : BOOLEAN, secret : Secrets,
                    pull : BOOLEAN, kust : SUBSET Paths, url : {"none", "ssh", "https"},
                    artifact : Heads, applied : Heads]
      BY DEF TypeOK, Abort
  <2>4. pc' \in Labels /\ opts' \in RunOptions /\ run' \in 0..MaxRuns
      BY DEF TypeOK, Abort, Labels
  <2>5. newSecret' \in Secrets
      BY BootstrapAssumption DEF Abort, NoSecret, Secrets
  <2>6. failures' \in 0..3 /\ warned' \in BOOLEAN /\ exit' \in {"none", "ok", "err"}
    <3>1. failures' \in 0..3 /\ exit' \in {"none", "ok", "err"}
      BY DEF Abort
    <3>2. warned' \in BOOLEAN
      BY DEF Abort
    <3> QED BY <3>1, <3>2
  <2> QED BY <2>1, <2>2, <2>3, <2>4, <2>5, <2>6 DEF TypeOK
<1>2. Contained'
      BY DEF Contained, Abort, At, Cloned, ComponentsWritten, SecretWritten,
             SyncWritten, Synced, Healthy1, Healthy2, Healthy3
<1>3. SameElsewhere'
      BY DEF SameElsewhere, Abort, At, Cloned, ComponentsWritten, SecretWritten,
             SyncWritten, Synced, Healthy1, Healthy2, Healthy3
<1>4. Committed'
      BY DEF Committed, Abort, At, ComponentsWritten, SecretWritten, SyncWritten,
             Synced, Healthy1, Healthy2, Healthy3
<1>5. PathChosen'
      BY DEF PathChosen, Abort, At, Synced, Healthy1, Healthy2, Healthy3
<1>6. Reported'
      BY DEF Reported, Abort, At, Synced, Healthy1, Healthy2, Healthy3
<1>7. Credentials'
      BY DEF Credentials, Abort, NoSecret, TypeOK
<1>8. Numbered' /\ AppliedRuns' /\ CredentialsStored'
      BY DEF Numbered, AppliedRuns, CredentialsStored, PastSecret, Abort
<1> QED BY <1>1, <1>2, <1>3, <1>4, <1>5, <1>6, <1>7, <1>8

LEMMA ReconcileRepositoryKeeps ==
    ASSUME IInv, ReconcileRepository
    PROVE  IInv'
<1> USE DEF IInv, world, local, Goto
<1>1. TypeOK'
      BY DEF TypeOK, ReconcileRepository, Labels
<1>2. Contained'
      BY DEF Contained, ReconcileRepository, At, Cloned, ComponentsWritten,
             SecretWritten, SyncWritten, Synced, Healthy1, Healthy2, Healthy3
<1>3. SameElsewhere'
      BY DEF SameElsewhere, ReconcileRepository, At, Cloned, ComponentsWritten,
             SecretWritten, SyncWritten, Synced, Healthy1, Healthy2, Healthy3
<1>4. Committed'
      BY DEF Committed, ReconcileRepository, At, ComponentsWritten, SecretWritten,
             SyncWritten, Synced, Healthy1, Healthy2, Healthy3
<1>5. PathChosen'
      BY DEF PathChosen, ReconcileRepository, At, Synced, Healthy1, Healthy2, Healthy3
<1>6. Reported'
      BY DEF Reported, ReconcileRepository, At, Synced, Healthy1, Healthy2, Healthy3
<1>7. Credentials'
      BY DEF Credentials, ReconcileRepository, SecretWritten, SyncWritten, Synced,
             Healthy1, Healthy2, Healthy3
<1>8. Numbered' /\ AppliedRuns' /\ CredentialsStored'
      BY DEF Numbered, AppliedRuns, CredentialsStored, PastSecret, ReconcileRepository
<1> QED BY <1>1, <1>2, <1>3, <1>4, <1>5, <1>6, <1>7, <1>8

LEMMA ReconcileTeamAccessKeeps ==
    ASSUME IInv, ReconcileTeamAccess
    PROVE  IInv'
<1> USE DEF IInv, world, local, Goto
<1>1. TypeOK'
  <2>1. provider' \in [repo : BOOLEAN, teams : BOOLEAN,
                     keys : SUBSET (Paths \X (1..MaxRuns)),
                     tokens : SUBSET (Paths \X (1..MaxRuns))]
      BY DEF TypeOK, ReconcileTeamAccess
  <2>2. remote' \in Heads /\ clone' \in Heads
      BY DEF TypeOK, ReconcileTeamAccess
  <2>3. cluster' \in [comps : Versions \cup {0}, exists : BOOLEAN, secret : Secrets,
                    pull : BOOLEAN, kust : SUBSET Paths, url : {"none", "ssh", "https"},
                    artifact : Heads, applied : Heads]
      BY DEF TypeOK, ReconcileTeamAccess
  <2>4. pc' \in Labels /\ opts' \in RunOptions /\ run' \in 0..MaxRuns
      BY DEF TypeOK, ReconcileTeamAccess, Labels
  <2>5. newSecret' \in Secrets
      BY DEF TypeOK, ReconcileTeamAccess
  <2>6. failures' \in 0..3 /\ warned' \in BOOLEAN /\ exit' \in {"none", "ok", "err"}
      BY DEF TypeOK, ReconcileTeamAccess
  <2> QED BY <2>1, <2>2, <2>3, <2>4, <2>5, <2>6 DEF TypeOK
<1>2. Contained'
      BY DEF Contained, ReconcileTeamAccess, At, Cloned, ComponentsWritten,
             SecretWritten, SyncWritten, Synced, Healthy1, Healthy2, Healthy3
<1>3. SameElsewhere'
      BY DEF SameElsewhere, ReconcileTeamAccess, At, Cloned, ComponentsWritten,
             SecretWritten, SyncWritten, Synced, Healthy1, Healthy2, Healthy3
<1>4. Committed'
      BY DEF Committed, ReconcileTeamAccess, At, ComponentsWritten, SecretWritten,
             SyncWritten, Synced, Healthy1, Healthy2, Healthy3
<1>5. PathChosen'
      BY DEF PathChosen, ReconcileTeamAccess, At, Synced, Healthy1, Healthy2, Healthy3
<1>6. Reported'
      BY DEF Reported, ReconcileTeamAccess, At, Synced, Healthy1, Healthy2, Healthy3
<1>7. Credentials'
  <2>1. provider'.tokens = provider.tokens /\ provider'.keys = provider.keys
      BY DEF TypeOK, ReconcileTeamAccess
  <2> QED BY <2>1 DEF Credentials, ReconcileTeamAccess, SecretWritten, SyncWritten, Synced,
                      Healthy1, Healthy2, Healthy3
<1>8. Numbered' /\ AppliedRuns' /\ CredentialsStored'
  <2>1. provider'.tokens = provider.tokens
      BY DEF TypeOK, ReconcileTeamAccess
  <2> QED BY <2>1 DEF Numbered, AppliedRuns, CredentialsStored, PastSecret, ReconcileTeamAccess
<1> QED BY <1>1, <1>2, <1>3, <1>4, <1>5, <1>6, <1>7, <1>8

LEMMA CloneKeeps ==
    ASSUME IInv, Clone
    PROVE  IInv'
<1> USE DEF IInv, world, local, Goto
<1>1. TypeOK'
      BY DEF TypeOK, Clone, Labels
<1>2. Contained'
      BY DEF Contained, Clone, Heads, TypeOK, Numbered
<1>3. SameElsewhere'
      BY DEF SameElsewhere, Clone, Heads, TypeOK
<1>4. Committed'
      BY DEF Committed, Clone, At, ComponentsWritten, SecretWritten, SyncWritten,
             Synced, Healthy1, Healthy2, Healthy3
<1>5. PathChosen'
      BY DEF PathChosen, Clone, At, Synced, Healthy1, Healthy2, Healthy3
<1>6. Reported'
      BY DEF Reported, Clone, At, Synced, Healthy1, Healthy2, Healthy3
<1>7. Credentials'
      BY DEF Credentials, Clone, SecretWritten, SyncWritten, Synced, Healthy1,
             Healthy2, Healthy3
<1>8. Numbered' /\ AppliedRuns' /\ CredentialsStored'
      BY DEF Numbered, AppliedRuns, CredentialsStored, PastSecret, Clone
<1> QED BY <1>1, <1>2, <1>3, <1>4, <1>5, <1>6, <1>7, <1>8

LEMMA CommitComponentsKeeps ==
    ASSUME IInv, CommitComponents
    PROVE  IInv'
<1> USE DEF IInv, world, local, Goto
<1>0. clone.comps[opts.path] # opts.version =>
        /\ clone' \in Heads
        /\ clone'.id = clone.id + 1 /\ clone'.others = clone.others /\ clone'.sync = clone.sync
        /\ clone'.comps[opts.path] = opts.version
        /\ \A q \in Paths \ {opts.path} : clone'.comps[q] = clone.comps[q]
  <2> SUFFICES ASSUME clone.comps[opts.path] # opts.version PROVE
        /\ clone' \in Heads
        /\ clone'.id = clone.id + 1 /\ clone'.others = clone.others /\ clone'.sync = clone.sync
        /\ clone'.comps[opts.path] = opts.version
        /\ \A q \in Paths \ {opts.path} : clone'.comps[q] = clone.comps[q]
    OBVIOUS
  <2>1. clone' = [clone EXCEPT !.id = @ + 1, !.comps[opts.path] = opts.version]
      BY DEF CommitComponents
  <2>2. clone \in Heads /\ opts.path \in Paths /\ opts.version \in Versions
      BY OptionsTyped DEF TypeOK
  <2>4. clone' = [id |-> clone.id + 1, others |-> clone.others, sync |-> clone.sync,
                  comps |-> [clone.comps EXCEPT ![opts.path] = opts.version]]
      BY <2>1, <2>2 DEF Heads
  <2> QED BY <2>2, <2>4 DEF Heads
<1>1. TypeOK'
  <2>1. provider' \in [repo : BOOLEAN, teams : BOOLEAN,
                     keys : SUBSET (Paths \X (1..MaxRuns)),
                     tokens : SUBSET (Paths \X (1..MaxRuns))]
      BY DEF TypeOK, CommitComponents
  <2>2. remote' \in Heads /\ clone' \in Heads
      BY <1>0 DEF TypeOK, CommitComponents
  <2>3. cluster' \in [comps : Versions \cup {0}, exists : BOOLEAN, secret : Secrets,
                    pull : BOOLEAN, kust : SUBSET Paths, url : {"none", "ssh", "https"},
                    artifact : Heads, applied : Heads]
      BY DEF TypeOK, CommitComponents
  <2>4. pc' \in Labels /\ opts' \in RunOptions /\ run' \in 0..MaxRuns
      BY DEF TypeOK, CommitComponents, Labels
  <2>5. newSecret' \in Secrets
      BY DEF TypeOK, CommitComponents
  <2>6. failures' \in 0..3 /\ warned' \in BOOLEAN /\ exit' \in {"none", "ok", "err"}
      BY DEF TypeOK, CommitComponents
  <2> QED BY <2>1, <2>2, <2>3, <2>4, <2>5, <2>6 DEF TypeOK
<1>2. Contained'
      BY DEF Contained, CommitComponents, At, Pushing, Cloned
<1>3. SameElsewhere'
      BY <1>0 DEF SameElsewhere, CommitComponents, At, Cloned
<1>4. Committed'
      BY <1>0 DEF Committed, CommitComponents, At, Pushing, Cloned, ComponentsWritten,
             SecretWritten, SyncWritten, Synced, Healthy1, Healthy2, Healthy3,
             Contained
<1>5. PathChosen'
      BY DEF PathChosen, CommitComponents, At, Synced, Healthy1, Healthy2, Healthy3
<1>6. Reported'
      BY DEF Reported, CommitComponents, At, Synced, Healthy1, Healthy2, Healthy3
<1>7. Credentials'
      BY DEF Credentials, CommitComponents, SecretWritten, SyncWritten, Synced,
             Healthy1, Healthy2, Healthy3
<1>8. Numbered' /\ AppliedRuns' /\ CredentialsStored'
      BY DEF Numbered, AppliedRuns, CredentialsStored, PastSecret, CommitComponents
<1> QED BY <1>1, <1>2, <1>3, <1>4, <1>5, <1>6, <1>7, <1>8

LEMMA PushComponentsKeeps ==
    ASSUME IInv, PushComponents
    PROVE  IInv'
<1> USE DEF IInv, world, local, Goto
<1>1. TypeOK'
      BY DEF TypeOK, PushComponents, Labels
<1>2. Numbered'
      BY DEF Numbered, PushComponents, FastForward, Heads, TypeOK
<1>3. Contained'
      BY DEF Contained, PushComponents, FastForward, Heads, TypeOK, Numbered
<1>4. SameElsewhere'
      BY DEF SameElsewhere, PushComponents, FastForward, At, Cloned
<1>5. Committed'
      BY DEF Committed, PushComponents, At, SyncWritten, Synced, Healthy1, Healthy2,
             Healthy3
<1>6. PathChosen'
      BY DEF PathChosen, PushComponents, At, Synced, Healthy1, Healthy2, Healthy3
<1>7. Reported'
      BY DEF Reported, PushComponents, At, Synced, Healthy1, Healthy2, Healthy3
<1>8. Credentials'
      BY DEF Credentials, PushComponents, SecretWritten, SyncWritten, Synced, Healthy1,
             Healthy2, Healthy3
<1>9. AppliedRuns' /\ CredentialsStored'
      BY DEF AppliedRuns, CredentialsStored, PastSecret, PushComponents
<1> QED BY <1>1, <1>2, <1>3, <1>4, <1>5, <1>6, <1>7, <1>8, <1>9

LEMMA InstallManifestsKeeps ==
    ASSUME IInv, InstallManifests
    PROVE  IInv'
<1> USE DEF IInv, world, local, Goto
<1>1. TypeOK'
  <2>1. provider' \in [repo : BOOLEAN, teams : BOOLEAN,
                     keys : SUBSET (Paths \X (1..MaxRuns)),
                     tokens : SUBSET (Paths \X (1..MaxRuns))]
      BY DEF TypeOK, InstallManifests
  <2>2. remote' \in Heads /\ clone' \in Heads
      BY DEF TypeOK, InstallManifests
  <2>3. cluster' \in [comps : Versions \cup {0}, exists : BOOLEAN, secret : Secrets,
                    pull : BOOLEAN, kust : SUBSET Paths, url : {"none", "ssh", "https"},
                    artifact : Heads, applied : Heads]
      BY OptionsTyped DEF TypeOK, InstallManifests, Heads
  <2>4. pc' \in Labels /\ opts' \in RunOptions /\ run' \in 0..MaxRuns
      BY DEF TypeOK, InstallManifests, Labels
  <2>5. newSecret' \in Secrets
      BY DEF TypeOK, InstallManifests
  <2>6. failures' \in 0..3 /\ warned' \in BOOLEAN /\ exit' \in {"none", "ok", "err"}
      BY DEF TypeOK, InstallManifests
  <2> QED BY <2>1, <2>2, <2>3, <2>4, <2>5, <2>6 DEF TypeOK
<1>2. Contained'
      BY DEF Contained, InstallManifests, At, Pushing, Cloned, ComponentsWritten
<1>3. SameElsewhere'
      BY DEF SameElsewhere, InstallManifests, At, Cloned, ComponentsWritten
<1>4. Committed'
      BY DEF Committed, InstallManifests, At, ComponentsWritten, SyncWritten, Synced,
             Healthy1, Healthy2, Healthy3
<1>5. PathChosen'
      BY DEF PathChosen, InstallManifests, At, Synced, Healthy1, Healthy2, Healthy3
<1>6. AppliedRuns'
      BY DEF AppliedRuns, InstallManifests, MustInstallManifests
<1>7. Reported'
      BY DEF Reported, InstallManifests, At, Synced, Healthy1, Healthy2, Healthy3
<1>8. Credentials'
      BY DEF Credentials, InstallManifests, SecretWritten, SyncWritten, Synced,
             Healthy1, Healthy2, Healthy3
<1>9. Numbered' /\ CredentialsStored'
  <2>1. /\ cluster'.artifact = cluster.artifact /\ cluster'.applied = cluster.applied
        /\ cluster'.exists = cluster.exists /\ cluster'.secret = cluster.secret
      BY DEF TypeOK, InstallManifests
  <2> QED BY <2>1 DEF Numbered, CredentialsStored, PastSecret, InstallManifests
<1> QED BY <1>1, <1>2, <1>3, <1>4, <1>5, <1>6, <1>7, <1>8, <1>9

LEMMA ReconcileImagePullSecretKeeps ==
    ASSUME IInv, ReconcileImagePullSecret
    PROVE  IInv'
<1> USE DEF IInv, world, local, Goto
<1>1. TypeOK'
      BY DEF TypeOK, ReconcileImagePullSecret, Labels
<1>2. Contained'
      BY DEF Contained, ReconcileImagePullSecret, At, Pushing, Cloned, ComponentsWritten
<1>3. SameElsewhere'
      BY DEF SameElsewhere, ReconcileImagePullSecret, At, Cloned, ComponentsWritten
<1>4. Committed'
      BY DEF Committed, ReconcileImagePullSecret, At, ComponentsWritten, SyncWritten,
             Synced, Healthy1, Healthy2, Healthy3
<1>5. PathChosen'
      BY DEF PathChosen, ReconcileImagePullSecret, At, Synced, Healthy1, Healthy2, Healthy3
<1>6. Reported'
      BY DEF Reported, ReconcileImagePullSecret, At, Synced, Healthy1, Healthy2, Healthy3
<1>7. Credentials'
      BY DEF Credentials, ReconcileImagePullSecret, SecretWritten, SyncWritten, Synced,
             Healthy1, Healthy2, Healthy3
<1>8. Numbered' /\ AppliedRuns' /\ CredentialsStored'
      BY DEF Numbered, AppliedRuns, CredentialsStored, PastSecret, ReconcileImagePullSecret
<1> QED BY <1>1, <1>2, <1>3, <1>4, <1>5, <1>6, <1>7, <1>8

LEMMA ReconcileDeployTokenKeeps ==
    ASSUME IInv, ReconcileDeployToken
    PROVE  IInv'
<1> USE DEF IInv, world, local, Goto
<1>1. TypeOK'
  <2>1. provider' \in [repo : BOOLEAN, teams : BOOLEAN,
                     keys : SUBSET (Paths \X (1..MaxRuns)),
                     tokens : SUBSET (Paths \X (1..MaxRuns))]
      BY BootstrapAssumption, OptionsTyped DEF TypeOK, ReconcileDeployToken, Credentials
  <2>2. remote' \in Heads /\ clone' \in Heads
      BY DEF TypeOK, ReconcileDeployToken
  <2>3. cluster' \in [comps : Versions \cup {0}, exists : BOOLEAN, secret : Secrets,
                    pull : BOOLEAN, kust : SUBSET Paths, url : {"none", "ssh", "https"},
                    artifact : Heads, applied : Heads]
      BY DEF TypeOK, ReconcileDeployToken
  <2>4. pc' \in Labels /\ opts' \in RunOptions /\ run' \in 0..MaxRuns
      BY DEF TypeOK, ReconcileDeployToken, Labels
  <2>5. newSecret' \in Secrets
      BY DEF TypeOK, ReconcileDeployToken, Secrets
  <2>6. failures' \in 0..3 /\ warned' \in BOOLEAN /\ exit' \in {"none", "ok", "err"}
      BY DEF TypeOK, ReconcileDeployToken
  <2> QED BY <2>1, <2>2, <2>3, <2>4, <2>5, <2>6 DEF TypeOK
<1>2. Contained'
      BY DEF Contained, ReconcileDeployToken, At, Pushing, Cloned, ComponentsWritten
<1>3. SameElsewhere'
      BY DEF SameElsewhere, ReconcileDeployToken, At, Cloned, ComponentsWritten
<1>4. Committed'
      BY DEF Committed, ReconcileDeployToken, At, ComponentsWritten, SyncWritten,
             Synced, Healthy1, Healthy2, Healthy3
<1>5. PathChosen'
      BY DEF PathChosen, ReconcileDeployToken, At, Synced, Healthy1, Healthy2, Healthy3
<1>6. Reported'
      BY DEF Reported, ReconcileDeployToken, At, Synced, Healthy1, Healthy2, Healthy3
<1>7. Credentials'
  <2>1. pc = "token" /\ pc' = "secret" /\ run' = run /\ opts' = opts
      BY DEF ReconcileDeployToken
  <2>2. CASE \E t \in provider.tokens : t[1] = opts.path
    <3>1. provider' = provider /\ newSecret' = newSecret /\ provider.tokens # {}
        BY <2>2 DEF ReconcileDeployToken
    <3> QED BY <2>1, <3>1 DEF Credentials, SecretWritten, SyncWritten, Synced,
                              Healthy1, Healthy2, Healthy3
  <2>3. CASE ~ \E t \in provider.tokens : t[1] = opts.path
    <3>1. /\ provider'.tokens = provider.tokens \cup {<<opts.path, run>>}
          /\ newSecret' = [newSecret EXCEPT !.basic = run]
        BY <2>3 DEF ReconcileDeployToken, TypeOK
    <3>2. newSecret \in [{"key", "basic", "bearer"} -> 0..MaxRuns]
        BY DEF TypeOK, Secrets, NoSecret
    <3>3. opts.auth = "deployToken"
        BY <2>1 DEF Credentials
    <3>4. newSecret'.key = newSecret.key /\ newSecret'.bearer = newSecret.bearer
          /\ newSecret'.basic = run
        BY <3>1, <3>2
    <3> QED BY <2>1, <3>1, <3>3, <3>4 DEF Credentials, NoSecret, SecretWritten, SyncWritten,
                              Synced, Healthy1, Healthy2, Healthy3
  <2> QED BY <2>2, <2>3
<1>8. Numbered' /\ AppliedRuns' /\ CredentialsStored'
  <2>1. provider.tokens # {} => provider'.tokens # {}
      BY DEF TypeOK, ReconcileDeployToken
  <2> QED BY <2>1 DEF Numbered, AppliedRuns, CredentialsStored, PastSecret, ReconcileDeployToken
<1> QED BY <1>1, <1>2, <1>3, <1>4, <1>5, <1>6, <1>7, <1>8

LEMMA GenerateSecretKeeps ==
    ASSUME IInv, GenerateSecret
    PROVE  IInv'
<1> USE DEF IInv, world, local, Goto
<1>1. TypeOK'
  <2>1. provider' \in [repo : BOOLEAN, teams : BOOLEAN,
                     keys : SUBSET (Paths \X (1..MaxRuns)),
                     tokens : SUBSET (Paths \X (1..MaxRuns))]
      BY DEF TypeOK, GenerateSecret
  <2>2. remote' \in Heads /\ clone' \in Heads
      BY DEF TypeOK, GenerateSecret
  <2>3. cluster' \in [comps : Versions \cup {0}, exists : BOOLEAN, secret : Secrets,
                    pull : BOOLEAN, kust : SUBSET Paths, url : {"none", "ssh", "https"},
                    artifact : Heads, applied : Heads]
      BY DEF TypeOK, GenerateSecret
  <2>4. pc' \in Labels /\ opts' \in RunOptions /\ run' \in 0..MaxRuns
      BY DEF TypeOK, GenerateSecret, Labels
  <2>5. newSecret' \in Secrets
    <3>1. DOMAIN NoSecret = {"key", "basic", "bearer"}
      BY DEF NoSecret
    <3>2. newSecret \in [{"key", "basic", "bearer"} -> 0..MaxRuns] /\ run \in 0..MaxRuns
      BY <3>1 DEF TypeOK, Secrets
    <3>3. GenerateGit(newSecret) \in [{"key", "basic", "bearer"} -> 0..MaxRuns]
      BY <3>2, OptionsTyped DEF GenerateGit, Auths
    <3> QED BY <3>1, <3>2, <3>3 DEF GenerateSecret, Secrets
  <2>6. failures' \in 0..3 /\ warned' \in BOOLEAN /\ exit' \in {"none", "ok", "err"}
      BY DEF TypeOK, GenerateSecret
  <2> QED BY <2>1, <2>2, <2>3, <2>4, <2>5, <2>6 DEF TypeOK
<1>2. Contained'
      BY DEF Contained, GenerateSecret, At, Pushing, Cloned, ComponentsWritten
<1>3. SameElsewhere'
      BY DEF SameElsewhere, GenerateSecret, At, Cloned, ComponentsWritten
<1>4. Committed'
      BY DEF Committed, GenerateSecret, At, ComponentsWritten, SyncWritten, Synced,
             Healthy1, Healthy2, Healthy3
<1>5. PathChosen'
      BY DEF PathChosen, GenerateSecret, At, Synced, Healthy1, Healthy2, Healthy3
<1>6. Reported'
      BY DEF Reported, GenerateSecret, At, Synced, Healthy1, Healthy2, Healthy3
<1>7. Credentials'
  <2>1. CASE cluster.exists /\ ~CustomCredentials
      BY <2>1 DEF Credentials, GenerateSecret, SecretWritten
  <2>2. CASE ~(cluster.exists /\ ~CustomCredentials)
    <3>1. /\ pc = "secret" /\ newSecret' = GenerateGit(newSecret)
          /\ pc' = IF newSecret'.key # 0 THEN "deployKey" ELSE "applySecret"
          /\ UNCHANGED <<world, opts, run>>
        BY <2>2 DEF GenerateSecret
    <3>2. newSecret \in [{"key", "basic", "bearer"} -> 0..MaxRuns] /\ run >= 1
        BY <3>1 DEF TypeOK, Secrets, NoSecret, Credentials
    <3>3. newSecret.key = 0
        BY <3>1 DEF Credentials, SecretWritten, SyncWritten, Synced, Healthy1, Healthy2,
                    Healthy3
    <3>4. /\ opts.auth \in {"ssh", "keyFile"} =>
                newSecret'.key = run /\ newSecret'.basic = newSecret.basic
                /\ newSecret'.bearer = newSecret.bearer
          /\ opts.auth = "basic" =>
                newSecret'.basic = run /\ newSecret'.key = 0
                /\ newSecret'.bearer = newSecret.bearer
          /\ opts.auth = "bearer" =>
                newSecret'.bearer = run /\ newSecret'.key = 0
                /\ newSecret'.basic = newSecret.basic
          /\ opts.auth = "deployToken" => newSecret' = newSecret
        BY <3>1, <3>2, <3>3 DEF GenerateGit
    <3>5. opts.auth \in {"ssh", "bearer"} => ~cluster.exists
        BY <2>2 DEF CustomCredentials, Credentials
    <3>6. opts.auth \in {"ssh", "keyFile", "basic", "bearer", "deployToken"}
        BY OptionsTyped DEF Auths
    <3> QED BY <3>1, <3>2, <3>3, <3>4, <3>5, <3>6 DEF Credentials, NoSecret, SecretWritten,
                              SyncWritten, Synced, Healthy1, Healthy2, Healthy3
  <2> QED BY <2>1, <2>2
<1>8. CredentialsStored'
  <2>1. CASE cluster.exists /\ ~CustomCredentials
    <3>1. /\ newSecret' = newSecret /\ UNCHANGED <<world, opts, run>> /\ pc' = "syncPath"
          /\ pc = "secret"
        BY <2>1 DEF GenerateSecret
    <3>2. opts.auth \notin {"keyFile", "basic"} /\ newSecret.basic = 0
        BY <2>1 DEF CustomCredentials
    <3>3. newSecret.key = 0
        BY <3>1 DEF Credentials, SecretWritten, SyncWritten, Synced, Healthy1, Healthy2,
                    Healthy3
    <3>4. newSecret.bearer = 0
        BY <3>1 DEF Credentials, SecretWritten, SyncWritten, Synced, Healthy1, Healthy2,
                    Healthy3
    <3> QED BY <2>1, <3>1, <3>2, <3>3, <3>4 DEF CredentialsStored, NoSecret
  <2>2. CASE ~(cluster.exists /\ ~CustomCredentials)
    <3>1. pc' \in {"deployKey", "applySecret"} /\ UNCHANGED world
        BY <2>2 DEF GenerateSecret
    <3> QED BY <3>1 DEF CredentialsStored, PastSecret
  <2> QED BY <2>1, <2>2
<1>9. Numbered' /\ AppliedRuns'
      BY DEF Numbered, AppliedRuns, GenerateSecret
<1> QED BY <1>1, <1>2, <1>3, <1>4, <1>5, <1>6, <1>7, <1>8, <1>9

LEMMA ReconcileDeployKeyKeeps ==
    ASSUME IInv, ReconcileDeployKey
    PROVE  IInv'
<1> USE DEF IInv, world, local, Goto
<1>1. TypeOK'
  <2>1. provider' \in [repo : BOOLEAN, teams : BOOLEAN,
                     keys : SUBSET (Paths \X (1..MaxRuns)),
                     tokens : SUBSET (Paths \X (1..MaxRuns))]
    <3>1. newSecret.key \in 1..MaxRuns
      BY BootstrapAssumption DEF TypeOK, Secrets, NoSecret, ReconcileDeployKey, Credentials
    <3>2. <<opts.path, newSecret.key>> \in Paths \X (1..MaxRuns)
      BY <3>1, OptionsTyped
    <3> QED BY <3>2 DEF TypeOK, ReconcileDeployKey
  <2>2. remote' \in Heads /\ clone' \in Heads
      BY DEF TypeOK, ReconcileDeployKey
  <2>3. cluster' \in [comps : Versions \cup {0}, exists : BOOLEAN, secret : Secrets,
                    pull : BOOLEAN, kust : SUBSET Paths, url : {"none", "ssh", "https"},
                    artifact : Heads, applied : Heads]
      BY DEF TypeOK, ReconcileDeployKey
  <2>4. pc' \in Labels /\ opts' \in RunOptions /\ run' \in 0..MaxRuns
      BY DEF TypeOK, ReconcileDeployKey, Labels
  <2>5. newSecret' \in Secrets
      BY DEF TypeOK, ReconcileDeployKey
  <2>6. failures' \in 0..3 /\ warned' \in BOOLEAN /\ exit' \in {"none", "ok", "err"}
      BY DEF TypeOK, ReconcileDeployKey
  <2> QED BY <2>1, <2>2, <2>3, <2>4, <2>5, <2>6 DEF TypeOK
<1>2. Contained'
      BY DEF Contained, ReconcileDeployKey, At, Pushing, Cloned, ComponentsWritten
<1>3. SameElsewhere'
      BY DEF SameElsewhere, ReconcileDeployKey, At, Cloned, ComponentsWritten
<1>4. Committed'
      BY DEF Committed, ReconcileDeployKey, At, ComponentsWritten, SyncWritten, Synced,
             Healthy1, Healthy2, Healthy3
<1>5. PathChosen'
      BY DEF PathChosen, ReconcileDeployKey, At, Synced, Healthy1, Healthy2, Healthy3
<1>6. Reported'
      BY DEF Reported, ReconcileDeployKey, At, Synced, Healthy1, Healthy2, Healthy3
<1>7. provider'.tokens = provider.tokens /\ <<opts.path, newSecret.key>> \in provider'.keys
      BY DEF TypeOK, ReconcileDeployKey
<1>8. Credentials'
  <2>1. newSecret.key = run
      BY DEF Credentials, ReconcileDeployKey, NoSecret
  <2> QED BY <1>7, <2>1 DEF Credentials, ReconcileDeployKey, SecretWritten
<1>9. Numbered' /\ AppliedRuns' /\ CredentialsStored'
      BY <1>7 DEF Numbered, AppliedRuns, CredentialsStored, PastSecret, ReconcileDeployKey
<1> QED BY <1>1, <1>2, <1>3, <1>4, <1>5, <1>6, <1>8, <1>9

LEMMA ReconcileSecretKeeps ==
    ASSUME IInv, ReconcileSecret
    PROVE  IInv'
<1> USE DEF IInv, world, local, Goto
<1>1. TypeOK'
      BY DEF TypeOK, ReconcileSecret, Secrets, Labels
<1>2. Contained'
      BY DEF Contained, ReconcileSecret, At, Pushing, Cloned, ComponentsWritten
<1>3. SameElsewhere'
      BY DEF SameElsewhere, ReconcileSecret, At, Cloned, ComponentsWritten
<1>4. Committed'
      BY DEF Committed, ReconcileSecret, At, ComponentsWritten, SyncWritten, Synced,
             Healthy1, Healthy2, Healthy3
<1>5. PathChosen'
      BY DEF PathChosen, ReconcileSecret, At, Synced, Healthy1, Healthy2, Healthy3
<1>6. Reported'
      BY DEF Reported, ReconcileSecret, At, Synced, Healthy1, Healthy2, Healthy3
<1>7. Credentials'
      BY DEF Credentials, ReconcileSecret, SecretWritten
<1>8. CredentialsStored'
  <2>1. /\ pc = "applySecret" /\ pc' = "syncPath"
        /\ UNCHANGED <<provider, opts, run, newSecret>>
        /\ cluster'.exists
        /\ cluster'.secret = [f \in DOMAIN NoSecret |->
              IF newSecret[f] # 0 THEN newSecret[f] ELSE cluster.secret[f]]
      BY DEF ReconcileSecret, TypeOK
  <2>2. \A f \in DOMAIN NoSecret :
            newSecret[f] # 0 => newSecret[f] = run /\ cluster'.secret[f] = run
      BY <2>1 DEF Credentials
  <2>3. /\ opts.auth = "keyFile" => newSecret.key = run
        /\ opts.auth = "basic" => newSecret.basic = run
        /\ newSecret.key # 0 => <<opts.path, run>> \in provider.keys
        /\ opts.auth = "deployToken" /\ newSecret.basic # 0
             => <<opts.path, run>> \in provider.tokens
      BY <2>1 DEF Credentials
  <2>4. cluster'.secret = NoSecret => provider.tokens # {}
    <3> SUFFICES ASSUME cluster'.secret = NoSecret PROVE provider.tokens # {}
        OBVIOUS
    <3>1. newSecret.key = 0 /\ newSecret.basic = 0 /\ newSecret.bearer = 0
        BY <2>1 DEF NoSecret
    <3>2. opts.auth = "deployToken"
        BY <2>1, <3>1, OptionsTyped DEF Credentials, Auths
    <3> QED BY <2>1, <3>2 DEF Credentials
  <2> QED BY <2>1, <2>2, <2>3, <2>4 DEF CredentialsStored
<1>9. Numbered' /\ AppliedRuns'
      BY DEF Numbered, AppliedRuns, ReconcileSecret
<1> QED BY <1>1, <1>2, <1>3, <1>4, <1>5, <1>6, <1>7, <1>8, <1>9

LEMMA CommitSyncKeeps ==
    ASSUME IInv, CommitSync
    PROVE  IInv'
<1> USE DEF IInv, world, local, Goto
<1>0. clone.sync[opts.path] # Transport =>
        /\ clone' \in Heads
        /\ clone'.id = clone.id + 1 /\ clone'.others = clone.others /\ clone'.comps = clone.comps
        /\ clone'.sync[opts.path] = Transport
        /\ \A q \in Paths \ {opts.path} : clone'.sync[q] = clone.sync[q]
  <2> SUFFICES ASSUME clone.sync[opts.path] # Transport PROVE
        /\ clone' \in Heads
        /\ clone'.id = clone.id + 1 /\ clone'.others = clone.others /\ clone'.comps = clone.comps
        /\ clone'.sync[opts.path] = Transport
        /\ \A q \in Paths \ {opts.path} : clone'.sync[q] = clone.sync[q]
    OBVIOUS
  <2>1. clone' = [clone EXCEPT !.id = @ + 1, !.sync[opts.path] = Transport]
      BY DEF CommitSync
  <2>2. clone \in Heads /\ opts.path \in Paths /\ Transport \in {"ssh", "https"}
      BY OptionsTyped DEF TypeOK, Transport
  <2>4. clone' = [id |-> clone.id + 1, others |-> clone.others, comps |-> clone.comps,
                  sync |-> [clone.sync EXCEPT ![opts.path] = Transport]]
      BY <2>1, <2>2 DEF Heads
  <2> QED BY <2>2, <2>4 DEF Heads
<1>1. TypeOK'
  <2>1. provider' \in [repo : BOOLEAN, teams : BOOLEAN,
                     keys : SUBSET (Paths \X (1..MaxRuns)),
                     tokens : SUBSET (Paths \X (1..MaxRuns))]
      BY DEF TypeOK, CommitSync
  <2>2. remote' \in Heads /\ clone' \in Heads
      BY <1>0 DEF TypeOK, CommitSync
  <2>3. cluster' \in [comps : Versions \cup {0}, exists : BOOLEAN, secret : Secrets,
                    pull : BOOLEAN, kust : SUBSET Paths, url : {"none", "ssh", "https"},
                    artifact : Heads, applied : Heads]
      BY DEF TypeOK, CommitSync
  <2>4. pc' \in Labels /\ opts' \in RunOptions /\ run' \in 0..MaxRuns
      BY DEF TypeOK, CommitSync, Labels
  <2>5. newSecret' \in Secrets
      BY DEF TypeOK, CommitSync
  <2>6. failures' \in 0..3 /\ warned' \in BOOLEAN /\ exit' \in {"none", "ok", "err"}
      BY DEF TypeOK, CommitSync
  <2> QED BY <2>1, <2>2, <2>3, <2>4, <2>5, <2>6 DEF TypeOK
<1>2. Contained'
      BY DEF Contained, CommitSync, At, Pushing, Cloned, ComponentsWritten, SecretWritten
<1>3. SameElsewhere'
      BY <1>0 DEF SameElsewhere, CommitSync, At, Cloned, ComponentsWritten, SecretWritten
<1>4. Committed'
      BY <1>0 DEF Committed, CommitSync, At, ComponentsWritten, SecretWritten, Transport
<1>5. PathChosen'
      BY DEF PathChosen, CommitSync, SyncPathAllowed, At, Synced, Healthy1, Healthy2,
             Healthy3
<1>6. Reported'
      BY DEF Reported, CommitSync, At, Synced, Healthy1, Healthy2, Healthy3
<1>7. Credentials'
      BY DEF Credentials, CommitSync, SecretWritten, SyncWritten
<1>8. Numbered' /\ AppliedRuns' /\ CredentialsStored'
      BY DEF Numbered, AppliedRuns, CredentialsStored, PastSecret, CommitSync
<1> QED BY <1>1, <1>2, <1>3, <1>4, <1>5, <1>6, <1>7, <1>8

LEMMA PushSyncKeeps ==
    ASSUME IInv, PushSync
    PROVE  IInv'
<1> USE DEF IInv, world, local, Goto
<1>1. TypeOK'
      BY DEF TypeOK, PushSync, Labels
<1>2. Numbered'
      BY DEF Numbered, PushSync, FastForward, Heads, TypeOK
<1>3. Contained'
      BY DEF Contained, PushSync, FastForward, Heads, TypeOK, Numbered
<1>4. SameElsewhere'
      BY DEF SameElsewhere, PushSync, Heads, TypeOK
<1>5. Committed'
      BY DEF Committed, PushSync, At, ComponentsWritten, SecretWritten, Transport
<1>6. PathChosen'
      BY DEF PathChosen, PushSync, At, Synced, Healthy1, Healthy2, Healthy3
<1>7. Reported'
      BY DEF Reported, PushSync, At, Synced, Healthy1, Healthy2, Healthy3
<1>8. Credentials'
      BY DEF Credentials, PushSync, SecretWritten, SyncWritten
<1>9. AppliedRuns' /\ CredentialsStored'
      BY DEF AppliedRuns, CredentialsStored, PastSecret, PushSync
<1> QED BY <1>1, <1>2, <1>3, <1>4, <1>5, <1>6, <1>7, <1>8, <1>9

LEMMA PushConflictKeeps ==
    ASSUME IInv, PushConflict
    PROVE  IInv'
<1> USE DEF IInv, world, local, Goto
<1>1. TypeOK'
      BY DEF TypeOK, PushConflict, Labels
<1>2. Contained'
      BY DEF Contained, PushConflict, Heads, TypeOK, Numbered
<1>3. SameElsewhere'
      BY DEF SameElsewhere, PushConflict, Heads, TypeOK
<1>4. Committed'
      BY DEF Committed, PushConflict, At, ComponentsWritten, SecretWritten,
             SyncWritten, Synced, Healthy1, Healthy2, Healthy3
<1>5. PathChosen'
      BY DEF PathChosen, PushConflict, At, Synced, Healthy1, Healthy2, Healthy3
<1>6. Reported'
      BY DEF Reported, PushConflict, At, Synced, Healthy1, Healthy2, Healthy3
<1>7. Credentials'
      BY DEF Credentials, PushConflict, SecretWritten
<1>8. Numbered' /\ AppliedRuns' /\ CredentialsStored'
      BY DEF Numbered, AppliedRuns, CredentialsStored, PastSecret, PushConflict
<1> QED BY <1>1, <1>2, <1>3, <1>4, <1>5, <1>6, <1>7, <1>8

LEMMA ApplySyncKeeps ==
    ASSUME IInv, ApplySync
    PROVE  IInv'
<1> USE DEF IInv, world, local, Goto
<1>1. TypeOK'
  <2>1. provider' \in [repo : BOOLEAN, teams : BOOLEAN,
                     keys : SUBSET (Paths \X (1..MaxRuns)),
                     tokens : SUBSET (Paths \X (1..MaxRuns))]
      BY DEF TypeOK, ApplySync
  <2>2. remote' \in Heads /\ clone' \in Heads
      BY DEF TypeOK, ApplySync
  <2>3. cluster' \in [comps : Versions \cup {0}, exists : BOOLEAN, secret : Secrets,
                    pull : BOOLEAN, kust : SUBSET Paths, url : {"none", "ssh", "https"},
                    artifact : Heads, applied : Heads]
      BY OptionsTyped DEF TypeOK, ApplySync, Transport
  <2>4. pc' \in Labels /\ opts' \in RunOptions /\ run' \in 0..MaxRuns
      BY DEF TypeOK, ApplySync, Labels
  <2>5. newSecret' \in Secrets
      BY DEF TypeOK, ApplySync
  <2>6. failures' \in 0..3 /\ warned' \in BOOLEAN /\ exit' \in {"none", "ok", "err"}
      BY DEF TypeOK, ApplySync
  <2> QED BY <2>1, <2>2, <2>3, <2>4, <2>5, <2>6 DEF TypeOK
<1>2. Contained'
      BY DEF Contained, ApplySync, At, Pushing, Cloned, ComponentsWritten,
             SecretWritten, SyncWritten
<1>3. SameElsewhere'
      BY DEF SameElsewhere, ApplySync, At, Cloned, ComponentsWritten, SecretWritten,
             SyncWritten
<1>4. Committed'
      BY DEF Committed, ApplySync, Transport, At, ComponentsWritten, SecretWritten,
             SyncWritten
<1>5. AppliedRuns'
      BY DEF AppliedRuns, ApplySync, PathChosen
<1>6. Reported'
      BY DEF Reported, ApplySync, Transport, At, Healthy1, Healthy2, Healthy3
<1>7. Credentials'
      BY DEF Credentials, ApplySync, SecretWritten, SyncWritten, Synced
<1>8. Numbered' /\ PathChosen' /\ CredentialsStored'
      BY DEF Numbered, PathChosen, CredentialsStored, PastSecret, ApplySync, TypeOK
<1> QED BY <1>1, <1>2, <1>3, <1>4, <1>5, <1>6, <1>7, <1>8

LEMMA ReportGitRepoHealthKeeps ==
    ASSUME IInv, ReportGitRepoHealth
    PROVE  IInv'
<1> USE DEF IInv, world, local, Goto
<1>1. TypeOK'
  <2>1. provider' \in [repo : BOOLEAN, teams : BOOLEAN,
                     keys : SUBSET (Paths \X (1..MaxRuns)),
                     tokens : SUBSET (Paths \X (1..MaxRuns))]
      BY DEF TypeOK, ReportGitRepoHealth, HealthStep
  <2>2. remote' \in Heads /\ clone' \in Heads
      BY DEF TypeOK, ReportGitRepoHealth, HealthStep
  <2>3. cluster' \in [comps : Versions \cup {0}, exists : BOOLEAN, secret : Secrets,
                    pull : BOOLEAN, kust : SUBSET Paths, url : {"none", "ssh", "https"},
                    artifact : Heads, applied : Heads]
      BY DEF TypeOK, ReportGitRepoHealth, HealthStep
  <2>4. pc' \in Labels /\ opts' \in RunOptions /\ run' \in 0..MaxRuns
      BY DEF TypeOK, ReportGitRepoHealth, HealthStep, Labels
  <2>5. newSecret' \in Secrets
      BY DEF TypeOK, ReportGitRepoHealth, HealthStep
  <2>6. failures' \in 0..3 /\ warned' \in BOOLEAN /\ exit' \in {"none", "ok", "err"}
      BY DEF TypeOK, ReportGitRepoHealth, HealthStep, Reported, Healthy1, Healthy2, Healthy3
  <2> QED BY <2>1, <2>2, <2>3, <2>4, <2>5, <2>6 DEF TypeOK
<1>2. Contained'
      BY DEF Contained, ReportGitRepoHealth, HealthStep, At, Pushing, Cloned,
             ComponentsWritten, SecretWritten, SyncWritten, Synced
<1>3. SameElsewhere'
      BY DEF SameElsewhere, ReportGitRepoHealth, HealthStep, At, Cloned,
             ComponentsWritten, SecretWritten, SyncWritten, Synced
<1>4. Committed'
      BY DEF Committed, ReportGitRepoHealth, HealthStep, At, ComponentsWritten,
             SecretWritten, SyncWritten, Synced, Transport
<1>5. PathChosen'
      BY DEF PathChosen, ReportGitRepoHealth, HealthStep, At, Synced
<1>6. Reported'
      BY DEF Reported, ReportGitRepoHealth, HealthStep, Reached, Heads, At, Synced,
             Healthy1, Healthy2, Healthy3, TypeOK, Transport
<1>7. Credentials'
      BY DEF Credentials, ReportGitRepoHealth, HealthStep, SecretWritten, SyncWritten,
             Synced, Healthy1
<1>8. Numbered' /\ AppliedRuns' /\ CredentialsStored'
      BY DEF Numbered, AppliedRuns, CredentialsStored, PastSecret, ReportGitRepoHealth, HealthStep
<1> QED BY <1>1, <1>2, <1>3, <1>4, <1>5, <1>6, <1>7, <1>8

LEMMA ReportKustomizationHealthKeeps ==
    ASSUME IInv, ReportKustomizationHealth
    PROVE  IInv'
<1> USE DEF IInv, world, local, Goto
<1>1. TypeOK'
  <2>1. provider' \in [repo : BOOLEAN, teams : BOOLEAN,
                     keys : SUBSET (Paths \X (1..MaxRuns)),
                     tokens : SUBSET (Paths \X (1..MaxRuns))]
      BY DEF TypeOK, ReportKustomizationHealth, HealthStep
  <2>2. remote' \in Heads /\ clone' \in Heads
      BY DEF TypeOK, ReportKustomizationHealth, HealthStep
  <2>3. cluster' \in [comps : Versions \cup {0}, exists : BOOLEAN, secret : Secrets,
                    pull : BOOLEAN, kust : SUBSET Paths, url : {"none", "ssh", "https"},
                    artifact : Heads, applied : Heads]
      BY DEF TypeOK, ReportKustomizationHealth, HealthStep
  <2>4. pc' \in Labels /\ opts' \in RunOptions /\ run' \in 0..MaxRuns
      BY DEF TypeOK, ReportKustomizationHealth, HealthStep, Labels
  <2>5. newSecret' \in Secrets
      BY DEF TypeOK, ReportKustomizationHealth, HealthStep
  <2>6. failures' \in 0..3 /\ warned' \in BOOLEAN /\ exit' \in {"none", "ok", "err"}
      BY DEF TypeOK, ReportKustomizationHealth, HealthStep, Reported
  <2> QED BY <2>1, <2>2, <2>3, <2>4, <2>5, <2>6 DEF TypeOK
<1>2. Contained'
      BY DEF Contained, ReportKustomizationHealth, HealthStep, At, Pushing, Cloned,
             ComponentsWritten, SecretWritten, SyncWritten, Synced, Healthy1
<1>3. SameElsewhere'
      BY DEF SameElsewhere, ReportKustomizationHealth, HealthStep, At, Cloned,
             ComponentsWritten, SecretWritten, SyncWritten, Synced, Healthy1
<1>4. Committed'
      BY DEF Committed, ReportKustomizationHealth, HealthStep, At, ComponentsWritten,
             SecretWritten, SyncWritten, Synced, Healthy1, Transport
<1>5. PathChosen'
      BY DEF PathChosen, ReportKustomizationHealth, HealthStep, At, Synced, Healthy1
<1>6. Reported'
      BY DEF Reported, ReportKustomizationHealth, HealthStep, Reached, Heads, At,
             Synced, Healthy1, Healthy2, TypeOK, Transport
<1>7. Credentials'
      BY DEF Credentials, ReportKustomizationHealth, HealthStep, SecretWritten,
             SyncWritten, Synced, Healthy1, Healthy2
<1>8. Numbered' /\ AppliedRuns' /\ CredentialsStored'
      BY DEF Numbered, AppliedRuns, CredentialsStored, PastSecret, ReportKustomizationHealth,
             HealthStep
<1> QED BY <1>1, <1>2, <1>3, <1>4, <1>5, <1>6, <1>7, <1>8

LEMMA ReportComponentsHealthKeeps ==
    ASSUME IInv, ReportComponentsHealth
    PROVE  IInv'
<1> USE DEF IInv, world, local, Goto
<1>1. TypeOK'
  <2>1. provider' \in [repo : BOOLEAN, teams : BOOLEAN,
                     keys : SUBSET (Paths \X (1..MaxRuns)),
                     tokens : SUBSET (Paths \X (1..MaxRuns))]
      BY DEF TypeOK, ReportComponentsHealth, HealthStep
  <2>2. remote' \in Heads /\ clone' \in Heads
      BY DEF TypeOK, ReportComponentsHealth, HealthStep
  <2>3. cluster' \in [comps : Versions \cup {0}, exists : BOOLEAN, secret : Secrets,
                    pull : BOOLEAN, kust : SUBSET Paths, url : {"none", "ssh", "https"},
                    artifact : Heads, applied : Heads]
      BY DEF TypeOK, ReportComponentsHealth, HealthStep
  <2>4. pc' \in Labels /\ opts' \in RunOptions /\ run' \in 0..MaxRuns
      BY DEF TypeOK, ReportComponentsHealth, HealthStep, Labels
  <2>5. newSecret' \in Secrets
      BY DEF TypeOK, ReportComponentsHealth, HealthStep
  <2>6. failures' \in 0..3 /\ warned' \in BOOLEAN /\ exit' \in {"none", "ok", "err"}
      BY DEF TypeOK, ReportComponentsHealth, HealthStep, Reported
  <2> QED BY <2>1, <2>2, <2>3, <2>4, <2>5, <2>6 DEF TypeOK
<1>2. Contained'
      BY DEF Contained, ReportComponentsHealth, HealthStep, At, Pushing, Cloned,
             ComponentsWritten, SecretWritten, SyncWritten, Synced, Healthy1, Healthy2
<1>3. SameElsewhere'
      BY DEF SameElsewhere, ReportComponentsHealth, HealthStep, At, Cloned,
             ComponentsWritten, SecretWritten, SyncWritten, Synced, Healthy1, Healthy2
<1>4. Committed'
      BY DEF Committed, ReportComponentsHealth, HealthStep, At, ComponentsWritten,
             SecretWritten, SyncWritten, Synced, Healthy1, Healthy2, Transport
<1>5. PathChosen'
      BY DEF PathChosen, ReportComponentsHealth, HealthStep, At, Synced, Healthy1, Healthy2
<1>6. Reported'
      BY DEF Reported, ReportComponentsHealth, HealthStep, At, Synced, Healthy1,
             Healthy2, Healthy3, TypeOK, Transport
<1>7. Credentials'
      BY DEF Credentials, ReportComponentsHealth, HealthStep, SecretWritten,
             SyncWritten, Synced, Healthy1, Healthy2, Healthy3
<1>8. Numbered' /\ AppliedRuns' /\ CredentialsStored'
      BY DEF Numbered, AppliedRuns, CredentialsStored, PastSecret, ReportComponentsHealth, HealthStep
<1> QED BY <1>1, <1>2, <1>3, <1>4, <1>5, <1>6, <1>7, <1>8

LEMMA FinishKeeps ==
    ASSUME IInv, Finish
    PROVE  IInv'
<1> USE DEF IInv, world, local, Goto
<1>1. TypeOK'
      BY DEF TypeOK, Finish, Labels
<1>2. Contained'
      BY DEF Contained, Finish, At, Pushing, Cloned, ComponentsWritten, SecretWritten,
             SyncWritten, Synced, Healthy1, Healthy2, Healthy3
<1>3. SameElsewhere'
      BY DEF SameElsewhere, Finish, At, Cloned, ComponentsWritten, SecretWritten,
             SyncWritten, Synced, Healthy1, Healthy2, Healthy3
<1>4. Committed'
      BY DEF Committed, Finish, At, ComponentsWritten, SecretWritten, SyncWritten,
             Synced, Healthy1, Healthy2, Healthy3, Transport
<1>5. PathChosen'
      BY DEF PathChosen, Finish, At, Synced, Healthy1, Healthy2, Healthy3
<1>6. Reported'
      BY DEF Reported, Finish, At, Synced, Healthy1, Healthy2, Healthy3, TypeOK, Transport
<1>7. Credentials'
      BY DEF Credentials, Finish
<1>8. Numbered' /\ AppliedRuns' /\ CredentialsStored'
      BY DEF Numbered, AppliedRuns, CredentialsStored, PastSecret, Finish
<1> QED BY <1>1, <1>2, <1>3, <1>4, <1>5, <1>6, <1>7, <1>8

LEMMA ForeignPushKeeps ==
    ASSUME IInv, ForeignPush
    PROVE  IInv'
<1> USE DEF IInv, world, local, Goto
<1>1. TypeOK'
  <2>1. provider' \in [repo : BOOLEAN, teams : BOOLEAN,
                     keys : SUBSET (Paths \X (1..MaxRuns)),
                     tokens : SUBSET (Paths \X (1..MaxRuns))]
      BY DEF TypeOK, ForeignPush
  <2>2. remote' \in Heads /\ clone' \in Heads
    <3>1. remote.id + 1 \in Nat /\ remote.others + 1 \in 0..MaxForeign
      BY BootstrapAssumption DEF TypeOK, Heads, ForeignPush
    <3> QED BY <3>1 DEF TypeOK, Heads, ForeignPush
  <2>3. cluster' \in [comps : Versions \cup {0}, exists : BOOLEAN, secret : Secrets,
                    pull : BOOLEAN, kust : SUBSET Paths, url : {"none", "ssh", "https"},
                    artifact : Heads, applied : Heads]
      BY DEF TypeOK, ForeignPush
  <2>4. pc' \in Labels /\ opts' \in RunOptions /\ run' \in 0..MaxRuns
      BY DEF TypeOK, ForeignPush
  <2>5. newSecret' \in Secrets
      BY DEF TypeOK, ForeignPush
  <2>6. failures' \in 0..3 /\ warned' \in BOOLEAN /\ exit' \in {"none", "ok", "err"}
      BY DEF TypeOK, ForeignPush
  <2> QED BY <2>1, <2>2, <2>3, <2>4, <2>5, <2>6 DEF TypeOK
<1>2. Numbered'
      BY BootstrapAssumption DEF Numbered, ForeignPush, Heads, At, Pushing, Cloned,
             ComponentsWritten, SecretWritten, SyncWritten, Synced, Healthy1, Healthy2,
             Healthy3, TypeOK
<1>3. Contained'
      BY DEF Contained, ForeignPush, Heads, At, TypeOK
<1>4. SameElsewhere'
      BY DEF SameElsewhere, ForeignPush, Heads, At, TypeOK
<1>5. Committed'
      BY DEF Committed, ForeignPush, At, Transport
<1>6. PathChosen'
      BY DEF PathChosen, ForeignPush, At
<1>7. Reported'
      BY DEF Reported, ForeignPush, At, Transport
<1>8. AppliedRuns' /\ Credentials' /\ CredentialsStored'
      BY DEF AppliedRuns, Credentials, CredentialsStored, ForeignPush
<1> QED BY <1>1, <1>2, <1>3, <1>4, <1>5, <1>6, <1>7, <1>8

LEMMA FetchKeeps ==
    ASSUME IInv, Fetch
    PROVE  IInv'
<1> USE DEF IInv, world, local, Goto
<1>1. TypeOK'
      BY DEF TypeOK, Fetch
<1>2. Numbered'
      BY BootstrapAssumption DEF Numbered, Fetch, Heads, At, Pushing, Cloned,
             ComponentsWritten, SecretWritten, SyncWritten, Synced, Healthy1, Healthy2,
             Healthy3, TypeOK
<1>3. Contained'
      BY DEF Contained, Fetch, At
<1>4. SameElsewhere'
      BY DEF SameElsewhere, Fetch, At
<1>5. Committed'
      BY DEF Committed, Fetch, At, Transport
<1>6. PathChosen'
      BY DEF PathChosen, Fetch, At
<1>7. Reported'
      BY DEF Reported, Fetch, Heads, At, TypeOK, Numbered, Transport
<1>8. AppliedRuns' /\ Credentials' /\ CredentialsStored'
      BY DEF AppliedRuns, Credentials, CredentialsStored, Fetch
<1> QED BY <1>1, <1>2, <1>3, <1>4, <1>5, <1>6, <1>7, <1>8

LEMMA ApplyRevisionKeeps ==
    ASSUME IInv, ApplyRevision
    PROVE  IInv'
<1> USE DEF IInv, world, local, Goto
<1>1. TypeOK'
  <2>1. provider' \in [repo : BOOLEAN, teams : BOOLEAN,
                     keys : SUBSET (Paths \X (1..MaxRuns)),
                     tokens : SUBSET (Paths \X (1..MaxRuns))]
      BY DEF TypeOK, ApplyRevision
  <2>2. remote' \in Heads /\ clone' \in Heads
      BY DEF TypeOK, ApplyRevision
  <2>3. cluster' \in [comps : Versions \cup {0}, exists : BOOLEAN, secret : Secrets,
                    pull : BOOLEAN, kust : SUBSET Paths, url : {"none", "ssh", "https"},
                    artifact : Heads, applied : Heads]
    <3>1. \A p \in Paths : cluster.artifact.comps[p] \in Versions \cup {0}
                       /\ cluster.artifact.sync[p] \in {"none", "ssh", "https"}
      BY DEF TypeOK, Heads
    <3> QED BY <3>1 DEF TypeOK, ApplyRevision
  <2>4. pc' \in Labels /\ opts' \in RunOptions /\ run' \in 0..MaxRuns
      BY DEF TypeOK, ApplyRevision
  <2>5. newSecret' \in Secrets
      BY DEF TypeOK, ApplyRevision
  <2>6. failures' \in 0..3 /\ warned' \in BOOLEAN /\ exit' \in {"none", "ok", "err"}
      BY DEF TypeOK, ApplyRevision
  <2> QED BY <2>1, <2>2, <2>3, <2>4, <2>5, <2>6 DEF TypeOK
<1>2. Contained'
      BY DEF Contained, ApplyRevision, At
<1>3. SameElsewhere'
      BY DEF SameElsewhere, ApplyRevision, At
<1>4. Committed'
      BY DEF Committed, ApplyRevision, At, Transport
<1>5. PathChosen'
      BY DEF PathChosen, ApplyRevision, At
<1>6. Reported'
      BY DEF Reported, ApplyRevision, At, Pushing, Cloned, ComponentsWritten,
             SecretWritten, SyncWritten, Synced, Healthy1, Healthy2, Healthy3,
             Contained, Committed, PathChosen, Transport
<1>7. Numbered' /\ AppliedRuns' /\ Credentials' /\ CredentialsStored'
      BY DEF Numbered, AppliedRuns, Credentials, CredentialsStored, ApplyRevision
<1> QED BY <1>1, <1>2, <1>3, <1>4, <1>5, <1>6, <1>7

LEMMA UnchangedKeeps ==
    ASSUME IInv, UNCHANGED vars
    PROVE  IInv'
BY DEF IInv, vars, TypeOK, Numbered, Contained, SameElsewhere, Committed, PathChosen,
       AppliedRuns, Reported, Credentials, CredentialsStored, At, Transport

LEMMA InitIInv == Init => IInv
<1> SUFFICES ASSUME Init PROVE IInv
    OBVIOUS
<1> USE BootstrapAssumption DEF Init, Empty, NoRevision, NoSecret
<1>1. TypeOK
  <2>1. Empty(0) \in Heads /\ Empty(1) \in Heads
        BY DEF Heads
  <2>2. NoSecret \in Secrets
        BY DEF Secrets
  <2>3. provider \in [repo : BOOLEAN, teams : BOOLEAN,
                     keys : SUBSET (Paths \X (1..MaxRuns)),
                     tokens : SUBSET (Paths \X (1..MaxRuns))]
        OBVIOUS
  <2>5. remote \in Heads /\ clone \in Heads /\ newSecret \in Secrets
        BY <2>1, <2>2
  <2>6. /\ pc \in Labels /\ opts \in RunOptions /\ run \in 0..MaxRuns
        /\ failures \in 0..3 /\ exit \in {"none", "ok", "err"}
        BY DEF Labels
  <2> QED BY <2>3, <2>5, <2>6 DEF TypeOK
<1>2. Numbered
      BY DEF Numbered
<1>3. Contained /\ SameElsewhere /\ Committed /\ PathChosen /\ AppliedRuns /\ Reported
      /\ Credentials /\ CredentialsStored
      BY DEF Contained, SameElsewhere, Committed, PathChosen, AppliedRuns, Reported,
             Credentials, CredentialsStored, At, Pushing, Cloned, ComponentsWritten,
             SecretWritten, SyncWritten, Synced, Healthy1, Healthy2, Healthy3, PastSecret
<1> QED BY <1>1, <1>2, <1>3 DEF IInv

LEMMA NextIInv == IInv /\ [Next]_vars => IInv'
<1> SUFFICES ASSUME IInv, [Next]_vars PROVE IInv'
    OBVIOUS
<1>1. CASE Command
      BY <1>1, ReconcileRepositoryKeeps, ReconcileTeamAccessKeeps, CloneKeeps,
             CommitComponentsKeeps, PushComponentsKeeps, InstallManifestsKeeps,
             ReconcileImagePullSecretKeeps, ReconcileDeployTokenKeeps,
             GenerateSecretKeeps, ReconcileDeployKeyKeeps, ReconcileSecretKeeps,
             CommitSyncKeeps, PushSyncKeeps, PushConflictKeeps, ApplySyncKeeps,
             ReportGitRepoHealthKeeps, ReportKustomizationHealthKeeps,
             ReportComponentsHealthKeeps, FinishKeeps
      DEF Command
<1>2. CASE Terminated \/ UNCHANGED vars
      BY <1>2, UnchangedKeeps DEF Terminated
<1> QED BY <1>1, <1>2, StartKeeps, AbortKeeps, ForeignPushKeeps, FetchKeeps,
           ApplyRevisionKeeps DEF Next

LEMMA Invariance == Spec => []IInv
<1> QED BY InitIInv, NextIInv, PTL DEF Spec

----------------------------------------------------------------------------

\* bootstrap.Run returns nil only for a complete deployment, whatever earlier runs
\* were killed half way and whoever has pushed in between (ReconcileComponents,
\* ReconcileSyncConfig, objectReconciled): the revision the health reports have
\* waited for is not older than the clone, so it holds what the clone holds.
THEOREM DeployedOnSuccess == Spec => []SuccessMeansDeployed
<1>1. IInv => SuccessMeansDeployed
  <2> SUFFICES ASSUME IInv, exit = "ok" PROVE SuccessMeansDeployed
      BY DEF SuccessMeansDeployed, IInv
  <2> USE DEF IInv
  <2>1. pc = "idle" /\ failures = 0
        BY DEF Reported
  <2>2. \A steps : At(steps)
        BY <2>1 DEF At
  <2>3. /\ remote.comps[opts.path] = opts.version /\ clone.comps[opts.path] = opts.version
        /\ clone.sync[opts.path] = Transport
        BY <2>2 DEF Committed
  <2>4. /\ cluster.applied.id >= clone.id /\ clone.id >= 1 /\ clone.id <= remote.id
        /\ cluster.url = Transport /\ cluster.kust = {opts.path}
        BY <2>1, <2>2 DEF Reported, Contained, PathChosen
  <2>5. \A x \in {remote, cluster.applied} :
           x.comps[opts.path] = opts.version /\ x.sync[opts.path] = Transport
      BY <2>2, <2>3, <2>4 DEF Contained
  <2>6. cluster.comps = opts.version
    <3>1. cluster.applied # NoRevision
          BY <2>4 DEF NoRevision, Empty, TypeOK, Heads
    <3> QED BY <2>4, <2>5, <3>1, OptionsTyped DEF AppliedRuns
  <2> QED BY <2>4, <2>5, <2>6 DEF SuccessMeansDeployed
<1> QED BY <1>1, Invariance, PTL

\* A run that is past its secret has put all the credentials it has there, over
\* those of earlier runs, and the Git service knows them; a secret is changed only
\* by a run that brings credentials, and only with those (ReconcileSourceSecret).
THEOREM CredentialsAreReplaced == Spec => CredentialsReplaced
<1>1. IInv /\ [Next]_vars => [SecretKept]_vars
  <2> SUFFICES ASSUME IInv, Next PROVE SecretKept
      OBVIOUS
  <2> USE DEF IInv, SecretKept
  <2>1. CASE ReconcileSecret
    <3> SUFFICES ASSUME cluster.exists, NEW f \in DOMAIN NoSecret,
                        cluster'.secret[f] # cluster.secret[f]
                 PROVE  /\ opts.auth \in {"keyFile", "basic", "deployToken"}
                        /\ newSecret[f] = run /\ cluster'.secret[f] = run
        OBVIOUS
    <3>1. newSecret[f] # 0 /\ cluster'.secret[f] = newSecret[f]
          BY <2>1 DEF ReconcileSecret, TypeOK
    <3>2. newSecret[f] = run
          BY <3>1 DEF Credentials
    <3>3. opts.auth \notin {"ssh", "bearer"} /\ opts.auth \in Auths
          BY <2>1, OptionsTyped DEF ReconcileSecret, Credentials
    <3> QED BY <3>1, <3>2, <3>3 DEF Auths
  <2>2. CASE InstallManifests \/ ReconcileImagePullSecret \/ ApplySync \/ Fetch
             \/ ApplyRevision
    <3>1. cluster'.secret = cluster.secret
        BY <2>2 DEF InstallManifests, ReconcileImagePullSecret, ApplySync, Fetch,
                    ApplyRevision, TypeOK
    <3> QED BY <3>1
  <2>3. CASE UNCHANGED cluster
        BY <2>3
  <2> QED BY <2>1, <2>2, <2>3 DEF Next, Command, Start, Abort, ForeignPush, Terminated,
             ReconcileRepository, ReconcileTeamAccess, Clone, CommitComponents, PushComponents,
             ReconcileDeployToken, GenerateSecret, ReconcileDeployKey, CommitSync, PushSync,
             PushConflict, ReportGitRepoHealth, ReportKustomizationHealth,
             ReportComponentsHealth, HealthStep, Finish, world, vars
<1>2. IInv' => CredentialsStored'
      BY DEF IInv
<1>3. IInv /\ IInv' /\ [Next]_vars => [CredentialsStored' /\ SecretKept]_vars
      BY <1>1, <1>2
<1> QED BY <1>3, Invariance, PTL DEF Spec, CredentialsReplaced

\* No step takes a commit of somebody else, or what other paths hold, out of the
\* branch, and no run moves the cluster to another path (the pushes of
\* bootstrap_plain_git.go and kustomizationPathDiffers).
THEOREM OthersAreKept == Spec => OthersKept
<1> DEFINE Commits == /\ remote'.others >= remote.others
                      /\ \A p \in Paths \ {opts.path} :
                           remote'.comps[p] = remote.comps[p] /\ remote'.sync[p] = remote.sync[p]
           Path == cluster.kust # {} => cluster'.kust = cluster.kust
<1>1. IInv /\ [Next]_vars => [Commits]_vars
  <2> SUFFICES ASSUME IInv, Next PROVE Commits
      OBVIOUS
  <2> USE DEF IInv
  <2>1. remote.others \in Nat
        BY DEF TypeOK, Heads
  <2>2. CASE PushComponents \/ PushSync
        BY <2>2 DEF PushComponents, PushSync, FastForward, SameElsewhere, At, Cloned,
               ComponentsWritten, SecretWritten
  <2>3. CASE ForeignPush
        BY <2>1, <2>3 DEF ForeignPush
  <2>4. CASE UNCHANGED remote
        BY <2>1, <2>4
  <2> QED BY <2>2, <2>3, <2>4 DEF Next, Command, Start, Abort, Fetch, ApplyRevision, Terminated,
             ReconcileRepository, ReconcileTeamAccess, Clone, CommitComponents, InstallManifests,
             ReconcileImagePullSecret, ReconcileDeployToken, GenerateSecret, ReconcileDeployKey,
             ReconcileSecret, CommitSync, PushConflict, ApplySync, ReportGitRepoHealth,
             ReportKustomizationHealth, ReportComponentsHealth, HealthStep, Finish, world, vars
<1>2. IInv /\ [Next]_vars => [Path]_vars
  <2> SUFFICES ASSUME IInv, Next PROVE Path
      OBVIOUS
  <2> USE DEF IInv
  <2>1. CASE ApplySync
        BY <2>1 DEF ApplySync, PathChosen
  <2>2. CASE InstallManifests \/ ReconcileImagePullSecret \/ ReconcileSecret \/ Fetch
             \/ ApplyRevision
        BY <2>2 DEF InstallManifests, ReconcileImagePullSecret, ReconcileSecret, Fetch,
                    ApplyRevision, TypeOK
  <2>3. CASE UNCHANGED cluster
        BY <2>3
  <2> QED BY <2>1, <2>2, <2>3 DEF Next, Command, Start, Abort, ForeignPush, Terminated,
             ReconcileRepository, ReconcileTeamAccess, Clone, CommitComponents, PushComponents,
             ReconcileDeployToken, GenerateSecret, ReconcileDeployKey, CommitSync, PushSync,
             PushConflict, ReportGitRepoHealth, ReportKustomizationHealth,
             ReportComponentsHealth, HealthStep, Finish, world, vars
<1> QED BY <1>1, <1>2, Invariance, PTL DEF Spec, OthersKept, NoLostCommits, SyncPathKept
=============================================================================

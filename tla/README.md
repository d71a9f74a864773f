# A TLA+ model of the Flux CLI

This directory holds a formal model of the `flux` command-line tool: TLA+ modules,
TLC configurations that check them on small instances, and TLAPS proofs.

The tool keeps no long-running state of its own. What makes it hard to get right
is that every command is a sequence of calls to systems that others change at the
same time: the Kubernetes API server, the Flux controllers behind it, a Git remote,
a Git hosting provider, a container registry, the file system. The modules therefore
model each command as one action per outside call, with everybody else free to act
in between, any call free to fail, and (where something survives it) the process
free to be killed and run again.

Contents: 1 inventory, 2 modules and their correspondence to the code, 3 runs and
what they show, 4 bounds, 5 fairness, 6 proofs, 7 where code and documentation
disagree, 8 what is not modelled, 9 plan.

## 1. Inventory

Paths are relative to the repository; `cmd/` abbreviates `cmd/flux/`.

### Commands that change something

| Component | State | Operations | Interacts with | Hard behaviour | What makes it correct |
|---|---|---|---|---|---|
| Reconcile (`cmd/reconcile.go`, `readiness.go`, `object.go`, `reconcile_*.go`) | annotations `requestedAt`, `forceAt`; status `lastHandledReconcileAt`, conditions | get, annotate, poll | API server, the object's controller, other clients | a value read before the patch and compared after it; requests overwritten by others; a suspension or a new generation during the wait | success means the request was served and the current generation applied; `--force` is honoured; the wait ends |
| Reconcile with source (`cmd/reconcile_with_source.go`, `names.go`) | map of finished sources, the namespace global, the results of the names | nested calls: object, chart, source | Reconcile | shared and nested sources, errors of a source inside the reconciliation of an object, a global switched and restored | each object once, sources first, only what was meant, honest report |
| Suspend, resume (`cmd/suspend.go`, `resume.go` and adapters) | `spec.suspend` or an annotation; the decoded list; the goroutines waiting | list, patch, wait concurrently | API server, controllers | lists decoded into the same memory, pointers into them, several waits at once, partial failure | exactly the wanted objects change; what is reported happened |
| Bootstrap (`pkg/bootstrap`, `cmd/bootstrap*.go`) | repository, deploy keys and tokens at the provider; branch; secrets, components and sync objects in the cluster; temporary clone | repository, teams, clone, commit, push, install, secret, sync, health | provider, Git remote, cluster, controllers | killed or failing between any two steps and run again with other options; rejected pushes; credentials that exist only once | success means deployed; nobody's commits are lost; credentials and path are right |
| Uninstall (`pkg/uninstall`, `cmd/uninstall.go`) | components, finalizers, CRDs, namespace | four stages | controllers whose pods are still running, Kubernetes' garbage collection | finalizers put back; pruning of what Flux deployed; errors dropped | workloads are kept; everything of Flux goes |
| Plugins (`internal/plugin`, `cmd/plugin*.go`, `pkg/plugin`) | per plugin a binary and a receipt | install, update, uninstall, (list, search, complete, execute) | catalog, users, other processes | two files without a transaction, written in place; concurrent commands; interruption | what is reported is there; manual binaries stay |
| Migrate, cluster (`cmd/migrate.go`, first half) | `status.storedVersions` of the CRDs, stored version of each resource | list, patch with retry, update status | API server, other writers, upgrades of Flux | a status overwritten from an old copy; conflicts | no version in use is dropped; success leaves the newest only |
| Migrate, file system (`cmd/migrate.go`, second half) | YAML files | detect, confirm, rewrite | file system | several documents in a file, partial failure | every outdated version and nothing else is replaced |
| Create (`cmd/create*.go`) | one object | get, create or update, wait | API server, controller, other writers | read-modify-write; readiness of an older generation | idempotent; a writer in between is not overwritten |
| Delete (`cmd/delete*.go`) | one object | get, confirm, delete | API server | what was confirmed is not what is deleted | what was confirmed is gone; the exit code tells of names that were missing |
| Install, apply (`cmd/install.go`, `internal/utils/apply.go`, `pkg/status`) | all manifests of Flux | apply in two stages, poll status | API server | CRDs before what needs them; partial apply; poller against deadline | a stage starts only on the readiness of the one before |
| Secrets (`cmd/create_secret*.go`, `pkg/manifestgen/sourcesecret`) | one Secret | generate, upsert | API server | as create | as create |
| Artifacts (`cmd/build_artifact.go`, `push`, `pull`, `tag`, `list`, `diff`) | a temporary copy of the directory; a registry | resolve links, archive; one library call each for the rest | registry | links that form cycles or share a target | nothing is missing from an archive |
| Trigger receiver (`cmd/trigger_receiver.go`) | none | validate, sign, send with retries | network, notification-controller | lost answers, a path not registered yet, the deadline against the retries | success means triggered; a failure means that no attempt was left |

### Commands that only read

| Component | Operations | Hard behaviour |
|---|---|---|
| Build and diff kustomization (`internal/build`, `cmd/build_kustomization.go`, `diff_kustomization.go`) | build, substitute, dry-run apply, compare, recurse | the build in a goroutine against an interrupt that cleans up; state of a directory to be restored |
| Logs (`cmd/logs.go`) | streams of several pods merged or interleaved | writers, pipes and readers that wait on each other |
| Get, export, watch (`cmd/get*.go`, `export*.go`) | list, print | rows of deleted objects while watching |
| Events, trace, tree (`cmd/events.go`, `trace.go`, `tree*.go`, `internal/tree`) | who manages what; recursion over inventories | cycles, dangling references |
| Arguments of the command line (`cmd/resource_arg.go`) | rewrite TYPE/NAME before cobra sees them | flags and values between the names |
| Check, version, stats, debug, envsubst, completion, docgen | print or call once | none |

### Libraries

`pkg/manifestgen` renders manifests, `internal/flags` parses, `pkg/printers` and
`pkg/log` print, `pkg/bootstrap/provider` builds clients of the hosting services,
`manifests/` is YAML. None keeps state.

### How the commands interact

Commands share no memory (each is a process); they meet in the cluster, the Git
branch, the plugin directory. Inside a process state is shared in three places:
the global flags (`reconcile --with-source` switches the namespace), the object a
list or get is decoded into (suspend and resume reuse it), and the goroutines of
resume's waits, of logs and of build. `ToolkitObject` is the shared vocabulary: the
object every toolkit command reads and writes, and its controller.

## 2. Modules

Three kinds: state machines of one command against everybody else; the composition
of the commands that run goroutines; and the commands that only compute.

| Module | Models | Relation to others |
|---|---|---|
| `ToolkitObject` | one toolkit object, the readiness predicates, the patches and its controller's steps, as operators | used by `ReconcileRequest`, `SuspendResume`, `CreateDelete` |
| `ReconcileRequest` | `flux reconcile` by several clients on one object | extends `ToolkitObject`; implements `RequestService` |
| `RequestService` | what `flux reconcile` promises: numbered requests, the newest served one, success | the abstract specification; `ServesRequests` is the refinement |
| `ReconcileWithSource` | one invocation over several names with nested sources | a request and its wait are abstracted to their outcome, which is what `ReconcileRequest` is about |
| `SuspendResume` | one `flux suspend` or `flux resume` invocation over several objects | extends `ToolkitObject` |
| `Bootstrap` | repeated runs of `flux bootstrap` | its install step is abstracted to the outcome `Install` is about |
| `Install` | repeated runs of `flux install`: owner, two stages, secret, status poller | |
| `Uninstall` | one run of `flux uninstall` | extends `UninstallPromise` |
| `UninstallPromise` | the kinds, the bounds and what uninstalling promises about workloads, apart from how the command goes about it | `InstallProofs` proves it of an instance of `Uninstall` |
| `PluginManager` | concurrent `flux plugin` commands | |
| `ClusterMigrate` | repeated runs of `flux migrate` on a cluster | extends `MigrationPromise` |
| `MigrationPromise` | the bounds and what migrating promises of the stored versions, apart from how the command goes about it | `InstallProofs` proves it of an instance of `ClusterMigrate` |
| `CreateDelete` | `flux create`s and `flux delete` at work on a cluster | extends `ToolkitObject`; a job is what `CreateCommands` works out |
| `ConcurrentCommands` | the composition of the next four: one of the commands is started | instances of them |
| `KustomizationBuild` | the build goroutine, its mutex and clean-up, and the interrupt | |
| `PodLogs` | writers, pipes and readers of `flux logs` | |
| `MergedWatch` | watches merged into one, and the loop that prints | |
| `TriggerReceiver` | attempts, retries and deadline of `flux trigger receiver` over a lossy network | |
| `Commands` | a command line is read, the answer worked out | extends and instantiates the next ones |
| `CreateCommands`, `CreateSources`, `CreateResources`, `CreateSecrets`, `CommandArgs` | what every `flux create` makes of its flags | pure |
| `ResourceArgs` | the rewriting of TYPE/NAME, against cobra's reading of a line | pure |
| `Trace`, `Tree` | who manages an object; what a Kustomization has applied | pure |
| `Get`, `Export`, `Events` | selection, tables, exit codes, what is left out | pure |
| `KustomizationDiff` | build with recursion and masked secrets, diff with pruning and exit status | pure |
| `FileMigration` | apiVersions and removed fields in the lines of manifests | pure |
| `Artifacts` | the archive of a directory with its links resolved | pure |
| `*Proofs` | theorems (section 6) | extend the module they prove about, TLAPS; `InstallProofs` instantiates `Uninstall` and `ClusterMigrate` besides |
| `MC*` | values of the constants and symmetry for TLC, where the configuration cannot give them | extend the module they check |

`PROJECT.json` maps every definition to its lines. The main correspondences:

**ToolkitObject.** `obj` is what the API server stores: `gen` metadata.generation,
`suspended` the flag or the annotation, `request`/`force` the annotations,
`handled` status.lastHandledReconcileAt, `obsGen` the observed generation of the
Ready condition, `ready`, `reconciling`, `stalled` the conditions. Timestamps are
numbered in the order they are stored: the code only compares them for equality.
The kinds are classes of kinds: `static` (Provider, Alert, an OCI HelmRepository:
nothing reconciles it), `plain`, `helm` (`--force`), `requester` (ArtifactGenerator,
suspended by annotation, without observedGeneration). `KStatus` is
`kstatus.Compute` as the code uses it. The controllers' steps are external.

**ReconcileRequest.** `Get` is the lookup with the suspended and static checks,
`Request` is `requestReconciliation` (its retry on conflict makes the patch atomic
with the read inside it), `Poll` one evaluation of `reconciliationHandled` that ends
the wait together with the final look at the Ready condition, `PollAborts` a failing
Get or the deadline. `undisturbed`, `reconciled`, `applied` and `forced` are history.

**ReconcileWithSource.** `stack` is the call stack of `reconcile`, `ns` the
namespace global, `sources` the `sourceResults` map; `GetSource` translates the
three `getSource` implementations with their treatment of omitted namespaces.

**SuspendResume.** `heap` is the decoded memory and `waiters[k]`/`touched` hold
pointers into it, because the code passes the same list object to every List: JSON
decoding reuses the memory of the items when there is room and leaves absent
fields as they were (`Decode`). `Patch` sends the difference between the item before
and after the change, so the patch of an item whose memory already says suspended
is empty. Waits run concurrently, one poll at a time.

**Bootstrap.** One action per step of `bootstrap.Run` and of the steps below it;
`Abort` is a failing call or a kill at any of them; `Start` begins the next run with
any options. `remote` and `clone` are heads: depth, version of the components and
transport of the sync manifests per path, number of foreign commits included; a
push is accepted as a fast-forward only. Credentials are named by the run that
made them. `Fetch` and `ApplyRevision` are the controllers.

**Install.** A manifest is its version, an object the version it is at and whether
it is ready. `todo` is what the stage has left to apply, `seen` and `cancelled` are
the status collector and the observer of `pkg/status`, which run besides the events
of the cluster. `written`, `served` and `touched` are history: applied in this run,
ready at its version since, changed by somebody else.

**Uninstall.** `StageOrder`, `ComponentOrder` and `KindOrder` are the orders in the
code; the custom resource of a kind stands for all of them. `skipped` is history
(the code drops those errors). The controllers write, re-add finalizers and
finalize until their pods exit or their authorisation is gone.

**PluginManager.** Install is download and verification, creation or truncation of
the binary, copying, receipt; each may fail or be the last. `spoiled` is history:
names a command left half way or at which two commands met.

**ClusterMigrate.** `GetCrd`, `ListResources`, `Patch`, `Conflict` (the retry) and
`UpdateStatus`, whose resource version is that of the copy read first; `Upgrade`,
`Write` and `Delete` are the environment. An API server stores what is written in the
storage version of the moment.

**CreateDelete.** Each creator goes through a plan of objects, each read and then
replaced, updated when changed, labelled, or deleted and created anew (the role
binding of a tenant); `stale` says that its resource version is old, `sent` which
uid and generation it waits for. `del` is one `flux delete` over its names, with the
prompt between the Get and the Delete by name.

**ConcurrentCommands.** In `KustomizationBuild`, `action` is the builder's field
that `Cancel` reads without knowing how far the goroutine is, `dirs` the directory's
kustomization.yaml and the saved original, and `crossed` a history variable: `Cancel`
came to the directory while a builder whose mutex it does not take was about to write
there. In `PodLogs` a log is a sequence of kinds of lines, `GetPods` picks one pod of
each deployment, a running one if there is any and whichever the sorting puts first
among those; an entry is one or several writes (`pieces`) into an `io.Pipe`, which
holds one message; `copier` is `asyncCopy`. A request fails when the pod refuses or the
deadline has passed, and ends at the end of the log, at a line that is no JSON (which
is told of), at one the scanner has no room for (which is not) and at the deadline;
`failed` and `returned` keep the two apart. In `MergedWatch` every goroutine forwards to an unbuffered channel,
which is closed when all of them have ended. In `TriggerReceiver` an attempt may
still be handled after the command has stopped waiting for it, and a negative number
of retries is accepted, as by the flag (`Attempts`: one is always made); the token and the
audience stand for the path, the signature and the bearer token made from them.

**Commands.** `asked` is the command line with the cluster or directory it is about,
`answer` what the command prints, applies or returns; one step computes it. In
`FileMigration` a file is a sequence of lines with indent, key and kind of value; in
`KustomizationDiff` an object is a record of what the masking, the pruning and the
comparison look at: of a secret its data and its stringData, whose values are texts
that say how often they are encoded and whether they hold something encrypted or the
mask. Live secrets have data only, and so has an object that is applied: normalization
moves stringData there (`Normalized`).

## 3. Runs

| Run | Question | Checked |
|---|---|---|
| `reconcile` | two clients, one object of each kind, one controller, users editing, suspending, resuming | `SuccessMeansServed`: an undisturbed success was preceded by a run that started after the own patch. `ForceHonoured`: that run was forced. `SuccessIsCurrent`: at the moment of success the current generation is applied and an ArtifactGenerator not suspended. `ServesRequests`: every step is one of `RequestService` or a stutter. `WaitConverges`: without suspensions the wait ends though no deadline passes, also for a request that was overwritten |
| `with_source` | three names with and without `--with-source` in a cluster with shared, nested, dangling, static, unsupported sources in two namespaces | `InTurn`: each object once, sources first. `OnlyIntended`: the namespace is restored on every path. `ToldTruly`: a source's not-found is not the object's, success means all |
| `suspend_resume` | no name, one, two or `--all`, missing names, failing calls, another user, the controllers | `CoversWanted`, `SuspendOneSuspends`, `ResumedIsReconciled` (the generation of the resumption was applied), `WaitersConverge` |
| `suspend_several` | violated: `SuspendSuspends` | section 7 |
| `bootstrap` | up to three runs, eight option combinations, a foreign commit, two controllers | `SuccessMeansDeployed`. `CredentialsReplaced`: past the secret, what the run was given or has made is in it and known to the Git service, and a secret of an earlier run is changed only by runs with a key file, a password or a new deploy token. `OthersKept` (commits and paths of others, the path the cluster is synced from) |
| `install` | two runs of any flags and versions, failing calls, components that become ready in any order or never, somebody else changing the cluster | `SuccessMeansInstalled`, `OwnerRespected`, `DefinitionsFirst`, `EveryRunEnds` |
| `uninstall` | all four flag combinations, two failing calls, two writes per controller | `WorkloadsKept` (nothing pruned unless both authorising objects survived), `EverythingGoes` (if no call failed) |
| `plugins` | two processes, two plugins, two versions | `InstalledIsTrue` (what is reported is there, up to date is newest), `ManualKept` |
| `migrate` | two CRDs, two resources each, three versions, two attempts | `NothingLost`, `MigratedOnSuccess` |
| `create_delete` | two creators of one source with its secret; a creator against a delete of two names; two administrators of one tenant; other writers, kills, the controller | `NothingLost`: no update replaces what its command has not read. `LeftUsable`: what was asked for is there, and no source without its credentials. `DeletedMeansGone`, `SuccessMeansReconciled` |
| `concurrent_commands` | every order of the goroutines of build, logs, get --watch; interrupts, deadlines, a broken stdout, closed watches; the network of trigger receiver | `DirectoryRestored`. `LogsAreShown`: entries once and in order, all of them unless stdout failed or the deadline cut a log off; every log that could not be had and every line that is no JSON is told of. `EventsPrinted`, `TriggeredTruly`, `CommandsEnd` |
| `commands` | every combination of a few values of each flag, clusters and directories with every case the code distinguishes | `CreateIsTrue`: every flag is honoured, credentials reach the source. `RewrittenMeansTheSame`. `RelationsAreTrue`: trace finds the nearest manager, and what it finds where owners fork; below every line of a tree is what belongs there and nothing else, and exactly the trees are printed that end. `ListedTruly`: get, export, events. `ManifestsAreTrue`: build (with every encoding of masked secrets), diff, artifacts against what the directory and the cluster hold. `MigrationIsTrue`: all outdated apiVersions and removed fields, nothing else, and again after a failure |

In seven of the modules one of the properties has the type invariant as a conjunct
(`InTurn`, `CoversWanted`, `SuccessMeansDeployed`, `SuccessMeansInstalled`,
`InstalledIsTrue`, `NothingLost` of `CreateDelete`, `DirectoryRestored`); in most of
them it includes a relation besides the types (a command with nothing left to do has
ended, retries are bounded). No property of `reconcile`, `uninstall` and `migrate`
carries it: there it is proved (`TypeCorrect`, `UninstallTyped`, `MigrationTyped`).
The properties of the commands that compute are reference definitions:
they say what the answer has to be without following the code's steps, as
the inventories themselves for `Tree`, all simple paths for `Artifacts`, cobra's own reading for
`ResourceArgs`. Every property has one mutant or several beside the definition it
mutates - a plausible slip such as a missing check - which TLC refutes.

Several properties have a proviso because the plain statement is false of the code:
`SuccessMeansServed` (undisturbed), `WaitersConverge` (no foreign change),
`EverythingGoes` (no call failed), `InstalledIsTrue` (not spoiled),
`SuccessMeansInstalled` (objects nobody else has changed), `LeftUsable` (undisturbed),
`RewrittenMeansTheSame` (no flag whose kind is unknown before the sub-command),
`DirectoryRestored` (a `Cancel` that saw the action, and did not cross with another
builder in the same directory). Each comment names it. Elsewhere the property says
what the code does where one would expect something else: `SecretKept` that a bearer
token is not stored over an existing secret, `Drifted` that an encrypted stringData
without the metadata of SOPS always counts as drift, `Belongs` that the releases of a
remote Kustomization are looked up here, `FindsManager` that only one of several owners
is asked, `RefusalsTold` that the parallel logs succeed although a pod refused.

## 4. Bounds

| Module | Bound | Why it is enough |
|---|---|---|
| ReconcileRequest | 2 clients, 2 requests, 2 generations, 1 periodic run | the hazards are about an own and one foreign request, before and after the own read; a third client adds only another foreign one; two generations make a stale status; safety and the refinement proved without the bounds (section 6) |
| ReconcileWithSource | 3 names of a fixed cluster of 19 objects | depth is limited by the code (release, chart, repository); a repeated source needs two names, a recorded failure used again another one; proved without the bounds |
| SuspendResume | 2 objects, a missing name, the command lines `TwoNames`, 3 generations, 1 foreign change | aliasing needs two names; a missing name between them keeps or loses the memory; safety proved without the bounds |
| Bootstrap | 3 runs, 2 paths, 2 versions, 1 foreign commit | a run that leaves something behind, one that meets it, and one that repairs; the options are those that change control; proved without the bounds |
| Install | 2 definitions, 2 workloads, 2 versions, 2 runs, 1 foreign change | a run over what another has left half done; a component that is ready before the other; safety proved without the bounds |
| Uninstall | 2 kinds, 2 writes, 2 failures | the two authorising objects are the pair that matters; the kinds do not interact otherwise; safety proved without the bounds |
| PluginManager | 2 processes, 2 plugins, 2 versions | all conflicts are pairwise, a plugin besides the conflicting one lets update go on; proved without the bounds |
| ClusterMigrate | 2 CRDs, 2 resources, 3 versions, 2 attempts (5 in the code) | proved without the bounds |
| CreateDelete | two commands at a time, 2 foreign writes, plans of two objects | one write between a read and its update and one after it; the second object depends on the first; proved for any scenarios that meet `CreateDeleteAssumption` |
| ConcurrentCommands | builds of 1 to 3 directories, up to 3 pods with up to 5 lines, 2 watches with up to 2 events, -1, 0 or 2 retries, receivers of the three types | the command's own directory built again by a Kustomization below it, at once or later; two writers on one pipe; a watch that closes while the other sends; a retry that is not the last; safety proved without the bounds |
| Commands | flags with two or three values each; about 141 000 inputs | the code decides on presence and equality; values that are only copied need no more |

`CHECK_DEADLOCK FALSE` stands in three configurations, `CreateDelete`,
`ConcurrentCommands` and `Commands`: their commands end, and then nothing is left to
happen. For the goroutines of `ConcurrentCommands`, being stuck is what `CommandsEnd`
excludes. The other modules stutter explicitly when a command has returned
(`Terminated`), or let it be run again, with deadlock checked.

## 5. Fairness

- Polls are repeated at a fixed interval, so `Poll` is weakly fair; the deadline
  and a failing call (`PollAborts`, `Fails`) have no fairness, so `WaitConverges` and
  `WaitersConverge` are not shown by letting a command time out.
- A controller's work queue serves an object that needs it (weak fairness of
  `CtrlStart`, `CtrlMarkHandled`), and a run that is retried succeeds in the end
  (strong fairness of `CtrlSucceed`, since failures and restarts interrupt it). The
  code assumes this too: the default timeouts are minutes.
- In `SuspendResume` and `Uninstall` the command itself goes on (weak fairness of its
  steps): nothing in it blocks but the calls. For `Uninstall`, Kubernetes' garbage
  collection and the end of pods are fair; the Flux controllers are not assumed to do
  anything.
- `Install`: the command's own steps and its deadline (`Work`, `AssessTimesOut`).
  Nothing is assumed of the components, so `EveryRunEnds` covers those that never
  become ready.
- `ConcurrentCommands`: every goroutine is scheduled and the operating system
  completes its calls. A log that is followed and a webhook that does not answer end
  by the deadline, as `context.WithTimeout` has it; the interrupt, the failures and
  the deadline of the watch are not relied on.
- `Bootstrap`, `PluginManager`, `ClusterMigrate`, `CreateDelete` and `Commands` have
  safety and action properties only.

## 6. Proofs

`tlapm` checks every step; the theorems hold for all values of the constants that
meet the modules' named assumptions.

**ReconcileRequestProofs.** `TypeCorrect`, `ServedOnSuccess`, `CurrentOnSuccess`
and `ForceIsHonoured` (of `TypeOK`, `SuccessMeansServed`, `SuccessIsCurrent` and
`ForceHonoured`). `SuccessMeansServed` speaks of commands that have finished and is
not inductive. What makes it true is the order of timestamps while commands wait:

    IInv == TypeOK /\ Ordered /\ Waiting /\ SuspendDisturbs /\ ReadyIsApplied
            /\ NeverWaitsForStatic /\ SuccessMeansServed

`Ordered` says that reconciled <= handled <= request, with a running reconciliation
in between. `Waiting` says where an undisturbed command stands: before its patch
nothing is outstanding; after it, as long as the handled request is the one it has
seen, a running reconciliation either began with that one or includes the patch. So
when the handled request differs from the one seen, a run that included the patch
has finished. `SuspendDisturbs` is needed because the ArtifactGenerator controller
marks requests handled without a run. `ReadyIsApplied` ties a True Ready condition
to the generation last applied and gives `CurrentOnSuccess`, the action property.
`ForceIsHonoured` rests on `IInv` and a second invariant, `Forcing`: as long as the
request of an undisturbed `--force` is the newest, the force annotation carries it,
and a run that has read it was started as a forced one.

`ImplementsService`: the protocol, annotations, conditions and polls included,
implements `RequestService` (`ServesRequests`). The mapping takes
the newest annotation for `newest` and the history variable `reconciled` for
`served`; the initial states map to initial ones, and every step, under `IInv`, to a
step or a stutter. The step that needs the invariant is success: the abstract one is
allowed only when the request of an undisturbed client has been served.

**BootstrapProofs.** `DeployedOnSuccess`, `CredentialsAreReplaced` and `OthersAreKept`
(of `SuccessMeansDeployed`, `CredentialsReplaced`, `OthersKept`), for any paths,
versions and numbers of runs and foreign commits. Success looks at the end of a long
chain - clone, commit, push, sync, fetch, apply, report - that others interrupt, so
the invariant says what is known at each link: `Numbered` (no revision is newer than
the branch), `Contained` (the branch, the artifact and the applied revision, once
they are not older than the clone, hold what the clone holds at the path of the
run), `SameElsewhere` (as long as nobody else has pushed, clone and branch agree at
the other paths, so a push that is a fast-forward loses nothing), `Committed` (what
the run has written so far), `PathChosen`, `AppliedRuns` (the components in the
cluster are those of the applied revision), `Reported` (a health check that did not
fail has seen the clone's revision fetched and applied) and `Credentials` (what the
run has generated, read or been given is of its own making and of the kind its options
ask for, and the Git service knows it before the cluster does; a run without any gets
as far as the secret only if the cluster has none). From `Credentials` follow both
parts of `CredentialsReplaced`, an action property: every step leads to a state in
which `CredentialsStored` holds and is one that `SecretKept` allows.

**InstallProofs.** `InstalledOnSuccess`, `OwnerIsRespected`, `DefinitionsComeFirst` (of
`SuccessMeansInstalled`, `OwnerRespected`, `DefinitionsFirst`), for any manifests,
versions and numbers of runs and foreign changes. `Stages` says what is written and
what is left to be written in each step, `StillThere` that what the run has written
and nobody has touched is there, `Established` that the definitions are, during the
second stage, `Watched` that the collector calls a component current only if it was
ready, and that the observer stops the poller only if all were, `Permitted` who owned
the cluster when the run looked.

**InstallProofs, of migrate.** `MigrationTyped`, `NothingIsLost` and
`SuccessMeansMigrated` (of `ClusterMigrate`'s `TypeOK`, of `NothingLost` and
`MigratedOnSuccess`), for any list of CRDs, resources, versions and attempts.
`ClusterMigrate` is instantiated as `M` there, and the promise is that of
`MigrationPromise`, which knows only what the API server shows. The inductive
invariant adds to the three: `StorageIsStored` (the storage version is always
listed), `NotAhead` (the copy of the CRD is never newer than the CRD), `Passed`
(while the copy is the CRD, a resource that is no longer to be patched is stored as
the copy says), `CopyIsCurrent` (a CRD nobody upgraded is its copy) and `Done` (the
CRDs behind the command are clean). An upgrade makes the copy stale for good, because
versions only grow; the update then fails, and that is why the order list, patch,
update is safe.

**InstallProofs, of uninstall.** `UninstallTyped`, `WorkloadsAreKept` and
`DryRunIsHarmless` (of `TypeOK`, `WorkloadsKept`, `DryRunHarmless`), for any list of
kinds and any number of failing calls and writes. `Uninstall` is instantiated as `U`
there. `WorkloadsKept` says nothing about a controller that is still authorised, so
it is not inductive. `ComponentsGone` adds that a component the command has passed is
gone or a call about it failed, `DeletingAfter` that a resource or a CRD is being
deleted only from the third stage on, and `Positions` where the command stands in a
stage. A controller that finalizes a resource is then past the first stage and still
authorised, so both calls have failed.

**ReconcileWithSourceProofs.** `SourcesInTurn`, `NobodyElse` and `ReportsAreTrue` (of
`InTurn`, `OnlyIntended`, `ToldTruly`), for any cluster, names and namespace. A call
on the stack knows the kind and the name of what it reconciles but reads the
namespace from a global, so the invariant first says which object each call is about
(`Subject`: the current name's, or the source the caller waits for) and that the
global is that object's namespace whenever a call is about to read it (`Nesting`,
which includes the namespace saved by each caller). `Meant` says what a result says
of that object, whether just returned, recorded in `sources` or reported; `Accounted`
that an annotated object is the current one, a source that is recorded or waited
for, or a name that was reported; `Fresh` that a call which has not annotated its
object is the first to come to it. The last two make each object be annotated once
although sources are shared. Assumed of the cluster are the types, that names and
sources of three kinds can be given `--with-source`, that only HelmRepositories are
static, and that the chart of a HelmRelease with an inline template is a HelmChart or
an OCIRepository, which is what `GetHelmChartTemplateReference` makes of it
(`cmd/reconcile_helmrelease.go:99`, as `cmd/trace.go:494` assumes too).

**SuspendResumeProofs.** `Invariance` (types included), `AllAreCovered`,
`OneIsSuspended` and `ReallyResumed` (of `CoversWanted`, `SuspendOneSuspends` and
`ResumedIsReconciled`), for any objects, names and changes by others. What is
patched and waited for is read from memory that later lists are decoded into, so the
invariant follows the memory: `Progress`, `OneByOne` and `AtOnce` place the command
in its names and the list it has decoded, `Coverage` says that what is patched and
what is still to come are what was wanted, `Accurate` that an item still to be
patched shows the object as suspended if it is, and only if it is where the decoding
cannot have leaked (`Single`: --all, or at most one of the names exists), `Alone`
that there nothing was decoded before. For the waits, `Pointers` keeps them inside
the memory, `Memory` and `Waited` say that the request they look for has been
handled only by a run that read it, whichever item has since been decoded there, and
`Controlled` ties the status to the runs of the controller. `SuspendOneSuspends` is
what is left of `SuspendSuspends`, which run `suspend_several` refutes: without
`Single`, the second half of `Accurate` is false.

**PluginManagerProofs.** `InstalledTruly` and `ManualIsKept` (of `InstalledIsTrue`,
`ManualKept`), for any plugins, versions and number of processes. `AsReported`
is silent on a name as long as a command is half way there, so it is not inductive.
`Undisturbed` says of such a command either that it has been alone, and then the
binary is as it has left it, or that the name is spoiled; `ByHand` that a binary
properly placed by hand is untouched and that no update has got past the check of
the receipt for it; `Targets` that whoever writes knows what.

**CreateDeleteProofs.** `NothingIsLost`, `GoneForGood`, `WaitsForItsOwn` and
`UsableAfterwards` (of `NothingLost`, `DeletedMeansGone`, `SuccessMeansReconciled`
and `LeftUsable`), for any scenarios, objects and numbers of writes by others. They
rest on two invariants. `IInv` says that what a creator has read is what is there
unless its resource version is old (`CurrentFor`), that what it waits for is no
newer than what is there (`SentFor`), that a Ready generation was reconciled
(`ReadyIsFinished`) and where an object stands that the user was asked about
(`Shown`). `Evolution` carries it: whatever a step does, an object is unchanged,
removed, changed in place without its generation or its deletion going back, or
created with a new uid. `JInv` is for `LeftUsable`: of a creator nobody has
disturbed, that the objects it is done with are as its job says and that the next
one is as it has read it (`Undisturbed`); that only what a controller reconciles
lingers after a delete (`Finalizers`); and that the secret is there once a job is
past it or an object refers to it, unless somebody has removed it (`SecretBefore`).
`CreateDeleteAssumption` says of a scenario what the commands that make the jobs
guarantee (create_source_*.go, create_tenant.go): a plan writes each object once,
what a controller reconciles comes last and is waited for, a role binding is not, a
secret is upserted and comes before what refers to it; and that the cluster at the
start has no such source without the secret. TLC evaluates it on the scenarios of
`MCCreateDelete`.

**ConcurrentCommandsProofs.** `DirectoryIsRestored`, `LogsAreAllShown`,
`EventsAreAllPrinted` and `TriggeredTrulyAlways` (of `DirectoryRestored`,
`LogsAreShown`, `EventsPrinted` and `TriggeredTruly`), for any plans, clusters,
watches, receivers and numbers of retries that meet `ConcurrentAssumption`. One
command runs, so the invariant is one per command.

- Build (`BuildInv`): of each builder, what its directory looks like at each point of
  the goroutine, and which action the directory calls for. Until the action has been
  recorded only the goroutine can clean up; afterwards `Cancel` and the deferred
  clean-up may each come first, and both leave the same directory. Nothing is known
  of a directory that `Cancel` and a builder below have crossed in: `crossed` says
  so, and without it the statement is false (section 7).
- Watches (`WatchInv`): the events printed of a watch are those received but the one
  its goroutine holds, in their order; what has been dropped was dropped after
  everything was stopped; the channel is closed only when no goroutine is left.
- Trigger (`TriggerInv`): attempts are numbered and each has one request; those before
  the current one went wrong; an answer is that of the current attempt; what has
  triggered the receiver was sent with the command's credentials.
- Logs (`LogsInv`): a write is in one of four places - still to come, in the pipe,
  held by the reader, shown - and goes through them in that order (`Handed`,
  `PassedOn`, `Left`, `Copied`), so `Ordered` holds of what is shown although the
  writers of several pods meet in one pipe. `PodRead` says what a request has read
  (`ReadSoFar`), `Refusals` and `Told` where the message of a log that could not be had
is and that only pods that refuse or a passed deadline cause one,
  `Phases` and `OneByOne` in which order pipes are closed, results taken and pods
  read. The command takes the result of a reader only when the pipes are closed, the
  pipes are closed only when all writers have returned, and a writer returns only
  when its last write has been read: that nothing is lost follows from the chain.

Only model-checked, and why:

- every liveness property (`WaitConverges`, `WaitersConverge`, `EverythingGoes`,
  `EveryRunEnds`, `CommandsEnd`): liveness under fairness and ENABLED are out of the
  prover's reach;
- the six properties of `Commands`: its modules compute with recursion over lists,
  trees and files, where the provers have neither RECURSIVE operators nor induction
  over data.

## 7. Where code and documentation disagree

Shown by a run (`PROJECT.json`, findings):

- `flux suspend a b` can leave `b` running and report it suspended
  (`cmd/suspend.go:131`; run `suspend_several`).

Seen while modelling, without a run of their own; the models follow the code.

Reconcile, suspend and resume:

- `flux resume a b --wait` waits for the last object only (`cmd/resume.go:235`), and
  resumes all of them first although it says that it waits "for one resource to
  reconcile before moving to the next one" (`cmd/resume.go:62`, `StartWaiting`).
- A reconcile command takes somebody else's handled request for its own if it read
  the object while that request was outstanding (`cmd/reconcile.go:209`).

Bootstrap, install and uninstall:

- Bootstrap succeeds although a team was not granted access, against the comment on
  the warning (`pkg/bootstrap/bootstrap_provider.go:267`).
- A run of `bootstrap gitlab --deploy-token-auth` that dies between creating the token
  and storing it is not repaired by the next (`bootstrap_provider.go:317`).
- A new bearer token is not stored over an existing secret
  (`bootstrap_plain_git.go:239`).
- `uninstall` exits with success whatever failed (`cmd/uninstall.go:94`), and a kind
  whose List fails is passed over silently; `EverythingGoes` has the proviso.
- `flux check` passes when the List of Deployments or of CRDs fails (`cmd/check.go`:
  what follows is under `err == nil`).

Create and delete:

- `create source chart` reads a flag of another command (`cmd/create_source_chart.go:151`).
- `create secret oci` and `create secret githubapp` ignore `--label`; `create secret
  notation` keeps one of two CA files with the same base name; `create source git
  --username --password --export` prints no secretRef; updating a secret leaves keys
  of an earlier form of credentials in it.
- `flux create` replaces spec and labels: it resumes a suspended object and drops
  labels somebody else has set.
- `validateObjectName` refuses names of one character.
- The role binding of a tenant is deleted and created anew: between the two calls
  there is none, and a failure leaves none (`cmd/create_tenant.go:280`).
- `flux delete` asks about one object and deletes by name what is there afterwards;
  the deadline runs while the user is asked.

Trace, tree, get, events, logs:

- `trace` follows the first owner that has owners itself and ends at one that is
  missing; a Kustomization that failed is printed as "Last reconciled".
- Inventories that name each other send `tree` into an endless recursion; the
  HelmReleases below a remote Kustomization are looked up in this cluster
  (`cmd/tree_kustomization.go:156`), and what they have installed here is shown as
  theirs.
- An OCI HelmRepository is printed as Ready but not found by `--status-selector`
  (`cmd/get_source_helm.go:87`, `:106`), nor is an object without conditions (`cmd/get.go:119`, `:133`).
  `get all x` exits with success when `x` is missing from some of the kinds, and
  leaves names out when a List failed.
- `events` does not know ExternalArtifact; `events --watch` may drop what arrives with
  the first list.
- When stdout fails while pods are read in parallel, `logs` never ends: the writers
  wait for a reader that is gone (`LogsEnd` has the proviso); a pod that
  refuses its log, or is asked for it after the deadline, makes the sequential command
  fail and not the parallel one (`cmd/logs.go:259`, `:221`); a deadline that cuts a log
  off makes neither fail; entries longer than the buffer are torn between pods,
  and errors of the scanner are dropped.

Build, diff, migrate, artifacts:

- An interrupt before `Generate` has returned leaves the kustomization.yaml that is
  being written (`internal/build/build.go:588`, `:802`); the builders of Kustomizations
  below have mutexes of their own, so when one of them builds the command's own
  directory an interrupt may come between its saving and its writing: `Cancel` puts
  the saved original back, and it is then overwritten with no copy left
  (`UserFileKept` has the proviso `crossed`; the proof attempt has shown it).
  Kustomizations that contain each other never end.
- `diff` counts a stale object that is gone already as a change, reports an object that
  has moved to another Kustomization as deleted, and exits with 0 when it is interrupted,
  where its help has "0 No differences were found" (`cmd/diff_kustomization.go:36`, `:173`);
  `applySopsDiff` hides drift of encrypted secrets.
- The mask for encrypted stringData of a secret without the metadata of SOPS is base64
  (`internal/build/build.go:718`); normalization encodes it again, `applySopsDiff`
  decodes once (`internal/build/diff.go:348`) and does not find it, so such a secret is always
  reported as drifted.
- `migrate -f` says "newer version" of any different one (`cmd/migrate.go:719`); its
  line numbers are stale when the file changes during the prompt (`:906`); a failing
  write leaves a truncated file; manifests inside config maps get their apiVersion
  changed but keep the removed fields.
- `diff artifact` has no `--resolve-symlinks`, so it differs from what
  `push artifact --resolve-symlinks` has pushed.
- `trigger receiver` triggers a receiver more than once when an answer is lost; the
  receiver has to be idempotent.

Plugins:

- After an installation was interrupted in the middle of the binary, `plugin update`
  may call it up to date; `InstalledIsTrue` excludes spoiled names.

## 8. Abstractions and assumptions

- The API server is linearizable, increments generations on spec changes, refuses
  updates with an old resource version, and removes an object with its last finalizer.
- Controllers behave as the CLI's comments assume (`ToolkitObject`, external).
- Length of deadlines: calls may fail at any time instead.
- Bootstrap: rendering of manifests, commit signing and each provider's API are
  abstracted to their outcome; valid credentials are accepted.
- Install: which objects a manifest has depends on its version only; the flags are
  valid.
- Plugins: the catalog's binary is `flux-<name>` and exists for the platform; digests,
  archives and paths are abstracted to whether the download is what is listed.
- Migrate: the CRDs exist and are established; conversion between versions works.
- CreateDelete: the deadline is one of the failing calls; keys of older credentials in
  a secret are not told apart.
- KustomizationBuild: what the library's `CleanDirectory` does with an action that was
  not set is left open; a second command after a kill is not modelled.
- KustomizationDiff: the errors of the queries for stale objects are left out; the
  recursion is cut at the depth of the directories.
- PodLogs: which pods and entries the filters choose is given; a pod that does not
  refuse answers until the deadline; a stream that breaks off before it is not modelled.
- TriggerReceiver: statuses are grouped into accepted, refused, not found and busy.
- FileMigration: kept fields hold no quoted text over several lines with a lower
  indent; edits during the prompt and writes that fail half way are not modelled.
- Artifacts: the path is a directory; the library's archive and its patterns are
  modelled from how they are used (a pattern is the name of a file or directory).

Not modelled, each for its reason:

- check, version, statistics, debug, envsubst, completion, docgen: they read once and
  print; there is no state and no order of steps a property could be about.
- rendering of manifests (`pkg/manifestgen`), flags, printers, logging: text made from
  options.
- clients of the hosting providers and of the registry (push, pull, tag, list): single
  calls into libraries; what the services do is part of the models' environment.
- the manifests of the controllers: YAML.

## 9. What is left

1. An abstract specification of the storage migration - one shrinking of the set of
   stored versions - that `ClusterMigrate` implements, and of `flux install` that
   `Bootstrap` uses.
2. A second `flux build` or `flux diff` on a directory that a killed one has left.
3. Proofs about those definitions of `Commands` that do not recurse.

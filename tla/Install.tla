------------------------------ MODULE Install ------------------------------
(***************************************************************************)
(* `flux install`: what owns the cluster is read, the owner is asked, the  *)
(* manifests are applied in two stages (definitions, then what needs them),*)
(* the secret for pulling images is written and the components' status is  *)
(* polled.  The command may fail at every call and be run again with       *)
(* another version; somebody else may change the cluster in between.       *)
(*                                                                         *)
(* The flags are valid and the manifests have been generated: here a       *)
(* manifest is its version, and an object of it the version it is at.      *)
(***************************************************************************)
EXTENDS Naturals, FiniteSets

CONSTANTS
    Definitions,  \* the objects of stage one: CRDs and the namespace
    Crd,          \* the definition that carries the labels of the owner
    Workloads,    \* the objects of stage two
    Components,   \* the Deployments among them, which the command waits for
    Versions,     \* versions that may be asked for
    MaxRuns,      \* bound: times the command is run
    MaxOther      \* bound: changes of the cluster by somebody else

Objects == Definitions \cup Workloads

ASSUME InstallAssumption ==
    /\ Crd \in Definitions /\ Components \subseteq Workloads
    /\ Definitions \cap Workloads = {}
    /\ Versions \subseteq Nat \ {0}
    /\ MaxRuns \in Nat /\ MaxOther \in Nat

VARIABLES
    cluster,   \* object -> [version, ready], version 0 when it does not exist
    owner,     \* who the labels of Crd name: "flux", "helm" or "bootstrap"
    hasSecret, \* the image pull secret exists
    force, version, pullSecret,    \* the flags of the run
    pc,        \* the step of the run
    installed, \* what the run has read: the owner, or "none"
    todo,      \* objects of the stage that are still to be applied
    seen,      \* component -> status the collector holds
    cancelled, \* the observer has stopped the poller
    exit,      \* "running", "ok" or "err"
    runs,      \* the number of the run
    consent,   \* history: the user has agreed in this run
    written,   \* history: objects this run has applied
    served,    \* history: components that were ready at the version of this run
    touched    \* history: objects somebody else changed during this run

flags == <<force, version, pullSecret>>
history == <<consent, written, served, touched>>
poller == <<seen, cancelled>>
vars == <<cluster, owner, hasSecret, flags, pc, installed, todo, poller,
          exit, runs, history>>

Absent == [version |-> 0, ready |-> FALSE]

\* kstatus of a Deployment: a version that is not rolled out is in progress.
StatusOf(c) == IF cluster[c] = Absent THEN "NotFound"
               ELSE IF cluster[c].ready THEN "Current" ELSE "InProgress"

Unseen == [c \in Components |-> "Unknown"]

Init ==
    /\ \/ cluster = [o \in Objects |-> Absent] /\ owner = "flux"
       \/ \E v \in Versions :
             /\ cluster = [o \in Objects |-> [version |-> v, ready |-> TRUE]]
             /\ owner \in {"flux", "helm", "bootstrap"}
    /\ hasSecret = FALSE
    /\ force = FALSE /\ version \in Versions /\ pullSecret = FALSE
    /\ pc = "idle" /\ installed = "none" /\ todo = {}
    /\ seen = Unseen /\ cancelled = FALSE
    /\ exit = "ok" /\ runs = 0
    /\ consent = FALSE /\ written = {} /\ served = {} /\ touched = {}

----------------------------------------------------------------------------
(* The command.                                                            *)

\* A run begins; its flags have been validated and its manifests generated.
Start ==
    /\ exit # "running" /\ runs < MaxRuns
    /\ force' \in BOOLEAN /\ version' \in Versions /\ pullSecret' \in BOOLEAN
    /\ pc' = "info" /\ exit' = "running" /\ runs' = runs + 1
    /\ installed' = "none"
    /\ consent' = FALSE /\ written' = {} /\ served' = {} /\ touched' = {}
    /\ UNCHANGED <<cluster, owner, hasSecret, todo, poller>>

\* The process ends; what it has applied stays.
Exit(how) ==
    /\ exit' = how /\ pc' = "idle"
    /\ todo' = {} /\ seen' = Unseen /\ cancelled' = FALSE
    /\ UNCHANGED <<cluster, owner, hasSecret, flags, installed, runs, history>>

Fail == Exit("err")

\* Mutant of Refused: --force goes for a bootstrapped cluster too.
RefusedUnlessForced(who) == who = "bootstrap" /\ ~force

\* A bootstrapped cluster is left to `flux bootstrap`, forced or not.
Refused(who) == who = "bootstrap"

\* The user is asked about an installation that Flux does not manage.
AsksUser(who) == ~force /\ who \notin {"none", "flux"}

\* getFluxClusterInfo: the labels of one CRD; that it does not exist is no error.
ReadInfo ==
    LET who == IF cluster[Crd] = Absent THEN "none" ELSE owner IN
    /\ pc = "info"
    /\ ~Refused(who)
    /\ installed' = who
    /\ IF AsksUser(who) THEN pc' = "confirm" /\ UNCHANGED todo
                        ELSE pc' = "stageOne" /\ todo' = Definitions
    /\ UNCHANGED <<cluster, owner, hasSecret, flags, poller, exit, runs, history>>

Refuse == pc = "info" /\ cluster[Crd] # Absent /\ Refused(owner) /\ Fail

Confirm ==
    /\ pc = "confirm"
    /\ pc' = "stageOne" /\ todo' = Definitions /\ consent' = TRUE
    /\ UNCHANGED <<cluster, owner, hasSecret, flags, installed, poller, exit, runs,
                   written, served, touched>>

Cancel == pc = "confirm" /\ Fail

\* Server-side apply of an object: nothing happens to one that is at the version.
Applied(o) == IF cluster[o].version = version THEN cluster[o]
              ELSE [version |-> version, ready |-> FALSE]

\* An object of the stage is applied; the order of the others is the library's.
ApplyObject(o) ==
    /\ pc \in {"stageOne", "stageTwo"} /\ o \in todo
    /\ cluster' = [cluster EXCEPT ![o] = Applied(o)]
    /\ todo' = todo \ {o}
    /\ written' = written \cup {o}
    /\ served' = IF Applied(o).ready THEN served \cup {o} ELSE served
    /\ UNCHANGED <<owner, hasSecret, flags, pc, installed, poller, exit, runs,
                   consent, touched>>

\* Mutant of StageOneDone: the second stage follows at once.
StageOneDoneAtOnce ==
    /\ pc = "stageOne" /\ todo = {}
    /\ pc' = "stageTwo" /\ todo' = Workloads
    /\ UNCHANGED <<cluster, owner, hasSecret, flags, installed, poller, exit, runs, history>>

\* The definitions are waited for, with a timeout of a minute of its own.
StageOneDone ==
    /\ pc = "stageOne" /\ todo = {}
    /\ \A d \in Definitions : cluster[d].ready
    /\ pc' = "stageTwo" /\ todo' = Workloads
    /\ UNCHANGED <<cluster, owner, hasSecret, flags, installed, poller, exit, runs, history>>

WaitTimesOut == pc = "stageOne" /\ todo = {} /\ Fail

StageTwoDone ==
    /\ pc = "stageTwo" /\ todo = {}
    /\ pc' = IF pullSecret THEN "secret" ELSE "assess"
    /\ UNCHANGED <<cluster, owner, hasSecret, flags, installed, todo, poller, exit, runs, history>>

\* upsertSecret
WriteSecret ==
    /\ pc = "secret"
    /\ hasSecret' = TRUE /\ pc' = "assess"
    /\ UNCHANGED <<cluster, owner, flags, installed, todo, poller, exit, runs, history>>

\* Any call fails, for one because the deadline has passed, whose clock has been
\* running while the prompt waited.
CallFails == pc \in {"info", "stageOne", "stageTwo", "secret"} /\ Fail

----------------------------------------------------------------------------
(* StatusChecker.Assess: a poller sends what has changed to a collector,   *)
(* whose observer cancels the poller once every last status is Current.    *)

\* Mutant of AllCurrent: one component is enough.
AllCurrentSome(statuses) == \E c \in Components : statuses[c] = "Current"

\* aggregator.AggregateStatus
AllCurrent(statuses) == \A c \in Components : statuses[c] = "Current"

\* An event; some are still on their way when the poller has been cancelled.
PollEvent(c) ==
    /\ pc = "assess" /\ seen[c] # StatusOf(c)
    /\ seen' = [seen EXCEPT ![c] = StatusOf(c)]
    /\ cancelled' = (cancelled \/ AllCurrent(seen'))
    /\ UNCHANGED <<cluster, owner, hasSecret, flags, pc, installed, todo, exit, runs, history>>

\* The channel is closed after the cancellation: the last statuses do not matter.
AssessDone ==
    /\ pc = "assess" /\ cancelled
    /\ Exit("ok")

\* Mutant of AssessTimesOut: there is no deadline.
AssessWithoutDeadline == FALSE

\* The deadline of Assess' own context, or an error of the poller.
AssessTimesOut == pc = "assess" /\ ~cancelled /\ Fail

----------------------------------------------------------------------------
(* Kubernetes and the others, external.  What they do between two runs can *)
(* as well happen at the beginning of the next one.                        *)

BecomesReady(o) ==
    /\ exit = "running"
    /\ cluster[o] # Absent /\ ~cluster[o].ready
    /\ cluster' = [cluster EXCEPT ![o].ready = TRUE]
    /\ served' = IF cluster[o].version = version /\ o \in written THEN served \cup {o} ELSE served
    /\ UNCHANGED <<owner, hasSecret, flags, pc, installed, todo, poller, exit, runs,
                   consent, written, touched>>

\* A rolled out component loses its pods.
BecomesUnready(c) ==
    /\ exit = "running"
    /\ cluster[c].ready
    /\ cluster' = [cluster EXCEPT ![c].ready = FALSE]
    /\ UNCHANGED <<owner, hasSecret, flags, pc, installed, todo, poller, exit, runs, history>>

\* Somebody else removes an object, its labels with it, or applies another version.
OtherWrites(o) ==
    /\ exit = "running"
    /\ Cardinality(touched) < MaxOther
    /\ \E v \in Versions \cup {0} :
          /\ v # cluster[o].version
          /\ cluster' = [cluster EXCEPT ![o] = [version |-> v, ready |-> FALSE]]
          /\ owner' = IF o = Crd /\ v = 0 THEN "flux" ELSE owner
    /\ touched' = touched \cup {o}
    /\ UNCHANGED <<hasSecret, flags, pc, installed, todo, poller, exit, runs,
                   consent, written, served>>

\* Somebody else bootstraps the cluster.
OtherBootstraps ==
    /\ exit = "running"
    /\ Cardinality(touched) < MaxOther
    /\ cluster[Crd] # Absent /\ owner # "bootstrap"
    /\ owner' = "bootstrap" /\ touched' = touched \cup {Crd}
    /\ UNCHANGED <<cluster, hasSecret, flags, pc, installed, todo, poller, exit, runs,
                   consent, written, served>>

Terminated == exit # "running" /\ runs = MaxRuns /\ UNCHANGED vars

Work == \/ ReadInfo \/ Refuse \/ Confirm \/ Cancel \/ StageOneDone \/ WaitTimesOut
        \/ StageTwoDone \/ WriteSecret \/ CallFails \/ AssessDone
        \/ \E o \in Objects : ApplyObject(o)

Next == \/ Start \/ Work \/ AssessTimesOut \/ Terminated
        \/ \E c \in Components : PollEvent(c) \/ BecomesUnready(c)
        \/ \E o \in Objects : BecomesReady(o) \/ OtherWrites(o)
        \/ OtherBootstraps

Spec == Init /\ [][Next]_vars

\* The command goes on, the user answers and clocks run; nothing is assumed of
\* the cluster.
FairSpec == Spec /\ WF_vars(Work) /\ WF_vars(AssessTimesOut)

----------------------------------------------------------------------------
(* Properties.                                                             *)

Steps == {"idle", "info", "confirm", "stageOne", "stageTwo", "secret", "assess"}
Statuses == {"Unknown", "NotFound", "InProgress", "Current"}
Owners == {"flux", "helm", "bootstrap"}

\* Type invariant.
TypeOK ==
    /\ cluster \in [Objects -> [version : Versions \cup {0}, ready : BOOLEAN]]
    /\ owner \in Owners /\ hasSecret \in BOOLEAN
    /\ force \in BOOLEAN /\ version \in Versions /\ pullSecret \in BOOLEAN
    /\ pc \in Steps /\ installed \in Owners \cup {"none"}
    /\ todo \subseteq Objects
    /\ seen \in [Components -> Statuses] /\ cancelled \in BOOLEAN
    /\ exit \in {"running", "ok", "err"} /\ runs \in 0..MaxRuns
    /\ consent \in BOOLEAN /\ written \subseteq Objects
    /\ served \subseteq Objects /\ touched \subseteq Objects

\* "install finished" is true whatever earlier runs have left half done and
\* whatever the components do while they are watched: every object is at the
\* version of this run, every component has been ready at it since it was
\* applied, and the secret exists (install.go:245-292, Apply, Assess).  Not so
\* for an object somebody else has changed meanwhile.
SuccessMeansInstalled ==
    /\ TypeOK
    /\ (exit = "ok" /\ runs > 0) =>
        /\ \A o \in Objects \ touched : cluster[o].version = version
        /\ Components \subseteq served \cup touched
        /\ pullSecret => hasSecret

\* What needs a definition is applied only when every definition of the manifest
\* is established at the version of this run (Apply's stages), unless somebody
\* else takes it away.
DefinitionsFirst ==
    [][\A w \in Workloads : w \in written' \ written =>
          \A d \in Definitions \ touched : cluster[d] = [version |-> version, ready |-> TRUE]]_vars

\* A bootstrapped cluster is not changed, not with --force either, and one that
\* another tool manages only with --force or when the user agrees: in this run,
\* not in an earlier one (install.go:221-243).  Not so when the owner changes
\* between the look at the cluster and the apply.
OwnerRespected ==
    (written # {} /\ Crd \notin touched) =>
        /\ owner # "bootstrap"
        /\ owner = "helm" => force \/ consent

\* Every run ends, with components that never become ready, too.
EveryRunEnds == (exit = "running") ~> (exit # "running")
=============================================================================

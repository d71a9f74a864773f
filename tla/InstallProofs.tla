--------------------------- MODULE InstallProofs ---------------------------
(***************************************************************************)
(* How Flux comes to a cluster, how it leaves and how its resources are    *)
(* brought to another storage version: proofs about Install, for any       *)
(* manifests, versions and number of runs, and however often the cluster   *)
(* is changed by somebody else; about Uninstall, for any kinds and any     *)
(* number of failing calls and of writes by the controllers; and about     *)
(* ClusterMigrate, for any CRDs, resources, attempts and versions.         *)
(*                                                                         *)
(* What a successful run has established was established by its earlier    *)
(* steps, and the invariant says which: what was written when (Stages),    *)
(* that it is still there (StillThere), that a component counted as        *)
(* current has been ready (Watched), and who owned the cluster when it was *)
(* looked at (Permitted).                                                  *)
(*                                                                         *)
(* Uninstall prunes nothing because nothing is being deleted before its    *)
(* third stage (DeletingAfter), and by then every component is gone or a   *)
(* call about it has failed (ComponentsGone).                              *)
(*                                                                         *)
(* What makes the migration's update of storedVersions safe is that a      *)
(* resource the command has passed is stored in the version of the copy of *)
(* the CRD (AllStored), as long as the copy is the CRD; and that a copy    *)
(* which has gone stale never becomes the CRD again, because storage       *)
(* versions only grow (NotAhead).  What success means is carried from one  *)
(* CRD to the next by Done.                                                *)
(***************************************************************************)
EXTENDS Install, UninstallPromise, MigrationPromise, TLAPS

Applying == {"stageOne", "stageTwo", "secret", "assess"}

\* A run is under way exactly when it is at one of its steps.
Running == /\ exit = "running" <=> pc # "idle"
           /\ exit = "running" => runs > 0

\* What is written and what is left to be written in each step.
Stages ==
    /\ pc = "idle" => todo = {} /\ seen = Unseen /\ ~cancelled
    /\ pc \in {"info", "confirm"} => todo = {} /\ written = {} /\ served = {}
    /\ pc = "stageOne" => todo \subseteq Definitions /\ Definitions \subseteq written \cup todo
                          /\ written \subseteq Definitions
    /\ pc = "stageTwo" => todo \subseteq Workloads /\ Definitions \subseteq written
                          /\ Workloads \subseteq written \cup todo
    /\ pc \in {"secret", "assess"} => written = Objects
    /\ pc = "assess" => (pullSecret => hasSecret)

\* Nobody else being at it, what the run has written is there, and every component
\* that is ready at its version is known to have been.
StillThere ==
    exit = "running" =>
        \A o \in written \ touched : /\ cluster[o].version = version
                                     /\ cluster[o].ready => o \in served

\* The definitions stay established while what needs them is applied.
Established ==
    pc = "stageTwo" =>
        \A d \in Definitions \ touched : cluster[d] = [version |-> version, ready |-> TRUE]

\* The collector says of no component that it is current which has not been.
Watched ==
    /\ pc # "assess" => seen = Unseen /\ ~cancelled
    /\ \A c \in Components : seen[c] = "Current" => c \in served \cup touched
    /\ cancelled => Components \subseteq served \cup touched

\* Nobody else being at it, the owner is the one the run has looked at.
Permitted ==
    /\ cluster[Crd] = Absent => owner = "flux"
    /\ pc = "confirm" /\ Crd \notin touched => owner # "bootstrap"
    /\ pc \in Applying /\ Crd \notin touched =>
          owner # "bootstrap" /\ (owner = "helm" => force \/ consent)

IInv ==
    /\ TypeOK
    /\ Running
    /\ Stages
    /\ StillThere
    /\ Established
    /\ Watched
    /\ Permitted
    /\ SuccessMeansInstalled
    /\ OwnerRespected

----------------------------------------------------------------------------
(* The strengthened invariant holds in the initial states and is kept by   *)
(* every step.                                                             *)

Records == [version : Versions \cup {0}, ready : BOOLEAN]

LEMMA AbsentIsRecord == Absent \in Records
BY DEF Absent, Records

LEMMA AppliedIsRecord ==
    ASSUME TypeOK, NEW o \in Objects
    PROVE  Applied(o) \in Records /\ Applied(o).version = version /\ Applied(o) # Absent
<1>1. cluster[o] \in Records /\ version \in Versions /\ version # 0
      BY InstallAssumption DEF TypeOK, Records
<1> QED BY <1>1 DEF Applied, Absent, Records

LEMMA InitIInv == Init => IInv
<1> SUFFICES ASSUME Init PROVE IInv
    OBVIOUS
<1>1. cluster \in [Objects -> Records] /\ owner \in Owners
  <2>1. \A v \in Versions : [version |-> v, ready |-> TRUE] \in Records
        BY DEF Records
  <2> HIDE DEF Records, Absent
  <2> QED BY <2>1, AbsentIsRecord DEF Init, Owners
<1>2. seen \in [Components -> Statuses]
      BY DEF Init, Unseen, Statuses
<1>3. TypeOK
  <2>1. runs \in 0..MaxRuns
        BY InstallAssumption DEF Init
  <2> QED BY <1>1, <1>2, <2>1 DEF Init, TypeOK, Steps, Records
<1>4. Running /\ Stages /\ StillThere /\ Established
      BY DEF Init, Running, Stages, StillThere, Established
<1>5. Watched
      BY DEF Init, Watched, Unseen
<1>6. Permitted
  <2>1. Crd \in Objects
        BY InstallAssumption DEF Objects
  <2>2. ASSUME NEW v \in Versions PROVE [version |-> v, ready |-> TRUE] # Absent
        BY DEF Absent
  <2> QED BY <2>1, <2>2 DEF Init, Permitted, Applying
<1>7. SuccessMeansInstalled /\ OwnerRespected
      BY <1>3 DEF Init, SuccessMeansInstalled, OwnerRespected
<1> QED BY <1>3, <1>4, <1>5, <1>6, <1>7 DEF IInv

LEMMA StartKeeps ==
    ASSUME IInv, Start
    PROVE  IInv'
<1> USE DEF IInv, flags, history, poller
<1>1. TypeOK'
  <2>1. runs' \in 0..MaxRuns
        BY InstallAssumption DEF TypeOK, Start
  <2> QED BY <2>1 DEF TypeOK, Start, Steps
<1>2. Running'
      BY DEF Running, Start, TypeOK
<1>3. Stages'
      BY DEF Stages, Start, Running
<1>4. Watched'
      BY DEF Watched, Start, Running, Unseen
<1>5. Permitted'
      BY DEF Permitted, Start, Applying
<1>6. SuccessMeansInstalled'
      BY <1>1 DEF SuccessMeansInstalled, Start
<1>7. StillThere' /\ Established' /\ OwnerRespected'
      BY DEF StillThere, Established, OwnerRespected, Start
<1> QED BY <1>1, <1>2, <1>3, <1>4, <1>5, <1>6, <1>7

LEMMA FailKeeps ==
    ASSUME IInv, exit = "running", Fail
    PROVE  IInv'
<1> USE DEF IInv, flags, history, poller
<1>1. TypeOK'
      BY DEF TypeOK, Fail, Exit, Steps, Unseen, Statuses
<1>2. Watched'
      BY DEF Watched, Fail, Exit, Unseen
<1>3. Permitted'
      BY DEF Permitted, Fail, Exit, Applying
<1>4. SuccessMeansInstalled'
      BY <1>1 DEF SuccessMeansInstalled, Fail, Exit
<1>5. Running' /\ Stages' /\ StillThere' /\ Established' /\ OwnerRespected'
      BY DEF Running, Stages, StillThere, Established, OwnerRespected, Fail, Exit
<1> QED BY <1>1, <1>2, <1>3, <1>4, <1>5

LEMMA ReadInfoKeeps ==
    ASSUME IInv, ReadInfo
    PROVE  IInv'
<1> USE DEF IInv, flags, history, poller
<1>1. TypeOK'
      BY DEF TypeOK, ReadInfo, Steps, Objects
<1>2. Permitted'
      BY DEF Permitted, ReadInfo, Refused, AsksUser, Applying
<1>3. SuccessMeansInstalled'
      BY <1>1 DEF SuccessMeansInstalled, ReadInfo
<1>4. Running' /\ Stages' /\ StillThere' /\ Established' /\ Watched' /\ OwnerRespected'
      BY DEF Running, Stages, StillThere, Established, Watched, OwnerRespected, ReadInfo
<1> QED BY <1>1, <1>2, <1>3, <1>4

LEMMA ConfirmKeeps ==
    ASSUME IInv, Confirm
    PROVE  IInv'
<1> USE DEF IInv, flags, history, poller
<1>1. TypeOK'
      BY DEF TypeOK, Confirm, Steps, Objects
<1>2. SuccessMeansInstalled'
      BY <1>1 DEF SuccessMeansInstalled, Confirm
<1>3. Running' /\ Stages' /\ StillThere' /\ Established' /\ Watched' /\ Permitted'
      /\ OwnerRespected'
      BY DEF Running, Stages, StillThere, Established, Watched, Permitted,
             OwnerRespected, Confirm
<1> QED BY <1>1, <1>2, <1>3

LEMMA ApplyObjectKeeps ==
    ASSUME IInv, NEW o \in Objects, ApplyObject(o)
    PROVE  IInv'
<1> USE DEF IInv, flags, history, poller
<1>1. TypeOK'
      BY AppliedIsRecord DEF TypeOK, ApplyObject, Records
<1>2. StillThere'
  <2>1. cluster'[o] = Applied(o) /\ Applied(o).version = version
        BY AppliedIsRecord DEF ApplyObject, TypeOK
  <2> QED BY <2>1 DEF StillThere, ApplyObject
<1>3. Established'
  <2>1. pc' = "stageTwo" => o \notin Definitions
        BY InstallAssumption DEF ApplyObject, Stages
  <2> QED BY <2>1 DEF Established, ApplyObject, TypeOK, Objects
<1>4. Permitted'
      BY AppliedIsRecord DEF Permitted, ApplyObject
<1>5. SuccessMeansInstalled'
      BY <1>1, AppliedIsRecord DEF SuccessMeansInstalled, ApplyObject
<1>6. OwnerRespected'
      BY DEF OwnerRespected, ApplyObject, Applying, Permitted
<1>7. Running' /\ Stages' /\ Watched'
      BY DEF Running, Stages, Watched, ApplyObject
<1> QED BY <1>1, <1>2, <1>3, <1>4, <1>5, <1>6, <1>7

LEMMA StageOneDoneKeeps ==
    ASSUME IInv, StageOneDone
    PROVE  IInv'
<1> USE DEF IInv, flags, history, poller
<1>1. TypeOK'
      BY DEF TypeOK, StageOneDone, Steps, Objects
<1>2. Established'
  <2> SUFFICES ASSUME NEW d \in Definitions \ touched
               PROVE  cluster[d] = [version |-> version, ready |-> TRUE]
      BY DEF Established, StageOneDone
  <2>1. cluster[d] \in Records /\ cluster[d].ready
        BY DEF StageOneDone, TypeOK, Objects, Records
  <2>2. cluster[d].version = version
        BY DEF StageOneDone, Stages, StillThere, Running
  <2> QED BY <2>1, <2>2 DEF Records
<1>3. Permitted'
      BY DEF Permitted, StageOneDone, Applying
<1>4. SuccessMeansInstalled'
      BY <1>1 DEF SuccessMeansInstalled, StageOneDone
<1>5. Running' /\ Stages' /\ StillThere' /\ Watched' /\ OwnerRespected'
      BY DEF Running, Stages, StillThere, Watched, OwnerRespected, StageOneDone
<1> QED BY <1>1, <1>2, <1>3, <1>4, <1>5

LEMMA StageTwoDoneKeeps ==
    ASSUME IInv, StageTwoDone
    PROVE  IInv'
<1> USE DEF IInv, flags, history, poller
<1>1. TypeOK'
      BY DEF TypeOK, StageTwoDone, Steps
<1>2. Stages'
      BY DEF Stages, StageTwoDone, Objects, TypeOK
<1>3. Permitted'
      BY DEF Permitted, StageTwoDone, Applying
<1>4. SuccessMeansInstalled'
      BY <1>1 DEF SuccessMeansInstalled, StageTwoDone
<1>5. Running' /\ StillThere' /\ Established' /\ Watched' /\ OwnerRespected'
      BY DEF Running, StillThere, Established, Watched, OwnerRespected, StageTwoDone
<1> QED BY <1>1, <1>2, <1>3, <1>4, <1>5

LEMMA WriteSecretKeeps ==
    ASSUME IInv, WriteSecret
    PROVE  IInv'
<1> USE DEF IInv, flags, history, poller
<1>1. TypeOK'
      BY DEF TypeOK, WriteSecret, Steps
<1>2. Permitted'
      BY DEF Permitted, WriteSecret, Applying
<1>3. SuccessMeansInstalled'
      BY <1>1 DEF SuccessMeansInstalled, WriteSecret
<1>4. Running' /\ Stages' /\ StillThere' /\ Established' /\ Watched' /\ OwnerRespected'
      BY DEF Running, Stages, StillThere, Established, Watched, OwnerRespected, WriteSecret
<1> QED BY <1>1, <1>2, <1>3, <1>4

LEMMA PollEventKeeps ==
    ASSUME IInv, NEW c \in Components, PollEvent(c)
    PROVE  IInv'
<1> USE DEF IInv, flags, history, poller
<1>1. TypeOK'
      BY DEF TypeOK, PollEvent, StatusOf, Statuses
<1>2. Watched'
  <2>1. ASSUME StatusOf(c) = "Current" PROVE c \in served \cup touched
        BY <2>1, InstallAssumption DEF StatusOf, PollEvent, Stages, StillThere,
               Running, Objects
  <2>2. \A d \in Components : seen'[d] = "Current" => d \in served \cup touched
        BY <2>1 DEF PollEvent, Watched
  <2> QED BY <2>2 DEF PollEvent, Watched, AllCurrent
<1>3. SuccessMeansInstalled'
      BY <1>1 DEF SuccessMeansInstalled, PollEvent
<1>4. Running' /\ Stages' /\ StillThere' /\ Established' /\ Permitted' /\ OwnerRespected'
      BY DEF Running, Stages, StillThere, Established, Permitted, OwnerRespected, PollEvent
<1> QED BY <1>1, <1>2, <1>3, <1>4

LEMMA AssessDoneKeeps ==
    ASSUME IInv, AssessDone
    PROVE  IInv'
<1> USE DEF IInv, flags, history, poller
<1>1. TypeOK'
      BY DEF TypeOK, AssessDone, Exit, Steps, Unseen, Statuses
<1>2. Permitted'
      BY DEF Permitted, AssessDone, Exit, Applying
<1>3. SuccessMeansInstalled'
      BY <1>1 DEF SuccessMeansInstalled, AssessDone, Exit, Stages, StillThere, Watched,
             Running
<1>4. Running' /\ Stages' /\ StillThere' /\ Established' /\ Watched' /\ OwnerRespected'
      BY DEF Running, Stages, StillThere, Established, Watched, OwnerRespected,
             AssessDone, Exit
<1> QED BY <1>1, <1>2, <1>3, <1>4

LEMMA BecomesReadyKeeps ==
    ASSUME IInv, NEW o \in Objects, BecomesReady(o)
    PROVE  IInv'
<1> USE DEF IInv, flags, history, poller
<1>1. TypeOK'
      BY DEF TypeOK, BecomesReady
<1>2. Established'
  <2> SUFFICES ASSUME pc = "stageTwo", NEW d \in Definitions \ touched'
               PROVE  cluster'[d] = [version |-> version, ready |-> TRUE]
      BY DEF Established, BecomesReady
  <2>1. d \notin touched /\ cluster[d] = [version |-> version, ready |-> TRUE]
        BY DEF Established, BecomesReady
  <2> QED BY <2>1 DEF BecomesReady
<1>3. Permitted'
      BY DEF Permitted, BecomesReady, Absent
<1>4. SuccessMeansInstalled'
      BY <1>1 DEF SuccessMeansInstalled, BecomesReady
<1>5. Running' /\ Stages' /\ StillThere' /\ Watched' /\ OwnerRespected'
      BY DEF Running, Stages, StillThere, Watched, OwnerRespected, BecomesReady
<1> QED BY <1>1, <1>2, <1>3, <1>4, <1>5

LEMMA BecomesUnreadyKeeps ==
    ASSUME IInv, NEW c \in Components, BecomesUnready(c)
    PROVE  IInv'
<1> USE DEF IInv, flags, history, poller
<1>1. TypeOK'
      BY DEF TypeOK, BecomesUnready
<1>2. Established'
      BY InstallAssumption DEF Established, BecomesUnready, Objects, TypeOK
<1>3. Permitted'
      BY InstallAssumption DEF Permitted, BecomesUnready
<1>4. SuccessMeansInstalled'
      BY <1>1 DEF SuccessMeansInstalled, BecomesUnready
<1>5. Running' /\ Stages' /\ StillThere' /\ Watched' /\ OwnerRespected'
      BY DEF Running, Stages, StillThere, Watched, OwnerRespected, BecomesUnready
<1> QED BY <1>1, <1>2, <1>3, <1>4, <1>5

LEMMA OtherWritesKeeps ==
    ASSUME IInv, NEW o \in Objects, OtherWrites(o)
    PROVE  IInv'
<1> USE DEF IInv, flags, history, poller
<1>1. TypeOK'
      BY DEF TypeOK, OtherWrites, Owners
<1>2. Established'
  <2> SUFFICES ASSUME pc = "stageTwo", NEW d \in Definitions \ touched'
               PROVE  cluster'[d] = [version |-> version, ready |-> TRUE]
      BY DEF Established, OtherWrites
  <2>1. d \notin touched /\ cluster[d] = [version |-> version, ready |-> TRUE]
        BY DEF Established, OtherWrites
  <2> QED BY <2>1 DEF OtherWrites
<1>3. Permitted'
      BY DEF Permitted, OtherWrites, Absent
<1>4. SuccessMeansInstalled'
      BY <1>1 DEF SuccessMeansInstalled, OtherWrites
<1>5. Running' /\ Stages' /\ StillThere' /\ Watched' /\ OwnerRespected'
      BY DEF Running, Stages, StillThere, Watched, OwnerRespected, OtherWrites
<1> QED BY <1>1, <1>2, <1>3, <1>4, <1>5

LEMMA OtherBootstrapsKeeps ==
    ASSUME IInv, OtherBootstraps
    PROVE  IInv'
<1> USE DEF IInv, flags, history, poller
<1>1. TypeOK'
      BY InstallAssumption DEF TypeOK, OtherBootstraps, Owners, Objects
<1>2. SuccessMeansInstalled'
      BY <1>1 DEF SuccessMeansInstalled, OtherBootstraps
<1>3. Running' /\ Stages' /\ StillThere' /\ Established' /\ Watched' /\ Permitted'
      /\ OwnerRespected'
      BY DEF Running, Stages, StillThere, Established, Watched, Permitted,
             OwnerRespected, OtherBootstraps
<1> QED BY <1>1, <1>2, <1>3

LEMMA UnchangedKeeps ==
    ASSUME IInv, UNCHANGED vars
    PROVE  IInv'
<1> USE DEF IInv, vars, flags, history, poller
<1>1. TypeOK'
      BY DEF TypeOK
<1>2. SuccessMeansInstalled'
      BY <1>1 DEF SuccessMeansInstalled
<1>3. Running' /\ Stages' /\ StillThere' /\ Established' /\ Watched'
      /\ Permitted' /\ OwnerRespected'
      BY DEF Running, Stages, StillThere, Established, Watched, Permitted,
             OwnerRespected
<1> QED BY <1>1, <1>2, <1>3

LEMMA NextIInv == IInv /\ [Next]_vars => IInv'
<1> SUFFICES ASSUME IInv, [Next]_vars PROVE IInv'
    OBVIOUS
<1>1. pc # "idle" => exit = "running"
      BY DEF IInv, Running
<1>2. CASE Work
  <2>1. CASE Refuse \/ Cancel \/ WaitTimesOut \/ CallFails
    <3>1. exit = "running" /\ Fail
          BY <1>1, <2>1 DEF Refuse, Cancel, WaitTimesOut, CallFails
    <3> QED BY <3>1, FailKeeps
  <2>2. CASE \E o \in Objects : ApplyObject(o)
        BY <2>2, ApplyObjectKeeps
  <2> QED BY <1>2, <2>1, <2>2, ReadInfoKeeps, ConfirmKeeps, StageOneDoneKeeps,
             StageTwoDoneKeeps, WriteSecretKeeps, AssessDoneKeeps DEF Work
<1>3. CASE AssessTimesOut
  <2>1. exit = "running" /\ Fail
        BY <1>1, <1>3 DEF AssessTimesOut
  <2> QED BY <2>1, FailKeeps
<1>4. CASE \E c \in Components : PollEvent(c) \/ BecomesUnready(c)
      BY <1>4, PollEventKeeps, BecomesUnreadyKeeps
<1>5. CASE \E o \in Objects : BecomesReady(o) \/ OtherWrites(o)
      BY <1>5, BecomesReadyKeeps, OtherWritesKeeps
<1>6. CASE Terminated \/ UNCHANGED vars
      BY <1>6, UnchangedKeeps DEF Terminated
<1> QED BY <1>2, <1>3, <1>4, <1>5, <1>6, StartKeeps, OtherBootstrapsKeeps DEF Next

LEMMA Invariance == Spec => []IInv
<1> QED BY InitIInv, NextIInv, PTL DEF Spec

----------------------------------------------------------------------------

\* "install finished" is true: whatever earlier runs have left half done and
\* whatever the components do, what nobody else has changed is at the version of
\* this run, has been ready at it, and the secret exists (install.go:245-292).
THEOREM InstalledOnSuccess == Spec => []SuccessMeansInstalled
<1> QED BY Invariance, PTL DEF IInv

\* A bootstrapped cluster is not changed, and one of another tool only with --force
\* or consent given in this run (install.go:221-243).
THEOREM OwnerIsRespected == Spec => []OwnerRespected
<1> QED BY Invariance, PTL DEF IInv

\* What needs the definitions is applied only while they are established at the
\* version of the run (apply.go, the two stages).
THEOREM DefinitionsComeFirst == Spec => DefinitionsFirst
<1> DEFINE First == \A w \in Workloads : w \in written' \ written =>
          \A d \in Definitions \ touched : cluster[d] = [version |-> version, ready |-> TRUE]
<1>1. IInv /\ [Next]_vars => [First]_vars
  <2> SUFFICES ASSUME IInv, Next, NEW w \in Workloads, w \in written' \ written
               PROVE  \A d \in Definitions \ touched : cluster[d] = [version |-> version, ready |-> TRUE]
      OBVIOUS
  <2>1. PICK o \in Objects : ApplyObject(o)
        BY DEF Next, Start, Work, ReadInfo, Refuse, Confirm, Cancel, StageOneDone, WaitTimesOut,
               StageTwoDone, WriteSecret, CallFails, AssessDone, AssessTimesOut, Fail, Exit,
               Terminated, PollEvent, BecomesReady, BecomesUnready, OtherWrites,
               OtherBootstraps, history, vars
  <2>2. w \in todo
        BY <2>1 DEF ApplyObject
  <2>3. pc = "stageTwo"
        BY <2>1, InstallAssumption DEF ApplyObject, IInv, Stages
  <2> QED BY <2>3 DEF IInv, Established
<1> QED BY <1>1, Invariance, PTL DEF Spec, DefinitionsFirst

----------------------------------------------------------------------------
(* Uninstall: its state, and its module as U.  How its command ends is not *)
(* how install's does.                                                     *)

VARIABLES dryRun, keepNamespace, stage, idx, listed, uninstallExit, present, pods, cr, uninstallCrd, ns

U == INSTANCE Uninstall WITH exit <- uninstallExit, crd <- uninstallCrd

\* The components the command has gone through.
Passed(i) == stage > 1 \/ (stage = 1 /\ i < idx)

ComponentsGone ==
    \A i \in DOMAIN U!ComponentOrder : Passed(i) =>
        \/ dryRun
        \/ U!ComponentOrder[i] \notin present
        \/ <<"component", U!ComponentOrder[i]>> \in skipped

Positions == /\ stage = 0 => idx = 1
             /\ stage \in {2, 3} => idx <= Len(KindOrder)

\* Resources are deleted by the deletion of their CRDs, which is the third stage.
DeletingAfter ==
    \A k \in U!Kinds : uninstallCrd[k] = "deleting" \/ cr[k].state = "deleting" => stage >= 3 /\ ~dryRun

UninstallIInv ==
    /\ U!TypeOK
    /\ Positions
    /\ ComponentsGone
    /\ DeletingAfter
    /\ U!WorkloadsKept
    /\ U!DryRunHarmless

----------------------------------------------------------------------------
(* Where the command is, and where it goes next.                           *)

LEMMA StageNumbers ==
    /\ U!InStage("components") => stage = 1
    /\ U!InStage("finalizers") => stage = 2
    /\ U!InStage("crds") => stage = 3
    /\ U!InStage("namespace") => stage = 4
BY DEF U!InStage, U!StageOrder

LEMMA AdvanceType ==
    ASSUME U!TypeOK, stage \in 1..4, NEW n \in Nat, U!Advance(n)
    PROVE  /\ stage' \in 1..5 /\ stage' >= stage
           /\ idx' \in Nat \ {0} /\ listed' = 0 /\ uninstallExit' = uninstallExit
           /\ stage = 1 => (stage' > 1 /\ idx >= n) \/ (stage' = 1 /\ idx' = idx + 1)
<1>1. idx \in Nat \ {0} /\ listed' = 0 /\ uninstallExit' = uninstallExit
      BY DEF U!Advance, U!TypeOK
<1>2. CASE idx < n
      BY <1>1, <1>2 DEF U!Advance
<1>3. CASE ~(idx < n)
      BY <1>1, <1>3 DEF U!Advance
<1> QED BY <1>2, <1>3

LEMMA AdvancePosition ==
    ASSUME U!TypeOK, stage \in 1..4, NEW n \in Nat, U!Advance(n)
    PROVE  (stage' = stage /\ idx' <= n) \/ (stage' = stage + 1 /\ idx' = 1)
BY DEF U!Advance, U!TypeOK

LEMMA WithoutFinalizerType ==
    ASSUME NEW o \in [state : U!States, finalizer : BOOLEAN, version : Nat]
    PROVE  /\ U!WithoutFinalizer(o) \in [state : U!States, finalizer : BOOLEAN, version : Nat]
           /\ U!WithoutFinalizer(o).state # "deleting"
BY DEF U!WithoutFinalizer, U!States

LEMMA WrittenType ==
    ASSUME NEW o \in [state : U!States, finalizer : BOOLEAN, version : Nat]
    PROVE  /\ U!Written(o) \in [state : U!States, finalizer : BOOLEAN, version : Nat]
           /\ U!Written(o).state = o.state
BY DEF U!Written

LEMMA KindsAgree == U!Kinds = Kinds
BY DEF Kinds, Range, U!Kinds, U!Range

LEMMA Orders == Len(KindOrder) \in Nat \ {0} /\ Len(U!ComponentOrder) = 6
BY UninstallAssumption DEF U!ComponentOrder

\* Once the command has gone through the components, there is nothing to do.
LEMMA ComponentsStayGone ==
    ASSUME ComponentsGone, stage > 1, UNCHANGED dryRun,
           present' \subseteq present, skipped \subseteq skipped'
    PROVE  ComponentsGone'
<1> SUFFICES ASSUME NEW i \in DOMAIN U!ComponentOrder, ~dryRun', U!ComponentOrder[i] \in present'
             PROVE  <<"component", U!ComponentOrder[i]>> \in skipped'
    BY DEF ComponentsGone
<1>1. <<"component", U!ComponentOrder[i]>> \in skipped
      BY DEF ComponentsGone, Passed
<1> QED BY <1>1

LEMMA AuthorisersGone ==
    ASSUME ComponentsGone, stage \in Nat, stage > 1, ~dryRun, U!Authorised
    PROVE  {<<"component", "ServiceAccount">>, <<"component", "ClusterRoleBinding">>} \subseteq skipped
<1>1. 4 \in DOMAIN U!ComponentOrder /\ U!ComponentOrder[4] = "ServiceAccount"
      BY DEF U!ComponentOrder
<1>2. 6 \in DOMAIN U!ComponentOrder /\ U!ComponentOrder[6] = "ClusterRoleBinding"
      BY DEF U!ComponentOrder
<1>3. ASSUME NEW i \in DOMAIN U!ComponentOrder, U!ComponentOrder[i] \in present
      PROVE  <<"component", U!ComponentOrder[i]>> \in skipped
      BY <1>3 DEF ComponentsGone, Passed
<1> QED BY <1>1, <1>2, <1>3 DEF U!Authorised

----------------------------------------------------------------------------
(* The strengthened invariant holds in the initial states and is kept by   *)
(* every step.                                                             *)

LEMMA UninstallInit == U!Init => UninstallIInv
<1> SUFFICES ASSUME U!Init PROVE UninstallIInv
    OBVIOUS
<1>1. U!TypeOK
  <2> DEFINE Type == [state : U!States, finalizer : BOOLEAN, version : Nat]
             Live == [state |-> "live", finalizer |-> TRUE, version |-> 1]
  <2>1. Live \in Type
        BY DEF U!States
  <2>2. U!NoResource \in Type
        BY DEF U!NoResource, U!States
  <2>3. cr \in [U!Kinds -> {Live, U!NoResource}]
        BY DEF U!Init
  <2>4. cr \in [U!Kinds -> Type]
    <3> HIDE DEF Live, Type
    <3> QED BY <2>1, <2>2, <2>3
  <2> QED BY <2>4 DEF U!Init, U!TypeOK, U!States
<1>2. Positions /\ ComponentsGone
      BY DEF U!Init, Positions, ComponentsGone, Passed
<1>3. DeletingAfter
      BY DEF U!Init, DeletingAfter, U!NoResource
<1>4. U!WorkloadsKept /\ U!DryRunHarmless
      BY DEF U!Init, U!WorkloadsKept, U!DryRunHarmless
<1> QED BY <1>1, <1>2, <1>3, <1>4 DEF UninstallIInv

LEMMA UninstallNext == UninstallIInv /\ [U!Next]_U!vars => UninstallIInv'
<1> SUFFICES ASSUME UninstallIInv, [U!Next]_U!vars PROVE UninstallIInv'
    OBVIOUS
<1> USE DEF UninstallIInv
<1>1. CASE U!Confirm
  <2>1. U!TypeOK'
        BY <1>1 DEF U!TypeOK, U!Confirm, U!cluster
  <2>2. ComponentsGone'
    <3>1. \A i \in DOMAIN U!ComponentOrder : ~Passed(i)'
          BY <1>1, Orders DEF Passed, Positions, U!Confirm
    <3> QED BY <3>1 DEF ComponentsGone
  <2>3. DeletingAfter'
        BY <1>1 DEF DeletingAfter, U!Confirm, U!cluster
  <2>4. U!WorkloadsKept'
        BY <1>1 DEF U!WorkloadsKept, U!Confirm, U!cluster
  <2>5. U!DryRunHarmless'
        BY <1>1 DEF U!DryRunHarmless, U!Confirm, U!cluster
  <2>6. Positions'
        BY <1>1 DEF Positions, U!Confirm
  <2> QED BY <2>1, <2>2, <2>3, <2>4, <2>5, <2>6
<1>2. CASE U!DeleteComponent
  <2>1. U!TypeOK'
        BY <1>2 DEF U!TypeOK, U!DeleteComponent, U!InStage, U!Advance
  <2>2. ComponentsGone'
        BY <1>2 DEF ComponentsGone, Passed, U!TypeOK, U!DeleteComponent, U!CallFails, U!Advance
  <2>3. DeletingAfter'
        BY <1>2 DEF DeletingAfter, U!DeleteComponent, U!InStage, U!Advance
  <2>4. U!WorkloadsKept'
        BY <1>2 DEF U!WorkloadsKept, U!DeleteComponent, U!CallFails
  <2>5. U!DryRunHarmless'
        BY <1>2 DEF U!DryRunHarmless, U!DeleteComponent
  <2>6. Positions'
        BY <1>2, AdvancePosition, Orders, StageNumbers DEF Positions, U!DeleteComponent
  <2> QED BY <2>1, <2>2, <2>3, <2>4, <2>5, <2>6
<1>3. CASE U!ListKind
  <2>0. stage = 2 /\ stage' \in 2..5 /\ idx' \in Nat \ {0} /\ listed' \in Nat /\ uninstallExit' \in {"running", "ok", "err"}
    <3>1. stage = 2 /\ idx \in Nat \ {0} /\ uninstallExit \in {"running", "ok", "err"}
          BY <1>3, StageNumbers DEF U!ListKind, U!TypeOK
    <3>2. CASE U!Advance(Len(KindOrder))
          BY <1>3, <3>1, <3>2, AdvanceType, Orders DEF U!ListKind
    <3>3. CASE ~U!Advance(Len(KindOrder))
      <4>1. KindOrder[idx] \in U!Kinds
            BY <3>1, UninstallAssumption, KindsAgree DEF Positions
      <4> QED BY <1>3, <3>1, <3>3, <4>1 DEF U!ListKind, U!TypeOK
    <3> QED BY <3>2, <3>3
  <2>1. U!TypeOK'
        BY <1>3, <2>0 DEF U!ListKind, U!TypeOK, U!cluster
  <2>2. ComponentsGone'
        BY <1>3, <2>0, ComponentsStayGone DEF U!ListKind, U!CallFails, U!cluster
  <2>3. DeletingAfter'
        BY <1>3, <2>0 DEF U!ListKind, DeletingAfter, U!cluster
  <2>4. U!WorkloadsKept'
        BY <1>3 DEF U!WorkloadsKept, U!ListKind, U!CallFails, U!cluster
  <2>5. U!DryRunHarmless'
        BY <1>3 DEF U!DryRunHarmless, U!ListKind, U!cluster
  <2>6. Positions'
    <3>1. CASE U!Advance(Len(KindOrder))
          BY <1>3, <2>0, <3>1, AdvancePosition, Orders DEF Positions
    <3>2. CASE ~U!Advance(Len(KindOrder))
          BY <1>3, <2>0, <3>2 DEF Positions, U!ListKind
    <3> QED BY <3>1, <3>2
  <2> QED BY <2>1, <2>2, <2>3, <2>4, <2>5, <2>6
<1>4. CASE U!RemoveFinalizers
  <2>0. stage = 2 /\ stage' \in 2..5 /\ idx' \in Nat \ {0} /\ listed' \in Nat /\ uninstallExit' \in {"running", "ok", "err"}
        BY <1>4, StageNumbers, AdvanceType, Orders DEF U!RemoveFinalizers, U!TypeOK
  <2>1. U!TypeOK'
    <3>1. cr' \in [U!Kinds -> [state : U!States, finalizer : BOOLEAN, version : Nat]]
          BY <1>4, WithoutFinalizerType DEF U!RemoveFinalizers, U!TypeOK
    <3> QED BY <1>4, <2>0, <3>1 DEF U!RemoveFinalizers, U!TypeOK
  <2>2. ComponentsGone'
        BY <1>4, <2>0, ComponentsStayGone DEF U!RemoveFinalizers, U!CallFails
  <2>3. DeletingAfter'
    <3>1. \A k \in U!Kinds : cr'[k].state = "deleting" => cr[k].state = "deleting"
          BY <1>4, WithoutFinalizerType DEF U!RemoveFinalizers, U!TypeOK
    <3> QED BY <1>4, <2>0, <3>1 DEF U!RemoveFinalizers, DeletingAfter
  <2>4. U!WorkloadsKept'
        BY <1>4 DEF U!WorkloadsKept, U!RemoveFinalizers, U!CallFails
  <2>5. U!DryRunHarmless'
        BY <1>4 DEF U!DryRunHarmless, U!RemoveFinalizers
  <2>6. Positions'
        BY <1>4, <2>0, AdvancePosition, Orders DEF Positions, U!RemoveFinalizers
  <2> QED BY <2>1, <2>2, <2>3, <2>4, <2>5, <2>6
<1>5. CASE U!DeleteCrd
  <2>0. stage = 3 /\ stage' \in 3..5 /\ idx' \in Nat \ {0} /\ listed' \in Nat /\ uninstallExit' \in {"running", "ok", "err"}
        BY <1>5, StageNumbers, AdvanceType, Orders DEF U!DeleteCrd, U!TypeOK
  <2>1. U!TypeOK'
        BY <1>5, <2>0 DEF U!DeleteCrd, U!TypeOK, U!States
  <2>2. ComponentsGone'
        BY <1>5, <2>0, ComponentsStayGone DEF U!DeleteCrd, U!CallFails
  <2>3. DeletingAfter'
        BY <1>5, <2>0 DEF U!DeleteCrd, DeletingAfter
  <2>4. U!WorkloadsKept'
        BY <1>5 DEF U!WorkloadsKept, U!DeleteCrd, U!CallFails
  <2>5. U!DryRunHarmless'
        BY <1>5 DEF U!DryRunHarmless, U!DeleteCrd
  <2>6. Positions'
        BY <1>5, <2>0, AdvancePosition, Orders DEF Positions, U!DeleteCrd
  <2> QED BY <2>1, <2>2, <2>3, <2>4, <2>5, <2>6
<1>6. CASE U!DeleteNamespace
  <2>0. stage = 4 /\ stage' \in 4..5 /\ idx' \in Nat \ {0} /\ listed' \in Nat /\ uninstallExit' \in {"running", "ok", "err"}
    <3>1. U!InStage("namespace") /\ U!Advance(1)
          BY <1>6, Zenon DEF U!DeleteNamespace
    <3>2. stage = 4 /\ uninstallExit \in {"running", "ok", "err"}
          BY <3>1, StageNumbers DEF U!TypeOK
    <3> QED BY <3>1, <3>2, AdvanceType
  <2>a. /\ UNCHANGED <<dryRun, keepNamespace, present, pods, cr, uninstallCrd, pruned>>
        /\ skipped \subseteq skipped' /\ ns' \in {ns, "deleting"}
        /\ dryRun => ns' = ns
        BY <1>6, Zenon DEF U!DeleteNamespace, U!NamespaceAfter, U!CallFails
  <2>1. U!TypeOK'
        BY <2>0, <2>a DEF U!TypeOK, U!States
  <2>2. ComponentsGone'
        BY <2>0, <2>a, ComponentsStayGone
  <2>3. DeletingAfter'
        BY <2>0, <2>a DEF DeletingAfter
  <2>4. U!WorkloadsKept'
        BY <2>a DEF U!WorkloadsKept
  <2>5. U!DryRunHarmless'
        BY <2>a DEF U!DryRunHarmless
  <2>6. Positions'
        BY <2>0 DEF Positions
  <2> QED BY <2>1, <2>2, <2>3, <2>4, <2>5, <2>6
<1>7. CASE U!Finish
  <2>1. U!TypeOK'
        BY <1>7 DEF U!TypeOK, U!Finish, U!cluster
  <2>2. ComponentsGone'
        BY <1>7 DEF ComponentsGone, Passed, U!Finish, U!cluster
  <2>3. DeletingAfter'
        BY <1>7 DEF DeletingAfter, U!Finish, U!cluster
  <2>4. U!WorkloadsKept'
        BY <1>7 DEF U!WorkloadsKept, U!Finish, U!cluster
  <2>5. U!DryRunHarmless'
        BY <1>7 DEF U!DryRunHarmless, U!Finish, U!cluster
  <2>6. Positions'
        BY <1>7 DEF Positions, U!Finish
  <2> QED BY <2>1, <2>2, <2>3, <2>4, <2>5, <2>6
<1>8. CASE U!NamespaceGc
  <2>1. U!TypeOK'
        BY <1>8 DEF U!TypeOK, U!States, U!NamespaceGc, U!command
  <2>2. ComponentsGone'
        BY <1>8 DEF ComponentsGone, Passed, U!NamespaceGc, U!command
  <2>3. DeletingAfter'
        BY <1>8 DEF DeletingAfter, U!NamespaceGc, U!command
  <2>4. U!WorkloadsKept'
        BY <1>8 DEF U!WorkloadsKept, U!NamespaceGc, U!command
  <2>5. U!DryRunHarmless'
        BY <1>8 DEF U!DryRunHarmless, U!NamespaceGc
  <2>6. Positions'
        BY <1>8 DEF Positions, U!NamespaceGc, U!command
  <2> QED BY <2>1, <2>2, <2>3, <2>4, <2>5, <2>6
<1>9. ASSUME NEW k \in U!Kinds, U!ControllerWrites(k) PROVE UninstallIInv'
  <2>1. U!TypeOK'
        BY <1>9, WrittenType DEF U!TypeOK, U!ControllerWrites, U!command
  <2>2. ComponentsGone'
        BY <1>9 DEF ComponentsGone, Passed, U!ControllerWrites, U!command
  <2>3. DeletingAfter'
        BY <1>9, WrittenType DEF DeletingAfter, U!TypeOK, U!ControllerWrites, U!command
  <2>4. U!WorkloadsKept'
        BY <1>9 DEF U!WorkloadsKept, U!ControllerWrites, U!command
  <2>5. U!DryRunHarmless'
        BY <1>9, WrittenType DEF U!DryRunHarmless, U!TypeOK, U!ControllerWrites
  <2>6. Positions'
        BY <1>9 DEF Positions, U!ControllerWrites, U!command
  <2> QED BY <2>1, <2>2, <2>3, <2>4, <2>5, <2>6
<1>10. ASSUME NEW k \in U!Kinds, U!ControllerFinalizes(k) PROVE UninstallIInv'
  <2>1. U!TypeOK'
        BY <1>10, WithoutFinalizerType DEF U!ControllerFinalizes, U!command, U!TypeOK
  <2>2. ComponentsGone'
        BY <1>10 DEF ComponentsGone, Passed, U!ControllerFinalizes, U!command
  <2>3. DeletingAfter'
        BY <1>10 DEF DeletingAfter, U!ControllerFinalizes, U!command
  <2>4. U!WorkloadsKept'
        BY <1>10, AuthorisersGone DEF U!ControllerFinalizes, U!command, DeletingAfter, U!WorkloadsKept, U!TypeOK
  <2>5. U!DryRunHarmless'
        BY <1>10 DEF U!DryRunHarmless, DeletingAfter, U!ControllerFinalizes
  <2>6. Positions'
        BY <1>10 DEF Positions, U!ControllerFinalizes, U!command
  <2> QED BY <2>1, <2>2, <2>3, <2>4, <2>5, <2>6
<1>11. ASSUME NEW k \in U!Kinds, U!PodExits(k) PROVE UninstallIInv'
  <2>1. U!TypeOK'
        BY <1>11 DEF U!TypeOK, U!PodExits, U!command
  <2>2. ComponentsGone'
        BY <1>11 DEF ComponentsGone, Passed, U!PodExits, U!command
  <2>3. DeletingAfter'
        BY <1>11 DEF DeletingAfter, U!PodExits, U!command
  <2>4. U!WorkloadsKept'
        BY <1>11 DEF U!WorkloadsKept, U!PodExits, U!command
  <2>5. U!DryRunHarmless'
        BY <1>11 DEF U!DryRunHarmless, U!PodExits
  <2>6. Positions'
        BY <1>11 DEF Positions, U!PodExits, U!command
  <2> QED BY <2>1, <2>2, <2>3, <2>4, <2>5, <2>6
<1>12. ASSUME NEW k \in U!Kinds, U!CrdGc(k) PROVE UninstallIInv'
  <2>1. U!TypeOK'
        BY <1>12 DEF U!TypeOK, U!States, U!CrdGc, U!command
  <2>2. ComponentsGone'
        BY <1>12 DEF ComponentsGone, Passed, U!CrdGc, U!command
  <2>3. DeletingAfter'
        BY <1>12 DEF DeletingAfter, U!CrdGc, U!command
  <2>4. U!WorkloadsKept'
        BY <1>12 DEF U!WorkloadsKept, U!CrdGc, U!command
  <2>5. U!DryRunHarmless'
        BY <1>12 DEF U!DryRunHarmless, U!CrdGc
  <2>6. Positions'
        BY <1>12 DEF Positions, U!CrdGc, U!command
  <2> QED BY <2>1, <2>2, <2>3, <2>4, <2>5, <2>6
<1>13. CASE UNCHANGED U!vars
  <2>1. U!TypeOK'
        BY <1>13 DEF U!TypeOK, U!vars, U!command, U!cluster
  <2>2. ComponentsGone'
        BY <1>13 DEF ComponentsGone, Passed, U!vars, U!command, U!cluster
  <2>3. DeletingAfter'
        BY <1>13 DEF DeletingAfter, U!vars, U!command, U!cluster
  <2>4. U!WorkloadsKept'
        BY <1>13 DEF U!WorkloadsKept, U!vars, U!command, U!cluster
  <2>5. U!DryRunHarmless'
        BY <1>13 DEF U!DryRunHarmless, U!vars, U!cluster
  <2>6. Positions'
        BY <1>13 DEF Positions, U!vars, U!command
  <2> QED BY <2>1, <2>2, <2>3, <2>4, <2>5, <2>6
<1> QED BY <1>1, <1>2, <1>3, <1>4, <1>5, <1>6, <1>7, <1>8, <1>9, <1>10, <1>11, <1>12, <1>13 DEF U!Next, U!Command, U!World, U!Terminated

LEMMA UninstallInvariance == U!Spec => []UninstallIInv
<1>1. U!Init => UninstallIInv
      BY UninstallInit
<1>2. UninstallIInv /\ [U!Next]_U!vars => UninstallIInv'
      BY UninstallNext
<1> QED BY <1>1, <1>2, PTL DEF U!Spec

\* Type correctness of uninstall.
THEOREM UninstallTyped == U!Spec => []U!TypeOK
<1>1. UninstallIInv => U!TypeOK
      BY DEF UninstallIInv
<1> QED BY <1>1, UninstallInvariance, PTL

\* Unless both objects that authorise the controllers survive, what Flux has
\* deployed is not pruned.
THEOREM WorkloadsAreKept == U!Spec => []WorkloadsKept
<1>1. UninstallIInv => WorkloadsKept
      BY DEF UninstallIInv, WorkloadsKept, U!WorkloadsKept
<1> QED BY <1>1, UninstallInvariance, PTL

\* A dry run changes nothing.
THEOREM DryRunIsHarmless == U!Spec => []U!DryRunHarmless
<1>1. UninstallIInv => U!DryRunHarmless
      BY DEF UninstallIInv
<1> QED BY <1>1, UninstallInvariance, PTL

----------------------------------------------------------------------------
(* The migration of the resources: its state, and its module as M.         *)

VARIABLES crdsLeft, read, items, attempts

M == INSTANCE ClusterMigrate WITH todo <- crdsLeft

LEMMA CrdsAgree == M!Crds = Crds
BY DEF Crds, Range, M!Crds, M!Range

\* The command is at a CRD, and has read it.
AtCrd == step \in {"get", "cr", "patch", "status"}
HasRead == step \in {"cr", "patch", "status"}

InOrder ==
    /\ AtCrd => crdsLeft # <<>>
    /\ step = "cr" => attempts < MaxAttempts

StorageIsStored == \A c \in M!Crds : crd[c].storage \in crd[c].stored

NotAhead == HasRead => read.storage <= crd[M!Crd].storage

\* The copy of a CRD that nobody upgraded is up to date.
CopyIsCurrent == HasRead /\ M!Crd \notin upgraded => crd[M!Crd] = read

\* A resource that is no longer to be patched is stored as the copy says.
AllStored ==
    step \in {"patch", "status"} /\ crd[M!Crd] = read =>
        \A r \in Resources : \/ resource[M!Crd][r] \in {0, read.storage}
                             \/ step = "patch" /\ r \in items

Left == {crdsLeft[i] : i \in DOMAIN crdsLeft}

Clean(c) == /\ crd[c].stored = {crd[c].storage}
            /\ \A r \in Resources : resource[c][r] \in {0, crd[c].storage}

\* The CRDs behind the command are as MigratedOnSuccess promises.
Done == \A c \in M!Crds \ upgraded :
            step = "ok" \/ (AtCrd /\ c \notin Left) => Clean(c)

MigrationIInv ==
    /\ M!TypeOK
    /\ InOrder
    /\ StorageIsStored
    /\ NotAhead
    /\ CopyIsCurrent
    /\ AllStored
    /\ Done
    /\ M!NothingLost

----------------------------------------------------------------------------
(* The strengthened invariant holds in the initial states and is kept by   *)
(* every step.                                                             *)

LEMMA MigrationInit == M!Init => MigrationIInv
BY MigrateAssumption
   DEF M!Init, MigrationIInv, M!TypeOK, M!CrdType, M!Versions, InOrder, AtCrd, HasRead, StorageIsStored,
       NotAhead, CopyIsCurrent, AllStored, Done, M!NothingLost

LEMMA MigrationNext == MigrationIInv /\ [M!Next]_M!vars => MigrationIInv'
<1> SUFFICES ASSUME MigrationIInv, [M!Next]_M!vars PROVE MigrationIInv'
    OBVIOUS
<1> USE MigrateAssumption DEF MigrationIInv
<1>1. CASE M!ListCrds
  <2>1. M!TypeOK'
        BY <1>1, CrdsAgree DEF M!TypeOK, M!ListCrds
  <2>2. InOrder'
        BY <1>1 DEF InOrder, AtCrd, M!ListCrds
  <2>3. StorageIsStored'
        BY <1>1 DEF StorageIsStored, M!ListCrds
  <2>4. NotAhead'
        BY <1>1 DEF NotAhead, HasRead, M!ListCrds
  <2>5. CopyIsCurrent'
        BY <1>1 DEF CopyIsCurrent, HasRead, M!ListCrds
  <2>6. AllStored'
        BY <1>1 DEF AllStored, M!ListCrds
  <2>7. Done'
    <3>1. Left' = M!Crds
          BY <1>1 DEF M!ListCrds, Left, M!Crds, M!Range
    <3>2. CrdOrder = <<>> => M!Crds = {}
          BY DEF M!Crds, M!Range
    <3> QED BY <1>1, <3>1, <3>2 DEF M!ListCrds, Done, AtCrd
  <2>8. M!NothingLost'
        BY <1>1 DEF M!NothingLost, M!ListCrds
  <2> QED BY <2>1, <2>2, <2>3, <2>4, <2>5, <2>6, <2>7, <2>8
<1>2. CASE M!GetCrd
  <2>1. M!TypeOK'
        BY <1>2 DEF M!TypeOK, M!Crd, InOrder, AtCrd, M!GetCrd
  <2>2. InOrder'
        BY <1>2 DEF InOrder, AtCrd, M!GetCrd
  <2>3. StorageIsStored'
        BY <1>2 DEF StorageIsStored, M!GetCrd
  <2>4. NotAhead'
        BY <1>2 DEF NotAhead, AtCrd, M!Crd, M!TypeOK, M!CrdType, M!Versions, InOrder, M!GetCrd
  <2>5. CopyIsCurrent'
        BY <1>2 DEF CopyIsCurrent, M!Crd, M!GetCrd
  <2>6. AllStored'
        BY <1>2 DEF AllStored, M!GetCrd
  <2>7. Done'
    <3>1. Left' = Left
          BY <1>2 DEF M!GetCrd, Left
    <3> QED BY <1>2, <3>1 DEF M!GetCrd, Done, Clean, AtCrd, M!TypeOK
  <2>8. M!NothingLost'
        BY <1>2 DEF M!NothingLost, M!GetCrd
  <2> QED BY <2>1, <2>2, <2>3, <2>4, <2>5, <2>6, <2>7, <2>8
<1>3. CASE M!ListResources
  <2>1. M!TypeOK'
        BY <1>3 DEF M!TypeOK, InOrder, M!ListResources
  <2>2. InOrder'
        BY <1>3 DEF InOrder, AtCrd, M!ListResources
  <2>3. StorageIsStored'
        BY <1>3 DEF StorageIsStored, M!ListResources
  <2>4. NotAhead'
        BY <1>3 DEF NotAhead, HasRead, M!Crd, M!ListResources
  <2>5. CopyIsCurrent'
        BY <1>3 DEF CopyIsCurrent, HasRead, M!Crd, M!ListResources
  <2>6. AllStored'
        BY <1>3 DEF AllStored, M!Crd, M!ListResources
  <2>7. Done'
    <3>1. Left' = Left
          BY <1>3 DEF M!ListResources, Left
    <3> QED BY <1>3, <3>1 DEF M!ListResources, Done, Clean, AtCrd, M!TypeOK
  <2>8. M!NothingLost'
        BY <1>3 DEF M!NothingLost, M!ListResources
  <2> QED BY <2>1, <2>2, <2>3, <2>4, <2>5, <2>6, <2>7, <2>8
<1>4. CASE M!Patch
  <2>1. M!TypeOK'
        BY <1>4 DEF M!TypeOK, M!CrdType, M!Crd, M!Versions, InOrder, AtCrd, M!Patch, M!Migrated
  <2>2. InOrder'
        BY <1>4 DEF InOrder, AtCrd, M!Patch
  <2>3. StorageIsStored'
        BY <1>4 DEF StorageIsStored, M!Patch
  <2>4. NotAhead'
        BY <1>4 DEF NotAhead, HasRead, M!Crd, M!Patch
  <2>5. CopyIsCurrent'
        BY <1>4 DEF CopyIsCurrent, HasRead, M!Crd, M!Patch
  <2>6. AllStored'
        BY <1>4 DEF AllStored, M!Crd, M!TypeOK, InOrder, AtCrd, M!Patch, M!Migrated
  <2>7. Done'
    <3>1. Left' = Left
          BY <1>4 DEF M!Patch, Left
    <3> QED BY <1>4, <3>1 DEF M!Patch, M!Migrated, Done, Clean, AtCrd, M!TypeOK
  <2>8. M!NothingLost'
        BY <1>4 DEF M!NothingLost, StorageIsStored, M!Patch, M!Migrated
  <2> QED BY <2>1, <2>2, <2>3, <2>4, <2>5, <2>6, <2>7, <2>8
<1>5. CASE M!Conflict
  <2>1. M!TypeOK'
        BY <1>5 DEF M!TypeOK, M!Conflict
  <2>2. InOrder'
        BY <1>5 DEF InOrder, AtCrd, M!Conflict, M!MoreAttempts
  <2>3. StorageIsStored'
        BY <1>5 DEF StorageIsStored, M!Conflict
  <2>4. NotAhead'
        BY <1>5 DEF NotAhead, HasRead, M!Crd, M!Conflict
  <2>5. CopyIsCurrent'
        BY <1>5 DEF CopyIsCurrent, HasRead, M!Crd, M!Conflict
  <2>6. AllStored'
        BY <1>5 DEF AllStored, M!Conflict
  <2>7. Done'
    <3>1. Left' = Left
          BY <1>5 DEF M!Conflict, Left
    <3> QED BY <1>5, <3>1 DEF M!Conflict, Done, Clean, AtCrd, M!TypeOK
  <2>8. M!NothingLost'
        BY <1>5 DEF M!NothingLost, M!Conflict
  <2> QED BY <2>1, <2>2, <2>3, <2>4, <2>5, <2>6, <2>7, <2>8
<1>6. CASE M!UpdateStatus
  <2>1. M!TypeOK'
    <3>1. crdsLeft' \in Seq(M!Crds)
          BY <1>6 DEF M!UpdateStatus, M!TypeOK, InOrder, AtCrd
    <3>2. crd' \in [M!Crds -> M!CrdType]
          BY <1>6 DEF M!UpdateStatus, M!TypeOK, M!CrdType
    <3>3. step' \in {"get", "ok"}
          BY <1>6 DEF M!UpdateStatus
    <3> QED BY <1>6, <3>1, <3>2, <3>3 DEF M!UpdateStatus, M!TypeOK
  <2>2. InOrder'
        BY <1>6 DEF InOrder, AtCrd, M!UpdateStatus
  <2>3. StorageIsStored'
        BY <1>6 DEF StorageIsStored, M!UpdateStatus, M!Unchanged
  <2>4. NotAhead'
        BY <1>6 DEF NotAhead, HasRead, M!UpdateStatus
  <2>5. CopyIsCurrent'
        BY <1>6 DEF CopyIsCurrent, HasRead, M!UpdateStatus
  <2>6. AllStored'
        BY <1>6 DEF AllStored, M!UpdateStatus
  <2>7. Done'
    <3>1. crdsLeft \in Seq(M!Crds) /\ crdsLeft # <<>> /\ crdsLeft' = Tail(crdsLeft)
          BY <1>6 DEF M!UpdateStatus, M!TypeOK, InOrder, AtCrd
    <3>2. ASSUME NEW c \in Left, c # M!Crd PROVE c \in Left'
      <4>1. PICK i \in DOMAIN crdsLeft : c = crdsLeft[i]
            BY DEF Left
      <4>2. i \in 1..Len(crdsLeft) /\ i # 1
            BY <3>1, <3>2, <4>1 DEF M!Crd
      <4>3. i - 1 \in DOMAIN crdsLeft' /\ crdsLeft'[i - 1] = c
            BY <3>1, <4>1, <4>2
      <4> QED BY <4>3 DEF Left
    <3>3. ASSUME NEW c \in M!Crds \ upgraded, c = M!Crd PROVE Clean(c)'
      <4>1. crd[c] = read
            BY <1>6, <3>3 DEF M!UpdateStatus, CopyIsCurrent, HasRead
      <4>2. \A r \in Resources : resource[c][r] \in {0, read.storage}
            BY <1>6, <3>3, <4>1 DEF M!UpdateStatus, AllStored
      <4>3. crd'[c].storage = read.storage /\ crd'[c].stored = {read.storage}
            BY <1>6, <3>3, <4>1 DEF M!UpdateStatus, M!OtherVersions, M!TypeOK
      <4> QED BY <1>6, <4>2, <4>3 DEF M!UpdateStatus, Clean
    <3>4. ASSUME NEW c \in M!Crds, c # M!Crd, Clean(c) PROVE Clean(c)'
          BY <1>6, <3>4 DEF M!UpdateStatus, Clean
    <3>5. step' = "ok" => Left' = {}
          BY <1>6 DEF M!UpdateStatus, Left
    <3> QED BY <1>6, <3>2, <3>3, <3>4, <3>5 DEF M!UpdateStatus, Done, AtCrd
  <2>8. M!NothingLost'
        BY <1>6 DEF M!NothingLost, AllStored, M!UpdateStatus, M!Unchanged
  <2> QED BY <2>1, <2>2, <2>3, <2>4, <2>5, <2>6, <2>7, <2>8
<1>7. CASE M!Fails
  <2>1. M!TypeOK'
        BY <1>7 DEF M!TypeOK, M!Fails
  <2>2. InOrder'
        BY <1>7 DEF InOrder, AtCrd, M!Fails
  <2>3. StorageIsStored'
        BY <1>7 DEF StorageIsStored, M!Fails
  <2>4. NotAhead'
        BY <1>7 DEF NotAhead, HasRead, M!Fails
  <2>5. CopyIsCurrent'
        BY <1>7 DEF CopyIsCurrent, HasRead, M!Fails
  <2>6. AllStored'
        BY <1>7 DEF AllStored, M!Fails
  <2>7. Done'
        BY <1>7 DEF Done, AtCrd, M!Fails
  <2>8. M!NothingLost'
        BY <1>7 DEF M!NothingLost, M!Fails
  <2> QED BY <2>1, <2>2, <2>3, <2>4, <2>5, <2>6, <2>7, <2>8
<1>8. CASE M!Again
  <2>1. M!TypeOK'
        BY <1>8 DEF M!TypeOK, M!Again
  <2>2. InOrder'
        BY <1>8 DEF InOrder, AtCrd, M!Again
  <2>3. StorageIsStored'
        BY <1>8 DEF StorageIsStored, M!Again
  <2>4. NotAhead'
        BY <1>8 DEF NotAhead, HasRead, M!Again
  <2>5. CopyIsCurrent'
        BY <1>8 DEF CopyIsCurrent, HasRead, M!Again
  <2>6. AllStored'
        BY <1>8 DEF AllStored, M!Again
  <2>7. Done'
        BY <1>8 DEF Done, AtCrd, M!Again
  <2>8. M!NothingLost'
        BY <1>8 DEF M!NothingLost, M!Again
  <2> QED BY <2>1, <2>2, <2>3, <2>4, <2>5, <2>6, <2>7, <2>8
<1>9. ASSUME NEW c \in M!Crds, M!Upgrade(c) PROVE MigrationIInv'
  <2>1. M!TypeOK'
        BY <1>9 DEF M!TypeOK, M!CrdType, M!Versions, M!Upgrade
  <2>2. InOrder'
        BY <1>9 DEF InOrder, AtCrd, M!Upgrade
  <2>3. StorageIsStored'
        BY <1>9 DEF StorageIsStored, M!Upgrade
  <2>4. NotAhead'
        BY <1>9 DEF NotAhead, HasRead, M!Crd, M!TypeOK, M!CrdType, M!Versions, M!Upgrade
  <2>5. CopyIsCurrent'
        BY <1>9 DEF CopyIsCurrent, HasRead, M!Crd, M!Upgrade
  <2>6. AllStored'
        BY <1>9 DEF AllStored, HasRead, M!Crd, M!TypeOK, M!CrdType, M!Versions, NotAhead, M!Upgrade
  <2>7. Done'
        BY <1>9 DEF Done, Left, Clean, AtCrd, M!Upgrade
  <2>8. M!NothingLost'
        BY <1>9 DEF M!NothingLost, M!Upgrade
  <2> QED BY <2>1, <2>2, <2>3, <2>4, <2>5, <2>6, <2>7, <2>8
<1>10. ASSUME NEW c \in M!Crds, NEW r \in Resources, M!Write(c, r) PROVE MigrationIInv'
  <2>1. M!TypeOK'
        BY <1>10 DEF M!TypeOK, M!CrdType, M!Versions, M!Write, M!command
  <2>2. InOrder'
        BY <1>10 DEF InOrder, AtCrd, M!Write, M!command
  <2>3. StorageIsStored'
        BY <1>10 DEF StorageIsStored, M!Write
  <2>4. NotAhead'
        BY <1>10 DEF NotAhead, HasRead, M!Crd, M!Write, M!command
  <2>5. CopyIsCurrent'
        BY <1>10 DEF CopyIsCurrent, HasRead, M!Crd, M!Write, M!command
  <2>6. AllStored'
        BY <1>10 DEF AllStored, HasRead, M!Crd, M!Write, M!command
  <2>7. Done'
        BY <1>10 DEF Done, Left, Clean, AtCrd, M!Write, M!command
  <2>8. M!NothingLost'
        BY <1>10 DEF M!NothingLost, StorageIsStored, M!Write
  <2> QED BY <2>1, <2>2, <2>3, <2>4, <2>5, <2>6, <2>7, <2>8
<1>11. ASSUME NEW c \in M!Crds, NEW r \in Resources, M!Delete(c, r) PROVE MigrationIInv'
  <2>1. M!TypeOK'
        BY <1>11 DEF M!TypeOK, M!Delete, M!command
  <2>2. InOrder'
        BY <1>11 DEF InOrder, AtCrd, M!Delete, M!command
  <2>3. StorageIsStored'
        BY <1>11 DEF StorageIsStored, M!Delete
  <2>4. NotAhead'
        BY <1>11 DEF NotAhead, HasRead, M!Crd, M!Delete, M!command
  <2>5. CopyIsCurrent'
        BY <1>11 DEF CopyIsCurrent, HasRead, M!Crd, M!Delete, M!command
  <2>6. AllStored'
        BY <1>11 DEF AllStored, M!Crd, M!Delete, M!command
  <2>7. Done'
        BY <1>11 DEF Done, Left, Clean, AtCrd, M!Delete, M!command
  <2>8. M!NothingLost'
        BY <1>11 DEF M!NothingLost, M!Delete
  <2> QED BY <2>1, <2>2, <2>3, <2>4, <2>5, <2>6, <2>7, <2>8
<1>12. CASE UNCHANGED M!vars
  <2>1. M!TypeOK'
        BY <1>12 DEF M!TypeOK, M!vars, M!command
  <2>2. InOrder'
        BY <1>12 DEF InOrder, AtCrd, M!vars, M!command
  <2>3. StorageIsStored'
        BY <1>12 DEF StorageIsStored, M!vars
  <2>4. NotAhead'
        BY <1>12 DEF NotAhead, HasRead, M!Crd, M!vars, M!command
  <2>5. CopyIsCurrent'
        BY <1>12 DEF CopyIsCurrent, HasRead, M!Crd, M!vars, M!command
  <2>6. AllStored'
        BY <1>12 DEF AllStored, M!Crd, M!vars, M!command
  <2>7. Done'
        BY <1>12 DEF Done, Left, Clean, AtCrd, M!vars, M!command
  <2>8. M!NothingLost'
        BY <1>12 DEF M!NothingLost, M!vars
  <2> QED BY <2>1, <2>2, <2>3, <2>4, <2>5, <2>6, <2>7, <2>8
<1> QED BY <1>1, <1>2, <1>3, <1>4, <1>5, <1>6, <1>7, <1>8, <1>9, <1>10, <1>11, <1>12 DEF M!Next

LEMMA MigrationInvariance == M!Spec => []MigrationIInv
<1>1. M!Init => MigrationIInv
      BY MigrationInit
<1>2. MigrationIInv /\ [M!Next]_M!vars => MigrationIInv'
      BY MigrationNext
<1> QED BY <1>1, <1>2, PTL DEF M!Spec

\* Type correctness of the cluster migrator.
THEOREM MigrationTyped == M!Spec => []M!TypeOK
<1>1. MigrationIInv => M!TypeOK
      BY DEF MigrationIInv
<1> QED BY <1>1, MigrationInvariance, PTL

\* Whatever is written, upgraded or killed meanwhile, no version in which a
\* resource is stored is dropped from the storedVersions of its CRD.
THEOREM NothingIsLost == M!Spec => []NothingLost
<1>1. MigrationIInv => NothingLost
      BY CrdsAgree DEF MigrationIInv, NothingLost, M!NothingLost
<1> QED BY <1>1, MigrationInvariance, PTL

\* A command that succeeds has migrated every CRD that was not upgraded since
\* the command was started.
THEOREM SuccessMeansMigrated == M!Spec => []MigratedOnSuccess
<1>1. MigrationIInv => MigratedOnSuccess
      BY CrdsAgree DEF MigrationIInv, Done, Clean, MigratedOnSuccess
<1> QED BY <1>1, MigrationInvariance, PTL
=============================================================================

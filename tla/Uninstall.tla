----------------------------- MODULE Uninstall ------------------------------
(***************************************************************************)
(* `flux uninstall`: the components, the finalizers of the custom          *)
(* resources, the CRDs and the namespace are removed in four stages while  *)
(* the controllers, whose pods outlive their Deployments, are still        *)
(* working.  Every call may fail: the error is logged, or for a List       *)
(* ignored, and the command goes on.                                       *)
(*                                                                         *)
(* The custom resource of each kind stands for all of them, and carries a  *)
(* finalizer that makes its controller prune what it has deployed when the *)
(* resource is deleted.  Uninstalling must not let that happen, and must   *)
(* not leave a resource whose finalizer nobody will remove.                *)
(***************************************************************************)
EXTENDS UninstallPromise, FiniteSets

\* What Components deletes, in this order.
ComponentOrder == <<"Deployment", "Service", "NetworkPolicy", "ServiceAccount",
                    "ClusterRole", "ClusterRoleBinding">>
Components == Range(ComponentOrder)

VARIABLES
    dryRun, keepNamespace,   \* the flags
    stage,     \* number of the stage, 0 before the confirmation
    idx,       \* position in the stage
    listed,    \* resource version of the listed custom resource, 0 if not listed
    exit,      \* "running", "ok" or "err"
    present,   \* the component objects that exist
    pods,      \* the kinds whose controller is running
    cr,        \* kind -> [state, finalizer, version] of the custom resource
    crd,       \* kind -> state of its CRD
    ns         \* state of the namespace

command == <<stage, idx, listed, exit, skipped>>
cluster == <<present, pods, cr, crd, ns, pruned>>
vars == <<dryRun, keepNamespace, command, cluster>>

NoResource == [state |-> "gone", finalizer |-> FALSE, version |-> 0]

Init ==
    /\ dryRun \in BOOLEAN /\ keepNamespace \in BOOLEAN
    /\ stage = 0 /\ idx = 1 /\ listed = 0 /\ exit = "running" /\ skipped = {}
    /\ present = Components
    /\ pods = Kinds
    /\ cr \in [Kinds -> {[state |-> "live", finalizer |-> TRUE, version |-> 1], NoResource}]
    /\ crd = [k \in Kinds |-> "live"]
    /\ ns = "live"
    /\ pruned = {}

----------------------------------------------------------------------------
(* The command.                                                            *)

\* Mutant of StageOrder: the components go last.
StageOrderComponentsLast == <<"finalizers", "crds", "components", "namespace">>

StageOrder == <<"components", "finalizers", "crds", "namespace">>

InStage(s) == exit = "running" /\ stage \in 1..4 /\ StageOrder[stage] = s

\* The next item of a stage of n items, or the next stage.
Advance(n) ==
    /\ IF idx < n THEN idx' = idx + 1 /\ UNCHANGED stage
                  ELSE idx' = 1 /\ stage' = stage + 1
    /\ listed' = 0
    /\ UNCHANGED exit

\* The user confirms, or has said --silent or --dry-run, and the removal starts;
\* or the cluster cannot be asked, or the user declines.
Confirm ==
    /\ exit = "running" /\ stage = 0
    /\ \/ stage' = 1 /\ UNCHANGED exit
       \/ exit' = "err" /\ UNCHANGED stage
    /\ UNCHANGED <<dryRun, keepNamespace, idx, listed, skipped, cluster>>

\* A call about x fails; the command goes on.
CallFails(what, x) ==
    /\ Cardinality(skipped) < MaxFailures
    /\ skipped' = skipped \cup {<<what, x>>}

\* Nothing is changed on the server by a call with the dry-run option.
DeleteComponent ==
    LET c == ComponentOrder[idx] IN
    /\ InStage("components")
    /\ \/ /\ present' = IF dryRun THEN present ELSE present \ {c}
          /\ UNCHANGED skipped
       \/ CallFails("component", c) /\ UNCHANGED present
    /\ Advance(Len(ComponentOrder))
    /\ UNCHANGED <<dryRun, keepNamespace, pods, cr, crd, ns, pruned>>

\* The resources of a kind are listed; when that fails, or there are none, the
\* kind is passed over without a word.
ListKind ==
    LET k == KindOrder[idx] IN
    /\ InStage("finalizers") /\ listed = 0
    /\ \/ /\ cr[k].state # "gone"
          /\ listed' = cr[k].version
          /\ UNCHANGED <<stage, idx, exit, skipped>>
       \/ /\ \/ CallFails("finalizers", k)
             \/ cr[k].state = "gone" /\ UNCHANGED skipped
          /\ Advance(Len(KindOrder))
    /\ UNCHANGED <<dryRun, keepNamespace, cluster>>

\* The API server removes a resource that is being deleted with its last
\* finalizer.
WithoutFinalizer(o) ==
    [state |-> IF o.state = "deleting" THEN "gone" ELSE o.state,
     finalizer |-> FALSE, version |-> o.version + 1]

\* The listed resource is updated without finalizers; the update fails when the
\* resource was written since, or for any other reason.
RemoveFinalizers ==
    LET k == KindOrder[idx] IN
    /\ InStage("finalizers") /\ listed # 0
    /\ \/ /\ cr[k].version = listed
          /\ cr' = IF dryRun THEN cr ELSE [cr EXCEPT ![k] = WithoutFinalizer(@)]
          /\ UNCHANGED skipped
       \/ cr[k].version = listed /\ CallFails("finalizers", k) /\ UNCHANGED cr
       \/ /\ cr[k].version # listed
          /\ skipped' = skipped \cup {<<"finalizers", k>>}
          /\ UNCHANGED cr
    /\ Advance(Len(KindOrder))
    /\ UNCHANGED <<dryRun, keepNamespace, present, pods, crd, ns, pruned>>

DeleteCrd ==
    LET k == KindOrder[idx] IN
    /\ InStage("crds")
    /\ \/ /\ crd' = IF dryRun THEN crd ELSE [crd EXCEPT ![k] = "deleting"]
          /\ UNCHANGED skipped
       \/ CallFails("crd", k) /\ UNCHANGED crd
    /\ Advance(Len(KindOrder))
    /\ UNCHANGED <<dryRun, keepNamespace, present, pods, cr, ns, pruned>>

NamespaceAfter == IF dryRun THEN ns ELSE "deleting"

DeleteNamespace ==
    /\ InStage("namespace")
    /\ \/ keepNamespace /\ UNCHANGED <<ns, skipped>>
       \/ ~keepNamespace /\ ns' = NamespaceAfter /\ UNCHANGED skipped
       \/ ~keepNamespace /\ CallFails("namespace", "") /\ UNCHANGED ns
    /\ Advance(1)
    /\ UNCHANGED <<dryRun, keepNamespace, present, pods, cr, crd, pruned>>

\* "uninstall finished", whatever happened before.
Finish ==
    /\ exit = "running" /\ stage = 5
    /\ exit' = "ok"
    /\ UNCHANGED <<dryRun, keepNamespace, stage, idx, listed, skipped, cluster>>

----------------------------------------------------------------------------
(* The controllers and Kubernetes, external.                               *)

\* The API server accepts a controller's calls.  The ClusterRole does not matter:
\* the binding of the controllers that prune is to cluster-admin.
Authorised == {"ServiceAccount", "ClusterRoleBinding"} \subseteq present

Written(o) == [state |-> o.state, finalizer |-> TRUE, version |-> o.version + 1]

\* A controller writes its resource and makes sure of the finalizer.
ControllerWrites(k) ==
    /\ k \in pods /\ Authorised
    /\ cr[k].state = "live" /\ cr[k].version <= MaxWrites
    /\ cr' = [cr EXCEPT ![k] = Written(cr[k])]
    /\ UNCHANGED <<dryRun, keepNamespace, command, present, pods, crd, ns, pruned>>

\* A deleted resource is finalized: its workloads are pruned.
ControllerFinalizes(k) ==
    /\ k \in pods /\ Authorised
    /\ cr[k].state = "deleting" /\ cr[k].finalizer
    /\ pruned' = pruned \cup {k}
    /\ cr' = [cr EXCEPT ![k] = WithoutFinalizer(@)]
    /\ UNCHANGED <<dryRun, keepNamespace, command, present, pods, crd, ns>>

\* A pod goes some time after its Deployment.
PodExits(k) ==
    /\ k \in pods /\ "Deployment" \notin present
    /\ pods' = pods \ {k}
    /\ UNCHANGED <<dryRun, keepNamespace, command, present, cr, crd, ns, pruned>>

\* Deleting a CRD deletes its resources, and waits for them to be gone.
CrdGc(k) ==
    /\ crd[k] = "deleting"
    /\ \/ /\ cr[k].state = "live"
          /\ cr' = [cr EXCEPT ![k].state = IF cr[k].finalizer THEN "deleting" ELSE "gone"]
          /\ UNCHANGED crd
       \/ cr[k].state = "gone" /\ crd' = [crd EXCEPT ![k] = "gone"] /\ UNCHANGED cr
    /\ UNCHANGED <<dryRun, keepNamespace, command, present, pods, ns, pruned>>

\* Deleting the namespace deletes what is in it.
NamespaceGc ==
    /\ ns = "deleting"
    /\ \/ /\ present \cap {"Deployment", "Service", "NetworkPolicy", "ServiceAccount"} # {}
          /\ present' = present \cap {"ClusterRole", "ClusterRoleBinding"}
          /\ UNCHANGED ns
       \/ /\ present \subseteq {"ClusterRole", "ClusterRoleBinding"}
          /\ pods = {}
          /\ ns' = "gone" /\ UNCHANGED present
    /\ UNCHANGED <<dryRun, keepNamespace, command, pods, cr, crd, pruned>>

Terminated == exit # "running" /\ UNCHANGED vars

Command == \/ Confirm \/ DeleteComponent \/ ListKind \/ RemoveFinalizers
           \/ DeleteCrd \/ DeleteNamespace \/ Finish

World(k) == \/ ControllerWrites(k) \/ ControllerFinalizes(k) \/ PodExits(k) \/ CrdGc(k)

Next == Command \/ NamespaceGc \/ Terminated \/ \E k \in Kinds : World(k)

Spec == Init /\ [][Next]_vars

\* The command does not stop by itself, and Kubernetes' controllers keep
\* collecting.  Nothing is assumed of the Flux controllers.
FairSpec ==
    /\ Spec
    /\ WF_vars(Command) /\ WF_vars(NamespaceGc)
    /\ \A k \in Kinds : WF_vars(PodExits(k)) /\ WF_vars(CrdGc(k))

----------------------------------------------------------------------------
(* Properties.                                                             *)

States == {"live", "deleting", "gone"}

\* Type invariant.
TypeOK ==
    /\ dryRun \in BOOLEAN /\ keepNamespace \in BOOLEAN
    /\ stage \in 0..5 /\ idx \in Nat \ {0} /\ listed \in Nat
    /\ exit \in {"running", "ok", "err"}
    /\ present \subseteq Components /\ pods \subseteq Kinds /\ pruned \subseteq Kinds
    /\ cr \in [Kinds -> [state : States, finalizer : BOOLEAN, version : Nat]]
    /\ crd \in [Kinds -> States] /\ ns \in States

\* A dry run leaves the cluster as it is.
DryRunHarmless ==
    dryRun => /\ present = Components /\ ns = "live"
              /\ \A k \in Kinds : crd[k] = "live" /\ (cr[k].state = "live" \/ cr[k] = NoResource)

\* When no call failed everything is gone in the end: no resource is left
\* behind whose finalizer was put back after Finalizers removed it, which would
\* keep its CRD forever.
EverythingGoes ==
    (exit = "ok" /\ skipped = {} /\ ~dryRun)
       ~> /\ \A k \in Kinds : crd[k] = "gone"
          /\ keepNamespace \/ ns = "gone"

\* Two kinds, whose resources are handled by two controllers (for TLC).
TwoKinds == <<"GitRepository", "Kustomization">>
=============================================================================

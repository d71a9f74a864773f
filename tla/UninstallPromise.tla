-------------------------- MODULE UninstallPromise --------------------------
(***************************************************************************)
(* What `flux uninstall` promises to those whose workloads Flux has        *)
(* deployed, said of what an observer of the cluster sees: the calls that  *)
(* have failed and the workloads that are gone.  How the command keeps the *)
(* promise is the business of Uninstall.                                   *)
(***************************************************************************)
EXTENDS Naturals, Sequences, Functions

CONSTANTS
    KindOrder,   \* the kinds, in the order Finalizers goes through them
    MaxWrites,   \* bound: writes of a controller to its resource
    MaxFailures  \* bound: calls of the command that fail

Kinds == Range(KindOrder)

ASSUME UninstallAssumption ==
    /\ KindOrder \in Seq(Kinds) /\ KindOrder # <<>> /\ IsInjective(KindOrder)
    /\ MaxWrites \in Nat /\ MaxFailures \in Nat

VARIABLES
    skipped,   \* history: what a call failed for
    pruned     \* the kinds whose workloads were pruned

\* Uninstalling Flux does not prune what Flux has deployed, as long as one of
\* the two objects that authorise the controllers could be deleted: pods that
\* outlive their Deployment cannot finalize the resources the deletion of the
\* CRDs deletes (order of Components and CustomResourceDefinitions).
WorkloadsKept ==
    \/ {<<"component", "ServiceAccount">>, <<"component", "ClusterRoleBinding">>} \subseteq skipped
    \/ pruned = {}
=============================================================================

--------------------------- MODULE ToolkitObject ---------------------------
(***************************************************************************)
(* One toolkit.fluxcd.io object as the flux CLI sees it through the        *)
(* Kubernetes API, and the part of its controller the CLI relies on.       *)
(*                                                                         *)
(* The object carries what the commands read and write: the generation     *)
(* (bumped by the API server on every spec change), the suspension flag,   *)
(* the reconcile.fluxcd.io/requestedAt and forceAt annotations, and the    *)
(* status: lastHandledReconcileAt, the generation the Ready condition was  *)
(* computed for, and the Ready, Reconciling and Stalled conditions.        *)
(* Timestamps are naturals numbered in the order the API server stores     *)
(* them; 0 is "no annotation".                                             *)
(*                                                                         *)
(* Kinds stand for the ways in which the CLI treats object kinds:          *)
(*   static     no reconciler (isStatic returns true)                      *)
(*   plain      suspended by spec.suspend, has status.observedGeneration   *)
(*   helm       a plain kind that also understands --force and --reset     *)
(*   requester  ArtifactGenerator: suspended by an annotation (the         *)
(*              generation does not move), no status.observedGeneration    *)
(*                                                                         *)
(* The controllers live in other repositories: their steps below are       *)
(* external, taken from what the CLI's comments and waits assume of them.  *)
(***************************************************************************)
EXTENDS Naturals

Kinds == {"static", "plain", "helm", "requester"}

ReadyStatus == {"none", "True", "False", "Unknown"}

ObjectType ==
    [ gen : Nat, suspended : BOOLEAN, request : Nat, force : Nat,
      handled : Nat, obsGen : Nat, ready : ReadyStatus,
      reconciling : BOOLEAN, stalled : BOOLEAN ]

\* The force annotation always holds the timestamp of some request.
WellFormed(o) == o \in ObjectType /\ o.force <= o.request

\* A freshly created object: generation 1, no status yet.
NewObject ==
    [ gen |-> 1, suspended |-> FALSE, request |-> 0, force |-> 0,
      handled |-> 0, obsGen |-> 0, ready |-> "none",
      reconciling |-> FALSE, stalled |-> FALSE ]

----------------------------------------------------------------------------
(* What the commands compute from an object they have read.                *)

\* kstatus.Compute: conditions decide; without status.observedGeneration the
\* generation cannot be compared.
KStatus(kind, o) ==
    IF \/ kind \in {"plain", "helm"} /\ o.obsGen # o.gen
       \/ o.reconciling
      THEN "InProgress"
    ELSE IF o.stalled THEN "Failed"
    ELSE IF o.ready \in {"False", "Unknown"} THEN "InProgress"
    ELSE "Current"

\* isRequesterCurrent: an error when suspended, otherwise whether the Ready
\* condition is for the current generation.
IsRequesterCurrent(o) ==
    IF o.suspended THEN "error" ELSE IF o.obsGen = o.gen THEN "yes" ELSE "no"

\* The switch over the computed status that ends every condition function.
StatusSwitch(kind, o) ==
    [InProgress |-> "wait", Failed |-> "error", Current |-> "done"][KStatus(kind, o)]

\* Mutant of StatusVerdict: no isRequesterCurrent.
StatusVerdictNoRequester(kind, o) == StatusSwitch(kind, o)

\* The verdict of the tail shared by both request-handled condition
\* functions: the requester check, then the kstatus switch.
StatusVerdict(kind, o) ==
    LET current == IF kind = "requester" THEN IsRequesterCurrent(o) ELSE "yes"
    IN  IF current = "error" THEN "error"
        ELSE IF current = "no" THEN "wait"
        ELSE StatusSwitch(kind, o)

\* isObjectReady for dynamic objects: never reconciled, or a Ready condition
\* that is missing or of another generation, is not ready; kstatus decides
\* the rest.  For static objects only kstatus is consulted.
IsObjectReady(kind, o) ==
    IF kind # "static" /\ (o.obsGen < 1 \/ o.ready = "none" \/ o.obsGen # o.gen)
      THEN "wait" ELSE StatusSwitch(kind, o)

----------------------------------------------------------------------------
(* Writes to the object by users and commands.                             *)

\* Mutant of Annotate: the force annotation gets a timestamp of its own.
AnnotateForceLater(kind, o, ts, withForce) ==
    [o EXCEPT !.request = ts,
              !.force = IF kind = "helm" /\ withForce THEN ts + 1 ELSE @]

\* requestReconciliation's merge patch: the request annotation and, for a
\* HelmRelease with --force, the force annotation with the same timestamp.
Annotate(kind, o, ts, withForce) ==
    [o EXCEPT !.request = ts,
              !.force = IF kind = "helm" /\ withForce THEN ts ELSE @]

\* setSuspended and setUnsuspended.  The suspension is part of the spec, and
\* so a change of it bumps the generation, for every kind but the requester.
SetSuspended(kind, o) ==
    [o EXCEPT !.suspended = TRUE,
              !.gen = IF kind = "requester" \/ o.suspended THEN @ ELSE @ + 1]

SetUnsuspended(kind, o) ==
    [o EXCEPT !.suspended = FALSE,
              !.gen = IF kind # "requester" /\ o.suspended THEN @ + 1 ELSE @]

\* Any other change of the spec by a user.
EditSpec(o) == [o EXCEPT !.gen = @ + 1]

----------------------------------------------------------------------------
(* The controller, external.                                               *)

\* Nothing to do but the periodic interval run.
Settled(o) == /\ o.request = o.handled
              /\ o.obsGen = o.gen
              /\ o.ready = "True"

\* What a run has read of the object when it starts.
RunOf(o) == [gen |-> o.gen, request |-> o.request,
             forced |-> o.force # 0 /\ o.force = o.request /\ o.request # o.handled]

RunType == [gen : Nat, request : Nat, forced : BOOLEAN]

\* A run first reports progress ...
StartRun(o) == [o EXCEPT !.reconciling = TRUE, !.ready = "Unknown"]

\* ... and at its end records the request it started with as handled.
FinishRun(o, r, ready, stalled) ==
    [o EXCEPT !.handled = r.request, !.obsGen = r.gen, !.ready = ready,
              !.reconciling = FALSE, !.stalled = stalled]

\* The ArtifactGenerator controller marks the request of a suspended object
\* handled without reconciling.
MarkHandled(o) == [o EXCEPT !.handled = o.request]
=============================================================================

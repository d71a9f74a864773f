-------------------------- MODULE ReconcileRequest --------------------------
(***************************************************************************)
(* `flux reconcile`: several invocations of the command, each annotating   *)
(* the same object with a reconcile request and polling until the request  *)
(* is handled, running against the object's controller and against users   *)
(* who edit, suspend and resume the object.                                *)
(*                                                                         *)
(* An invocation (reconcileCommand.reconcile) is three API calls:          *)
(*   Get      read the object, refuse a suspended one, remember            *)
(*            status.lastHandledReconcileAt                                *)
(*   Request  merge-patch the requestedAt annotation                       *)
(*   Poll     Get until lastHandledReconcileAt differs from the remembered *)
(*            value and kstatus is Current                                 *)
(* and everybody else may act between any two of them.                     *)
(***************************************************************************)
EXTENDS ToolkitObject

CONSTANTS
    Clients,       \* concurrent invocations of the command
    MaxRequests,   \* bound: requests stored in one behaviour
    MaxGen,        \* bound: generations of the object
    MaxInterval    \* bound: periodic runs of an already settled object

ASSUME BoundsAssumption == /\ MaxRequests \in Nat
                           /\ MaxGen \in Nat \ {0}
                           /\ MaxInterval \in Nat

VARIABLES
    kind,        \* the kind of the object, fixed
    obj,         \* the object in the API server
    active,      \* is the controller reconciling the object?
    run,         \* what the current or last run read when it started
    intervals,   \* periodic runs so far
    cl,          \* the invocations
    \* History, read by no action:
    undisturbed, \* invocations nobody interfered with (see Get and Request)
    reconciled,  \* the newest request a finished reconciliation started with
    applied,     \* the generation the last finished reconciliation applied
    forced       \* the requests whose reconciliation was forced

vars == <<kind, obj, active, run, intervals, cl, undisturbed, reconciled,
          applied, forced>>

ClientType == [pc : {"idle", "got", "polling", "ok"},
               seen : Nat, mine : Nat, force : BOOLEAN]

\* Not running: not started yet, or returned with an error (it may be run again).
IdleClient == [pc |-> "idle", seen |-> 0, mine |-> 0, force |-> FALSE]

NoRun == RunOf(NewObject)

Init ==
    /\ kind \in Kinds
    /\ obj = NewObject
    /\ active = FALSE
    /\ run = NoRun
    /\ intervals = 0
    /\ cl = [c \in Clients |-> IdleClient]
    /\ undisturbed = {}
    /\ reconciled = 0
    /\ applied = 0
    /\ forced = {}

----------------------------------------------------------------------------
(* The command.                                                            *)

Fails(c) == /\ cl' = [cl EXCEPT ![c] = IdleClient]
            /\ undisturbed' = undisturbed \ {c}

Succeeds(c) == /\ cl' = [cl EXCEPT ![c].pc = "ok"]
               /\ UNCHANGED undisturbed

\* The command is started, with or without --force, and reads the object.  When
\* the Get fails or the object is suspended it stays not running.
\* History: it is undisturbed so far when no other request is outstanding.
Get(c) ==
    /\ cl[c].pc = "idle"
    /\ \/ kind = "static" /\ Succeeds(c)
       \/ /\ kind # "static" /\ ~obj.suspended
          /\ \E f \in (IF kind = "helm" THEN BOOLEAN ELSE {FALSE}) :
                cl' = [cl EXCEPT ![c] = [pc |-> "got", seen |-> obj.handled,
                                         mine |-> 0, force |-> f]]
          /\ undisturbed' = IF obj.request = obj.handled
                            THEN undisturbed \cup {c} ELSE undisturbed \ {c}
    /\ UNCHANGED <<kind, obj, active, run, intervals, reconciled, applied, forced>>

\* requestReconciliation stores the request.
\* History: it disturbs every invocation still between its Get and its patch.
Request(c) ==
    LET ts == obj.request + 1 IN
    /\ cl[c].pc = "got"
    /\ obj.request < MaxRequests
    /\ obj' = Annotate(kind, obj, ts, cl[c].force)
    /\ cl' = [cl EXCEPT ![c].pc = "polling", ![c].mine = ts]
    /\ undisturbed' = {d \in undisturbed : d = c \/ cl[d].pc # "got"}
    /\ UNCHANGED <<kind, active, run, intervals, reconciled, applied, forced>>

\* The Get or the patch inside requestReconciliation failed.  (A patch that is
\* stored although its reply is lost is Request followed by PollAborts.)
RequestFails(c) ==
    /\ cl[c].pc = "got"
    /\ Fails(c)
    /\ UNCHANGED <<kind, obj, active, run, intervals, reconciled, applied, forced>>

\* Mutants of ReconciliationHandled: looking at the status only, and waiting
\* for exactly the request this invocation made.
ReconciliationHandledStatusOnly(o, c) == StatusVerdict(kind, o)

ReconciliationHandledExact(o, c) ==
    IF o.handled # cl[c].mine THEN "wait" ELSE StatusVerdict(kind, o)

\* reconciliationHandled: one evaluation of the condition function.
ReconciliationHandled(o, c) ==
    IF o.handled = cl[c].seen THEN "wait" ELSE StatusVerdict(kind, o)

\* One poll that ends the wait: the condition function failed, or it reported
\* true and the Ready condition of the same object decides the outcome.
Poll(c) ==
    LET verdict == ReconciliationHandled(obj, c) IN
    /\ cl[c].pc = "polling"
    /\ verdict # "wait"
    /\ IF verdict = "done" /\ obj.ready = "True" THEN Succeeds(c) ELSE Fails(c)
    /\ UNCHANGED <<kind, obj, active, run, intervals, reconciled, applied, forced>>

\* The poll's Get failed, or the context's deadline passed.
PollAborts(c) ==
    /\ cl[c].pc = "polling"
    /\ Fails(c)
    /\ UNCHANGED <<kind, obj, active, run, intervals, reconciled, applied, forced>>

\* The user runs the command again after it succeeded.
Again(c) ==
    /\ cl[c].pc = "ok"
    /\ cl' = [cl EXCEPT ![c] = IdleClient]
    /\ undisturbed' = undisturbed \ {c}
    /\ UNCHANGED <<kind, obj, active, run, intervals, reconciled, applied, forced>>

----------------------------------------------------------------------------
(* Other users of the API.                                                 *)

UserEdit ==
    /\ obj.gen < MaxGen
    /\ obj' = EditSpec(obj)
    /\ UNCHANGED <<kind, active, run, intervals, cl, undisturbed, reconciled,
                   applied, forced>>

\* History: only the requester kind has requests marked handled while
\* suspended, so only there a suspension disturbs the invocations.
UserSuspend ==
    /\ obj.gen < MaxGen
    /\ ~obj.suspended
    /\ obj' = SetSuspended(kind, obj)
    /\ undisturbed' = IF kind = "requester" THEN {} ELSE undisturbed
    /\ UNCHANGED <<kind, active, run, intervals, cl, reconciled, applied, forced>>

UserResume ==
    /\ obj.suspended
    /\ obj' = SetUnsuspended(kind, obj)
    /\ UNCHANGED <<kind, active, run, intervals, cl, undisturbed, reconciled,
                   applied, forced>>

----------------------------------------------------------------------------
(* The controller: one worker per object.                                  *)

CtrlStart ==
    /\ kind # "static" /\ ~active /\ ~obj.suspended
    /\ IF Settled(obj)
         THEN intervals < MaxInterval /\ intervals' = intervals + 1
         ELSE UNCHANGED intervals
    /\ active' = TRUE
    /\ run' = RunOf(obj)
    /\ obj' = StartRun(obj)
    /\ forced' = IF RunOf(obj).forced THEN forced \cup {obj.request} ELSE forced
    /\ UNCHANGED <<kind, cl, undisturbed, reconciled, applied>>

CtrlSucceed ==
    /\ active
    /\ active' = FALSE
    /\ run' = NoRun
    /\ obj' = FinishRun(obj, run, "True", FALSE)
    /\ reconciled' = run.request
    /\ applied' = run.gen
    /\ UNCHANGED <<kind, intervals, cl, undisturbed, forced>>

CtrlFail ==
    /\ active
    /\ active' = FALSE
    /\ run' = NoRun
    /\ \E stalled \in BOOLEAN : obj' = FinishRun(obj, run, "False", stalled)
    /\ reconciled' = run.request
    /\ UNCHANGED <<kind, intervals, cl, undisturbed, applied, forced>>

\* The controller restarts and forgets the run; the status stays as it was.
CtrlCrash ==
    /\ active
    /\ active' = FALSE
    /\ run' = NoRun
    /\ UNCHANGED <<kind, obj, intervals, cl, undisturbed, reconciled,
                   applied, forced>>

CtrlMarkHandled ==
    /\ kind = "requester" /\ ~active /\ obj.suspended
    /\ obj.request # obj.handled
    /\ obj' = MarkHandled(obj)
    /\ UNCHANGED <<kind, active, run, intervals, cl, undisturbed, reconciled,
                   applied, forced>>

Next ==
    \/ \E c \in Clients : \/ Get(c) \/ Request(c) \/ RequestFails(c)
                          \/ Poll(c) \/ PollAborts(c) \/ Again(c)
    \/ UserEdit \/ UserSuspend \/ UserResume
    \/ CtrlStart \/ CtrlSucceed \/ CtrlFail \/ CtrlCrash \/ CtrlMarkHandled

Spec == Init /\ [][Next]_vars

\* The client polls at a fixed interval, the controller's work queue serves an
\* object that needs work, and its work does not fail forever.  No fairness is
\* assumed of PollAborts, so a liveness property shown under FairSpec does not
\* rest on the command running into its own deadline.
FairSpec ==
    /\ Spec
    /\ \A c \in Clients : WF_vars(Poll(c))
    /\ WF_vars(CtrlStart)
    /\ WF_vars(CtrlMarkHandled)
    /\ SF_vars(CtrlSucceed)

----------------------------------------------------------------------------
(* Properties.                                                             *)

\* Type invariant: the object, the controller and every invocation.
TypeOK ==
    /\ kind \in Kinds
    /\ WellFormed(obj)
    /\ active \in BOOLEAN
    /\ run \in RunType
    /\ intervals \in Nat
    /\ cl \in [Clients -> ClientType]
    /\ undisturbed \subseteq Clients
    /\ reconciled \in Nat
    /\ applied \in Nat
    /\ forced \subseteq Nat

\* An invocation that reports success although nothing interfered with it has
\* really waited for its own reconciliation: a run that started after its
\* patch was stored has finished.  "Nothing interfered" means that no request
\* was outstanding when it read the object, that no other request was stored
\* between its read and its patch and, for ArtifactGenerator, that the object
\* was not suspended meanwhile.  The code relies on this when it takes "the
\* last handled request differs from the one read before" for "my request was
\* handled" (reconciliationHandled).  Without the proviso it does not hold: the
\* end of a run for somebody else's request looks the same to the command.
SuccessMeansServed ==
    \A c \in Clients :
        cl[c].pc = "ok" /\ kind # "static" /\ c \in undisturbed
            => reconciled >= cl[c].mine

\* An undisturbed `reconcile helmrelease --force` that reports success while
\* its request is still the newest one has caused a forced run: the force
\* annotation carries exactly the timestamp of the request.
ForceHonoured ==
    \A c \in Clients :
        /\ cl[c].pc = "ok" /\ cl[c].force
        /\ c \in undisturbed /\ obj.request = cl[c].mine
        => cl[c].mine \in forced

\* Whenever an invocation turns successful the object is as the command says:
\* its current generation, not an older one, was applied by a run that
\* succeeded, and it is not suspended without anybody having reconciled it
\* (isRequesterCurrent is what makes this true of ArtifactGenerator).
SuccessIsCurrent ==
    [][\A c \in Clients :
          cl[c].pc = "polling" /\ cl'[c].pc = "ok"
              => /\ obj.ready = "True"
                 /\ applied = obj.gen
                 /\ kind = "requester" => ~obj.suspended]_vars

\* The wait ends by itself, not by running into the deadline, unless somebody
\* keeps suspending the object: even an invocation whose request was
\* overwritten by a later one before the controller saw it gets its answer.
WaitConverges ==
    \A c \in Clients :
        <>[](~obj.suspended) => (cl[c].pc = "polling" ~> cl[c].pc # "polling")

\* The command as its users see it: the annotation numbers the requests, and
\* whatever generations, conditions, conflicts, crashes and other commands do, a
\* success is that of the numbered request (reconcileCommand.reconcile).
Service == INSTANCE RequestService WITH
    newest <- obj.request,
    served <- reconciled,
    asked <- [c \in Clients |-> cl[c].mine],
    stage <- [c \in Clients |-> cl[c].pc],
    clean <- undisturbed

ServesRequests == Service!Spec
=============================================================================

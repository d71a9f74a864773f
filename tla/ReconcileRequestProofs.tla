----------------------- MODULE ReconcileRequestProofs -----------------------
(***************************************************************************)
(* Proofs about ReconcileRequest, for any number of concurrent commands,   *)
(* requests, generations and periodic runs.                                *)
(*                                                                         *)
(* SuccessMeansServed is not inductive: it speaks of finished commands,    *)
(* and what makes it true is the order of the timestamps while commands    *)
(* are still waiting.  IInv adds that order (Ordered), where an            *)
(* undisturbed command stands relative to the handled request (Waiting),   *)
(* and what a Ready condition says about the last run (ReadyIsApplied).    *)
(* Forcing is the same for the force annotation, and rests on IInv.        *)
(***************************************************************************)
EXTENDS ReconcileRequest, TLAPS

\* Requests are handled in the order they were stored.
Ordered ==
    /\ reconciled <= obj.handled
    /\ obj.handled <= obj.request
    /\ active => obj.handled <= run.request /\ run.request <= obj.request

\* Nothing is outstanding for an undisturbed command before its patch; after
\* it, only a run that saw the patch can move the handled request.
Waiting ==
    \A c \in undisturbed :
        /\ cl[c].pc = "got" => /\ obj.request = cl[c].seen
                               /\ obj.handled = cl[c].seen
        /\ cl[c].pc = "polling" =>
               /\ cl[c].mine <= obj.request
               /\ obj.handled = cl[c].seen \/ reconciled >= cl[c].mine
               /\ active => run.request = cl[c].seen \/ run.request >= cl[c].mine

\* A suspended ArtifactGenerator leaves no command undisturbed.
SuspendDisturbs == kind = "requester" /\ obj.suspended => undisturbed = {}

\* A Ready condition that is True was written by the last successful run.
ReadyIsApplied == obj.ready = "True" => applied = obj.obsGen

\* Commands never wait for a static object.
NeverWaitsForStatic ==
    \A c \in Clients : cl[c].pc \in {"got", "polling"} => kind # "static"

IInv ==
    /\ TypeOK
    /\ Ordered
    /\ Waiting
    /\ SuspendDisturbs
    /\ ReadyIsApplied
    /\ NeverWaitsForStatic
    /\ SuccessMeansServed

\* As long as the request of an undisturbed --force is the newest, the force
\* annotation is about it, and a run that has read it was a forced one.
Forcing ==
    \A c \in Clients : cl[c].force =>
        /\ kind = "helm"
        /\ /\ c \in undisturbed /\ cl[c].pc \in {"polling", "ok"}
           /\ obj.request = cl[c].mine
           => /\ obj.force = cl[c].mine
              /\ obj.handled = cl[c].mine \/ (active /\ run.request = cl[c].mine)
                    => cl[c].mine \in forced

----------------------------------------------------------------------------
(* The operators on objects keep the object well-formed.                   *)

LEMMA AnnotateType ==
    ASSUME NEW o, WellFormed(o), NEW k, NEW ts \in Nat, o.request <= ts,
           NEW f \in BOOLEAN
    PROVE  WellFormed(Annotate(k, o, ts, f))
<1>1. ASSUME NEW g \in Nat, g <= ts
      PROVE  WellFormed([o EXCEPT !.request = ts, !.force = g])
      BY <1>1 DEF WellFormed, ObjectType
<1>2. o.force \in Nat /\ o.force <= ts /\ ts <= ts
      BY DEF WellFormed, ObjectType
<1>3. CASE k = "helm" /\ f
      BY <1>1, <1>2, <1>3, Zenon DEF Annotate
<1>4. CASE ~(k = "helm" /\ f)
      BY <1>1, <1>2, <1>4, Zenon DEF Annotate
<1> QED BY <1>3, <1>4

LEMMA SuspendType ==
    ASSUME NEW o, WellFormed(o), NEW k \in Kinds
    PROVE  WellFormed(SetSuspended(k, o)) /\ WellFormed(SetUnsuspended(k, o))
<1>1. ASSUME NEW b \in BOOLEAN, NEW g \in Nat
      PROVE  WellFormed([o EXCEPT !.suspended = b, !.gen = g])
      BY <1>1 DEF WellFormed, ObjectType
<1>2. o.gen \in Nat /\ o.gen + 1 \in Nat
      BY DEF WellFormed, ObjectType
<1>3. WellFormed(SetSuspended(k, o))
  <2>1. CASE k = "requester" \/ o.suspended
        BY <1>1, <1>2, <2>1, Zenon DEF SetSuspended
  <2>2. CASE ~(k = "requester" \/ o.suspended)
        BY <1>1, <1>2, <2>2, Zenon DEF SetSuspended
  <2> QED BY <2>1, <2>2
<1>4. WellFormed(SetUnsuspended(k, o))
  <2>1. CASE k # "requester" /\ o.suspended
        BY <1>1, <1>2, <2>1, Zenon DEF SetUnsuspended
  <2>2. CASE ~(k # "requester" /\ o.suspended)
        BY <1>1, <1>2, <2>2, Zenon DEF SetUnsuspended
  <2> QED BY <2>1, <2>2
<1> QED BY <1>3, <1>4

LEMMA EditSpecType ==
    ASSUME NEW o, WellFormed(o) PROVE WellFormed(EditSpec(o))
BY DEF WellFormed, ObjectType, EditSpec

LEMMA StartRunType ==
    ASSUME NEW o, WellFormed(o) PROVE WellFormed(StartRun(o))
BY DEF WellFormed, ObjectType, StartRun, ReadyStatus

LEMMA RunOfType ==
    ASSUME NEW o, WellFormed(o) PROVE RunOf(o) \in RunType
BY DEF WellFormed, ObjectType, RunType, RunOf

LEMMA FinishRunType ==
    ASSUME NEW o, WellFormed(o), NEW r \in RunType,
           NEW y \in ReadyStatus, NEW s \in BOOLEAN
    PROVE  WellFormed(FinishRun(o, r, y, s))
BY DEF WellFormed, ObjectType, FinishRun, RunType

LEMMA MarkHandledType ==
    ASSUME NEW o, WellFormed(o) PROVE WellFormed(MarkHandled(o))
BY DEF WellFormed, ObjectType, MarkHandled

LEMMA InitialValuesType ==
    WellFormed(NewObject) /\ NoRun \in RunType /\ IdleClient \in ClientType
BY RunOfType DEF WellFormed, NewObject, ObjectType, ReadyStatus, NoRun, RunOf, RunType,
                 IdleClient, ClientType

\* A wait that ends well saw the Ready condition of the current generation and,
\* for the requester kind, an object that was not suspended.
LEMMA VerdictDone ==
    ASSUME NEW o \in ObjectType, NEW k \in Kinds,
           StatusVerdict(k, o) = "done", k # "static"
    PROVE  o.obsGen = o.gen /\ (k = "requester" => ~o.suspended)
<1>1. CASE k = "requester"
      BY <1>1, Zenon DEF StatusVerdict, IsRequesterCurrent
<1>2. CASE k \in {"plain", "helm"}
      BY <1>2 DEF StatusVerdict, StatusSwitch, KStatus
<1> QED BY <1>1, <1>2 DEF Kinds

----------------------------------------------------------------------------
\* Type correctness holds initially and is preserved by every step.
LEMMA InitTypeOK == Init => TypeOK
<1> SUFFICES ASSUME Init PROVE TypeOK
    OBVIOUS
<1>1. cl \in [Clients -> ClientType]
      BY InitialValuesType DEF Init
<1> QED BY <1>1, InitialValuesType DEF Init, TypeOK

LEMMA NextTypeOK == TypeOK /\ [Next]_vars => TypeOK'
<1> SUFFICES ASSUME TypeOK, [Next]_vars PROVE TypeOK'
    OBVIOUS
<1> USE DEF TypeOK
<1>w. obj \in ObjectType
      BY DEF WellFormed
<1>1. ASSUME NEW c \in Clients, Get(c) PROVE TypeOK'
  <2>1. cl' \in [Clients -> ClientType]
    <3>1. CASE Succeeds(c)
          BY <3>1 DEF Succeeds, ClientType
    <3>2. ASSUME NEW f \in BOOLEAN,
                 cl' = [cl EXCEPT ![c] = [pc |-> "got", seen |-> obj.handled,
                                          mine |-> 0, force |-> f]]
          PROVE  cl' \in [Clients -> ClientType]
          BY <1>w, <3>2 DEF ClientType, ObjectType
    <3> QED BY <1>1, <3>1, <3>2 DEF Get
  <2>2. undisturbed' \subseteq Clients
        BY <1>1 DEF Get, Succeeds
  <2> QED BY <1>1, <2>1, <2>2 DEF Get
<1>2. ASSUME NEW c \in Clients, Request(c) PROVE TypeOK'
  <2>1. /\ obj.request + 1 \in Nat /\ obj.request <= obj.request + 1
        /\ cl[c].force \in BOOLEAN
        BY <1>w DEF ObjectType, ClientType
  <2>2. cl' \in [Clients -> ClientType]
        BY <1>2, <2>1 DEF Request, ClientType
  <2>3. WellFormed(obj')
        BY <1>2, <2>1, AnnotateType DEF Request
  <2> QED BY <1>2, <2>2, <2>3 DEF Request
<1>3. ASSUME NEW c \in Clients,
             RequestFails(c) \/ Poll(c) \/ PollAborts(c) \/ Again(c)
      PROVE TypeOK'
  <2>1. \/ cl' = [cl EXCEPT ![c] = IdleClient]
        \/ cl' = [cl EXCEPT ![c].pc = "ok"]
        BY <1>3 DEF RequestFails, Poll, PollAborts, Again, Fails, Succeeds
  <2>2. cl' \in [Clients -> ClientType]
        BY <2>1, InitialValuesType DEF ClientType
  <2>3. undisturbed' \subseteq Clients
        BY <1>3 DEF RequestFails, Poll, PollAborts, Again, Fails, Succeeds
  <2> QED BY <1>3, <2>2, <2>3 DEF RequestFails, Poll, PollAborts, Again
<1>4. CASE UserEdit
      BY <1>4, EditSpecType DEF UserEdit
<1>5. CASE UserSuspend
      BY <1>5, SuspendType DEF UserSuspend
<1>6. CASE UserResume
      BY <1>6, SuspendType DEF UserResume
<1>7. CASE CtrlStart
  <2>1. WellFormed(obj') /\ run' \in RunType
        BY <1>7, StartRunType, RunOfType DEF CtrlStart
  <2>2. forced' \subseteq Nat
        BY <1>w, <1>7 DEF CtrlStart, ObjectType
  <2> QED BY <1>7, <2>1, <2>2 DEF CtrlStart
<1>8. CASE CtrlSucceed
  <2>1. WellFormed(obj')
        BY <1>8, FinishRunType DEF CtrlSucceed, ReadyStatus
  <2> QED BY <1>8, <2>1, InitialValuesType DEF CtrlSucceed, RunType
<1>9. CASE CtrlFail
  <2>1. WellFormed(obj')
        BY <1>9, FinishRunType DEF CtrlFail, ReadyStatus
  <2> QED BY <1>9, <2>1, InitialValuesType DEF CtrlFail, RunType
<1>10. CASE CtrlCrash
      BY <1>10, InitialValuesType DEF CtrlCrash
<1>11. CASE CtrlMarkHandled
      BY <1>11, MarkHandledType DEF CtrlMarkHandled
<1>12. CASE UNCHANGED vars
      BY <1>12 DEF vars
<1> QED BY <1>1, <1>2, <1>3, <1>4, <1>5, <1>6, <1>7, <1>8, <1>9, <1>10, <1>11,
           <1>12 DEF Next

\* The facts about numbers and program counters that the steps below use.
LEMMA TypeFacts ==
    ASSUME TypeOK
    PROVE  /\ obj.request \in Nat /\ obj.handled \in Nat
           /\ run.request \in Nat /\ reconciled \in Nat
           /\ \A c \in Clients : cl[c].seen \in Nat /\ cl[c].mine \in Nat
BY DEF TypeOK, WellFormed, ObjectType, RunType, ClientType

----------------------------------------------------------------------------
\* The inductive invariant holds initially ...
LEMMA InitIInv == Init => IInv
<1> SUFFICES ASSUME Init PROVE IInv
    OBVIOUS
<1>1. TypeOK
      BY InitTypeOK
<1>2. obj.request = 0 /\ obj.handled = 0 /\ reconciled = 0 /\ active = FALSE
      BY DEF Init, NewObject
<1>3. \A c \in Clients : cl[c].pc = "idle"
      BY DEF Init, IdleClient
<1>4. undisturbed = {} /\ obj.ready = "none"
      BY DEF Init, NewObject
<1> QED BY <1>1, <1>2, <1>3, <1>4
        DEF IInv, Ordered, Waiting, SuspendDisturbs, ReadyIsApplied,
            NeverWaitsForStatic, SuccessMeansServed

\* ... and is preserved by every step.
LEMMA NextIInv == IInv /\ [Next]_vars => IInv'
<1> SUFFICES ASSUME IInv, [Next]_vars PROVE IInv'
    OBVIOUS
<1>t. TypeOK /\ TypeOK'
      BY NextTypeOK DEF IInv
<1>n. /\ obj.request \in Nat /\ obj.handled \in Nat
      /\ run.request \in Nat /\ reconciled \in Nat
      /\ \A c \in Clients : cl[c].seen \in Nat /\ cl[c].mine \in Nat
      BY <1>t, TypeFacts
<1>f. cl \in [Clients -> ClientType] /\ undisturbed \subseteq Clients
      /\ obj \in ObjectType /\ run \in RunType /\ kind \in Kinds
      BY <1>t DEF TypeOK, WellFormed
<1> USE DEF IInv, Ordered, Waiting, SuspendDisturbs, ReadyIsApplied,
            NeverWaitsForStatic, SuccessMeansServed
<1>1. ASSUME NEW c \in Clients, Get(c) PROVE IInv'
  <2>1. CASE kind = "static" /\ Succeeds(c)
    <3>1. cl[c].pc = "idle" /\ \A d \in Clients : d # c => cl'[d] = cl[d]
          BY <1>1, <1>f, <2>1 DEF Get, Succeeds
    <3>2. cl'[c].pc = "ok"
          BY <1>f, <2>1 DEF Succeeds, ClientType
    <3> QED BY <1>1, <1>t, <1>f, <2>1, <3>1, <3>2 DEF Get, Succeeds
  <2>2. CASE kind # "static" /\ cl'[c].pc = "got" /\ cl'[c].seen = obj.handled
             /\ (\A d \in Clients : d # c => cl'[d] = cl[d])
             /\ ~obj.suspended
             /\ undisturbed' = IF obj.request = obj.handled
                               THEN undisturbed \cup {c} ELSE undisturbed \ {c}
    <3>0. cl[c].pc = "idle" /\ UNCHANGED <<kind, obj, active, run, reconciled, applied>>
          BY <1>1 DEF Get
    <3> QED BY <1>t, <1>f, <2>2, <3>0
  <2>3. ASSUME NEW f,
               cl' = [cl EXCEPT ![c] = [pc |-> "got", seen |-> obj.handled,
                                        mine |-> 0, force |-> f]]
        PROVE  /\ cl'[c].pc = "got" /\ cl'[c].seen = obj.handled
               /\ \A d \in Clients : d # c => cl'[d] = cl[d]
        BY <1>f, <2>3
  <2> QED BY <1>1, <2>1, <2>2, <2>3 DEF Get
<1>2. ASSUME NEW c \in Clients, Request(c) PROVE IInv'
  <2>1. /\ cl[c].pc = "got" /\ cl'[c].pc = "polling"
        /\ cl'[c].mine = obj.request + 1 /\ cl'[c].seen = cl[c].seen
        /\ \A d \in Clients : d # c => cl'[d] = cl[d]
        BY <1>2, <1>f DEF Request, ClientType
  <2>2. /\ obj'.request = obj.request + 1 /\ obj'.handled = obj.handled
        /\ obj'.suspended = obj.suspended
        /\ obj'.ready = obj.ready /\ obj'.obsGen = obj.obsGen
        BY <1>2, <1>f DEF Request, Annotate, ObjectType
  <2>3. /\ undisturbed' = {d \in undisturbed : d = c \/ cl[d].pc # "got"}
        /\ UNCHANGED <<kind, active, run, reconciled, applied>>
        BY <1>2 DEF Request
  <2>4. Waiting'
        BY <1>n, <1>f, <2>1, <2>2, <2>3
  <2> QED BY <1>t, <1>n, <1>f, <2>1, <2>2, <2>3, <2>4
<1>3. ASSUME NEW c \in Clients, RequestFails(c) \/ PollAborts(c) \/ Again(c)
                                 \/ (Poll(c) /\ Fails(c))
      PROVE IInv'
  <2>1. /\ cl'[c].pc = "idle" /\ undisturbed' = undisturbed \ {c}
        /\ \A d \in Clients : d # c => cl'[d] = cl[d]
        BY <1>3, <1>f DEF RequestFails, PollAborts, Again, Poll, Fails, IdleClient
  <2>2. UNCHANGED <<kind, obj, active, run, reconciled, applied>>
        BY <1>3 DEF RequestFails, PollAborts, Again, Poll
  <2> QED BY <1>t, <1>f, <2>1, <2>2
<1>4. ASSUME NEW c \in Clients, Poll(c), ~Fails(c) PROVE IInv'
  <2>1. /\ cl[c].pc = "polling" /\ Succeeds(c)
        /\ obj.handled # cl[c].seen
        BY <1>4 DEF Poll, ReconciliationHandled
  <2>2. /\ cl'[c].pc = "ok" /\ cl'[c].mine = cl[c].mine
        /\ \A d \in Clients : d # c => cl'[d] = cl[d]
        BY <1>f, <2>1 DEF Succeeds, ClientType
  <2>3. UNCHANGED <<kind, obj, active, run, reconciled, applied, undisturbed>>
        BY <1>4, <2>1 DEF Poll, Succeeds
  <2>4. SuccessMeansServed'
        BY <1>n, <1>f, <2>1, <2>2, <2>3
  <2> QED BY <1>t, <1>f, <2>1, <2>2, <2>3, <2>4
<1>5. CASE UserEdit
  <2>1. /\ obj'.request = obj.request /\ obj'.handled = obj.handled
        /\ obj'.suspended = obj.suspended
        /\ obj'.ready = obj.ready /\ obj'.obsGen = obj.obsGen
        BY <1>5, <1>f DEF UserEdit, EditSpec, ObjectType
  <2> QED BY <1>5, <1>t, <2>1 DEF UserEdit
<1>6. CASE UserSuspend
  <2>1. /\ obj'.request = obj.request /\ obj'.handled = obj.handled
        /\ obj'.ready = obj.ready /\ obj'.obsGen = obj.obsGen
        BY <1>6, <1>f DEF UserSuspend, SetSuspended, ObjectType
  <2> QED BY <1>6, <1>t, <2>1 DEF UserSuspend
<1>7. CASE UserResume
  <2>1. /\ obj'.request = obj.request /\ obj'.handled = obj.handled
        /\ obj'.ready = obj.ready /\ obj'.obsGen = obj.obsGen
        /\ obj'.suspended = FALSE
        BY <1>7, <1>f DEF UserResume, SetUnsuspended, ObjectType
  <2> QED BY <1>7, <1>t, <2>1 DEF UserResume
<1>8. CASE CtrlStart
  <2>1. /\ obj'.request = obj.request /\ obj'.handled = obj.handled
        /\ obj'.suspended = obj.suspended /\ obj'.ready = "Unknown"
        BY <1>8, <1>f DEF CtrlStart, StartRun, ObjectType
  <2>2. run'.request = obj.request
        BY <1>8 DEF CtrlStart, RunOf
  <2>3. UNCHANGED <<kind, cl, undisturbed, reconciled, applied>>
        BY <1>8 DEF CtrlStart
  <2> QED BY <1>t, <1>n, <1>f, <2>1, <2>2, <2>3
<1>9. CASE CtrlSucceed \/ CtrlFail
  <2>1. /\ obj'.request = obj.request /\ obj'.handled = run.request
        /\ obj'.suspended = obj.suspended
        BY <1>9, <1>f DEF CtrlSucceed, CtrlFail, FinishRun, ObjectType
  <2>2. /\ active /\ active' = FALSE /\ reconciled' = run.request
        /\ UNCHANGED <<kind, cl, undisturbed>>
        BY <1>9 DEF CtrlSucceed, CtrlFail
  <2>3. ReadyIsApplied'
        BY <1>9, <1>f DEF CtrlSucceed, CtrlFail, FinishRun, ObjectType
  <2>4. Ordered'
        BY <1>n, <2>1, <2>2
  <2>5. Waiting'
        BY <1>n, <1>f, <2>1, <2>2
  <2>6. SuccessMeansServed'
        BY <1>n, <1>f, <2>1, <2>2
  <2> QED BY <1>t, <2>1, <2>2, <2>3, <2>4, <2>5, <2>6
<1>10. CASE CtrlCrash
      BY <1>10, <1>t DEF CtrlCrash
<1>11. CASE CtrlMarkHandled
  <2>1. /\ obj'.request = obj.request /\ obj'.handled = obj.request
        /\ obj'.suspended = obj.suspended
        /\ obj'.ready = obj.ready /\ obj'.obsGen = obj.obsGen
        BY <1>11, <1>f DEF CtrlMarkHandled, MarkHandled, ObjectType
  <2>2. undisturbed = {} /\ ~active
        BY <1>11 DEF CtrlMarkHandled
  <2>3. UNCHANGED <<kind, active, run, cl, undisturbed, reconciled, applied>>
        BY <1>11 DEF CtrlMarkHandled
  <2> QED BY <1>t, <1>n, <2>1, <2>2, <2>3
<1>12. CASE UNCHANGED vars
      BY <1>12, <1>t DEF vars
<1> QED BY <1>1, <1>2, <1>3, <1>4, <1>5, <1>6, <1>7, <1>8, <1>9, <1>10, <1>11,
           <1>12 DEF Next

----------------------------------------------------------------------------
(* What becomes of a forced request.                                       *)

\* The request of an undisturbed command is not newer than the newest.
LEMMA MineIsStored ==
    ASSUME IInv, kind # "static",
           NEW c \in undisturbed, cl[c].pc \in {"polling", "ok"}
    PROVE  cl[c].mine <= obj.request
<1>1. c \in Clients
      BY DEF IInv, TypeOK
<1>2. cl[c].mine \in Nat /\ obj.request \in Nat /\ obj.handled \in Nat /\ reconciled \in Nat
      BY <1>1, TypeFacts DEF IInv
<1> QED BY <1>1, <1>2 DEF IInv, Waiting, SuccessMeansServed, Ordered

\* Nothing a step of a command, of a user or of the controller does makes a run
\* for the newest request of an undisturbed --force an ordinary one.
LEMMA NextForcing == IInv /\ Forcing /\ [Next]_vars => Forcing'
<1> SUFFICES ASSUME IInv, Forcing, [Next]_vars PROVE Forcing'
    OBVIOUS
<1>n. /\ obj.request \in Nat /\ obj.handled \in Nat
      /\ run.request \in Nat /\ reconciled \in Nat
      /\ \A d \in Clients : cl[d].seen \in Nat /\ cl[d].mine \in Nat
      BY TypeFacts DEF IInv
<1>f. cl \in [Clients -> ClientType] /\ undisturbed \subseteq Clients
      /\ obj \in ObjectType /\ run \in RunType /\ kind \in Kinds
      BY DEF IInv, TypeOK, WellFormed
<1>1. ASSUME NEW c \in Clients, Get(c) PROVE Forcing'
  <2>1. CASE kind = "static" /\ Succeeds(c)
    <3>1. \A d \in Clients : cl'[d].force = cl[d].force
          BY <1>f, <2>1 DEF Succeeds, ClientType
    <3> QED BY <1>1, <2>1, <3>1 DEF Forcing, Get
  <2>2. ASSUME NEW f \in (IF kind = "helm" THEN BOOLEAN ELSE {FALSE}),
               cl' = [cl EXCEPT ![c] = [pc |-> "got", seen |-> obj.handled,
                                        mine |-> 0, force |-> f]],
               undisturbed' \ {c} \subseteq undisturbed
        PROVE  Forcing'
    <3>1. cl'[c].pc = "got" /\ (cl'[c].force => kind = "helm")
          BY <1>f, <2>2
    <3>2. \A d \in Clients : d # c => cl'[d] = cl[d]
          BY <1>f, <2>2
    <3> QED BY <1>1, <1>f, <2>2, <3>1, <3>2 DEF Forcing, Get
  <2> QED BY <1>1, <2>1, <2>2 DEF Get
<1>2. ASSUME NEW c \in Clients, Request(c) PROVE Forcing'
  <2>1. /\ cl[c].pc = "got" /\ cl'[c].force = cl[c].force
        /\ cl'[c].mine = obj.request + 1
        /\ \A d \in Clients : d # c => cl'[d] = cl[d]
        BY <1>2, <1>f DEF Request, ClientType
  <2>2. /\ obj'.request = obj.request + 1 /\ obj'.handled = obj.handled
        /\ kind = "helm" /\ cl[c].force => obj'.force = obj.request + 1
        BY <1>2, <1>f DEF Request, Annotate, ObjectType
  <2>3. /\ undisturbed' \subseteq undisturbed
        /\ UNCHANGED <<kind, active, run, forced>>
        BY <1>2 DEF Request
  <2>4. obj.handled <= obj.request /\ (active => run.request <= obj.request)
        BY DEF IInv, Ordered
  <2> SUFFICES ASSUME NEW d \in Clients, cl'[d].force,
                      d \in undisturbed', cl'[d].pc \in {"polling", "ok"},
                      obj'.request = cl'[d].mine
               PROVE  d = c
      BY <1>n, <2>1, <2>2, <2>3, <2>4 DEF Forcing
  <2>5. ASSUME d # c PROVE FALSE
    <3>1. cl[d] = cl'[d] /\ kind = "helm"
          BY <2>1, <2>5 DEF Forcing
    <3>2. cl[d].mine <= obj.request
          BY <2>3, <3>1, MineIsStored
    <3>3. cl[d].mine = obj.request + 1 /\ cl[d].mine \in Nat
          BY <1>n, <2>2, <3>1
    <3> QED BY <1>n, <3>2, <3>3
  <2> QED BY <2>5
<1>3. ASSUME NEW c \in Clients, RequestFails(c) \/ PollAborts(c) \/ Again(c)
                                 \/ (Poll(c) /\ Fails(c))
      PROVE Forcing'
  <2>1. /\ cl'[c].force = FALSE /\ undisturbed' = undisturbed \ {c}
        /\ \A d \in Clients : d # c => cl'[d] = cl[d]
        BY <1>3, <1>f DEF RequestFails, PollAborts, Again, Poll, Fails, IdleClient
  <2>2. UNCHANGED <<kind, obj, active, run, forced>>
        BY <1>3 DEF RequestFails, PollAborts, Again, Poll
  <2> QED BY <2>1, <2>2 DEF Forcing
<1>4. ASSUME NEW c \in Clients, Poll(c), ~Fails(c) PROVE Forcing'
  <2>1. /\ cl[c].pc = "polling" /\ Succeeds(c)
        BY <1>4 DEF Poll
  <2>2. /\ cl'[c].mine = cl[c].mine /\ cl'[c].force = cl[c].force
        /\ \A d \in Clients : d # c => cl'[d] = cl[d]
        BY <1>f, <2>1 DEF Succeeds, ClientType
  <2>3. UNCHANGED <<kind, obj, active, run, forced, undisturbed>>
        BY <1>4, <2>1 DEF Poll, Succeeds
  <2> QED BY <2>1, <2>2, <2>3 DEF Forcing
<1>5. CASE UserEdit \/ UserSuspend \/ UserResume
  <2>1. /\ obj'.request = obj.request /\ obj'.handled = obj.handled
        /\ obj'.force = obj.force
        BY <1>5, <1>f DEF UserEdit, UserSuspend, UserResume, EditSpec, SetSuspended,
                          SetUnsuspended, ObjectType
  <2>2. UNCHANGED <<kind, active, run, cl, forced>> /\ undisturbed' \subseteq undisturbed
        BY <1>5 DEF UserEdit, UserSuspend, UserResume
  <2> QED BY <2>1, <2>2 DEF Forcing
<1>6. CASE CtrlStart
  <2>1. /\ obj'.request = obj.request /\ obj'.handled = obj.handled
        /\ obj'.force = obj.force
        BY <1>6, <1>f DEF CtrlStart, StartRun, ObjectType
  <2>2. /\ forced \subseteq forced'
        /\ obj.force # 0 /\ obj.force = obj.request /\ obj.request # obj.handled
              => obj.request \in forced'
        BY <1>6 DEF CtrlStart, RunOf
  <2>3. UNCHANGED <<kind, cl, undisturbed>>
        BY <1>6 DEF CtrlStart
  <2>4. obj.handled <= obj.request
        BY DEF IInv, Ordered
  <2> QED BY <1>n, <2>1, <2>2, <2>3, <2>4 DEF Forcing
<1>7. CASE CtrlSucceed \/ CtrlFail
  <2>1. /\ obj'.request = obj.request /\ obj'.handled = run.request
        /\ obj'.force = obj.force
        BY <1>7, <1>f DEF CtrlSucceed, CtrlFail, FinishRun, ObjectType
  <2>2. active /\ ~active' /\ UNCHANGED <<kind, cl, undisturbed, forced>>
        BY <1>7 DEF CtrlSucceed, CtrlFail
  <2> QED BY <2>1, <2>2 DEF Forcing
<1>8. CASE CtrlCrash
      BY <1>8 DEF CtrlCrash, Forcing
<1>9. CASE CtrlMarkHandled
      BY <1>9 DEF CtrlMarkHandled, Forcing
<1>10. CASE UNCHANGED vars
      BY <1>10 DEF vars, Forcing
<1> QED BY <1>1, <1>2, <1>3, <1>4, <1>5, <1>6, <1>7, <1>8, <1>9, <1>10 DEF Next

----------------------------------------------------------------------------
\* The variables of `flux reconcile` always have their types.
THEOREM TypeCorrect == Spec => []TypeOK
BY InitTypeOK, NextTypeOK, PTL DEF Spec

\* An undisturbed command that reports success has waited for a run that
\* started after its own request was stored, however many commands, users and
\* controller restarts are interleaved with it.
THEOREM ServedOnSuccess == Spec => []SuccessMeansServed
<1>1. IInv => SuccessMeansServed
      BY DEF IInv
<1> QED BY InitIInv, NextIInv, <1>1, PTL DEF Spec

\* When an undisturbed `reconcile helmrelease --force` reports success and its
\* request is still the newest, a forced run has been made for that request.
THEOREM ForceIsHonoured == Spec => []ForceHonoured
<1>1. Init => Forcing
      BY DEF Init, Forcing, IdleClient
<1>2. IInv /\ Forcing => ForceHonoured
  <2> SUFFICES ASSUME IInv, Forcing, NEW c \in Clients,
                      cl[c].pc = "ok", cl[c].force, c \in undisturbed,
                      obj.request = cl[c].mine
               PROVE  cl[c].mine \in forced
      BY DEF ForceHonoured
  <2>1. kind = "helm" /\ (obj.handled = cl[c].mine => cl[c].mine \in forced)
        BY DEF Forcing
  <2>2. reconciled >= cl[c].mine /\ reconciled <= obj.handled /\ obj.handled <= obj.request
        BY <2>1 DEF IInv, SuccessMeansServed, Ordered
  <2>3. /\ obj.request \in Nat /\ obj.handled \in Nat /\ reconciled \in Nat
        BY TypeFacts DEF IInv
  <2> QED BY <2>1, <2>2, <2>3
<1> QED BY InitIInv, NextIInv, <1>1, NextForcing, <1>2, PTL DEF Spec

\* A command turns successful only on an object whose current generation the
\* last successful run applied.
THEOREM CurrentOnSuccess == Spec => SuccessIsCurrent
<1> DEFINE Step == \A c \in Clients :
          cl[c].pc = "polling" /\ cl'[c].pc = "ok"
              => /\ obj.ready = "True"
                 /\ applied = obj.gen
                 /\ kind = "requester" => ~obj.suspended
<1>1. IInv /\ [Next]_vars => [Step]_vars
  <2> SUFFICES ASSUME IInv, Next, NEW c \in Clients,
                      cl[c].pc = "polling", cl'[c].pc = "ok"
               PROVE  /\ obj.ready = "True" /\ applied = obj.gen
                      /\ kind = "requester" => ~obj.suspended
      BY DEF vars
  <2>0. cl \in [Clients -> ClientType] /\ obj \in ObjectType /\ kind \in Kinds
        /\ kind # "static"
        BY DEF IInv, TypeOK, WellFormed, NeverWaitsForStatic
  <2>1. Poll(c) /\ ~Fails(c)
    <3>1. cl' # cl
          BY <2>0
    <3>2. PICK d \in Clients : Get(d) \/ Request(d) \/ RequestFails(d)
                               \/ Poll(d) \/ PollAborts(d) \/ Again(d)
          BY <3>1 DEF Next, UserEdit, UserSuspend, UserResume, CtrlStart,
                      CtrlSucceed, CtrlFail, CtrlCrash, CtrlMarkHandled
    <3>3. d = c
          BY <2>0, <3>2 DEF Get, Request, RequestFails, Poll, PollAborts, Again,
                            Fails, Succeeds, ClientType
    <3>4. ~Fails(c)
          BY <2>0 DEF Fails, IdleClient
    <3> QED BY <3>2, <3>3, <3>4 DEF Get, Request, RequestFails, PollAborts, Again
  <2>2. StatusVerdict(kind, obj) = "done" /\ obj.ready = "True"
        BY <2>1 DEF Poll, ReconciliationHandled
  <2>3. obj.obsGen = obj.gen /\ (kind = "requester" => ~obj.suspended)
        BY <2>0, <2>2, VerdictDone
  <2> QED BY <2>2, <2>3 DEF IInv, ReadyIsApplied
<1> QED BY InitIInv, NextIInv, <1>1, PTL DEF Spec, SuccessIsCurrent

----------------------------------------------------------------------------
(* `flux reconcile` implements RequestService: initial states are initial  *)
(* states of the service, and every step is one of the service or leaves   *)
(* it as it is.  IInv is what makes a successful poll an Answer and the    *)
(* end of a run a Serve.                                                   *)

\* Between two invocations a client has no request.
IdleAsksNothing == \A c \in Clients : cl[c].pc = "idle" => cl[c].mine = 0

asks == [c \in Clients |-> cl[c].mine]
stages == [c \in Clients |-> cl[c].pc]

LEMMA InitIdle == Init => IdleAsksNothing
BY DEF Init, IdleAsksNothing, IdleClient

LEMMA NextIdle == TypeOK /\ IdleAsksNothing /\ [Next]_vars => IdleAsksNothing'
<1> SUFFICES ASSUME TypeOK, IdleAsksNothing, [Next]_vars PROVE IdleAsksNothing'
    OBVIOUS
<1>f. cl \in [Clients -> ClientType]
      BY DEF TypeOK
<1>1. ASSUME NEW c \in Clients, NEW d \in Clients, cl'[d].pc = "idle",
             Get(c) \/ Request(c) \/ RequestFails(c) \/ Poll(c) \/ PollAborts(c) \/ Again(c)
      PROVE  cl'[d].mine = 0
  <2>1. PICK r \in ClientType : /\ cl' = [cl EXCEPT ![c] = r]
                                /\ r = IdleClient \/ r.pc # "idle"
    <3>1. CASE RequestFails(c) \/ PollAborts(c) \/ Again(c) \/ Fails(c)
          BY <3>1, InitialValuesType DEF RequestFails, PollAborts, Again, Fails
    <3>2. CASE Succeeds(c)
      <4>1. cl' = [cl EXCEPT ![c] = [cl[c] EXCEPT !.pc = "ok"]]
            BY <1>f, <3>2 DEF Succeeds
      <4>2. [cl[c] EXCEPT !.pc = "ok"] \in ClientType
            BY <1>f DEF ClientType
      <4> QED BY <1>f, <4>1, <4>2 DEF ClientType
    <3>3. CASE Request(c)
      <4>1. cl' = [cl EXCEPT ![c] = [cl[c] EXCEPT !.pc = "polling", !.mine = obj.request + 1]]
            BY <1>f, <3>3 DEF Request
      <4>2. obj.request + 1 \in Nat /\ cl[c] \in ClientType
            BY <1>f, TypeFacts
      <4>3. [cl[c] EXCEPT !.pc = "polling", !.mine = obj.request + 1] \in ClientType
            BY <4>2 DEF ClientType
      <4> QED BY <4>1, <4>2, <4>3 DEF ClientType
    <3>4. ASSUME NEW f \in BOOLEAN, cl' = [cl EXCEPT ![c] = [pc |-> "got", seen |-> obj.handled,
                                                            mine |-> 0, force |-> f]]
          PROVE  \E r \in ClientType : /\ cl' = [cl EXCEPT ![c] = r]
                                       /\ r = IdleClient \/ r.pc # "idle"
      <4>1. [pc |-> "got", seen |-> obj.handled, mine |-> 0, force |-> f] \in ClientType
            BY TypeFacts DEF ClientType
      <4> QED BY <3>4, <4>1
    <3> QED BY <1>1, <3>1, <3>2, <3>3, <3>4 DEF Get, Poll
  <2>2. cl'[d] = cl[d] \/ cl'[d] = IdleClient
        BY <1>f, <1>1, <2>1
  <2> QED BY <1>1, <2>2 DEF IdleAsksNothing, IdleClient
<1>2. ASSUME cl' = cl PROVE IdleAsksNothing'
      BY <1>2 DEF IdleAsksNothing
<1> QED BY <1>1, <1>2 DEF Next, IdleAsksNothing, UserEdit, UserSuspend, UserResume, CtrlStart,
                         CtrlSucceed, CtrlFail, CtrlCrash, CtrlMarkHandled, vars

----------------------------------------------------------------------------
\* A change of one client is a change of what it asks and of its stage.
LEMMA OneClient ==
    ASSUME NEW c \in Clients, NEW r, cl' = [cl EXCEPT ![c] = r], cl \in [Clients -> ClientType]
    PROVE  /\ asks' = [asks EXCEPT ![c] = r.mine]
           /\ stages' = [stages EXCEPT ![c] = r.pc]
BY DEF asks, stages

LEMMA InitService == Init => Service!Init
BY DEF Init, Service!Init, NewObject, IdleClient

LEMMA NextService ==
    IInv /\ IdleAsksNothing /\ [Next]_vars => [Service!Next]_(Service!vars)
<1> SUFFICES ASSUME IInv, IdleAsksNothing, [Next]_vars
             PROVE  Service!Next \/ UNCHANGED Service!vars
    BY DEF Service!vars
<1>t. TypeOK /\ obj \in ObjectType /\ cl \in [Clients -> ClientType] /\ undisturbed \subseteq Clients
      BY DEF IInv, TypeOK, WellFormed
<1>n. /\ obj.request \in Nat /\ obj.handled \in Nat /\ run.request \in Nat /\ reconciled \in Nat
      /\ \A c \in Clients : cl[c].seen \in Nat /\ cl[c].mine \in Nat
      BY <1>t, TypeFacts
<1>a. \A c \in Clients : asks[c] = cl[c].mine /\ stages[c] = cl[c].pc
      BY DEF asks, stages
<1>s. ASSUME obj'.request = obj.request, UNCHANGED <<reconciled, cl>>, undisturbed' \subseteq undisturbed
      PROVE  Service!Next
      BY <1>s DEF Service!Next, Service!Interfere
<1>r. ASSUME NEW c \in Clients, Fails(c), UNCHANGED <<obj, reconciled>>
      PROVE  Service!Next
  <2>1. Service!Reset(c)
        BY <1>r, <1>t, OneClient DEF Service!Reset, Fails, IdleClient, asks, stages
  <2> QED BY <2>1 DEF Service!Next
<1>k. ASSUME NEW c \in Clients, Succeeds(c), UNCHANGED <<obj, reconciled>>,
             cl[c].pc = "polling" \/ (cl[c].pc = "idle" /\ cl[c].mine = 0),
             c \in undisturbed => reconciled >= cl[c].mine
      PROVE  Service!Next
  <2>1. cl' = [cl EXCEPT ![c] = [cl[c] EXCEPT !.pc = "ok"]]
        BY <1>k, <1>t DEF Succeeds
  <2>2. asks' = asks /\ stages' = [stages EXCEPT ![c] = "ok"]
        BY <1>t, <2>1 DEF asks, stages, ClientType
  <2>3. Service!Answer(c)
        BY <1>k, <1>a, <2>2 DEF Service!Answer, Succeeds, asks, stages
  <2> QED BY <2>3 DEF Service!Next
<1>1. ASSUME NEW c \in Clients, Get(c) PROVE Service!Next
  <2>1. CASE kind = "static" /\ Succeeds(c)
        BY <1>1, <1>k, <1>n, <2>1 DEF Get, IdleAsksNothing
  <2>2. CASE kind # "static"
    <3>1. PICK f \in BOOLEAN :
             cl' = [cl EXCEPT ![c] = [pc |-> "got", seen |-> obj.handled, mine |-> 0, force |-> f]]
          BY <1>1, <2>2 DEF Get
    <3>2. asks' = [asks EXCEPT ![c] = 0] /\ stages' = [stages EXCEPT ![c] = "got"]
      <4> DEFINE r == [pc |-> "got", seen |-> obj.handled, mine |-> 0, force |-> f]
      <4>1. r.pc = "got" /\ r.mine = 0
            OBVIOUS
      <4>2. cl' = [cl EXCEPT ![c] = r]
            BY <3>1
      <4> HIDE DEF r
      <4>3. asks' = [asks EXCEPT ![c] = r.mine] /\ stages' = [stages EXCEPT ![c] = r.pc]
            BY <1>t, <4>2, OneClient
      <4> QED BY <4>1, <4>3, Zenon
    <3>3. Service!Begin(c)
          BY <1>1, <1>a, <2>2, <3>2 DEF Get, Service!Begin, asks, stages
    <3> QED BY <3>3 DEF Service!Next
  <2> QED BY <1>1, <2>1, <2>2 DEF Get
<1>2. ASSUME NEW c \in Clients, Request(c) PROVE Service!Next
  <2>1. cl' = [cl EXCEPT ![c] = [cl[c] EXCEPT !.pc = "polling", !.mine = obj.request + 1]]
        BY <1>2, <1>t DEF Request
  <2>2. asks' = [asks EXCEPT ![c] = obj.request + 1] /\ stages' = [stages EXCEPT ![c] = "polling"]
    <3> DEFINE r == [cl[c] EXCEPT !.pc = "polling", !.mine = obj.request + 1]
    <3>1. r.pc = "polling" /\ r.mine = obj.request + 1
          BY <1>t DEF ClientType
    <3>2. cl' = [cl EXCEPT ![c] = r]
          BY <2>1
    <3> HIDE DEF r
    <3>3. asks' = [asks EXCEPT ![c] = r.mine] /\ stages' = [stages EXCEPT ![c] = r.pc]
          BY <1>t, <3>2, OneClient
    <3> QED BY <3>1, <3>3, Zenon
  <2>3. obj'.request = obj.request + 1
        BY <1>2, <1>t DEF Request, Annotate, ObjectType
  <2>4. Service!Ask(c)
        BY <1>2, <1>a, <2>2, <2>3 DEF Request, Service!Ask, asks, stages
  <2> QED BY <2>4 DEF Service!Next
<1>3. ASSUME NEW c \in Clients, RequestFails(c) \/ PollAborts(c) \/ Again(c) PROVE Service!Next
      BY <1>3, <1>r DEF RequestFails, PollAborts, Again, Fails
<1>4. ASSUME NEW c \in Clients, Poll(c) PROVE Service!Next
  <2>1. CASE Fails(c)
        BY <1>4, <1>r, <2>1 DEF Poll
  <2>2. CASE Succeeds(c)
    <3>1. cl[c].pc = "polling" /\ obj.handled # cl[c].seen
          BY <1>4 DEF Poll, ReconciliationHandled
    <3>2. c \in undisturbed => reconciled >= cl[c].mine
          BY <3>1 DEF IInv, Waiting
    <3> QED BY <1>4, <1>k, <2>2, <3>1, <3>2 DEF Poll
  <2> QED BY <1>4, <2>1, <2>2 DEF Poll
<1>5. ASSUME CtrlSucceed \/ CtrlFail PROVE Service!Next
  <2>1. /\ obj'.request = obj.request /\ reconciled' = run.request
        /\ UNCHANGED <<cl, undisturbed>>
        BY <1>5, <1>t DEF CtrlSucceed, CtrlFail, FinishRun, ObjectType
  <2>2. reconciled <= run.request /\ run.request <= obj.request
    <3>1. active
          BY <1>5 DEF CtrlSucceed, CtrlFail
    <3> QED BY <1>n, <3>1 DEF IInv, Ordered
  <2>3. Service!Serve
        BY <1>n, <2>1, <2>2 DEF Service!Serve
  <2> QED BY <2>3 DEF Service!Next
<1>6. CASE UserEdit
      BY <1>6, <1>s, <1>t DEF UserEdit, EditSpec, ObjectType
<1>7. CASE UserSuspend
      BY <1>7, <1>s, <1>t DEF UserSuspend, SetSuspended, ObjectType
<1>8. CASE UserResume
      BY <1>8, <1>s, <1>t DEF UserResume, SetUnsuspended, ObjectType
<1>9. CASE CtrlStart
      BY <1>9, <1>s, <1>t DEF CtrlStart, StartRun, ObjectType
<1>10. CASE CtrlCrash
      BY <1>10, <1>s DEF CtrlCrash
<1>11. CASE CtrlMarkHandled
      BY <1>11, <1>s, <1>t DEF CtrlMarkHandled, MarkHandled, ObjectType
<1>12. CASE UNCHANGED vars
      BY <1>12, <1>s DEF vars
<1> QED BY <1>1, <1>2, <1>3, <1>4, <1>5, <1>6, <1>7, <1>8, <1>9, <1>10, <1>11, <1>12 DEF Next

\* The command implements the service: whatever generations, conditions and
\* conflicts it goes through, and however many commands, users and controller
\* restarts are interleaved, requests are numbered, served in order, and answered
\* with success only when served (or when somebody interfered).
THEOREM ImplementsService == Spec => ServesRequests
<1>1. IInv /\ TypeOK /\ IdleAsksNothing /\ [Next]_vars => IdleAsksNothing'
      BY NextIdle
<1>2. IInv => TypeOK
      BY DEF IInv
<1> QED BY InitIInv, NextIInv, InitIdle, InitService, NextService, <1>1, <1>2, PTL
        DEF Spec, ServesRequests, Service!Spec
=============================================================================

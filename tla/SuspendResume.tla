--------------------------- MODULE SuspendResume ----------------------------
(***************************************************************************)
(* `flux suspend` and `flux resume` on several objects of one kind.        *)
(*                                                                         *)
(* Both commands List the object of each name in turn, change the decoded  *)
(* list item and merge-patch the difference; resume then waits for all the *)
(* objects at once, one goroutine each.  Two things are modelled that the  *)
(* source does not spell out (external):                                   *)
(*   - a merge patch carries only what differs from the item as decoded;   *)
(*   - decoding a list response into a list that already has items reuses  *)
(*     their memory: fields absent from the response keep the values of    *)
(*     the item decoded there before (names.go: "fields from a previous    *)
(*     Get"), and pointers into the list see the new item.  An empty       *)
(*     response leaves a new, empty list.                                  *)
(* The memory is an array of arrays: the last one is the current list.     *)
(***************************************************************************)
EXTENDS ToolkitObject, Sequences, FiniteSets, SequencesExt

CONSTANTS
    Objects,     \* the objects of the namespace
    Missing,     \* names that no object has
    CommandLines,  \* bound: the names given, without duplicates; <<>> is --all
    MaxGen,      \* bound: generations of an object
    MaxForeign   \* bound: suspensions and requests by other users

All == "--all"

ASSUME NamesAssumption == /\ Objects \cap Missing = {} /\ All \notin Objects \cup Missing
                          /\ IsFiniteSet(Objects)
                          /\ \A s \in CommandLines : /\ s \in Seq(Objects \cup Missing)
                                                     /\ IsInjective(s)
                          /\ MaxGen \in Nat /\ MaxForeign \in Nat

VARIABLES
    kind,      \* the kind of the objects
    obj,       \* the objects in the API server
    active,    \* objects the controller is reconciling
    run,       \* what each run read when it started
    clock,     \* the last timestamp issued
    foreign,   \* changes by other users so far
    \* The command:
    cmd,       \* "suspend" or "resume"
    args,      \* the names given; empty with --all
    wait,      \* resume: shouldReconcile
    todo,      \* unique names left; with --all one pseudo name
    listed,    \* items of the current list still to be patched
    heap,      \* decoded items
    waiters,   \* resumables: pointer, what it waits for, and its result
    exit,      \* "running", "ok" or "err"
    \* History:
    touched,   \* objects the command has patched or believes to have patched
    disturbed, \* objects changed by others since they were listed
    applied,   \* generation applied by the last successful run
    served     \* newest request a finished run started with

ctrlVars == <<active, run, applied, served>>
cmdVars == <<cmd, args, wait, todo, listed, heap, waiters, exit, touched>>
vars == <<kind, obj, clock, foreign, disturbed, ctrlVars, cmdVars>>

\* A decoded item: what the commands use of it.
Item(n) == [name |-> n, suspended |-> obj[n].suspended, request |-> obj[n].request]

\* Decoding into memory that holds old: absent fields keep their values.
Decode(old, new) ==
    [name |-> new.name, suspended |-> new.suspended \/ old.suspended,
     request |-> IF new.request = 0 THEN old.request ELSE new.request]

Unset == [name |-> "", suspended |-> FALSE, request |-> 0]

Init ==
    /\ kind \in {"static", "plain", "requester"}
    /\ obj \in [Objects -> {SetSuspended(kind, NewObject), NewObject}]
    /\ active = {}
    /\ run = [n \in Objects |-> RunOf(NewObject)]
    /\ clock = 0 /\ foreign = 0
    /\ cmd \in {"suspend", "resume"}
    /\ args \in CommandLines
    /\ wait \in IF cmd = "resume" THEN BOOLEAN ELSE {FALSE}
    /\ todo = IF args = <<>> THEN <<All>> ELSE args
    /\ listed = <<>>
    /\ heap = << <<>> >>
    /\ waiters = <<>>
    /\ exit = "running"
    /\ touched = {} /\ disturbed = {}
    /\ applied = [n \in Objects |-> 0]
    /\ served = [n \in Objects |-> 0]

----------------------------------------------------------------------------
(* The command.                                                            *)

Busy == exit = "running" /\ waiters = <<>>

\* What the API server returns for the next name.
Matching == IF Head(todo) = All THEN SetToSeq(Objects)
            ELSE IF Head(todo) \in Objects THEN <<Head(todo)>> ELSE <<>>

\* List decodes the response into the current list.  A name without object is
\* logged and skipped; only `suspend --all` without objects is an error.
List ==
    LET found == Matching
        old == Last(heap) IN
    /\ Busy /\ todo # <<>> /\ listed = <<>>
    /\ heap' = IF found = <<>> THEN Append(heap, <<>>)
               ELSE LET new == [i \in 1..Len(found) |->
                                  Decode(IF i <= Len(old) THEN old[i] ELSE Unset,
                                         Item(found[i]))]
                    IN  IF Len(found) <= Len(old)
                        THEN [heap EXCEPT ![Len(heap)] = new]
                        ELSE Append(heap, new)
    /\ listed' = [i \in 1..Len(found) |-> i]
    /\ todo' = IF found = <<>> THEN Tail(todo) ELSE todo
    /\ exit' = IF found = <<>> /\ Head(todo) = All /\ cmd = "suspend" THEN "err" ELSE exit
    /\ disturbed' = disturbed \ Range(found)
    /\ UNCHANGED <<kind, obj, clock, foreign, ctrlVars,
                   cmd, args, wait, waiters, touched>>

\* Mutant of CallFails: resume goes on as well.
CallFailsGoesOn ==
    /\ Busy /\ todo # <<>>
    /\ todo' = Tail(todo) /\ listed' = <<>>
    /\ UNCHANGED <<kind, obj, clock, foreign, disturbed, ctrlVars,
                   cmd, args, wait, heap, waiters, exit, touched>>

\* A failing List, or patch, ends resume and `suspend --all` with an error;
\* suspend logs it and goes on with the next name.
CallFails ==
    /\ Busy /\ todo # <<>>
    /\ IF cmd = "resume" \/ Head(todo) = All
         THEN exit' = "err" /\ UNCHANGED <<todo, listed>>
         ELSE todo' = Tail(todo) /\ listed' = <<>> /\ UNCHANGED exit
    /\ UNCHANGED <<kind, obj, clock, foreign, disturbed, ctrlVars,
                   cmd, args, wait, heap, waiters, touched>>

\* setUnsuspended of the object on the server, as far as the patch carries it:
\* for ArtifactGenerator it also requests a reconciliation.
ResumePatch(o, base, ts) ==
    LET u == IF base.suspended THEN SetUnsuspended(kind, o) ELSE o
    IN  IF kind = "requester" THEN [u EXCEPT !.request = ts] ELSE u

\* Mutant of SuspendPatch: the base of the patch is copied after the change.
SuspendPatchEmpty(o, base) == o

SuspendPatch(o, base) == IF base.suspended THEN o ELSE SetSuspended(kind, o)

\* The next item is changed and the difference patched; the response is decoded
\* into the item again.
Patch ==
    LET i == Head(listed)
        base == Last(heap)[i]
        n == base.name
        ts == clock + 1
        sent == IF cmd = "suspend" THEN [base EXCEPT !.suspended = TRUE]
                ELSE [base EXCEPT !.suspended = FALSE,
                        !.request = IF kind = "requester" THEN ts ELSE @] IN
    /\ Busy /\ listed # <<>>
    /\ obj' = [obj EXCEPT ![n] = IF cmd = "suspend" THEN SuspendPatch(@, base)
                                 ELSE ResumePatch(@, base, ts)]
    /\ clock' = IF cmd = "resume" /\ kind = "requester" THEN ts ELSE clock
    /\ heap' = [heap EXCEPT ![Len(heap)][i] =
                   Decode(sent, [name |-> n, suspended |-> obj'[n].suspended,
                                 request |-> obj'[n].request])]
    /\ listed' = Tail(listed)
    /\ todo' = IF Len(listed) = 1 THEN Tail(todo) ELSE todo
    /\ touched' = touched \cup {[name |-> n, ptr |-> <<Len(heap), i>>]}
    /\ UNCHANGED <<kind, foreign, disturbed, ctrlVars, cmd, args, wait, waiters, exit>>

\* All names are patched.  Without --wait the command is done; with it, every
\* resumable gets a goroutine that waits for the object its pointer shows.
StartWaiting ==
    /\ Busy /\ todo = <<>>
    /\ IF ~wait \/ touched = {}
         THEN exit' = "ok" /\ UNCHANGED waiters
         ELSE /\ waiters' = LET ps == SetToSeq(touched) IN
                   [k \in 1..Len(ps) |->
                      LET it == heap[ps[k].ptr[1]][ps[k].ptr[2]] IN
                      [name |-> it.name, ts |-> it.request, res |-> "wait"]]
              /\ UNCHANGED exit
    /\ UNCHANGED <<kind, obj, clock, foreign, disturbed, ctrlVars,
                   cmd, args, wait, todo, listed, heap, touched>>

\* Mutants of ResumeVerdict: readiness by kstatus alone, and the comparison of
\* reconciliationHandled, which is against a value read before the request.
ResumeVerdictKstatus(w) == StatusSwitch(kind, obj[w.name])

ResumeVerdictChanged(w) ==
    IF kind = "requester"
    THEN IF obj[w.name].handled = w.ts THEN "wait" ELSE StatusVerdict(kind, obj[w.name])
    ELSE IsObjectReady(kind, obj[w.name])

\* The condition function of a waiter: the exact request handled for
\* ArtifactGenerator, readiness of the object for the other kinds.
ResumeVerdict(w) ==
    IF kind = "requester"
    THEN IF obj[w.name].handled # w.ts THEN "wait" ELSE StatusVerdict(kind, obj[w.name])
    ELSE IsObjectReady(kind, obj[w.name])

Poll(k) ==
    LET v == ResumeVerdict(waiters[k]) IN
    /\ exit = "running" /\ waiters[k].res = "wait" /\ v # "wait"
    /\ waiters' = [waiters EXCEPT ![k].res = IF v = "done" THEN "ok" ELSE "err"]
    /\ UNCHANGED <<kind, obj, clock, foreign, disturbed, ctrlVars,
                   cmd, args, wait, todo, listed, heap, exit, touched>>

\* The poll's Get failed, or the deadline shared by all waiters passed.
PollAborts(k) ==
    /\ exit = "running" /\ waiters[k].res = "wait"
    /\ waiters' = [waiters EXCEPT ![k].res = "err"]
    /\ UNCHANGED <<kind, obj, clock, foreign, disturbed, ctrlVars,
                   cmd, args, wait, todo, listed, heap, exit, touched>>

\* All goroutines are done: failedCount decides.
Finish ==
    /\ exit = "running" /\ waiters # <<>>
    /\ \A k \in DOMAIN waiters : waiters[k].res # "wait"
    /\ exit' = IF \E k \in DOMAIN waiters : waiters[k].res = "err" THEN "err" ELSE "ok"
    /\ UNCHANGED <<kind, obj, clock, foreign, disturbed, ctrlVars,
                   cmd, args, wait, todo, listed, heap, waiters, touched>>

----------------------------------------------------------------------------
(* Everybody else.                                                         *)

\* Another user suspends or resumes an object, or requests its reconciliation.
Foreign(n) ==
    /\ foreign < MaxForeign
    /\ foreign' = foreign + 1
    /\ \/ /\ obj[n].gen < MaxGen
          /\ obj' = [obj EXCEPT ![n] = IF obj[n].suspended THEN SetUnsuspended(kind, @)
                                       ELSE SetSuspended(kind, @)]
          /\ UNCHANGED clock
       \/ /\ kind # "static"
          /\ clock' = clock + 1
          /\ obj' = [obj EXCEPT ![n].request = clock + 1]
    /\ disturbed' = disturbed \cup {n}
    /\ UNCHANGED <<kind, ctrlVars, cmdVars>>

\* An object that is suspended, or has nothing to do, is not reconciled.
CtrlStart(n) ==
    /\ kind # "static" /\ n \notin active
    /\ ~obj[n].suspended /\ ~Settled(obj[n])
    /\ active' = active \cup {n}
    /\ run' = [run EXCEPT ![n] = RunOf(obj[n])]
    /\ obj' = [obj EXCEPT ![n] = StartRun(@)]
    /\ UNCHANGED <<kind, clock, foreign, disturbed, applied, served, cmdVars>>

CtrlSucceed(n) ==
    /\ n \in active
    /\ active' = active \ {n}
    /\ obj' = [obj EXCEPT ![n] = FinishRun(@, run[n], "True", FALSE)]
    /\ run' = [run EXCEPT ![n] = RunOf(NewObject)]
    /\ applied' = [applied EXCEPT ![n] = run[n].gen]
    /\ served' = [served EXCEPT ![n] = run[n].request]
    /\ UNCHANGED <<kind, clock, foreign, disturbed, cmdVars>>

CtrlFail(n) ==
    /\ n \in active
    /\ active' = active \ {n}
    /\ \E stalled \in BOOLEAN :
          obj' = [obj EXCEPT ![n] = FinishRun(@, run[n], "False", stalled)]
    /\ run' = [run EXCEPT ![n] = RunOf(NewObject)]
    /\ served' = [served EXCEPT ![n] = run[n].request]
    /\ UNCHANGED <<kind, clock, foreign, disturbed, applied, cmdVars>>

CtrlMarkHandled(n) ==
    /\ kind = "requester" /\ n \notin active /\ obj[n].suspended
    /\ obj[n].request # obj[n].handled
    /\ obj' = [obj EXCEPT ![n] = MarkHandled(@)]
    /\ UNCHANGED <<kind, clock, foreign, disturbed, ctrlVars, cmdVars>>

Command == \/ List \/ CallFails \/ Patch \/ StartWaiting \/ Finish
           \/ \E k \in DOMAIN waiters : Poll(k) \/ PollAborts(k)

Controller(n) == CtrlStart(n) \/ CtrlSucceed(n) \/ CtrlFail(n) \/ CtrlMarkHandled(n)

\* The command has returned; the rest of the world goes on.
Terminated == exit # "running" /\ UNCHANGED vars

Next == Command \/ Terminated \/ \E n \in Objects : Foreign(n) \/ Controller(n)

Spec == Init /\ [][Next]_vars

\* As for `flux reconcile`: polls are repeated, controllers work and succeed in
\* the end.  Nothing is assumed of deadlines.
FairSpec ==
    /\ Spec
    /\ WF_vars(List) /\ WF_vars(Patch) /\ WF_vars(StartWaiting) /\ WF_vars(Finish)
    /\ \A k \in 1..Cardinality(Objects) : WF_vars(k \in DOMAIN waiters /\ Poll(k))
    /\ \A n \in Objects : /\ WF_vars(CtrlStart(n)) /\ WF_vars(CtrlMarkHandled(n))
                          /\ SF_vars(CtrlSucceed(n))

----------------------------------------------------------------------------
(* Properties.                                                             *)

ItemType == [name : Objects, suspended : BOOLEAN, request : Nat]
WaiterType == [name : Objects, ts : Nat, res : {"wait", "ok", "err"}]

\* Type invariant; requests are never from the future.
TypeOK ==
    /\ kind \in {"static", "plain", "requester"} /\ cmd \in {"suspend", "resume"}
    /\ obj \in [Objects -> ObjectType] /\ run \in [Objects -> RunType]
    /\ clock \in Nat /\ foreign \in Nat
    /\ \A n \in Objects : WellFormed(obj[n]) /\ obj[n].request <= clock
    /\ active \subseteq Objects /\ disturbed \subseteq Objects
    /\ applied \in [Objects -> Nat] /\ served \in [Objects -> Nat]
    /\ args \in CommandLines /\ wait \in BOOLEAN /\ (wait => cmd = "resume")
    /\ todo \in Seq(Objects \cup Missing \cup {All}) /\ listed \in Seq(Nat)
    /\ heap \in Seq(Seq(ItemType)) /\ heap # <<>>
    /\ touched \subseteq [name : Objects, ptr : Nat \X Nat]
    /\ waiters \in Seq(WaiterType)
    /\ exit \in {"running", "ok", "err"}

\* The names on the command line that exist; all of them with --all.
Wanted == IF args = <<>> THEN Objects ELSE Range(args) \cap Objects

TouchedNames == {t.name : t \in touched}

\* No object but the wanted ones is changed, and a command that succeeds has
\* gone through all of them (suspend also succeeds when some call failed).
CoversWanted ==
    /\ TypeOK
    /\ TouchedNames \subseteq Wanted
    /\ exit = "ok" /\ cmd = "resume" => TouchedNames = Wanted

\* A waiter that succeeds leaves an object that is really resumed: the
\* generation it has now, the one of the resumption or a later one, was
\* applied, and for the kinds with a controller it is not suspended.  For
\* spec.suspend this hangs on the generation checks of isObjectReady, for
\* ArtifactGenerator on isRequesterCurrent.  When nobody else has changed such
\* an ArtifactGenerator, the run that was waited for started with the request of
\* this resumption.
ResumedIsReconciled ==
    [][\A k \in DOMAIN waiters :
          LET n == waiters[k].name IN
          /\ waiters[k].res = "wait" /\ waiters'[k].res = "ok"
          /\ kind # "static"
          => /\ ~obj[n].suspended /\ applied[n] = obj[n].gen
             /\ kind = "requester" /\ n \notin disturbed
                => served[n] >= waiters[k].ts]_vars

\* An object reported as suspended is suspended until somebody resumes it.
SuspendSuspends ==
    cmd = "suspend" => \A n \in TouchedNames \ disturbed : obj[n].suspended

\* What SuspendSuspends becomes when at most one of the names exists.
SuspendOneSuspends ==
    cmd = "suspend" /\ (args = <<>> \/ Cardinality(Wanted) <= 1)
        => \A n \in TouchedNames \ disturbed : obj[n].suspended

\* The waits end by themselves when nobody else interferes: also for
\* ArtifactGenerator, where clearing the suspension triggers nothing and only
\* the request made with it does.
WaitersConverge == (waiters # <<>>) ~> (exit # "running" \/ foreign > 0)

\* None, one or two of two objects and a name that no object has (for TLC).  Any
\* other command line is one of these with the objects exchanged.
TwoNames == {<<>>, <<"a">>, <<"gone">>, <<"a", "b">>, <<"a", "gone">>, <<"gone", "a">>}
=============================================================================

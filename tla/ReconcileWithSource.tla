------------------------- MODULE ReconcileWithSource ------------------------
(***************************************************************************)
(* One invocation of `flux reconcile <kind> a b c --with-source`: the      *)
(* names are reconciled one after the other, each after its source, and    *)
(* the source of a HelmRelease may be a HelmChart that has a source of its *)
(* own.  The invocation shares two things between those reconciliations:   *)
(* the namespace every lookup uses (a global of the command line, switched *)
(* to the source's namespace and back) and the results of the sources      *)
(* reconciled so far.                                                      *)
(*                                                                         *)
(* A single request-and-wait (module ReconcileRequest) is abstracted here  *)
(* to its outcomes.  The nested calls are a stack of frames.               *)
(***************************************************************************)
EXTENDS Integers, Sequences, SequencesExt

CONSTANTS
    Objects,    \* the objects of the cluster, records [kind, ns, name]
    SpecOf,     \* what their specs say of their source (see the getSource
                \* operators below)
    StaticRefs, \* the objects without a reconciler (isStatic)
    CmdNs,      \* the namespace of the invocation
    NamesOf,    \* kind -> names a user may pass for that kind
    MaxArgs     \* bound: names on one command line

Refs == [kind : STRING, ns : STRING, name : STRING]

\* The kinds with a --with-source flag; a chart template refers to its
\* HelmChart, or to an OCIRepository.
ASSUME ClusterAssumption ==
    /\ Objects \subseteq Refs
    /\ SpecOf \in [Objects -> [by : STRING, sourceRef : Refs]]
    /\ \A o \in Objects : o.kind = "HelmRelease" /\ SpecOf[o].by = "chart"
          => SpecOf[o].sourceRef.kind \in {"HelmChart", "OCIRepository"}
    /\ StaticRefs \subseteq {o \in Objects : o.kind = "HelmRepository"}
    /\ CmdNs \in STRING
    /\ DOMAIN NamesOf = {"Kustomization", "HelmRelease", "HelmChart"}
    /\ \A k \in DOMAIN NamesOf : k \in STRING /\ NamesOf[k] \subseteq STRING
    /\ MaxArgs \in Nat

VARIABLES
    kind,       \* the kind given on the command line
    withSource, \* --with-source
    args,       \* the unique names
    todo,       \* the names left
    stack,      \* active calls, innermost last
    ret,        \* result of the call that has just returned, or "none"
    ns,         \* *kubeconfigArgs.Namespace
    sources,    \* the sourceResults map: reference -> result
    exit,       \* "running", "ok" or "err"
    \* History:
    requests,   \* object -> times this invocation annotated it
    succeeded,  \* objects whose reconciliation this invocation saw succeed
    reported    \* name -> what the user was told

vars == <<kind, withSource, args, todo, stack, ret, ns, sources, exit,
          requests, succeeded, reported>>

Ref(k, n, nm) == [kind |-> k, ns |-> n, name |-> nm]

NoRef == Ref("", "", "")

None == [cmd |-> "nil", ref |-> NoRef]

----------------------------------------------------------------------------
(* getSource of the three kinds: which command reconciles the source (nil  *)
(* when the kind of the source has none) and the reference to it.  An      *)
(* empty namespace in a reference stays empty here.                        *)

PlainOrNil(k, kinds) == IF k \in kinds THEN "plain" ELSE "nil"

KustomizationSource(o) ==
    LET s == SpecOf[o].sourceRef IN
    [cmd |-> PlainOrNil(s.kind, {"OCIRepository", "GitRepository", "Bucket"}), ref |-> s]

HelmChartSource(o) ==
    LET s == SpecOf[o].sourceRef IN
    [cmd |-> PlainOrNil(s.kind, {"HelmRepository", "GitRepository", "Bucket"}),
     ref |-> [s EXCEPT !.ns = o.ns]]

\* A HelmRelease names its chart by chartRef or by a chart template, or not
\* at all.
HelmReleaseSource(o) ==
    LET spec == SpecOf[o] IN
    CASE spec.by = "chartRef" ->
           [cmd |-> IF spec.sourceRef.kind = "HelmChart" THEN "chart"
                    ELSE PlainOrNil(spec.sourceRef.kind, {"OCIRepository"}),
            ref |-> IF spec.sourceRef.ns = "" THEN [spec.sourceRef EXCEPT !.ns = o.ns]
                    ELSE spec.sourceRef]
      [] spec.by = "chart" ->
           [cmd |-> IF spec.sourceRef.kind = "OCIRepository" THEN "plain" ELSE "chart",
            ref |-> spec.sourceRef]
      [] OTHER -> None

GetSource(o) ==
    CASE o.kind = "Kustomization" -> KustomizationSource(o)
      [] o.kind = "HelmChart"     -> HelmChartSource(o)
      [] o.kind = "HelmRelease"   -> HelmReleaseSource(o)

----------------------------------------------------------------------------
Top == stack[Len(stack)]

\* A call of reconcile for an object of kind k.  cmd says which command it is:
\* "plain" has no source, "parent" follows --with-source, "chart" is a
\* HelmChart reconciled as somebody's source, with force set.
Frame(cmd, k, nm) == [cmd |-> cmd, kind |-> k, name |-> nm, pc |-> "get",
                      obj |-> NoRef, src |-> NoRef, saved |-> "", late |-> FALSE]

SetTop(f) == stack' = [stack EXCEPT ![Len(stack)] = f]

Goto(pc) == SetTop([Top EXCEPT !.pc = pc])

Return(res) == stack' = Front(stack) /\ ret' = res

\* Mutant of UnwrapGetError: the get error stays one.
UnwrapGetErrorNot(res) == res

\* unwrapGetError: a get error of a source is not a get error of its parent.
UnwrapGetError(res) == IF res = "getNotFound" THEN "err" ELSE res

----------------------------------------------------------------------------
\* uniqueNames: u holds each of the names once, in the order in which they
\* first occur.
UniqueNames(u, names) ==
    /\ IsInjective(u) /\ Range(u) = Range(names)
    /\ \A i, j \in DOMAIN u : i < j =>
          \E k \in DOMAIN names : names[k] = u[i] /\ \A l \in 1..k : names[l] # u[j]

CommandLines(k) == UNION {[1..n -> NamesOf[k]] : n \in 1..MaxArgs}

Init ==
    /\ kind \in DOMAIN NamesOf
    /\ withSource \in BOOLEAN
    /\ args \in CommandLines(kind)
    /\ \E line \in CommandLines(kind) : UniqueNames(args, line)
    /\ todo = args
    /\ stack = <<>>
    /\ ret = "none"
    /\ ns = CmdNs
    /\ sources = <<>>
    /\ exit = "running"
    /\ requests = [o \in Objects |-> 0]
    /\ succeeded = {}
    /\ reported = <<>>

\* reconcileNames starts the next name.
NextName ==
    /\ stack = <<>> /\ ret = "none" /\ todo # <<>>
    /\ stack' = <<Frame("parent", kind, Head(todo))>>
    /\ UNCHANGED <<kind, withSource, args, todo, ret, ns, sources, exit,
                   requests, succeeded, reported>>

\* The object is looked up in the current namespace.  A missing object is a get
\* error; a failing API call is an error too (GetFound).
GetMissing ==
    /\ stack # <<>> /\ ret = "none" /\ Top.pc = "get"
    /\ Ref(Top.kind, ns, Top.name) \notin Objects
    /\ Return("getNotFound")
    /\ UNCHANGED <<kind, withSource, args, todo, ns, sources, exit, requests,
                   succeeded, reported>>

\* The object is found; it may be suspended, and the call may fail instead.
GetFound ==
    LET o == Ref(Top.kind, ns, Top.name) IN
    /\ stack # <<>> /\ ret = "none" /\ Top.pc = "get"
    /\ o \in Objects
    /\ \/ Return("err")
       \/ Top.cmd = "plain" /\ o \in StaticRefs /\ Return("ok")
       \/ /\ ~(Top.cmd = "plain" /\ o \in StaticRefs)
          /\ SetTop([Top EXCEPT !.obj = o,
                       !.pc = IF \/ Top.cmd = "parent" /\ withSource
                                 \/ Top.cmd = "chart"
                              THEN "source" ELSE "request"])
          /\ UNCHANGED ret
    /\ UNCHANGED <<kind, withSource, args, todo, ns, sources, exit, requests,
                   succeeded, reported>>

\* The reference with an empty namespace replaced by the current one.
Resolved(ref) == IF ref.ns = "" THEN [ref EXCEPT !.ns = ns] ELSE ref

\* Mutant of SourceKey: the reference as written in the spec.
SourceKeyAsWritten(ref) == ref

\* The key under which the result of a source is recorded.
SourceKey(ref) == Resolved(ref)

\* The source is of a kind that cannot be reconciled.
SourceUnsupported ==
    /\ stack # <<>> /\ ret = "none" /\ Top.pc = "source"
    /\ GetSource(Top.obj).cmd = "nil"
    /\ Return("err")
    /\ UNCHANGED <<kind, withSource, args, todo, ns, sources, exit, requests,
                   succeeded, reported>>

\* Mutant of SourceDone: a recorded failure of the source is ignored.
SourceDoneIgnoringError ==
    /\ stack # <<>> /\ ret = "none" /\ Top.pc = "source"
    /\ GetSource(Top.obj).cmd # "nil"
    /\ SourceKey(GetSource(Top.obj).ref) \in DOMAIN sources
    /\ Goto("request")
    /\ UNCHANGED <<kind, withSource, args, todo, ret, ns, sources, exit, requests,
                   succeeded, reported>>

\* The source was reconciled before in this invocation.
SourceDone ==
    LET key == SourceKey(GetSource(Top.obj).ref) IN
    /\ stack # <<>> /\ ret = "none" /\ Top.pc = "source"
    /\ GetSource(Top.obj).cmd # "nil"
    /\ key \in DOMAIN sources
    /\ \/ sources[key] = "ok" /\ Goto("request") /\ UNCHANGED ret
       \/ sources[key] # "ok" /\ Return(sources[key])
    /\ UNCHANGED <<kind, withSource, args, todo, ns, sources, exit, requests,
                   succeeded, reported>>

\* The source is reconciled, in its own namespace.
SourceStart ==
    LET s == GetSource(Top.obj)
        key == SourceKey(s.ref) IN
    /\ stack # <<>> /\ ret = "none" /\ Top.pc = "source"
    /\ s.cmd # "nil" /\ key \notin DOMAIN sources
    /\ ns' = Resolved(s.ref).ns
    /\ stack' = Append([stack EXCEPT ![Len(stack)] =
                           [Top EXCEPT !.pc = "waitSource", !.src = key, !.saved = ns]],
                       Frame(s.cmd, IF s.cmd = "chart" THEN "HelmChart" ELSE key.kind,
                             key.name))
    /\ UNCHANGED <<kind, withSource, args, todo, ret, sources, exit, requests,
                   succeeded, reported>>

\* Mutant of RestoredNs: the namespace is restored on success only.
RestoredNsOnSuccess(res) == IF res = "ok" THEN Top.saved ELSE ns

\* The namespace after a source has been reconciled with result res.
RestoredNs(res) == Top.saved

\* The reconciliation of the source has returned: the namespace is restored and
\* the result recorded.  The parent's own deadline has been running all along
\* and may have passed by now.
SourceReturned ==
    LET res == UnwrapGetError(ret) IN
    /\ stack # <<>> /\ ret # "none" /\ Top.pc = "waitSource"
    /\ ns' = RestoredNs(res)
    /\ sources' = [k \in DOMAIN sources \cup {Top.src} |->
                      IF k = Top.src THEN res ELSE sources[k]]
    /\ IF res = "ok"
         THEN /\ \E late \in BOOLEAN : SetTop([Top EXCEPT !.pc = "request", !.late = late])
              /\ ret' = "none"
         ELSE Return(res)
    /\ UNCHANGED <<kind, withSource, args, todo, exit, requests, succeeded, reported>>

\* requestReconciliation: fails when the deadline has passed, and may fail.
Annotate ==
    /\ stack # <<>> /\ ret = "none" /\ Top.pc = "request"
    /\ \/ Return("err") /\ UNCHANGED requests
       \/ /\ ~Top.late
          /\ requests' = [requests EXCEPT ![Top.obj] = @ + 1]
          /\ Goto("poll") /\ UNCHANGED ret
    /\ UNCHANGED <<kind, withSource, args, todo, ns, sources, exit, succeeded, reported>>

\* The wait for the reconciliation ends.
Waited ==
    /\ stack # <<>> /\ ret = "none" /\ Top.pc = "poll"
    /\ \/ Return("ok") /\ succeeded' = succeeded \cup {Top.obj}
       \/ Return("err") /\ UNCHANGED succeeded
    /\ UNCHANGED <<kind, withSource, args, todo, ns, sources, exit, requests, reported>>

\* reconcileNames records the result of a name: a get error that is NotFound is
\* reported as "not found", unless it is the only name, whose error is returned
\* as it is.
NameReturned ==
    /\ stack = <<>> /\ ret # "none"
    /\ reported' = Append(reported, IF Len(args) = 1 THEN UnwrapGetError(ret) ELSE ret)
    /\ todo' = Tail(todo)
    /\ ret' = "none"
    /\ UNCHANGED <<kind, withSource, args, stack, ns, sources, exit, requests, succeeded>>

\* Mutant of ExitCode: the result of the last name.
ExitCodeLast == IF Last(reported) = "ok" THEN "ok" ELSE "err"

ExitCode == IF \A i \in DOMAIN reported : reported[i] = "ok" THEN "ok" ELSE "err"

\* All names are done.
Exit ==
    /\ stack = <<>> /\ ret = "none" /\ todo = <<>> /\ exit = "running"
    /\ exit' = ExitCode
    /\ UNCHANGED <<kind, withSource, args, todo, stack, ret, ns, sources,
                   requests, succeeded, reported>>

Terminated == exit # "running" /\ UNCHANGED vars

Next == \/ NextName \/ GetMissing \/ GetFound
        \/ SourceUnsupported \/ SourceDone \/ SourceStart \/ SourceReturned
        \/ Annotate \/ Waited \/ NameReturned \/ Exit \/ Terminated

Spec == Init /\ [][Next]_vars /\ WF_vars(Next)

----------------------------------------------------------------------------
(* Properties.                                                             *)

Frames ==
    [cmd : {"plain", "parent", "chart"}, kind : STRING, name : STRING,
     pc : {"get", "source", "waitSource", "request", "poll"},
     obj : Refs \cup {NoRef}, src : Refs \cup {NoRef}, saved : STRING \cup {""},
     late : BOOLEAN]

Results == {"ok", "err", "getNotFound"}

\* Type invariant of an invocation; the calls nest at most three deep.
TypeOK ==
    /\ kind \in DOMAIN NamesOf /\ withSource \in BOOLEAN
    /\ args \in Seq(NamesOf[kind]) /\ reported \in Seq(Results)
    /\ Len(reported) <= Len(args)
    /\ todo = SubSeq(args, Len(reported) + 1, Len(args))
    /\ stack \in Seq(Frames) /\ Len(stack) <= 3
    /\ \A i \in DOMAIN stack : stack[i].pc = "get" \/ stack[i].obj \in Objects
    /\ ret \in Results \cup {"none"}
    /\ ns \in STRING
    /\ DOMAIN sources \subseteq Refs
    /\ \A key \in DOMAIN sources : sources[key] \in {"ok", "err"}
    /\ exit \in {"running", "ok", "err"}
    /\ requests \in [Objects -> Nat]
    /\ succeeded \subseteq Objects

\* The objects the user means: the named ones, and with --with-source their
\* sources, down to the source of a HelmRelease's chart.  An omitted namespace
\* is the referring object's own.
SourceOf(o) == LET r == GetSource(o).ref IN IF r.ns = "" THEN [r EXCEPT !.ns = o.ns] ELSE r

HasSource(o) == o \in Objects /\ o.kind \in DOMAIN NamesOf /\ GetSource(o).cmd # "nil"

Named == {Ref(kind, CmdNs, args[i]) : i \in DOMAIN args}

SourcesOf(S) == {SourceOf(o) : o \in {x \in S : HasSource(x)}}

Charts == {o \in SourcesOf(Named) : o.kind = "HelmChart"}

Intended == Named \cup (IF withSource THEN SourcesOf(Named) \cup SourcesOf(Charts) ELSE {})

\* Every object is annotated at most once by one invocation, a source shared by
\* several objects directly or through a HelmChart included (what sourceResults
\* is for): a source named with and without its namespace is one source.
EachObjectOnce == \A o \in Objects : requests[o] <= 1

\* An object whose source is to be reconciled is annotated only after that
\* source was reconciled successfully (or needs no reconciliation), also when
\* the result is the recorded one of an earlier name.
SourceBeforeObject ==
    \A o \in Objects :
        /\ requests[o] > 0
        /\ withSource /\ HasSource(o) /\ (o \in Named \/ o \in Charts)
        => SourceOf(o) \in succeeded \cup StaticRefs

\* Sources come first and no object comes twice, in every well-typed state of
\* the recursion through the adapters (reconcile_with_source.go, sourceResults).
InTurn == TypeOK /\ EachObjectOnce /\ SourceBeforeObject

\* Only the objects the user means are ever annotated: no failure of a source
\* in another namespace makes a later name be looked up there.
OnlyIntended == \A o \in Objects : requests[o] > 0 => o \in Intended

\* A name is reported as not found only if it is that object which does not
\* exist, not its source.
NotFoundIsOwn ==
    \A i \in DOMAIN reported :
        reported[i] = "getNotFound" => Ref(kind, CmdNs, args[i]) \notin Objects

\* The invocation exits successfully only if every named object was reconciled.
ExitHonest == exit = "ok" => Named \subseteq succeeded

\* What the invocation tells about its names is true: the error of each, and
\* the exit code over all of them (reconcileNames).
ToldTruly == NotFoundIsOwn /\ ExitHonest
=============================================================================

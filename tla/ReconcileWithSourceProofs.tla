---------------------- MODULE ReconcileWithSourceProofs ----------------------
(***************************************************************************)
(* Proofs about ReconcileWithSource, for any cluster, any names and any    *)
(* number of them on the command line.                                     *)
(*                                                                         *)
(* Each call on the stack is about one object, its subject, although       *)
(* neither its name nor its kind says so: the namespace is a global.  The  *)
(* invariant says which subject that is, that the global is the subject's  *)
(* namespace whenever a call reads it (Nesting), what the results returned *)
(* and recorded mean (Meant), and which objects have been annotated        *)
(* (Accounted, Fresh).                                                     *)
(***************************************************************************)
EXTENDS ReconcileWithSource, SequenceTheorems, TLAPS

\* The object a call is about: the current name's, or the source the call
\* below waits for.
NamedAt(j) == Ref(kind, CmdNs, args[j])

Current == NamedAt(Len(reported) + 1)

Subject(i) == IF i = 1 THEN Current ELSE stack[i - 1].src

\* A call that reconciles the source of its subject first.
Asks(i) == (i = 1 /\ withSource) \/ stack[i].cmd = "chart"

\* What the call at position i of the stack is doing, and for which object.
CallOK(i) ==
    /\ stack[i].cmd = "parent" <=> i = 1
    /\ stack[i].cmd = "chart" => i = 2
    /\ i # 1 => (stack[i].cmd = "chart" <=> Subject(i).kind = "HelmChart")
    /\ stack[i].kind = Subject(i).kind /\ stack[i].name = Subject(i).name
    /\ stack[i].pc # "get" => stack[i].obj = Subject(i)
    /\ stack[i].pc \in {"source", "waitSource"} => Asks(i)
    /\ stack[i].pc = "waitSource" =>
          /\ stack[i].saved = Subject(i).ns
          /\ stack[i].src = SourceOf(Subject(i))
          /\ GetSource(Subject(i)).cmd # "nil"
    /\ stack[i].pc = "waitSource" <=> (i < Len(stack) \/ ret # "none")

Busy == stack # <<>> \/ ret # "none"

Nesting ==
    /\ IsInjective(args)
    /\ Busy => Len(reported) < Len(args)
    /\ \A i \in 1..Len(stack) : CallOK(i)
    /\ stack = <<>> => ns = CmdNs
    /\ stack # <<>> /\ ret = "none" => ns = Subject(Len(stack)).ns

\* An object needs nothing more before it can be somebody's source.
Usable(o) == o \in succeeded \cup StaticRefs

\* What a result says of the object it is about, returned, recorded or reported.
Meant ==
    /\ stack # <<>> /\ ret = "ok" => Usable(Top.src)
    /\ stack = <<>> /\ ret = "ok" => Current \in succeeded
    /\ stack = <<>> /\ ret = "getNotFound" => Current \notin Objects
    /\ \A key \in DOMAIN sources :
          key.kind # kind /\ (sources[key] = "ok" => Usable(key))
    /\ \A j \in 1..Len(reported) :
          /\ reported[j] = "ok" => NamedAt(j) \in succeeded
          /\ reported[j] = "getNotFound" => NamedAt(j) \notin Objects
    /\ \A i \in 1..Len(stack) :
          Asks(i) /\ stack[i].pc \in {"request", "poll"} => Usable(SourceOf(Subject(i)))

\* An annotated object is a name's or a source's, done with or being waited
\* for; a call that has not annotated its subject is the first to do so.
Accounted ==
    \A o \in Objects : requests[o] > 0 =>
        \/ o \in DOMAIN sources
        \/ \E i \in 1..Len(stack) : stack[i].pc = "waitSource" /\ stack[i].src = o
        \/ Busy /\ o = Current
        \/ \E j \in 1..Len(reported) : o = NamedAt(j)

Fresh ==
    \A i \in 1..Len(stack) :
        stack[i].pc # "poll" /\ Subject(i) \in Objects => requests[Subject(i)] = 0

IInv == /\ TypeOK /\ Nesting /\ Meant /\ Accounted /\ Fresh
        /\ EachObjectOnce /\ SourceBeforeObject /\ OnlyIntended /\ ExitHonest

----------------------------------------------------------------------------
(* What the code's adapters return (getSource), as far as the proofs need. *)

PlainKinds == {"OCIRepository", "GitRepository", "Bucket", "HelmRepository"}

\* The source of an object that has one: a chart only for a HelmRelease, and
\* otherwise of a kind without a source of its own.
LEMMA SourceFacts ==
    ASSUME NEW o \in Objects, o.kind \in DOMAIN NamesOf, GetSource(o).cmd # "nil"
    PROVE  /\ GetSource(o).ref \in Refs /\ SourceOf(o) \in Refs
           /\ SourceOf(o).kind = GetSource(o).ref.kind
           /\ SourceOf(o).kind \in PlainKinds \cup {"HelmChart"}
           /\ GetSource(o).cmd \in {"plain", "chart"}
           /\ GetSource(o).cmd = "chart" <=> SourceOf(o).kind = "HelmChart"
           /\ SourceOf(o).kind = "HelmChart" => o.kind = "HelmRelease"
           /\ HasSource(o)
<1> DEFINE spec == SpecOf[o]
           r == spec.sourceRef
<1>1. o \in Refs /\ spec \in [by : STRING, sourceRef : Refs]
  BY ClusterAssumption
<1>2. r \in Refs /\ r.kind \in STRING /\ r.ns \in STRING /\ o.ns \in STRING
  BY <1>1 DEF Refs
<1>3. /\ [r EXCEPT !.ns = o.ns] \in Refs
      /\ [r EXCEPT !.ns = o.ns].kind = r.kind
  BY <1>2 DEF Refs
<1> HIDE DEF r
<1>4. /\ GetSource(o).ref \in Refs /\ GetSource(o).ref.kind = r.kind
      /\ r.kind \in PlainKinds \cup {"HelmChart"}
      /\ GetSource(o).cmd \in {"plain", "chart"}
      /\ GetSource(o).cmd = "chart" <=> r.kind = "HelmChart"
      /\ r.kind = "HelmChart" => o.kind = "HelmRelease"
  <2>1. CASE o.kind = "Kustomization"
    <3>1. GetSource(o) = KustomizationSource(o)
      BY <2>1 DEF GetSource
    <3>2. GetSource(o).cmd = PlainOrNil(r.kind, {"OCIRepository", "GitRepository", "Bucket"})
      BY <3>1 DEF KustomizationSource, r
    <3>3. GetSource(o).ref = r
      BY <3>1 DEF KustomizationSource, r
    <3> QED
      BY <2>1, <3>2, <3>3, <1>2 DEF PlainOrNil, PlainKinds
  <2>2. CASE o.kind = "HelmChart"
    <3>1. GetSource(o) = HelmChartSource(o)
      BY <2>2 DEF GetSource
    <3>2. GetSource(o).cmd = PlainOrNil(r.kind, {"HelmRepository", "GitRepository", "Bucket"})
      BY <3>1 DEF HelmChartSource, r
    <3>3. GetSource(o).ref = [r EXCEPT !.ns = o.ns]
      BY <3>1 DEF HelmChartSource, r
    <3> QED
      BY <2>2, <3>2, <3>3, <1>2, <1>3 DEF PlainOrNil, PlainKinds
  <2>3. CASE o.kind = "HelmRelease"
    <3>1. GetSource(o) = HelmReleaseSource(o)
      BY <2>3 DEF GetSource
    <3>2. CASE spec.by = "chartRef"
      <4> DEFINE x == IF r.ns = "" THEN [r EXCEPT !.ns = o.ns] ELSE r
                 c == IF r.kind = "HelmChart" THEN "chart"
                      ELSE PlainOrNil(r.kind, {"OCIRepository"})
      <4>1. GetSource(o) = [cmd |-> c, ref |-> x]
        BY <3>1, <3>2 DEF HelmReleaseSource, r
      <4>2. x \in Refs /\ x.kind = r.kind
        BY <1>2, <1>3
      <4> HIDE DEF x
      <4>3. GetSource(o).cmd = c /\ GetSource(o).ref = x
        BY <4>1
      <4> QED
        BY <2>3, <4>2, <4>3, <1>2, <1>3 DEF PlainOrNil, PlainKinds
    <3>3. CASE spec.by = "chart"
      <4>1. HelmReleaseSource(o) =
              [cmd |-> IF r.kind = "OCIRepository" THEN "plain" ELSE "chart", ref |-> r]
        BY <3>3 DEF HelmReleaseSource, r
      <4>2. r.kind \in {"HelmChart", "OCIRepository"}
        BY <2>3, <3>3, ClusterAssumption DEF r
      <4>3. GetSource(o).cmd = IF r.kind = "OCIRepository" THEN "plain" ELSE "chart"
        BY <3>1, <4>1
      <4>4. GetSource(o).ref = r
        BY <3>1, <4>1
      <4> QED
        BY <2>3, <4>2, <4>3, <4>4, <1>2 DEF PlainKinds
    <3>4. CASE spec.by \notin {"chartRef", "chart"}
      <4>1. GetSource(o) = [cmd |-> "nil", ref |-> NoRef]
        BY <3>1, <3>4 DEF HelmReleaseSource, None
      <4> QED
        BY <4>1
    <3> QED
      BY <3>2, <3>3, <3>4
  <2> QED
    BY <2>1, <2>2, <2>3, ClusterAssumption
<1>5. SourceOf(o) \in Refs /\ SourceOf(o).kind = GetSource(o).ref.kind
  <2> DEFINE g == GetSource(o).ref
  <2>1. [g EXCEPT !.ns = o.ns] \in Refs /\ [g EXCEPT !.ns = o.ns].kind = g.kind
    BY <1>2, <1>4 DEF Refs
  <2>2. SourceOf(o) = IF g.ns = "" THEN [g EXCEPT !.ns = o.ns] ELSE g
    BY DEF SourceOf
  <2> QED
    BY <2>1, <2>2, <1>4
<1> QED
  BY <1>4, <1>5 DEF HasSource

----------------------------------------------------------------------------
(* The stack of calls.                                                     *)

\* A stack is empty or has a call at its end.
LEMMA StackFacts ==
    ASSUME TypeOK
    PROVE  /\ stack \in Seq(Frames) /\ Len(stack) \in 0..3
           /\ DOMAIN stack = 1..Len(stack)
           /\ stack = <<>> <=> Len(stack) = 0
           /\ \A i \in 1..Len(stack) : stack[i] \in Frames
           /\ stack # <<>> => Len(stack) \in 1..Len(stack)
<1>1. stack \in Seq(Frames) /\ Len(stack) <= 3
  BY DEF TypeOK
<1>2. Len(stack) \in Nat /\ DOMAIN stack = 1..Len(stack)
  BY <1>1, LenProperties
<1>3. stack = <<>> <=> Len(stack) = 0
  BY <1>1, EmptySeq, Zenon
<1>4. \A i \in 1..Len(stack) : stack[i] \in Frames
  BY <1>1, ElementOfSeq
<1> QED
  BY <1>1, <1>2, <1>3, <1>4

\* A step that changes the innermost call.
LEMMA TopChanged ==
    ASSUME TypeOK, stack # <<>>, NEW f \in Frames, SetTop(f)
    PROVE  /\ stack' \in Seq(Frames) /\ Len(stack') = Len(stack)
           /\ stack' # <<>>
           /\ stack'[Len(stack)] = f
           /\ \A i \in 1..Len(stack) : i # Len(stack) => stack'[i] = stack[i]
<1>1. /\ stack \in Seq(Frames) /\ Len(stack) \in 1..Len(stack)
      /\ Len(stack) \in 1..3
  BY StackFacts
<1>2. stack' = [stack EXCEPT ![Len(stack)] = f]
  BY DEF SetTop
<1>3. /\ stack' \in Seq(Frames) /\ Len(stack') = Len(stack)
      /\ \A i \in 1..Len(stack) : stack'[i] = IF i = Len(stack) THEN f ELSE stack[i]
  BY <1>1, <1>2, ExceptSeq
<1>4. stack' # <<>>
  BY <1>1, <1>3, EmptySeq, Zenon
<1> QED
  BY <1>1, <1>3, <1>4

\* A call that returns.
LEMMA Popped ==
    ASSUME TypeOK, stack # <<>>, NEW res, Return(res)
    PROVE  /\ stack' \in Seq(Frames) /\ Len(stack') = Len(stack) - 1
           /\ stack' = <<>> <=> Len(stack) = 1
           /\ \A i \in 1..Len(stack') : stack'[i] = stack[i]
           /\ ret' = res
<1>1. /\ stack \in Seq(Frames) /\ Len(stack) \in 1..3
      /\ \A i \in 1..(Len(stack) - 1) : stack[i] \in Frames
  BY StackFacts
<1>2. stack' = SubSeq(stack, 1, Len(stack) - 1) /\ ret' = res
  BY DEF Return, Front
<1>3. /\ SubSeq(stack, 1, Len(stack) - 1) \in Seq(Frames)
      /\ Len(SubSeq(stack, 1, Len(stack) - 1)) =
            IF 1 <= Len(stack) - 1 THEN (Len(stack) - 1) - 1 + 1 ELSE 0
      /\ \A i \in 1..((Len(stack) - 1) - 1 + 1) :
            SubSeq(stack, 1, Len(stack) - 1)[i] = stack[1 + i - 1]
  <2>1. 1 \in Int /\ Len(stack) - 1 \in Int
    BY <1>1
  <2> QED
    BY <2>1, <1>1, SubSeqProperties
<1> DEFINE u == SubSeq(stack, 1, Len(stack) - 1)
           n == Len(stack)
<1> HIDE DEF u, n
<1>4. /\ stack' \in Seq(Frames) /\ Len(stack') = Len(stack) - 1
      /\ \A i \in 1..Len(stack') : stack'[i] = stack[i]
  <2>1. /\ n \in 1..3 /\ u \in Seq(Frames)
        /\ Len(u) = IF 1 <= n - 1 THEN (n - 1) - 1 + 1 ELSE 0
        /\ \A i \in 1..((n - 1) - 1 + 1) : u[i] = stack[1 + i - 1]
    BY <1>1, <1>3 DEF u, n
  <2>2. Len(u) = n - 1 /\ \A i \in 1..(n - 1) : u[i] = stack[i]
    BY <2>1
  <2> QED
    BY <2>1, <2>2, <1>2 DEF u, n
<1>5. stack' = <<>> <=> Len(stack') = 0
  BY <1>4, EmptySeq, Zenon
<1> QED
  BY <1>1, <1>2, <1>4, <1>5

\* A call that calls another.
LEMMA Pushed ==
    ASSUME TypeOK, stack # <<>>, NEW f \in Frames, NEW g \in Frames,
           stack' = Append([stack EXCEPT ![Len(stack)] = f], g)
    PROVE  /\ stack' \in Seq(Frames) /\ Len(stack') = Len(stack) + 1
           /\ stack' # <<>>
           /\ stack'[Len(stack) + 1] = g
           /\ stack'[Len(stack)] = f
           /\ \A i \in 1..Len(stack) : i # Len(stack) => stack'[i] = stack[i]
<1> DEFINE t == [stack EXCEPT ![Len(stack)] = f]
<1>1. stack \in Seq(Frames) /\ Len(stack) \in 1..Len(stack) /\ Len(stack) \in 1..3
  BY StackFacts
<1>2. /\ t \in Seq(Frames) /\ Len(t) = Len(stack)
      /\ \A i \in 1..Len(stack) : t[i] = IF i = Len(stack) THEN f ELSE stack[i]
  BY <1>1, ExceptSeq
<1>3. stack' = Append(t, g)
  OBVIOUS
<1> HIDE DEF t
<1>4. /\ stack' \in Seq(Frames) /\ Len(stack') = Len(t) + 1 /\ stack' # <<>>
      /\ \A i \in 1..Len(t) : stack'[i] = t[i]
      /\ stack'[Len(t) + 1] = g
  <2>1. /\ Append(t, g) \in Seq(Frames) /\ Len(Append(t, g)) = Len(t) + 1
        /\ Append(t, g) # <<>>
        /\ \A i \in 1..Len(t) : Append(t, g)[i] = t[i]
        /\ Append(t, g)[Len(t) + 1] = g
    BY <1>2, AppendProperties
  <2> QED
    BY <2>1, <1>3
<1> QED
  BY <1>1, <1>2, <1>4

----------------------------------------------------------------------------
(* Steps that annotate nothing keep what is said of the annotated objects. *)

\* What the user means does not change.
LEMMA SameMeaning ==
    ASSUME UNCHANGED <<kind, withSource, args>>
    PROVE  /\ Named' = Named /\ Charts' = Charts /\ Intended' = Intended
           /\ \A j \in Nat : NamedAt(j)' = NamedAt(j)
<1>1. Named' = Named
  BY DEF Named
<1>2. Charts' = Charts
  BY <1>1 DEF Charts
<1> QED
  BY <1>1, <1>2 DEF Intended, NamedAt

\* What is said of the annotated objects.
Annotated == EachObjectOnce /\ SourceBeforeObject /\ OnlyIntended

LEMMA Kept ==
    ASSUME UNCHANGED <<kind, withSource, args, requests>>,
           succeeded \subseteq succeeded', Annotated
    PROVE  Annotated'
<1>1. Named' = Named /\ Charts' = Charts /\ Intended' = Intended
  BY SameMeaning
<1>2. EachObjectOnce'
  BY DEF EachObjectOnce, Annotated
<1>3. SourceBeforeObject'
  BY <1>1 DEF SourceBeforeObject, Annotated
<1>4. OnlyIntended'
  BY <1>1 DEF OnlyIntended, Annotated
<1> QED
  BY <1>2, <1>3, <1>4 DEF Annotated

\* The types of a step that changes only the calls and their result.
LEMMA TypesKept ==
    ASSUME TypeOK,
           UNCHANGED <<kind, withSource, args, todo, exit, reported>>,
           stack' \in Seq(Frames), Len(stack') <= 3,
           \A i \in 1..Len(stack') : stack'[i].pc = "get" \/ stack'[i].obj \in Objects,
           ret' \in Results \cup {"none"}, ns' \in STRING,
           DOMAIN sources' \subseteq Refs,
           \A key \in DOMAIN sources' : sources'[key] \in {"ok", "err"},
           requests' \in [Objects -> Nat], succeeded' \subseteq Objects
    PROVE  TypeOK'
<1>1. DOMAIN stack' = 1..Len(stack')
  BY LenProperties
<1> QED
  BY <1>1 DEF TypeOK

----------------------------------------------------------------------------
(* A call returns, to its caller or to the loop over the names.            *)

LEMMA Returning ==
    ASSUME IInv, stack # <<>>, ret = "none", NEW res \in Results, Return(res),
           UNCHANGED <<kind, withSource, args, todo, ns, sources, exit, requests,
                       reported>>,
           succeeded \subseteq succeeded', succeeded' \subseteq Objects,
           res = "ok" => Subject(Len(stack)) \in succeeded' \cup StaticRefs,
           res = "ok" /\ Len(stack) = 1 => Current \in succeeded',
           res = "getNotFound" /\ Len(stack) = 1 => Current \notin Objects
    PROVE  IInv'
<1> USE DEF Results
<1>1. /\ TypeOK /\ Nesting /\ Meant /\ Accounted /\ Fresh /\ Annotated /\ ExitHonest
  BY DEF IInv, Annotated
<1>2. /\ stack' \in Seq(Frames) /\ Len(stack') = Len(stack) - 1
      /\ stack' = <<>> <=> Len(stack) = 1
      /\ \A i \in 1..Len(stack') : stack'[i] = stack[i]
      /\ ret' = res
  BY <1>1, Popped
<1>3. Len(stack) \in 1..3 /\ DOMAIN stack = 1..Len(stack)
  BY <1>1, StackFacts
<1>4. TypeOK'
  <2>1. \A i \in 1..Len(stack') : stack'[i].pc = "get" \/ stack'[i].obj \in Objects
    BY <1>1, <1>2, <1>3 DEF TypeOK
  <2>2. /\ ns' \in STRING /\ DOMAIN sources' \subseteq Refs
        /\ \A key \in DOMAIN sources' : sources'[key] \in {"ok", "err"}
        /\ requests' \in [Objects -> Nat]
    BY <1>1 DEF TypeOK
  <2>3. Len(stack') <= 3 /\ ret' \in Results \cup {"none"}
    BY <1>2, <1>3
  <2> QED
    BY <1>1, <1>2, <2>1, <2>2, <2>3, TypesKept
<1>5. Current' = Current /\ \A j : NamedAt(j)' = NamedAt(j)
  BY DEF Current, NamedAt
<1>6. ASSUME NEW i \in 1..Len(stack)
      PROVE  Subject(i)' = Subject(i)
  <2>1. i = 1 \/ i - 1 \in 1..Len(stack')
    BY <1>2, <1>3
  <2> QED
    BY <2>1, <1>2, <1>5 DEF Subject
<1>7. Nesting'
  <2>1. IsInjective(args)' /\ (Busy => Len(reported) < Len(args))'
    BY <1>1 DEF Nesting, Busy, IsInjective
  <2>2. ASSUME NEW i \in 1..Len(stack')
        PROVE  CallOK(i)'
    <3>1. i \in 1..Len(stack) /\ i < Len(stack) /\ stack'[i] = stack[i]
      BY <1>2, <1>3
    <3>2. CallOK(i)
      BY <3>1, <1>1 DEF Nesting
    <3>3. Subject(i)' = Subject(i) /\ Asks(i)' = Asks(i)
      BY <3>1, <1>6 DEF Asks
    <3> QED
      BY <3>1, <3>2, <3>3, <1>2 DEF CallOK
  <2>3. (stack = <<>> => ns = CmdNs)'
    BY <1>1, <1>2, <1>5 DEF Nesting, Subject, Current, NamedAt, Ref
  <2> QED
    BY <2>1, <2>2, <2>3, <1>2 DEF Nesting
<1>8. Meant'
  <2>1. (stack # <<>> /\ ret = "ok" => Usable(Top.src))'
    <3>1. SUFFICES ASSUME stack' # <<>>, res = "ok"
                   PROVE  stack'[Len(stack')].src \in succeeded' \cup StaticRefs
      BY <1>2 DEF Usable, Top
    <3>2. Len(stack) # 1 /\ Len(stack') \in 1..Len(stack')
      BY <3>1, <1>2, <1>3
    <3>3. Subject(Len(stack)) = stack'[Len(stack')].src
      BY <3>2, <1>2, <1>3 DEF Subject
    <3> QED
      BY <3>1, <3>3
  <2>2. /\ (stack = <<>> /\ ret = "ok" => Current \in succeeded)'
        /\ (stack = <<>> /\ ret = "getNotFound" => Current \notin Objects)'
    BY <1>2, <1>5
  <2>3. (\A key \in DOMAIN sources :
            key.kind # kind /\ (sources[key] = "ok" => Usable(key)))'
    BY <1>1 DEF Meant, Usable
  <2>4. (\A j \in 1..Len(reported) :
            /\ reported[j] = "ok" => NamedAt(j) \in succeeded
            /\ reported[j] = "getNotFound" => NamedAt(j) \notin Objects)'
    BY <1>1, <1>5 DEF Meant
  <2>5. ASSUME NEW i \in 1..Len(stack'), Asks(i)', stack'[i].pc \in {"request", "poll"}
        PROVE  Usable(SourceOf(Subject(i)))'
    <3>1. i \in 1..Len(stack) /\ stack'[i] = stack[i] /\ Asks(i)
      BY <2>5, <1>2, <1>3 DEF Asks
    <3> QED
      BY <3>1, <2>5, <1>1, <1>6 DEF Meant, Usable
  <2> QED
    BY <2>1, <2>2, <2>3, <2>4, <2>5 DEF Meant
<1>9. Accounted'
  <2>1. SUFFICES ASSUME NEW o \in Objects, requests[o] > 0
                 PROVE  \/ o \in DOMAIN sources
                        \/ \E i \in 1..Len(stack') : stack'[i].pc = "waitSource" /\ stack'[i].src = o
                        \/ o = Current
                        \/ \E j \in 1..Len(reported) : o = NamedAt(j)
    BY <1>2, <1>5 DEF Accounted, Busy
  <2>2. ASSUME NEW i \in 1..Len(stack), stack[i].pc = "waitSource", stack[i].src = o
        PROVE  i \in 1..Len(stack') /\ stack'[i] = stack[i]
    <3>1. i < Len(stack)
      BY <2>2, <1>1 DEF Nesting, CallOK
    <3> QED
      BY <3>1, <1>2, <1>3
  <2> QED
    BY <2>1, <2>2, <1>1 DEF Accounted
<1>10. Fresh'
  <2>1. ASSUME NEW i \in 1..Len(stack')
        PROVE  i \in 1..Len(stack) /\ stack'[i] = stack[i] /\ Subject(i)' = Subject(i)
    BY <1>2, <1>3, <1>6
  <2> QED
    BY <2>1, <1>1 DEF Fresh
<1>11. Annotated' /\ ExitHonest'
  BY <1>1, Kept, SameMeaning DEF ExitHonest
<1> QED
  BY <1>4, <1>7, <1>8, <1>9, <1>10, <1>11 DEF IInv, Annotated

----------------------------------------------------------------------------
(* The innermost call goes on.                                             *)

LEMMA Continuing ==
    ASSUME IInv, stack # <<>>, NEW f \in Frames, SetTop(f), ret' = "none",
           f.cmd = Top.cmd, f.kind = Top.kind, f.name = Top.name,
           f.pc \in {"source", "request", "poll"},
           f.obj = Subject(Len(stack)), f.obj \in Objects,
           f.pc = "source" => Asks(Len(stack)),
           f.pc # "source" /\ Asks(Len(stack)) => Usable(SourceOf(f.obj)),
           ns' = f.obj.ns,
           UNCHANGED <<kind, withSource, args, todo, exit, reported, succeeded>>,
           DOMAIN sources' \subseteq Refs,
           \A key \in DOMAIN sources' :
               /\ sources'[key] \in {"ok", "err"}
               /\ key.kind # kind /\ (sources'[key] = "ok" => Usable(key)),
           requests' \in [Objects -> Nat]
    PROVE  /\ TypeOK' /\ Nesting' /\ Meant' /\ ExitHonest'
           /\ Current' = Current /\ \A j : NamedAt(j)' = NamedAt(j)
           /\ \A i \in 1..Len(stack) : Subject(i)' = Subject(i)
<1>1. /\ TypeOK /\ Nesting /\ Meant /\ ExitHonest
  BY DEF IInv
<1>2. /\ stack' \in Seq(Frames) /\ Len(stack') = Len(stack)
      /\ stack' # <<>>
      /\ stack'[Len(stack)] = f
      /\ \A i \in 1..Len(stack) : i # Len(stack) => stack'[i] = stack[i]
  BY <1>1, TopChanged
<1>3. Len(stack) \in 1..3 /\ DOMAIN stack = 1..Len(stack)
  BY <1>1, StackFacts
<1>4. Current' = Current /\ \A j : NamedAt(j)' = NamedAt(j)
  BY DEF Current, NamedAt
<1>5. ASSUME NEW i \in 1..Len(stack)
      PROVE  Subject(i)' = Subject(i) /\ Asks(i)' = Asks(i)
  <2>1. i = 1 \/ (i - 1 \in 1..Len(stack) /\ i - 1 # Len(stack))
    BY <1>3
  <2>2. Subject(i)' = Subject(i)
    BY <2>1, <1>2, <1>4 DEF Subject
  <2>3. stack'[i].cmd = stack[i].cmd
    BY <1>2 DEF Top
  <2> QED
    BY <2>2, <2>3 DEF Asks
<1>6. TypeOK'
  <2>1. \A i \in 1..Len(stack') : stack'[i].pc = "get" \/ stack'[i].obj \in Objects
    BY <1>1, <1>2, <1>3 DEF TypeOK
  <2>2. succeeded' \subseteq Objects
    BY <1>1 DEF TypeOK
  <2>3. Subject(Len(stack)).ns \in STRING
    BY ClusterAssumption DEF Refs
  <2>4. Len(stack') <= 3 /\ ret' \in Results \cup {"none"}
    BY <1>2, <1>3
  <2> QED
    BY <1>1, <1>2, <2>1, <2>2, <2>3, <2>4, TypesKept
<1>7. Nesting'
  <2>1. IsInjective(args)' /\ (Busy => Len(reported) < Len(args))'
    BY <1>1 DEF Nesting, Busy, IsInjective
  <2>2. ASSUME NEW i \in 1..Len(stack')
        PROVE  CallOK(i)'
    <3>1. i \in 1..Len(stack)
      BY <1>2
    <3>2. CallOK(i) /\ Subject(i)' = Subject(i) /\ Asks(i)' = Asks(i)
      BY <3>1, <1>1, <1>5 DEF Nesting
    <3>3. CASE i = Len(stack)
      <4>1. stack'[i] = f /\ f.cmd = stack[i].cmd /\ f.kind = stack[i].kind /\ f.name = stack[i].name
        BY <3>3, <1>2 DEF Top
      <4>2. /\ stack'[i].pc # "waitSource" /\ stack'[i].obj = Subject(i)
            /\ stack'[i].pc = "source" => Asks(i)
        BY <4>1, <3>3
      <4>3. ~(i < Len(stack') \/ ret' # "none")
        BY <3>3, <1>2, <1>3
      <4> QED
        BY <3>2, <4>1, <4>2, <4>3 DEF CallOK
    <3>4. CASE i # Len(stack)
      <4>1. i < Len(stack) /\ i < Len(stack') /\ stack'[i] = stack[i]
        BY <3>1, <3>4, <1>2, <1>3
      <4> QED
        BY <3>2, <4>1 DEF CallOK
    <3> QED
      BY <3>3, <3>4
  <2>3. (stack # <<>> /\ ret = "none" => ns = Subject(Len(stack)).ns)'
    BY <1>2, <1>3, <1>5
  <2> QED
    BY <2>1, <2>2, <2>3, <1>2 DEF Nesting
<1>8. Meant'
  <2>1. (\A key \in DOMAIN sources :
            key.kind # kind /\ (sources[key] = "ok" => Usable(key)))'
    BY DEF Usable
  <2>2. (\A j \in 1..Len(reported) :
            /\ reported[j] = "ok" => NamedAt(j) \in succeeded
            /\ reported[j] = "getNotFound" => NamedAt(j) \notin Objects)'
    BY <1>1, <1>4 DEF Meant
  <2>3. ASSUME NEW i \in 1..Len(stack'), Asks(i)', stack'[i].pc \in {"request", "poll"}
        PROVE  Usable(SourceOf(Subject(i)))'
    <3>1. i \in 1..Len(stack) /\ Asks(i) /\ Subject(i)' = Subject(i)
      BY <2>3, <1>2, <1>5
    <3>2. Usable(SourceOf(Subject(i)))
      <4>1. CASE i = Len(stack)
        BY <4>1, <3>1, <2>3, <1>2
      <4>2. CASE i # Len(stack)
        BY <4>2, <3>1, <2>3, <1>1, <1>2 DEF Meant
      <4> QED
        BY <4>1, <4>2
    <3> QED
      BY <3>1, <3>2 DEF Usable
  <2> QED
    BY <2>1, <2>2, <2>3, <1>2 DEF Meant
<1> QED
  BY <1>1, <1>4, <1>5, <1>6, <1>7, <1>8, SameMeaning DEF ExitHonest

\* An innermost call that goes on without another annotation or result.
LEMMA GoingOn ==
    ASSUME IInv, stack # <<>>, ret = "none", NEW f \in Frames, SetTop(f), ret' = "none",
           f.cmd = Top.cmd, f.kind = Top.kind, f.name = Top.name,
           f.pc \in {"source", "request"}, Top.pc # "poll",
           f.obj = Subject(Len(stack)), f.obj \in Objects,
           f.pc = "source" => Asks(Len(stack)),
           f.pc # "source" /\ Asks(Len(stack)) => Usable(SourceOf(f.obj)),
           UNCHANGED <<kind, withSource, args, todo, ns, sources, exit, requests,
                       reported, succeeded>>
    PROVE  IInv'
<1>1. /\ TypeOK /\ Nesting /\ Meant /\ Accounted /\ Fresh /\ Annotated
  BY DEF IInv, Annotated
<1>2. /\ Len(stack') = Len(stack) /\ stack' # <<>>
      /\ stack'[Len(stack)] = f
      /\ \A i \in 1..Len(stack) : i # Len(stack) => stack'[i] = stack[i]
  BY <1>1, TopChanged
<1>3. Len(stack) \in 1..3
  BY <1>1, StackFacts
<1>4. /\ TypeOK' /\ Nesting' /\ Meant' /\ ExitHonest'
      /\ Current' = Current /\ \A j : NamedAt(j)' = NamedAt(j)
      /\ \A i \in 1..Len(stack) : Subject(i)' = Subject(i)
  <2>1. ns' = f.obj.ns
    BY <1>1 DEF Nesting
  <2>2. /\ DOMAIN sources' \subseteq Refs /\ requests' \in [Objects -> Nat]
        /\ \A key \in DOMAIN sources' :
               /\ sources'[key] \in {"ok", "err"}
               /\ key.kind # kind /\ (sources'[key] = "ok" => Usable(key))
    BY <1>1 DEF TypeOK, Meant
  <2> QED
    BY <2>1, <2>2, Continuing
<1>5. Accounted'
  <2>1. SUFFICES ASSUME NEW o \in Objects, requests[o] > 0
                 PROVE  \/ o \in DOMAIN sources
                        \/ \E i \in 1..Len(stack') : stack'[i].pc = "waitSource" /\ stack'[i].src = o
                        \/ o = Current
                        \/ \E j \in 1..Len(reported) : o = NamedAt(j)
    BY <1>2, <1>4 DEF Accounted, Busy
  <2>2. ASSUME NEW i \in 1..Len(stack), stack[i].pc = "waitSource", stack[i].src = o
        PROVE  i \in 1..Len(stack') /\ stack'[i] = stack[i]
    BY <2>2, <1>1, <1>2 DEF Nesting, CallOK
  <2> QED
    BY <2>1, <2>2, <1>1 DEF Accounted
<1>6. Fresh'
  BY <1>1, <1>2, <1>3, <1>4 DEF Fresh, Top
<1>7. Annotated'
  BY <1>1, Kept
<1> QED
  BY <1>4, <1>5, <1>6, <1>7 DEF IInv, Annotated

----------------------------------------------------------------------------
(* The subjects of the calls on the stack.                                 *)

\* The name at hand is one of the named objects.
LEMMA CurrentNamed ==
    ASSUME TypeOK, IsInjective(args), Len(reported) < Len(args)
    PROVE  /\ Current \in Named /\ Current.kind = kind /\ Current.ns = CmdNs
           /\ kind \in DOMAIN NamesOf
           /\ \A j \in 1..Len(reported) : NamedAt(j) # Current
<1>1. /\ args \in Seq(NamesOf[kind]) /\ Len(reported) < Len(args)
      /\ kind \in DOMAIN NamesOf /\ Len(reported) \in Nat
  <2>1. reported \in Seq(Results)
    BY DEF TypeOK
  <2> QED
    BY <2>1, LenProperties DEF TypeOK
<1>2. DOMAIN args = 1..Len(args) /\ Len(args) \in Nat
  BY <1>1, LenProperties
<1>3. Len(reported) + 1 \in DOMAIN args /\ \A j \in 1..Len(reported) : j \in DOMAIN args
  BY <1>1, <1>2
<1>4. Current \in Named /\ Current.kind = kind /\ Current.ns = CmdNs
  BY <1>3 DEF Named, Current, NamedAt, Ref
<1>5. ASSUME NEW j \in 1..Len(reported)
      PROVE  NamedAt(j) # Current
  <2>1. args[j] # args[Len(reported) + 1]
    <3>1. j # Len(reported) + 1
      BY <1>1
    <3> QED
      BY <3>1, <1>3 DEF IsInjective
  <2>2. NamedAt(j).name = args[j] /\ Current.name = args[Len(reported) + 1]
    BY DEF NamedAt, Current, Ref
  <2> QED
    BY <2>1, <2>2
<1> QED
  BY <1>1, <1>4, <1>5

\* A call that has read its object holds its subject.
LEMMA SubjectRead ==
    ASSUME TypeOK, Nesting, NEW i \in 1..Len(stack), stack[i].pc # "get"
    PROVE  Subject(i) \in Objects /\ stack[i].obj = Subject(i)
  BY StackFacts DEF TypeOK, Nesting, CallOK

\* The subject of a nested call is the source of the one below.
LEMMA Nested ==
    ASSUME TypeOK, Nesting, NEW i \in 1..Len(stack), i # 1
    PROVE  /\ i - 1 \in 1..Len(stack) /\ stack[i - 1].pc = "waitSource"
           /\ Subject(i) = SourceOf(Subject(i - 1))
           /\ Subject(i - 1) \in Objects /\ Asks(i - 1)
           /\ GetSource(Subject(i - 1)).cmd # "nil"
<1>1. i - 1 \in 1..Len(stack) /\ i - 1 < Len(stack) /\ Len(stack) \in 1..3
  BY StackFacts
<1>2. CallOK(i - 1)
  BY <1>1 DEF Nesting
<1>3. stack[i - 1].pc = "waitSource" /\ stack[i - 1].src = SourceOf(Subject(i - 1))
  BY <1>1, <1>2 DEF CallOK
<1>4. Subject(i - 1) \in Objects
  BY <1>1, <1>3, SubjectRead
<1> QED
  BY <1>1, <1>2, <1>3, <1>4 DEF CallOK, Subject

\* A call that follows the source is the name's with --with-source, or about
\* the chart of a HelmRelease.
LEMMA Asking ==
    ASSUME TypeOK, Nesting, NEW i \in 1..Len(stack), Asks(i)
    PROVE  /\ withSource /\ i \in {1, 2}
           /\ Subject(i).kind \in DOMAIN NamesOf
           /\ i = 1 => Subject(1) \in Named /\ Subject(1).kind = kind
           /\ i = 2 => /\ Subject(1) \in Named /\ Subject(2).kind = "HelmChart"
                       /\ Subject(2) \in Charts
<1>1. IsInjective(args) /\ Len(reported) < Len(args)
  <2>1. stack # <<>>
    BY StackFacts
  <2> QED
    BY <2>1 DEF Busy, Nesting
<1>2. Subject(1) \in Named /\ Subject(1).kind = kind /\ kind \in DOMAIN NamesOf
  BY <1>1, CurrentNamed DEF Subject
<1>3. CASE i = 1
  <2>1. withSource
    BY <1>3 DEF Asks, Nesting, CallOK
  <2> QED
    BY <1>2, <1>3, <2>1
<1>4. CASE i # 1
  <2>1. i = 2 /\ Subject(2).kind = "HelmChart"
    BY <1>4 DEF Asks, Nesting, CallOK
  <2>2. /\ Subject(2) = SourceOf(Subject(1)) /\ Subject(1) \in Objects /\ Asks(1)
        /\ GetSource(Subject(1)).cmd # "nil" /\ 1 \in 1..Len(stack)
    BY <2>1, <1>4, Nested
  <2>3. withSource
    BY <2>2 DEF Asks, Nesting, CallOK
  <2>4. HasSource(Subject(1))
    BY <2>2, <1>2 DEF HasSource
  <2>5. Subject(2) \in SourcesOf(Named)
    BY <2>2, <2>4, <1>2 DEF SourcesOf
  <2>6. Subject(2) \in Charts
    BY <2>1, <2>5 DEF Charts
  <2> QED
    BY <1>2, <2>1, <2>3, <2>6, ClusterAssumption
<1> QED
  BY <1>3, <1>4

\* The user means the subject of every call; only the first has the kind of the
\* command line, and a call that does not ask is about an object without source.
LEMMA Lineage ==
    ASSUME TypeOK, Nesting, NEW i \in 1..Len(stack)
    PROVE  /\ Subject(i) \in Intended
           /\ i = 1 => Subject(i).kind = kind
           /\ i # 1 => /\ Subject(i) \in Refs /\ Subject(i).kind # kind
                       /\ Subject(i).kind \in PlainKinds \cup {"HelmChart"}
                       /\ i = 3 => Subject(2).kind = "HelmChart" /\ Subject(3).kind \in PlainKinds
                       /\ i \in {2, 3}
                       /\ ~Asks(i) => Subject(i).kind \in PlainKinds
<1>1. CASE i = 1
  <2>1. stack # <<>>
    BY StackFacts
  <2>2. IsInjective(args) /\ Len(reported) < Len(args)
    BY <2>1 DEF Busy, Nesting
  <2> QED
    BY <1>1, <2>2, CurrentNamed DEF Subject, Intended
<1>2. CASE i # 1
  <2> DEFINE o == Subject(i - 1)
  <2>1. /\ i - 1 \in 1..Len(stack) /\ Subject(i) = SourceOf(o) /\ o \in Objects
        /\ Asks(i - 1) /\ GetSource(o).cmd # "nil"
    BY <1>2, Nested
  <2>2. /\ withSource /\ i - 1 \in {1, 2} /\ o.kind \in DOMAIN NamesOf
        /\ i - 1 = 1 => o \in Named /\ o.kind = kind
        /\ i - 1 = 2 => o.kind = "HelmChart" /\ o \in Charts
    BY <2>1, Asking
  <2> HIDE DEF o
  <2>3. /\ Subject(i) \in Refs /\ Subject(i).kind \in PlainKinds \cup {"HelmChart"}
        /\ Subject(i).kind = "HelmChart" => o.kind = "HelmRelease"
        /\ HasSource(o)
    BY <2>1, <2>2, SourceFacts
  <2>4. Subject(i) \in SourcesOf(Named) \cup SourcesOf(Charts)
    BY <2>1, <2>2, <2>3 DEF SourcesOf
  <2>5. i = 3 => Subject(2).kind = "HelmChart" /\ Subject(3).kind \in PlainKinds
    BY <2>2, <2>3 DEF o
  <2>6. Subject(i).kind # kind
    <3>1. kind \notin PlainKinds
      BY ClusterAssumption DEF TypeOK, PlainKinds
    <3> QED
      BY <3>1, <2>2, <2>3, <2>5
  <2>7. ~Asks(i) => Subject(i).kind \in PlainKinds
    BY <1>2, <2>3 DEF Nesting, CallOK, Asks
  <2> QED
    BY <1>2, <2>2, <2>3, <2>4, <2>5, <2>6, <2>7 DEF Intended
<1> QED
  BY <1>1, <1>2

----------------------------------------------------------------------------
(* The steps of one call.                                                  *)

\* The innermost call, and that it looks up its subject.
LEMMA TopFacts ==
    ASSUME IInv, stack # <<>>, ret = "none"
    PROVE  /\ Len(stack) \in 1..Len(stack) /\ Len(stack) \in 1..3
           /\ Top \in Frames /\ CallOK(Len(stack))
           /\ Ref(Top.kind, ns, Top.name) = Subject(Len(stack))
           /\ Top.pc # "get" => Top.obj = Subject(Len(stack)) /\ Top.obj \in Objects
<1>1. TypeOK /\ Nesting
  BY DEF IInv
<1>2. /\ Len(stack) \in 1..Len(stack) /\ Len(stack) \in 1..3 /\ Top \in Frames
  BY <1>1, StackFacts DEF Top
<1>3. CallOK(Len(stack)) /\ ns = Subject(Len(stack)).ns
  BY <1>1, <1>2 DEF Nesting
<1>4. Subject(Len(stack)) = Ref(Subject(Len(stack)).kind, Subject(Len(stack)).ns,
                                Subject(Len(stack)).name)
  <2>1. CASE Len(stack) = 1
    BY <2>1 DEF Subject, Current, NamedAt, Ref
  <2>2. CASE Len(stack) # 1
    <3>1. Subject(Len(stack)) \in Refs
      BY <2>2, <1>1, <1>2, Lineage
    <3> QED
      BY <3>1 DEF Refs, Ref
  <2> QED
    BY <2>1, <2>2
<1>5. Ref(Top.kind, ns, Top.name) = Subject(Len(stack))
  BY <1>3, <1>4 DEF CallOK, Top
<1>6. Top.pc # "get" => Top.obj = Subject(Len(stack)) /\ Top.obj \in Objects
  BY <1>1, <1>2, SubjectRead DEF Top
<1> QED
  BY <1>2, <1>3, <1>5, <1>6

LEMMA GetMissingStep ==
    ASSUME IInv, GetMissing
    PROVE  IInv'
<1>1. /\ stack # <<>> /\ ret = "none" /\ Return("getNotFound")
      /\ Ref(Top.kind, ns, Top.name) \notin Objects
      /\ UNCHANGED <<kind, withSource, args, todo, ns, sources, exit, requests,
                     succeeded, reported>>
  BY DEF GetMissing
<1>2. Len(stack) = 1 => Current \notin Objects
  BY <1>1, TopFacts DEF Subject
<1>3. succeeded \subseteq succeeded' /\ succeeded' \subseteq Objects
  BY <1>1 DEF IInv, TypeOK
<1> QED
  BY <1>1, <1>2, <1>3, Returning DEF Results

\* A call that fails without a get error.
LEMMA Failing ==
    ASSUME IInv, stack # <<>>, ret = "none", Return("err"),
           UNCHANGED <<kind, withSource, args, todo, ns, sources, exit, requests,
                       succeeded, reported>>
    PROVE  IInv'
<1>1. succeeded \subseteq succeeded' /\ succeeded' \subseteq Objects
  BY DEF IInv, TypeOK
<1> QED
  BY <1>1, Returning DEF Results

LEMMA GetFoundStep ==
    ASSUME IInv, GetFound
    PROVE  IInv'
<1> DEFINE o == Ref(Top.kind, ns, Top.name)
           f == [Top EXCEPT !.obj = o,
                   !.pc = IF \/ Top.cmd = "parent" /\ withSource
                             \/ Top.cmd = "chart"
                          THEN "source" ELSE "request"]
<1>1. /\ stack # <<>> /\ ret = "none" /\ Top.pc = "get" /\ o \in Objects
      /\ UNCHANGED <<kind, withSource, args, todo, ns, sources, exit, requests,
                     succeeded, reported>>
      /\ \/ Return("err")
         \/ Top.cmd = "plain" /\ o \in StaticRefs /\ Return("ok")
         \/ SetTop(f) /\ UNCHANGED ret
  BY DEF GetFound
<1>2. /\ Len(stack) \in 1..Len(stack) /\ Top \in Frames /\ CallOK(Len(stack))
      /\ o = Subject(Len(stack))
  BY <1>1, TopFacts
<1>3. CASE Return("err")
  BY <1>1, <1>3, Failing
<1>4. CASE Top.cmd = "plain" /\ o \in StaticRefs /\ Return("ok")
  <2>1. Len(stack) # 1
    BY <1>2, <1>4 DEF CallOK, Top
  <2>2. succeeded \subseteq succeeded' /\ succeeded' \subseteq Objects
    BY <1>1 DEF IInv, TypeOK
  <2> QED
    BY <1>1, <1>2, <1>4, <2>1, <2>2, Returning DEF Results
<1>5. CASE SetTop(f) /\ UNCHANGED ret
  <2>1. o \in Refs
    BY <1>1, ClusterAssumption
  <2>2. Asks(Len(stack)) <=> ((Top.cmd = "parent" /\ withSource) \/ Top.cmd = "chart")
    BY <1>2 DEF Asks, CallOK, Top
  <2>3. /\ f \in Frames /\ f.cmd = Top.cmd /\ f.kind = Top.kind /\ f.name = Top.name
        /\ f.obj = o
        /\ f.pc = IF Asks(Len(stack)) THEN "source" ELSE "request"
    <3> DEFINE p == IF \/ Top.cmd = "parent" /\ withSource
                       \/ Top.cmd = "chart"
                    THEN "source" ELSE "request"
    <3>1. p \in {"source", "request"} /\ p = IF Asks(Len(stack)) THEN "source" ELSE "request"
      BY <2>2
    <3>2. f = [Top EXCEPT !.obj = o, !.pc = p]
      OBVIOUS
    <3> HIDE DEF o, f, p
    <3> QED
      BY <1>2, <2>1, <3>1, <3>2 DEF Frames
  <2> HIDE DEF o, f
  <2>4. /\ f.pc \in {"source", "request"}
        /\ f.pc = "source" => Asks(Len(stack))
        /\ f.pc # "source" /\ Asks(Len(stack)) => Usable(SourceOf(f.obj))
        /\ f.obj = Subject(Len(stack)) /\ f.obj \in Objects
        /\ Top.pc # "poll" /\ ret' = "none"
    BY <1>1, <1>2, <1>5, <2>3
  <2> QED
    BY <1>1, <1>5, <2>3, <2>4, GoingOn
<1> QED
  BY <1>1, <1>3, <1>4, <1>5

LEMMA SourceUnsupportedStep ==
    ASSUME IInv, SourceUnsupported
    PROVE  IInv'
  BY Failing DEF SourceUnsupported

\* The key of the source's result is the source, whatever its spelling.
LEMMA KeyIsSource ==
    ASSUME IInv, stack # <<>>, ret = "none", Top.pc = "source"
    PROVE  SourceKey(GetSource(Top.obj).ref) = SourceOf(Top.obj)
<1>1. ns = Top.obj.ns
  BY TopFacts DEF IInv, Nesting
<1> QED
  BY <1>1 DEF SourceKey, Resolved, SourceOf

LEMMA SourceDoneStep ==
    ASSUME IInv, SourceDone
    PROVE  IInv'
<1> DEFINE key == SourceKey(GetSource(Top.obj).ref)
           f == [Top EXCEPT !.pc = "request"]
<1>1. /\ stack # <<>> /\ ret = "none" /\ Top.pc = "source"
      /\ key \in DOMAIN sources
      /\ UNCHANGED <<kind, withSource, args, todo, ns, sources, exit, requests,
                     succeeded, reported>>
      /\ \/ sources[key] = "ok" /\ SetTop(f) /\ UNCHANGED ret
         \/ sources[key] # "ok" /\ Return(sources[key])
  BY DEF SourceDone, Goto
<1>2. key = SourceOf(Top.obj)
  BY <1>1, KeyIsSource
<1>3. /\ sources[key] \in {"ok", "err"}
      /\ sources[key] = "ok" => Usable(key)
  BY <1>1 DEF IInv, TypeOK, Meant
<1> HIDE DEF key
<1>4. CASE sources[key] # "ok" /\ Return(sources[key])
  BY <1>1, <1>3, <1>4, Failing
<1>5. CASE sources[key] = "ok" /\ SetTop(f) /\ UNCHANGED ret
  <2>1. /\ Top \in Frames /\ Top.obj = Subject(Len(stack)) /\ Top.obj \in Objects
    BY <1>1, TopFacts
  <2>2. /\ f \in Frames /\ f.cmd = Top.cmd /\ f.kind = Top.kind /\ f.name = Top.name
        /\ f.obj = Top.obj /\ f.pc = "request"
    BY <2>1 DEF Frames
  <2> HIDE DEF f
  <2>3. Usable(SourceOf(f.obj)) /\ ret' = "none"
    BY <1>1, <1>2, <1>3, <1>5, <2>2
  <2> QED
    BY <1>1, <1>5, <2>1, <2>2, <2>3, GoingOn
<1> QED
  BY <1>1, <1>4, <1>5

\* The source of a call's subject is not of the kind of the command line.
LEMMA SourceOfCall ==
    ASSUME TypeOK, Nesting, NEW i \in 1..Len(stack), Asks(i), Subject(i) \in Objects,
           GetSource(Subject(i)).cmd # "nil"
    PROVE  /\ SourceOf(Subject(i)) \in Refs /\ SourceOf(Subject(i)).kind # kind
           /\ GetSource(Subject(i)).cmd \in {"plain", "chart"}
           /\ GetSource(Subject(i)).cmd = "chart" <=> SourceOf(Subject(i)).kind = "HelmChart"
           /\ i = 2 => SourceOf(Subject(i)).kind # "HelmChart"
<1>1. /\ i \in {1, 2} /\ Subject(i).kind \in DOMAIN NamesOf
      /\ i = 1 => Subject(i).kind = kind
      /\ i = 2 => Subject(i).kind = "HelmChart"
  BY Asking
<1>2. kind \notin PlainKinds
  BY ClusterAssumption DEF TypeOK, PlainKinds
<1> DEFINE o == Subject(i)
<1>3. o \in Objects /\ o.kind \in DOMAIN NamesOf /\ GetSource(o).cmd # "nil"
  BY <1>1
<1>4. /\ SourceOf(o) \in Refs
      /\ SourceOf(o).kind \in PlainKinds \cup {"HelmChart"}
      /\ GetSource(o).cmd \in {"plain", "chart"}
      /\ GetSource(o).cmd = "chart" <=> SourceOf(o).kind = "HelmChart"
      /\ SourceOf(o).kind = "HelmChart" => o.kind = "HelmRelease"
  <2> HIDE DEF o
  <2> QED
    BY <1>3, SourceFacts
<1>5. i = 2 => SourceOf(o).kind # "HelmChart"
  BY <1>1, <1>4
<1> QED
  BY <1>1, <1>2, <1>4, <1>5

\* A source reconciled for the first time has not been annotated.
LEMMA SourceUntouched ==
    ASSUME IInv, stack # <<>>, ret = "none", Top.pc = "source",
           GetSource(Top.obj).cmd # "nil", SourceOf(Top.obj) \notin DOMAIN sources,
           SourceOf(Top.obj) \in Objects
    PROVE  requests[SourceOf(Top.obj)] = 0
<1> DEFINE key == SourceOf(Top.obj)
           L == Len(stack)
<1>1. TypeOK /\ Nesting /\ Accounted
  BY DEF IInv
<1>2. /\ L \in 1..L /\ L \in 1..3 /\ CallOK(L) /\ Top.obj = Subject(L) /\ Top.obj \in Objects
  BY TopFacts
<1>3. Asks(L)
  BY <1>2 DEF CallOK, Top
<1>4. key.kind # kind /\ (L = 2 => key.kind # "HelmChart") /\ L \in {1, 2}
  BY <1>1, <1>2, <1>3, SourceOfCall, Asking
<1>5. SUFFICES ASSUME requests[key] > 0
               PROVE  FALSE
  <2>1. requests[key] \in Nat
    BY <1>1 DEF TypeOK
  <2> QED
    BY <1>5, <2>1
<1>6. key # Current /\ \A j : key # NamedAt(j)
  BY <1>4 DEF Current, NamedAt, Ref
<1>7. PICK i \in 1..Len(stack) : stack[i].pc = "waitSource" /\ stack[i].src = key
  BY <1>1, <1>5, <1>6 DEF Accounted
<1>8. i < L
  BY <1>1, <1>7 DEF Nesting, CallOK
<1>9. i = 1 /\ L = 2
  <2>1. L = 1 \/ L = 2
    BY <1>4
  <2> HIDE DEF L
  <2>2. i \in Int /\ 1 <= i
    OBVIOUS
  <2> QED
    BY <2>1, <2>2, <1>8
<1>10. key = Subject(2)
  BY <1>7, <1>9 DEF Subject
<1>11. Subject(2).kind = "HelmChart"
  BY <1>1, <1>2, <1>3, <1>9, Asking
<1> QED
  BY <1>4, <1>9, <1>10, <1>11

LEMMA SourceStartStep ==
    ASSUME IInv, SourceStart, NEW L, L = Len(stack)
    PROVE  IInv'
<1> DEFINE o == Top.obj
           s == GetSource(o)
           key == SourceOf(o)
           f == [Top EXCEPT !.pc = "waitSource", !.src = key, !.saved = ns]
           g == Frame(s.cmd, key.kind, key.name)
<1>1. /\ TypeOK /\ Nesting /\ Meant /\ Accounted /\ Fresh /\ Annotated /\ ExitHonest
  BY DEF IInv, Annotated
<1>2. /\ stack # <<>> /\ ret = "none" /\ Top.pc = "source" /\ s.cmd # "nil"
      /\ UNCHANGED <<kind, withSource, args, todo, ret, sources, exit, requests,
                     succeeded, reported>>
  BY DEF SourceStart
<1>3. SourceKey(s.ref) = key
  BY <1>2, KeyIsSource
<1>4. key \notin DOMAIN sources /\ ns' = key.ns
  BY <1>3 DEF SourceStart, SourceKey
<1>5. /\ L \in 1..L /\ L \in 1..3 /\ Top \in Frames /\ CallOK(L)
      /\ o = Subject(L) /\ o \in Objects
  BY <1>2, TopFacts
<1>6. Asks(L) /\ L \in {1, 2}
  <2>1. Asks(L)
    BY <1>2, <1>5 DEF CallOK, Top
  <2> QED
    BY <2>1, <1>1, <1>5, Asking
<1>7. /\ key \in Refs /\ key.kind # kind /\ s.cmd \in {"plain", "chart"}
      /\ s.cmd = "chart" <=> key.kind = "HelmChart"
      /\ L = 2 => key.kind # "HelmChart"
  BY <1>1, <1>2, <1>5, <1>6, SourceOfCall
<1>8. /\ f \in Frames /\ f.cmd = Top.cmd /\ f.kind = Top.kind /\ f.name = Top.name
      /\ f.obj = o /\ f.pc = "waitSource" /\ f.src = key /\ f.saved = ns
  <2>1. ns \in STRING
    BY <1>1 DEF TypeOK
  <2> HIDE DEF key
  <2> QED
    BY <2>1, <1>5, <1>7 DEF Frames
<1>9. /\ g \in Frames /\ g.cmd = s.cmd /\ g.kind = key.kind /\ g.name = key.name
      /\ g.pc = "get"
  <2>1. key.kind \in STRING /\ key.name \in STRING
    BY <1>7 DEF Refs
  <2> DEFINE z == ""
  <2> HIDE DEF key, s
  <2>2. g = [cmd |-> s.cmd, kind |-> key.kind, name |-> key.name, pc |-> "get",
             obj |-> NoRef, src |-> NoRef, saved |-> z, late |-> FALSE]
    BY DEF Frame
  <2>3. Frames = [cmd : {"plain", "parent", "chart"}, kind : STRING, name : STRING,
                  pc : {"get", "source", "waitSource", "request", "poll"},
                  obj : Refs \cup {NoRef}, src : Refs \cup {NoRef},
                  saved : STRING \cup {z}, late : BOOLEAN]
    BY DEF Frames
  <2> HIDE DEF z, g
  <2> QED
    BY <1>7, <2>1, <2>2, <2>3
<1>10. stack' = Append([stack EXCEPT ![Len(stack)] = f], g)
  <2>1. (IF s.cmd = "chart" THEN "HelmChart" ELSE key.kind) = key.kind
    BY <1>7
  <2>2. stack' = Append([stack EXCEPT ![Len(stack)] =
                            [Top EXCEPT !.pc = "waitSource", !.src = key, !.saved = ns]],
                        Frame(s.cmd, IF s.cmd = "chart" THEN "HelmChart" ELSE key.kind,
                              key.name))
    BY <1>3 DEF SourceStart
  <2> QED
    BY <2>1, <2>2, Zenon
<1> HIDE DEF f, g
<1>11. /\ stack' \in Seq(Frames) /\ Len(stack') = L + 1
       /\ stack' # <<>> /\ stack'[L + 1] = g /\ stack'[L] = f
       /\ \A i \in 1..L : i # L => stack'[i] = stack[i]
  BY <1>1, <1>2, <1>8, <1>9, <1>10, Pushed
<1> HIDE DEF key, s, o
<1>12. Current' = Current /\ \A j : NamedAt(j)' = NamedAt(j)
  BY <1>2 DEF Current, NamedAt
<1>13. /\ \A i \in 1..L : Subject(i)' = Subject(i) /\ Asks(i)' = Asks(i)
       /\ Subject(L + 1)' = key
  <2>1. Subject(L + 1)' = key
    BY <1>5, <1>8, <1>11 DEF Subject
  <2>2. ASSUME NEW i \in 1..L
        PROVE  Subject(i)' = Subject(i) /\ Asks(i)' = Asks(i)
    <3>1. i = 1 \/ (i - 1 \in 1..L /\ i - 1 # L)
      BY <1>5
    <3>2. Subject(i)' = Subject(i)
      BY <3>1, <1>11, <1>12 DEF Subject
    <3>3. stack'[i].cmd = stack[i].cmd
      BY <1>8, <1>11 DEF Top
    <3> QED
      BY <3>2, <3>3, <1>2 DEF Asks
  <2> QED
    BY <2>1, <2>2
<1>14. TypeOK'
  <2>1. \A i \in 1..Len(stack') : stack'[i].pc = "get" \/ stack'[i].obj \in Objects
    <3>1. \A i \in 1..L : stack[i].pc = "get" \/ stack[i].obj \in Objects
      BY <1>1, StackFacts DEF TypeOK
    <3> QED
      BY <3>1, <1>5, <1>8, <1>9, <1>11
  <2>2. /\ DOMAIN sources' \subseteq Refs
        /\ \A k \in DOMAIN sources' : sources'[k] \in {"ok", "err"}
        /\ requests' \in [Objects -> Nat] /\ succeeded' \subseteq Objects
        /\ ret' \in Results \cup {"none"}
    BY <1>1, <1>2 DEF TypeOK
  <2>3. ns' \in STRING
    BY <1>4, <1>7 DEF Refs
  <2>4. Len(stack') <= 3
    BY <1>6, <1>11
  <2> QED
    BY <1>1, <1>2, <1>11, <2>1, <2>2, <2>3, <2>4, TypesKept
<1>15. Nesting'
  <2>1. IsInjective(args)' /\ (Busy => Len(reported) < Len(args))'
    BY <1>1, <1>2 DEF Nesting, Busy, IsInjective
  <2>2. ASSUME NEW i \in 1..Len(stack')
        PROVE  CallOK(i)'
    <3>1. CASE i = L + 1
      <4>1. ~(i < Len(stack') \/ ret' # "none")
        BY <3>1, <1>2, <1>5, <1>11
      <4>2. i # 1 /\ stack'[i] = g /\ Subject(i)' = key
        BY <3>1, <1>5, <1>11, <1>13
      <4>3. g.cmd = "chart" => i = 2
        BY <3>1, <1>6, <1>7, <1>9
      <4> QED
        BY <4>1, <4>2, <4>3, <1>7, <1>9 DEF CallOK
    <3>2. CASE i = L
      <4>1. CallOK(i) /\ stack'[i] = f /\ Subject(i)' = Subject(i) /\ Asks(i)' = Asks(i)
        BY <3>2, <1>5, <1>11, <1>13
      <4>2. stack[i].cmd = f.cmd /\ stack[i].kind = f.kind /\ stack[i].name = f.name
        BY <3>2, <1>8 DEF Top
      <4>3. i < Len(stack')
        BY <3>2, <1>5, <1>11
      <4>4. ns = Subject(i).ns
        BY <3>2, <1>1, <1>2 DEF Nesting
      <4> QED
        BY <4>1, <4>2, <4>3, <4>4, <3>2, <1>2, <1>5, <1>6, <1>8 DEF CallOK, key, s
    <3>3. CASE i \notin {L, L + 1}
      <4>1. i \in 1..L /\ i < L /\ i < Len(stack') /\ stack'[i] = stack[i]
        BY <3>3, <1>5, <1>11
      <4>2. CallOK(i) /\ Subject(i)' = Subject(i) /\ Asks(i)' = Asks(i)
        BY <4>1, <1>1, <1>13 DEF Nesting
      <4> QED
        BY <4>1, <4>2 DEF CallOK
    <3> QED
      BY <3>1, <3>2, <3>3
  <2>3. (ns = Subject(Len(stack)).ns)'
    BY <1>4, <1>11, <1>13
  <2> QED
    BY <2>1, <2>2, <2>3, <1>11 DEF Nesting
<1>16. Meant'
  <2>1. (\A k \in DOMAIN sources :
            k.kind # kind /\ (sources[k] = "ok" => Usable(k)))'
    BY <1>1, <1>2 DEF Meant, Usable
  <2>2. (\A j \in 1..Len(reported) :
            /\ reported[j] = "ok" => NamedAt(j) \in succeeded
            /\ reported[j] = "getNotFound" => NamedAt(j) \notin Objects)'
    BY <1>1, <1>2, <1>12 DEF Meant
  <2>3. ASSUME NEW i \in 1..Len(stack'), Asks(i)', stack'[i].pc \in {"request", "poll"}
        PROVE  Usable(SourceOf(Subject(i)))'
    <3>1. i \in 1..L /\ i # L
      BY <2>3, <1>5, <1>8, <1>9, <1>11
    <3>2. stack'[i] = stack[i] /\ Subject(i)' = Subject(i) /\ Asks(i)' = Asks(i)
      BY <3>1, <1>11, <1>13
    <3>3. Usable(SourceOf(Subject(i)))
      BY <3>1, <3>2, <2>3, <1>1 DEF Meant
    <3> QED
      BY <3>2, <3>3, <1>2 DEF Usable
  <2> QED
    BY <2>1, <2>2, <2>3, <1>2, <1>11 DEF Meant
<1>17. Accounted'
  <2>1. SUFFICES ASSUME NEW x \in Objects, requests[x] > 0
                 PROVE  \/ x \in DOMAIN sources
                        \/ \E i \in 1..Len(stack') : stack'[i].pc = "waitSource" /\ stack'[i].src = x
                        \/ x = Current
                        \/ \E j \in 1..Len(reported) : x = NamedAt(j)
    BY <1>2, <1>11, <1>12 DEF Accounted, Busy
  <2>2. ASSUME NEW i \in 1..Len(stack), stack[i].pc = "waitSource", stack[i].src = x
        PROVE  i \in 1..Len(stack') /\ stack'[i] = stack[i]
    <3>1. i # L
      BY <2>2, <1>2 DEF Top
    <3> QED
      BY <3>1, <1>5, <1>11
  <2> QED
    BY <2>1, <2>2, <1>1 DEF Accounted
<1>18. Fresh'
  <2>1. ASSUME NEW i \in 1..Len(stack'), stack'[i].pc # "poll", Subject(i)' \in Objects
        PROVE  requests[Subject(i)'] = 0
    <3>1. CASE i = L + 1
      <4>1. Subject(i)' = key
        BY <3>1, <1>13
      <4>2. requests[key] = 0
        BY <2>1, <4>1, <1>2, <1>4, SourceUntouched DEF key, s, o
      <4> QED
        BY <4>1, <4>2
    <3>2. CASE i # L + 1
      <4>1. i \in 1..L /\ Subject(i)' = Subject(i)
        BY <3>2, <1>5, <1>11, <1>13
      <4>2. stack[i].pc # "poll"
        BY <4>1, <2>1, <1>2, <1>11 DEF Top
      <4> QED
        BY <4>1, <4>2, <2>1, <1>1 DEF Fresh
    <3> QED
      BY <3>1, <3>2
  <2> QED
    BY <2>1, <1>2 DEF Fresh
<1>19. Annotated' /\ ExitHonest'
  BY <1>1, <1>2, Kept, SameMeaning DEF ExitHonest
<1> QED
  BY <1>14, <1>15, <1>16, <1>17, <1>18, <1>19 DEF IInv, Annotated

\* The result of a source comes back: whatever it is, the namespace is the
\* caller's again.
LEMMA SourceReturnedStep ==
    ASSUME IInv, SourceReturned, NEW L, L = Len(stack)
    PROVE  IInv'
<1> DEFINE o == Subject(L)
           res == UnwrapGetError(ret)
<1>1. /\ TypeOK /\ Nesting /\ Meant /\ Accounted /\ Fresh /\ Annotated /\ ExitHonest
  BY DEF IInv, Annotated
<1>2. /\ stack # <<>> /\ ret # "none" /\ Top.pc = "waitSource"
      /\ ns' = Top.saved
      /\ sources' = [k \in DOMAIN sources \cup {Top.src} |->
                        IF k = Top.src THEN res ELSE sources[k]]
      /\ UNCHANGED <<kind, withSource, args, todo, exit, requests, succeeded, reported>>
      /\ \/ /\ res = "ok" /\ ret' = "none"
            /\ \E late \in BOOLEAN : SetTop([Top EXCEPT !.pc = "request", !.late = late])
         \/ res # "ok" /\ Return(res)
  BY DEF SourceReturned, RestoredNs
<1>3. /\ L \in 1..Len(stack) /\ L \in 1..3 /\ Top \in Frames /\ CallOK(L)
      /\ Top = stack[L]
  <2>1. stack # <<>> /\ TypeOK
    BY <1>1, <1>2
  <2>2. L \in 1..Len(stack) /\ L \in 1..3 /\ Top \in Frames /\ Top = stack[L]
    BY <2>1, StackFacts DEF Top
  <2> QED
    BY <2>2, <1>1 DEF Nesting
<1>4. /\ Top.obj = o /\ o \in Objects /\ Top.saved = o.ns /\ Top.src = SourceOf(o)
      /\ GetSource(o).cmd # "nil" /\ Asks(L)
  <2>1. Top.obj = o /\ o \in Objects
    BY <1>1, <1>2, <1>3, SubjectRead
  <2> QED
    BY <2>1, <1>2, <1>3 DEF CallOK
<1>5. Top.src \in Refs /\ Top.src.kind # kind
  BY <1>1, <1>3, <1>4, SourceOfCall
<1>6. /\ res \in {"ok", "err"} /\ res # "getNotFound"
      /\ res = "ok" => Usable(Top.src)
  <2>1. ret \in {"ok", "err", "getNotFound"}
    BY <1>1, <1>2 DEF TypeOK, Results
  <2>2. ret = "ok" => Usable(Top.src)
    BY <1>1, <1>2 DEF Meant
  <2> QED
    BY <2>1, <2>2 DEF UnwrapGetError
<1> HIDE DEF res, o
<1>7. /\ DOMAIN sources' = DOMAIN sources \cup {Top.src}
      /\ DOMAIN sources' \subseteq Refs
      /\ \A k \in DOMAIN sources' :
             /\ sources'[k] \in {"ok", "err"}
             /\ k.kind # kind /\ (sources'[k] = "ok" => Usable(k))
  <2>1. /\ DOMAIN sources' = DOMAIN sources \cup {Top.src}
        /\ \A k \in DOMAIN sources' : sources'[k] = IF k = Top.src THEN res ELSE sources[k]
    BY <1>2
  <2>2. /\ DOMAIN sources \subseteq Refs
        /\ \A k \in DOMAIN sources :
             /\ sources[k] \in {"ok", "err"}
             /\ k.kind # kind /\ (sources[k] = "ok" => Usable(k))
    BY <1>1 DEF TypeOK, Meant
  <2> QED
    BY <2>1, <2>2, <1>5, <1>6
<1>8. requests' \in [Objects -> Nat] /\ succeeded' \subseteq Objects
  BY <1>1, <1>2 DEF TypeOK
\* An annotated source on its way back is now a recorded one.
<1>9. ASSUME NEW x \in Objects, requests[x] > 0
      PROVE  \/ x \in DOMAIN sources'
             \/ \E i \in 1..Len(stack) :
                   i # L /\ stack[i].pc = "waitSource" /\ stack[i].src = x
             \/ x = Current
             \/ \E j \in 1..Len(reported) : x = NamedAt(j)
  BY <1>1, <1>3, <1>7, <1>9 DEF Accounted
<1>10. CASE res = "ok"
  <2>1. PICK late \in BOOLEAN : SetTop([Top EXCEPT !.pc = "request", !.late = late])
    BY <1>2, <1>10
  <2> DEFINE f == [Top EXCEPT !.pc = "request", !.late = late]
  <2>2. /\ f \in Frames /\ f.cmd = Top.cmd /\ f.kind = Top.kind /\ f.name = Top.name
        /\ f.obj = Top.obj /\ f.pc = "request" /\ SetTop(f) /\ ret' = "none"
    BY <1>2, <1>3, <1>10, <2>1 DEF Frames
  <2> HIDE DEF f
  <2>3. /\ stack' # <<>> /\ Len(stack') = Len(stack) /\ stack'[L] = f
        /\ \A i \in 1..Len(stack) : i # L => stack'[i] = stack[i]
    BY <1>1, <1>2, <2>2, TopChanged
  <2>4. /\ f.obj = Subject(Len(stack)) /\ f.obj \in Objects /\ ns' = f.obj.ns
        /\ f.pc \in {"source", "request", "poll"} /\ f.pc # "source"
        /\ Usable(SourceOf(f.obj))
    BY <1>2, <1>4, <1>6, <1>10, <2>2 DEF o
  <2>5. /\ TypeOK' /\ Nesting' /\ Meant' /\ ExitHonest'
        /\ Current' = Current /\ \A j : NamedAt(j)' = NamedAt(j)
        /\ \A i \in 1..Len(stack) : Subject(i)' = Subject(i)
    BY <1>2, <1>7, <1>8, <2>2, <2>4, Continuing
  <2>6. Accounted'
    <3>1. SUFFICES ASSUME NEW x \in Objects, requests[x] > 0
                   PROVE  \/ x \in DOMAIN sources'
                          \/ \E i \in 1..Len(stack') : stack'[i].pc = "waitSource" /\ stack'[i].src = x
                          \/ x = Current
                          \/ \E j \in 1..Len(reported) : x = NamedAt(j)
      BY <1>2, <2>3, <2>5 DEF Accounted, Busy
    <3>2. ASSUME NEW i \in 1..Len(stack), i # L, stack[i].pc = "waitSource", stack[i].src = x
          PROVE  i \in 1..Len(stack') /\ stack'[i] = stack[i]
      BY <3>2, <2>3
    <3> QED
      BY <3>1, <3>2, <1>9
  <2>7. Fresh'
    <3>1. ASSUME NEW i \in 1..Len(stack'), stack'[i].pc # "poll", Subject(i)' \in Objects
          PROVE  requests'[Subject(i)'] = 0
      <4>1. i \in 1..Len(stack) /\ Subject(i)' = Subject(i) /\ stack[i].pc # "poll"
        BY <3>1, <1>2, <1>3, <2>3, <2>5
      <4> QED
        BY <4>1, <3>1, <1>1, <1>2 DEF Fresh
    <3> QED
      BY <3>1 DEF Fresh
  <2>8. Annotated'
    BY <1>1, <1>2, Kept
  <2> QED
    BY <2>5, <2>6, <2>7, <2>8 DEF IInv, Annotated
<1>11. CASE res # "ok"
  <2>1. /\ stack' \in Seq(Frames) /\ Len(stack') = Len(stack) - 1
        /\ stack' = <<>> <=> Len(stack) = 1
        /\ \A i \in 1..Len(stack') : stack'[i] = stack[i]
        /\ ret' = "err"
    BY <1>1, <1>2, <1>6, <1>11, Popped
  <2>2. Current' = Current /\ \A j : NamedAt(j)' = NamedAt(j)
    BY <1>2 DEF Current, NamedAt
  <2>3. ASSUME NEW i \in 1..Len(stack')
        PROVE  /\ i \in 1..Len(stack) /\ i < Len(stack) /\ stack'[i] = stack[i]
               /\ Subject(i)' = Subject(i) /\ Asks(i)' = Asks(i)
    <3>1. i \in 1..Len(stack) /\ i < Len(stack) /\ stack'[i] = stack[i]
      BY <1>3, <2>1
    <3>2. i = 1 \/ i - 1 \in 1..Len(stack')
      BY <1>3, <2>1
    <3>3. Subject(i)' = Subject(i)
      BY <3>2, <2>1, <2>2 DEF Subject
    <3> QED
      BY <3>1, <3>3, <1>2 DEF Asks
  <2>4. TypeOK'
    <3>1. \A i \in 1..Len(stack') : stack'[i].pc = "get" \/ stack'[i].obj \in Objects
      BY <1>1, <2>3, StackFacts DEF TypeOK
    <3>2. ns' \in STRING
      BY <1>2, <1>4, ClusterAssumption DEF Refs
    <3>3. Len(stack') <= 3 /\ ret' \in Results \cup {"none"}
      BY <1>3, <2>1 DEF Results
    <3> QED
      BY <1>1, <1>2, <1>7, <1>8, <2>1, <3>1, <3>2, <3>3, TypesKept
  <2>5. Nesting'
    <3>1. IsInjective(args)' /\ (Busy => Len(reported) < Len(args))'
      BY <1>1, <1>2 DEF Nesting, Busy, IsInjective
    <3>2. ASSUME NEW i \in 1..Len(stack')
          PROVE  CallOK(i)'
      <4>1. CallOK(i)
        BY <1>1, <2>3 DEF Nesting
      <4> QED
        BY <4>1, <2>1, <2>3, <1>2 DEF CallOK
    <3>3. (stack = <<>> => ns = CmdNs)'
      BY <1>2, <1>4, <2>1 DEF Subject, Current, NamedAt, Ref, o
    <3> QED
      BY <3>1, <3>2, <3>3, <2>1 DEF Nesting
  <2>6. Meant'
    <3>1. (\A k \in DOMAIN sources :
              k.kind # kind /\ (sources[k] = "ok" => Usable(k)))'
      BY <1>2, <1>7 DEF Usable
    <3>2. (\A j \in 1..Len(reported) :
              /\ reported[j] = "ok" => NamedAt(j) \in succeeded
              /\ reported[j] = "getNotFound" => NamedAt(j) \notin Objects)'
      BY <1>1, <1>2, <2>2 DEF Meant
    <3>3. ASSUME NEW i \in 1..Len(stack'), Asks(i)', stack'[i].pc \in {"request", "poll"}
          PROVE  Usable(SourceOf(Subject(i)))'
      BY <3>3, <2>3, <1>1, <1>2 DEF Meant, Usable
    <3> QED
      BY <3>1, <3>2, <3>3, <2>1 DEF Meant
  <2>7. Accounted'
    <3>1. SUFFICES ASSUME NEW x \in Objects, requests[x] > 0
                   PROVE  \/ x \in DOMAIN sources'
                          \/ \E i \in 1..Len(stack') : stack'[i].pc = "waitSource" /\ stack'[i].src = x
                          \/ x = Current
                          \/ \E j \in 1..Len(reported) : x = NamedAt(j)
      BY <1>2, <2>1, <2>2 DEF Accounted, Busy
    <3>2. ASSUME NEW i \in 1..Len(stack), i # L, stack[i].pc = "waitSource", stack[i].src = x
          PROVE  i \in 1..Len(stack') /\ stack'[i] = stack[i]
      BY <3>2, <1>3, <2>1
    <3> QED
      BY <3>1, <3>2, <1>9
  <2>8. Fresh'
    <3>1. ASSUME NEW i \in 1..Len(stack'), stack'[i].pc # "poll", Subject(i)' \in Objects
          PROVE  requests'[Subject(i)'] = 0
      BY <3>1, <2>3, <1>1, <1>2 DEF Fresh
    <3> QED
      BY <3>1 DEF Fresh
  <2>9. Annotated' /\ ExitHonest'
    BY <1>1, <1>2, Kept, SameMeaning DEF ExitHonest
  <2> QED
    BY <2>4, <2>5, <2>6, <2>7, <2>8, <2>9 DEF IInv, Annotated
<1> QED
  BY <1>10, <1>11

\* The wait for a reconciliation ends, with the object reconciled or not.
LEMMA WaitedStep ==
    ASSUME IInv, Waited
    PROVE  IInv'
<1>1. /\ stack # <<>> /\ ret = "none" /\ Top.pc = "poll"
      /\ UNCHANGED <<kind, withSource, args, todo, ns, sources, exit, requests, reported>>
      /\ \/ Return("ok") /\ succeeded' = succeeded \cup {Top.obj}
         \/ Return("err") /\ UNCHANGED succeeded
  BY DEF Waited
<1>2. Top.obj = Subject(Len(stack)) /\ Top.obj \in Objects
  BY <1>1, TopFacts
<1>3. CASE Return("err") /\ UNCHANGED succeeded
  BY <1>1, <1>3, Failing
<1>4. CASE Return("ok") /\ succeeded' = succeeded \cup {Top.obj}
  <2>1. succeeded \subseteq succeeded' /\ succeeded' \subseteq Objects
    BY <1>2, <1>4 DEF IInv, TypeOK
  <2>2. /\ Subject(Len(stack)) \in succeeded' \cup StaticRefs
        /\ Len(stack) = 1 => Current \in succeeded'
    BY <1>2, <1>4 DEF Subject
  <2> QED
    BY <1>1, <1>4, <2>1, <2>2, Returning DEF Results
<1> QED
  BY <1>1, <1>3, <1>4

\* An object is annotated: for the first time, after its source, and meant.
LEMMA AnnotateStep ==
    ASSUME IInv, Annotate, NEW L, L = Len(stack)
    PROVE  IInv'
<1> DEFINE o == Subject(L)
           f == [Top EXCEPT !.pc = "poll"]
<1>1. /\ TypeOK /\ Nesting /\ Meant /\ Accounted /\ Fresh /\ Annotated /\ ExitHonest
  BY DEF IInv, Annotated
<1>2. /\ stack # <<>> /\ ret = "none" /\ Top.pc = "request"
      /\ UNCHANGED <<kind, withSource, args, todo, ns, sources, exit, succeeded,
                     reported>>
      /\ \/ Return("err") /\ UNCHANGED requests
         \/ /\ requests' = [requests EXCEPT ![Top.obj] = @ + 1]
            /\ SetTop(f) /\ UNCHANGED ret
  BY DEF Annotate, Goto
<1>3. CASE Return("err") /\ UNCHANGED requests
  BY <1>2, <1>3, Failing
<1>4. CASE /\ requests' = [requests EXCEPT ![Top.obj] = @ + 1]
           /\ SetTop(f) /\ UNCHANGED ret
  <2>1. /\ L \in 1..L /\ L \in 1..3 /\ Top \in Frames /\ Top = stack[L]
        /\ Top.obj = o /\ o \in Objects
    BY <1>2, TopFacts DEF Top
  <2>2. /\ f \in Frames /\ f.cmd = Top.cmd /\ f.kind = Top.kind /\ f.name = Top.name
        /\ f.obj = o /\ f.pc = "poll"
    BY <2>1 DEF Frames
  <2> HIDE DEF f
  <2>3. Asks(L) => Usable(SourceOf(o))
    BY <1>1, <1>2, <2>1 DEF Meant
  <2>4. /\ o \in Intended
        /\ ~Asks(L) => (L = 1 /\ ~withSource) \/ o.kind \in PlainKinds
        /\ \A i \in 1..L : i # L => Subject(i) # o
    <3>1. \A i \in 1..L :
             /\ Subject(i) \in Intended
             /\ i = 1 => Subject(i).kind = kind
             /\ i # 1 => /\ Subject(i).kind # kind
                         /\ i = 3 => Subject(2).kind = "HelmChart" /\ Subject(3).kind \in PlainKinds
                         /\ i \in {2, 3}
                         /\ ~Asks(i) => Subject(i).kind \in PlainKinds
      BY <1>1, Lineage
    <3>2. o \in Intended
      BY <2>1, <3>1
    <3>3. ~Asks(L) => (L = 1 /\ ~withSource) \/ o.kind \in PlainKinds
      BY <2>1, <3>1 DEF Asks
    <3>4. ASSUME NEW i \in 1..L, i # L
          PROVE  Subject(i) # Subject(L)
      <4>1. CASE i = 1
        BY <4>1, <3>4, <3>1, <2>1
      <4>2. CASE i # 1
        <5>1. i = 2 /\ L = 3
          BY <4>2, <3>4, <2>1
        <5>2. Subject(2).kind = "HelmChart" /\ Subject(3).kind \in PlainKinds
          BY <5>1, <3>1, <2>1
        <5> QED
          BY <5>1, <5>2 DEF PlainKinds
      <4> QED
        BY <4>1, <4>2
    <3> QED
      BY <3>2, <3>3, <3>4
  <2>5. requests[o] = 0
    BY <1>1, <1>2, <2>1 DEF Fresh
  <2>6. /\ requests' \in [Objects -> Nat]
        /\ requests'[o] = 1
        /\ \A x \in Objects : x # o => requests'[x] = requests[x]
    <3>1. requests \in [Objects -> Nat]
      BY <1>1 DEF TypeOK
    <3>2. requests' = [requests EXCEPT ![o] = @ + 1]
      BY <1>4, <2>1
    <3> HIDE DEF o
    <3> QED
      BY <3>1, <3>2, <2>1, <2>5
  <2>7. /\ stack' # <<>> /\ Len(stack') = Len(stack) /\ stack'[L] = f
        /\ \A i \in 1..Len(stack) : i # L => stack'[i] = stack[i]
    BY <1>1, <1>2, <1>4, <2>2, TopChanged
  <2>8. /\ TypeOK' /\ Nesting' /\ Meant' /\ ExitHonest'
        /\ Current' = Current /\ \A j : NamedAt(j)' = NamedAt(j)
        /\ \A i \in 1..Len(stack) : Subject(i)' = Subject(i)
    <3>1. ns' = f.obj.ns /\ f.obj = Subject(Len(stack)) /\ f.obj \in Objects
      BY <1>1, <1>2, <2>1, <2>2 DEF Nesting
    <3>2. /\ DOMAIN sources' \subseteq Refs
          /\ \A key \in DOMAIN sources' :
                 /\ sources'[key] \in {"ok", "err"}
                 /\ key.kind # kind /\ (sources'[key] = "ok" => Usable(key))
      BY <1>1, <1>2 DEF TypeOK, Meant
    <3>3. f.pc # "source" /\ Asks(Len(stack)) => Usable(SourceOf(f.obj))
      BY <2>2, <2>3
    <3>4. ret' = "none" /\ SetTop(f)
      BY <1>2, <1>4
    <3> QED
      BY <1>2, <2>2, <2>6, <3>1, <3>2, <3>3, <3>4, Continuing
  <2>9. Accounted'
    <3>1. SUFFICES ASSUME NEW x \in Objects, requests'[x] > 0
                   PROVE  \/ x \in DOMAIN sources
                          \/ \E i \in 1..Len(stack') : stack'[i].pc = "waitSource" /\ stack'[i].src = x
                          \/ x = Current
                          \/ \E j \in 1..Len(reported) : x = NamedAt(j)
      BY <1>2, <2>7, <2>8 DEF Accounted, Busy
    <3>2. CASE x = o
      <4>1. CASE L = 1
        BY <3>2, <4>1 DEF Subject
      <4>2. CASE L # 1
        <5>1. L - 1 \in 1..Len(stack) /\ L - 1 # L /\ stack[L - 1].pc = "waitSource"
          BY <1>1, <2>1, <4>2, Nested
        <5>2. stack[L - 1].src = o
          BY <4>2 DEF Subject
        <5> QED
          BY <3>2, <5>1, <5>2, <2>7
      <4> QED
        BY <4>1, <4>2
    <3>3. CASE x # o
      <4>1. requests[x] > 0
        BY <3>1, <3>3, <2>6
      <4>2. ASSUME NEW i \in 1..Len(stack), stack[i].pc = "waitSource", stack[i].src = x
            PROVE  i \in 1..Len(stack') /\ stack'[i] = stack[i]
        BY <4>2, <1>2, <2>1, <2>7
      <4> QED
        BY <4>1, <4>2, <1>1 DEF Accounted
    <3> QED
      BY <3>2, <3>3
  <2>10. Fresh'
    <3>1. ASSUME NEW i \in 1..Len(stack'), stack'[i].pc # "poll", Subject(i)' \in Objects
          PROVE  requests'[Subject(i)'] = 0
      <4>1. i \in 1..Len(stack) /\ i # L /\ Subject(i)' = Subject(i) /\ stack'[i] = stack[i]
        BY <3>1, <2>2, <2>7, <2>8
      <4>2. requests[Subject(i)] = 0 /\ Subject(i) # o
        BY <3>1, <4>1, <1>1, <2>4 DEF Fresh
      <4> QED
        BY <3>1, <4>1, <4>2, <2>6
    <3> QED
      BY <3>1 DEF Fresh
  <2>11. EachObjectOnce'
    BY <1>1, <2>6 DEF EachObjectOnce, Annotated
  <2>12. OnlyIntended'
    <3>1. Intended' = Intended
      BY <1>2, SameMeaning
    <3> QED
      BY <1>1, <2>4, <2>6, <3>1 DEF OnlyIntended, Annotated
  <2>13. SourceBeforeObject'
    <3>1. Named' = Named /\ Charts' = Charts
      BY <1>2, SameMeaning
    <3>2. withSource /\ HasSource(o) => Usable(SourceOf(o))
      <4>1. HasSource(o) => o.kind \notin PlainKinds
        BY ClusterAssumption DEF HasSource, PlainKinds
      <4> QED
        BY <4>1, <2>3, <2>4
    <3> QED
      BY <1>1, <1>2, <2>6, <3>1, <3>2 DEF SourceBeforeObject, Annotated, Usable
  <2> QED
    BY <2>8, <2>9, <2>10, <2>11, <2>12, <2>13 DEF IInv
<1> QED
  BY <1>2, <1>3, <1>4

----------------------------------------------------------------------------
(* The loop over the names.                                                *)

\* The names left are those after the reported ones.
LEMMA NamesLeft ==
    ASSUME TypeOK
    PROVE  /\ Len(args) \in Nat /\ DOMAIN args = 1..Len(args) /\ Len(reported) \in Nat
           /\ todo # <<>> => /\ Len(reported) < Len(args)
                             /\ Head(todo) = args[Len(reported) + 1]
                             /\ Head(todo) \in STRING
           /\ Len(reported) < Len(args) =>
                 Tail(todo) = SubSeq(args, Len(reported) + 2, Len(args))
           /\ todo = <<>> => Len(reported) = Len(args)
<1> DEFINE n == Len(reported)
           m == Len(args)
<1>1. args \in Seq(NamesOf[kind]) /\ reported \in Seq(Results)
  BY DEF TypeOK
<1>2. n \in Nat /\ m \in Nat /\ DOMAIN args = 1..m
  BY <1>1, LenProperties
<1>3. n <= m /\ todo = SubSeq(args, n + 1, m)
  BY DEF TypeOK
<1> HIDE DEF n, m
<1>4. CASE n = m
  <2>1. todo = <<>>
    <3>1. m < n + 1 /\ n + 1 \in Int /\ m \in Int
      BY <1>2, <1>4
    <3> QED
      BY <1>3, <3>1, SubSeqEmpty
  <2> QED
    BY <1>2, <1>4, <2>1 DEF n, m
<1>5. CASE n # m
  <2>1. n < m /\ n + 1 \in 1..m /\ m \in (n + 1)..m /\ (n + 1) + 1 = n + 2
    BY <1>2, <1>3, <1>5
  <2>2. Head(todo) = args[n + 1] /\ Tail(todo) = SubSeq(args, (n + 1) + 1, m)
    BY <1>1, <1>3, <2>1, HeadTailOfSubSeq DEF m
  <2>3. args[n + 1] \in STRING
    <3>1. args[n + 1] \in NamesOf[kind]
      BY <1>1, <2>1, ElementOfSeq DEF m
    <3>2. kind \in DOMAIN NamesOf
      BY DEF TypeOK
    <3> QED
      BY <3>1, <3>2, ClusterAssumption
  <2>4. todo # <<>>
    <3>1. \A i \in (n + 1)..m : args[i] \in NamesOf[kind]
      BY <1>1, <1>2, ElementOfSeq DEF m
    <3>2. Len(SubSeq(args, n + 1, m)) = IF n + 1 <= m THEN m - (n + 1) + 1 ELSE 0
      BY <1>2, <3>1, SubSeqProperties
    <3>3. Len(todo) # 0
      BY <1>2, <1>3, <2>1, <3>2
    <3> QED
      BY <3>3, EmptySeq, Zenon
  <2> QED
    BY <1>2, <2>1, <2>2, <2>3, <2>4 DEF n, m
<1> QED
  BY <1>4, <1>5

LEMMA NextNameStep ==
    ASSUME IInv, NextName
    PROVE  IInv'
<1> DEFINE f == Frame("parent", kind, Head(todo))
<1>1. /\ TypeOK /\ Nesting /\ Meant /\ Accounted /\ Fresh /\ Annotated /\ ExitHonest
  BY DEF IInv, Annotated
<1>2. /\ stack = <<>> /\ ret = "none" /\ todo # <<>> /\ stack' = <<f>>
      /\ UNCHANGED <<kind, withSource, args, todo, ret, ns, sources, exit,
                     requests, succeeded, reported>>
  BY DEF NextName
<1>3. /\ Len(reported) < Len(args) /\ Head(todo) = args[Len(reported) + 1]
      /\ Head(todo) \in STRING
  BY <1>1, <1>2, NamesLeft
<1>4. /\ Current.kind = kind /\ Current.name = Head(todo) /\ Current.ns = CmdNs
      /\ kind \in STRING
      /\ \A j \in 1..Len(reported) : NamedAt(j) # Current
  <2>1. Current.name = Head(todo)
    BY <1>3 DEF Current, NamedAt, Ref
  <2>2. /\ Current.kind = kind /\ Current.ns = CmdNs /\ kind \in DOMAIN NamesOf
        /\ \A j \in 1..Len(reported) : NamedAt(j) # Current
    BY <1>1, <1>3, CurrentNamed DEF Nesting
  <2> QED
    BY <2>1, <2>2, ClusterAssumption
<1>5. /\ f \in Frames /\ f.cmd = "parent" /\ f.kind = kind /\ f.name = Head(todo)
      /\ f.pc = "get"
  <2> DEFINE z == ""
             h == Head(todo)
  <2>1. f = [cmd |-> "parent", kind |-> kind, name |-> h, pc |-> "get",
             obj |-> NoRef, src |-> NoRef, saved |-> z, late |-> FALSE]
    BY DEF Frame
  <2>2. Frames = [cmd : {"plain", "parent", "chart"}, kind : STRING, name : STRING,
                  pc : {"get", "source", "waitSource", "request", "poll"},
                  obj : Refs \cup {NoRef}, src : Refs \cup {NoRef},
                  saved : STRING \cup {z}, late : BOOLEAN]
    BY DEF Frames
  <2>3. h \in STRING
    BY <1>3
  <2> HIDE DEF z, h, f
  <2>4. /\ f \in Frames /\ f.cmd = "parent" /\ f.kind = kind /\ f.name = h /\ f.pc = "get"
    BY <1>4, <2>1, <2>2, <2>3
  <2> QED
    BY <2>4 DEF h
<1> HIDE DEF f
<1>6. stack' \in Seq(Frames) /\ Len(stack') = 1 /\ stack'[1] = f /\ stack' # <<>>
  BY <1>2, <1>5
<1>7. Current' = Current /\ (\A j : NamedAt(j)' = NamedAt(j)) /\ Subject(1)' = Current
  BY <1>2 DEF Current, NamedAt, Subject
<1>8. Len(stack) = 0 /\ ~Busy
  BY <1>1, <1>2, StackFacts DEF Busy
<1>9. TypeOK'
  <2>1. /\ ret' \in Results \cup {"none"} /\ ns' \in STRING
        /\ DOMAIN sources' \subseteq Refs
        /\ \A key \in DOMAIN sources' : sources'[key] \in {"ok", "err"}
        /\ requests' \in [Objects -> Nat] /\ succeeded' \subseteq Objects
    BY <1>1, <1>2 DEF TypeOK
  <2>2. \A i \in 1..Len(stack') : stack'[i].pc = "get" \/ stack'[i].obj \in Objects
    BY <1>5, <1>6
  <2> QED
    BY <1>1, <1>2, <1>6, <2>1, <2>2, TypesKept
<1>10. Nesting'
  <2>1. IsInjective(args)' /\ (Busy => Len(reported) < Len(args))'
    BY <1>1, <1>2, <1>3 DEF Nesting, IsInjective
  <2>2. ASSUME NEW i \in 1..Len(stack')
        PROVE  CallOK(i)'
    <3>1. i = 1 /\ stack'[i] = f /\ Subject(i)' = Current
      BY <1>6, <1>7
    <3>2. ~(i < Len(stack') \/ ret' # "none")
      BY <3>1, <1>2, <1>6
    <3> QED
      BY <3>1, <3>2, <1>4, <1>5 DEF CallOK
  <2>3. (ns = Subject(Len(stack)).ns)'
    BY <1>1, <1>2, <1>4, <1>6, <1>7 DEF Nesting
  <2> QED
    BY <2>1, <2>2, <2>3, <1>6 DEF Nesting
<1>11. Meant'
  <2>1. (\A k \in DOMAIN sources :
            k.kind # kind /\ (sources[k] = "ok" => Usable(k)))'
    BY <1>1, <1>2 DEF Meant, Usable
  <2>2. (\A j \in 1..Len(reported) :
            /\ reported[j] = "ok" => NamedAt(j) \in succeeded
            /\ reported[j] = "getNotFound" => NamedAt(j) \notin Objects)'
    BY <1>1, <1>2, <1>7 DEF Meant
  <2> QED
    BY <2>1, <2>2, <1>2, <1>5, <1>6 DEF Meant
<1>12. \A x \in Objects : requests[x] > 0 =>
          x \in DOMAIN sources \/ \E j \in 1..Len(reported) : x = NamedAt(j)
  BY <1>1, <1>8 DEF Accounted
<1>13. Accounted'
  BY <1>2, <1>7, <1>12 DEF Accounted
<1>14. Fresh'
  <2>1. Current \notin DOMAIN sources
    BY <1>1, <1>4 DEF Meant
  <2>2. Current \in Objects => requests[Current] = 0
    <3>1. Current \in Objects => requests[Current] \in Nat
      BY <1>1 DEF TypeOK
    <3> QED
      BY <3>1, <2>1, <1>4, <1>12
  <2> QED
    BY <2>2, <1>2, <1>6, <1>7 DEF Fresh
<1>15. Annotated' /\ ExitHonest'
  BY <1>1, <1>2, Kept, SameMeaning DEF ExitHonest
<1> QED
  BY <1>9, <1>10, <1>11, <1>13, <1>14, <1>15 DEF IInv, Annotated

LEMMA NameReturnedStep ==
    ASSUME IInv, NameReturned, NEW n, n = Len(reported)
    PROVE  IInv'
<1> DEFINE told == IF Len(args) = 1 THEN UnwrapGetError(ret) ELSE ret
<1>1. /\ TypeOK /\ Nesting /\ Meant /\ Accounted /\ Fresh /\ Annotated /\ ExitHonest
  BY DEF IInv, Annotated
<1>2. /\ stack = <<>> /\ ret # "none" /\ ret' = "none"
      /\ reported' = Append(reported, told) /\ todo' = Tail(todo)
      /\ UNCHANGED <<kind, withSource, args, stack, ns, sources, exit, requests, succeeded>>
  BY DEF NameReturned
<1>3. /\ n < Len(args) /\ n \in Nat /\ Len(args) \in Nat /\ Len(stack) = 0
      /\ Tail(todo) = SubSeq(args, n + 2, Len(args))
  <2>1. n < Len(args)
    BY <1>1, <1>2 DEF Nesting, Busy
  <2> QED
    BY <2>1, <1>1, <1>2, NamesLeft, StackFacts
<1>4. /\ told \in Results
      /\ told = "ok" => ret = "ok"
      /\ told = "getNotFound" => ret = "getNotFound"
  <2>1. ret \in Results
    BY <1>1, <1>2 DEF TypeOK
  <2> QED
    BY <2>1 DEF UnwrapGetError, Results
<1> HIDE DEF told
<1>5. /\ reported' \in Seq(Results) /\ Len(reported') = n + 1
      /\ reported'[n + 1] = told
      /\ \A j \in 1..n : reported'[j] = reported[j]
  <2>1. reported \in Seq(Results)
    BY <1>1 DEF TypeOK
  <2>2. /\ Append(reported, told) \in Seq(Results)
        /\ Len(Append(reported, told)) = Len(reported) + 1
        /\ \A j \in 1..Len(reported) : Append(reported, told)[j] = reported[j]
        /\ Append(reported, told)[Len(reported) + 1] = told
    BY <2>1, <1>4, AppendProperties
  <2> QED
    BY <2>2, <1>2
<1>6. (\A j : NamedAt(j)' = NamedAt(j)) /\ Current = NamedAt(n + 1)
  BY <1>2 DEF NamedAt, Current
<1>7. TypeOK'
  <2>1. Len(reported') <= Len(args)
    BY <1>3, <1>5
  <2>2. todo' = SubSeq(args, Len(reported') + 1, Len(args))
    <3>1. Len(reported') + 1 = n + 2
      BY <1>3, <1>5
    <3> QED
      BY <3>1, <1>2, <1>3
  <2> QED
    BY <2>1, <2>2, <1>1, <1>2, <1>5 DEF TypeOK
<1>8. Nesting'
  <2>1. IsInjective(args)' /\ ~Busy' /\ ns' = CmdNs
    BY <1>1, <1>2 DEF Nesting, Busy, IsInjective
  <2> QED
    BY <2>1, <1>2, <1>3 DEF Nesting
<1>9. Meant'
  <2>1. (\A k \in DOMAIN sources :
            k.kind # kind /\ (sources[k] = "ok" => Usable(k)))'
    BY <1>1, <1>2 DEF Meant, Usable
  <2>2. ASSUME NEW j \in 1..Len(reported')
        PROVE  /\ reported'[j] = "ok" => NamedAt(j) \in succeeded
               /\ reported'[j] = "getNotFound" => NamedAt(j) \notin Objects
    <3>1. CASE j = n + 1
      <4>1. /\ ret = "ok" => Current \in succeeded
            /\ ret = "getNotFound" => Current \notin Objects
        BY <1>1, <1>2 DEF Meant
      <4> QED
        BY <3>1, <4>1, <1>4, <1>5, <1>6
    <3>2. CASE j # n + 1
      <4>1. j \in 1..n
        BY <3>2, <1>3, <1>5
      <4> QED
        BY <4>1, <1>1, <1>5 DEF Meant
    <3> QED
      BY <3>1, <3>2
  <2> QED
    BY <2>1, <2>2, <1>2, <1>3, <1>6 DEF Meant
<1>10. Accounted'
  <2>1. SUFFICES ASSUME NEW x \in Objects, requests[x] > 0
                 PROVE  \/ x \in DOMAIN sources
                        \/ \E j \in 1..(n + 1) : x = NamedAt(j)
    BY <1>2, <1>5, <1>6 DEF Accounted
  <2>2. \/ x \in DOMAIN sources
        \/ x = Current
        \/ \E j \in 1..n : x = NamedAt(j)
    BY <2>1, <1>1, <1>3 DEF Accounted
  <2> QED
    BY <2>2, <1>3, <1>6
<1>11. Fresh'
  BY <1>2, <1>3 DEF Fresh
<1>12. Annotated' /\ ExitHonest'
  BY <1>1, <1>2, Kept, SameMeaning DEF ExitHonest
<1> QED
  BY <1>7, <1>8, <1>9, <1>10, <1>11, <1>12 DEF IInv, Annotated

\* The exit code is about all the names, and they have all been reported.
LEMMA ExitStep ==
    ASSUME IInv, Exit
    PROVE  IInv'
<1>1. /\ TypeOK /\ Nesting /\ Meant /\ Accounted /\ Fresh /\ Annotated
  BY DEF IInv, Annotated
<1>2. /\ todo = <<>> /\ exit' = ExitCode
      /\ UNCHANGED <<kind, withSource, args, todo, stack, ret, ns, sources,
                     requests, succeeded, reported>>
  BY DEF Exit
<1>3. exit' \in {"ok", "err"}
  BY <1>2 DEF ExitCode
<1>4. TypeOK'
  BY <1>1, <1>2, <1>3 DEF TypeOK
<1>5. Current' = Current /\ (\A j : NamedAt(j)' = NamedAt(j)) /\ Busy' = Busy
  BY <1>2 DEF Current, NamedAt, Busy
<1>6. \A i : Subject(i)' = Subject(i) /\ Asks(i)' = Asks(i)
  BY <1>2, <1>5 DEF Subject, Asks
<1>7. \A i : CallOK(i)' = CallOK(i)
  BY <1>2, <1>6 DEF CallOK
<1>8. Nesting'
  BY <1>1, <1>2, <1>5, <1>6, <1>7 DEF Nesting, IsInjective
<1>9. Meant'
  BY <1>1, <1>2, <1>5, <1>6 DEF Meant, Usable, Top
<1>10. Accounted' /\ Fresh'
  BY <1>1, <1>2, <1>5, <1>6 DEF Accounted, Fresh
<1>11. ExitHonest'
  <2>1. SUFFICES ASSUME \A j \in DOMAIN reported : reported[j] = "ok"
                 PROVE  Named \subseteq succeeded
    BY <1>2 DEF ExitHonest, ExitCode, Named
  <2>2. DOMAIN reported = 1..Len(reported) /\ DOMAIN args = 1..Len(reported)
    <3>1. reported \in Seq(Results)
      BY <1>1 DEF TypeOK
    <3>2. DOMAIN reported = 1..Len(reported)
      BY <3>1, LenProperties
    <3> QED
      BY <3>2, <1>1, <1>2, NamesLeft
  <2>3. \A j \in 1..Len(reported) : NamedAt(j) \in succeeded
    BY <2>1, <2>2, <1>1 DEF Meant
  <2> QED
    BY <2>2, <2>3 DEF Named, NamedAt
<1>12. Annotated'
  BY <1>1, <1>2, Kept
<1> QED
  BY <1>4, <1>8, <1>9, <1>10, <1>11, <1>12 DEF IInv, Annotated

----------------------------------------------------------------------------
(* The theorems.                                                           *)

\* Before the first name nothing is annotated, recorded or on the stack.
LEMMA InitIInv == Init => IInv
<1> SUFFICES ASSUME Init
             PROVE  IInv
  OBVIOUS
<1>1. /\ kind \in DOMAIN NamesOf /\ withSource \in BOOLEAN
      /\ todo = args /\ stack = <<>> /\ ret = "none" /\ ns = CmdNs
      /\ sources = <<>> /\ exit = "running"
      /\ requests = [o \in Objects |-> 0] /\ succeeded = {} /\ reported = <<>>
      /\ args \in CommandLines(kind) /\ IsInjective(args)
  BY DEF Init, UniqueNames
<1>2. Len(stack) = 0 /\ Len(reported) = 0 /\ stack \in Seq(Frames) /\ reported \in Seq(Results)
  BY <1>1, EmptySeq, Zenon
<1>3. args \in Seq(NamesOf[kind])
  <2>1. PICK n \in 1..MaxArgs : args \in [1..n -> NamesOf[kind]]
    BY <1>1 DEF CommandLines
  <2>2. n \in Nat
    BY <2>1, ClusterAssumption
  <2> QED
    BY <2>1, <2>2, SeqDef
<1>4. Len(args) \in Nat /\ todo = SubSeq(args, 1, Len(args))
  BY <1>1, <1>3, LenProperties, SubSeqFull
<1>5. DOMAIN stack = {} /\ DOMAIN sources = {}
  <2>1. DOMAIN stack = 1..0
    BY <1>2, LenProperties
  <2>2. DOMAIN sources = DOMAIN stack
    BY <1>1
  <2> QED
    BY <2>1, <2>2
<1>6. TypeOK
  <2>1. Len(reported) <= Len(args) /\ todo = SubSeq(args, Len(reported) + 1, Len(args))
        /\ Len(stack) <= 3
    BY <1>2, <1>4
  <2>2. ret \in Results \cup {"none"} /\ ns \in STRING /\ exit \in {"running", "ok", "err"}
        /\ requests \in [Objects -> Nat] /\ succeeded \subseteq Objects
    BY <1>1, ClusterAssumption
  <2>3. DOMAIN sources \subseteq Refs /\ \A key \in DOMAIN sources : sources[key] \in {"ok", "err"}
        /\ \A i \in DOMAIN stack : stack[i].pc = "get" \/ stack[i].obj \in Objects
    BY <1>5
  <2> QED
    BY <1>1, <1>2, <1>3, <2>1, <2>2, <2>3 DEF TypeOK
<1>7. Nesting
  BY <1>1, <1>2 DEF Nesting, Busy
<1>8. Meant
  BY <1>1, <1>2, <1>5 DEF Meant
<1>9. Accounted /\ Fresh
  BY <1>1, <1>2 DEF Accounted, Fresh
<1>10. EachObjectOnce /\ SourceBeforeObject /\ OnlyIntended /\ ExitHonest
  BY <1>1 DEF EachObjectOnce, SourceBeforeObject, OnlyIntended, ExitHonest
<1> QED
  BY <1>6, <1>7, <1>8, <1>9, <1>10 DEF IInv

\* Every step of the invocation keeps the invariant.
LEMMA NextIInv == IInv /\ [Next]_vars => IInv'
<1> SUFFICES ASSUME IInv, [Next]_vars
             PROVE  IInv'
  OBVIOUS
<1>1. CASE NextName
  BY <1>1, NextNameStep
<1>2. CASE GetMissing
  BY <1>2, GetMissingStep
<1>3. CASE GetFound
  BY <1>3, GetFoundStep
<1>4. CASE SourceUnsupported
  BY <1>4, SourceUnsupportedStep
<1>5. CASE SourceDone
  BY <1>5, SourceDoneStep
<1>6. CASE SourceStart
  BY <1>6, SourceStartStep
<1>7. CASE SourceReturned
  BY <1>7, SourceReturnedStep
<1>8. CASE Annotate
  BY <1>8, AnnotateStep
<1>9. CASE Waited
  BY <1>9, WaitedStep
<1>10. CASE NameReturned
  BY <1>10, NameReturnedStep
<1>11. CASE Exit
  BY <1>11, ExitStep
<1>12. CASE UNCHANGED vars
  <2>1. \A i : Subject(i)' = Subject(i) /\ Asks(i)' = Asks(i)
    BY <1>12 DEF vars, Subject, Current, NamedAt, Asks
  <2>2. \A i : CallOK(i)' = CallOK(i)
    BY <1>12, <2>1 DEF vars, CallOK
  <2>3. (\A j : NamedAt(j)' = NamedAt(j)) /\ Current' = Current /\ Busy' = Busy
    BY <1>12 DEF vars, NamedAt, Current, Busy
  <2>4. TypeOK'
    BY <1>12 DEF IInv, TypeOK, vars
  <2>5. Nesting'
    BY <1>12, <2>1, <2>2, <2>3 DEF IInv, Nesting, IsInjective, vars
  <2>6. Meant' /\ Accounted' /\ Fresh'
    BY <1>12, <2>1, <2>3 DEF IInv, Meant, Accounted, Fresh, Usable, Top, vars
  <2>7. Annotated' /\ ExitHonest'
    BY <1>12, Kept, SameMeaning DEF IInv, Annotated, ExitHonest, vars
  <2> QED
    BY <2>4, <2>5, <2>6, <2>7 DEF IInv, Annotated
<1> QED
  BY <1>1, <1>2, <1>3, <1>4, <1>5, <1>6, <1>7, <1>8, <1>9, <1>10, <1>11, <1>12
     DEF Next, Terminated

\* The nested calls of reconcile_with_source.go keep the inductive invariant.
THEOREM Invariance == Spec => []IInv
<1>1. Init => IInv
  BY InitIInv
<1>2. IInv /\ [Next]_vars => IInv'
  BY NextIInv
<1> QED
  BY <1>1, <1>2, PTL DEF Spec

\* Sources come first, once each, and the namespace of the command line is
\* switched and restored around them (reconcileWithSourceCommand.reconcile,
\* sourceResults), for any cluster and command line.
THEOREM SourcesInTurn == Spec => []InTurn
<1>1. IInv => InTurn
  BY DEF IInv, InTurn
<1> QED
  BY <1>1, Invariance, PTL

\* No object is annotated that the user does not mean.
THEOREM NobodyElse == Spec => []OnlyIntended
<1>1. IInv => OnlyIntended
  BY DEF IInv
<1> QED
  BY <1>1, Invariance, PTL

\* Each name's report and the exit code are true (reconcileNames,
\* unwrapGetError).
THEOREM ReportsAreTrue == Spec => []ToldTruly
<1>1. IInv => ToldTruly
  <2> SUFFICES ASSUME IInv
               PROVE  ToldTruly
    OBVIOUS
  <2>1. reported \in Seq(Results)
    BY DEF IInv, TypeOK
  <2>2. DOMAIN reported = 1..Len(reported)
    BY <2>1, LenProperties
  <2>3. NotFoundIsOwn
    BY <2>2 DEF IInv, Meant, NotFoundIsOwn, NamedAt
  <2> QED
    BY <2>3 DEF IInv, ToldTruly
<1> QED
  BY <1>1, Invariance, PTL
=============================================================================

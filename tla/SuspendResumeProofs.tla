------------------------ MODULE SuspendResumeProofs ------------------------
(***************************************************************************)
(* Proofs about SuspendResume, for any objects, names on the command line, *)
(* generations and changes by other users.                                 *)
(*                                                                         *)
(* The lists are decoded into the same memory, and what is patched and     *)
(* waited for is read from there.  The invariant says where the command is *)
(* in its names and its list (Progress, OneByOne, AtOnce), what is patched *)
(* and what is still to come (Coverage), how far the memory of an item can *)
(* be relied on before its patch (Accurate, Alone) and after it (Memory,   *)
(* Waited), and what the status the controller leaves means (Controlled).  *)
(***************************************************************************)
EXTENDS SuspendResume, SequenceTheorems, FiniteSetTheorems, TLAPS

Current == heap[Len(heap)]

\* The items of the current list that are still to be patched.
Pending(i) == i \in DOMAIN Current /\ i > Len(Current) - Len(listed)

\* The names still to be listed, and the objects that are still to be patched.
Rest == IF listed = <<>> THEN todo ELSE Tail(todo)
NamesIn(s) == {n \in Objects : \E x \in Range(s) : x \in {All, n}}
Named == NamesIn(Rest)
ToPatch == {n \in Objects : \E i \in DOMAIN Current : Pending(i) /\ n = Current[i].name}
ToCome == Named \cup ToPatch

Single == cmd = "suspend" /\ (args = <<>> \/ Cardinality(Wanted) <= 1)

Progress ==
    /\ Len(listed) <= Len(Current)
    /\ listed = [j \in 1..Len(listed) |-> Len(Current) - Len(listed) + j]
    /\ listed # <<>> => todo # <<>>
    /\ waiters # <<>> \/ exit = "ok" => todo = <<>>
    /\ \A i, j \in DOMAIN Current : Current[i].name = Current[j].name => i = j
    /\ IsFiniteSet(touched)

OneByOne ==
    args # <<>> =>
        /\ IsInjective(todo) /\ Range(todo) \subseteq Range(args)
        /\ \A i \in 1..Len(heap) : Len(heap[i]) <= 1
        /\ listed # <<>> => Current[1].name = Head(todo)

AtOnce ==
    args = <<>> => /\ todo \in {<<>>, <<All>>}
                   /\ todo # <<>> /\ listed = <<>> => touched = {} /\ Current = <<>>

Coverage ==
    /\ TouchedNames \subseteq Wanted /\ ToCome \subseteq Wanted
    /\ cmd = "resume" /\ exit # "err" => Wanted \subseteq TouchedNames \cup ToCome

\* The memory of an item shows the object as suspended exactly if it is
\* (until somebody else changes it).
Accurate ==
    \A i \in DOMAIN Current : Pending(i) /\ Current[i].name \notin disturbed =>
        /\ obj[Current[i].name].suspended => Current[i].suspended
        /\ Single /\ Current[i].suspended => obj[Current[i].name].suspended

Alone ==
    Single => /\ listed = <<>> /\ ToCome # {} => Current = <<>> /\ touched = {}
              /\ \A n \in TouchedNames \ disturbed : obj[n].suspended

\* Nobody but a run that has read the request handles it.
Requested(n, ts) ==
    n \in disturbed \/ (~obj[n].suspended /\ (obj[n].handled = served[n] \/ obj[n].handled < ts))

Pointers ==
    \A t \in touched : t.ptr[1] \in 1..Len(heap) /\ t.ptr[2] \in 1..Len(heap[t.ptr[1]])

ShownBy(t) ==
    LET item == heap[t.ptr[1]][t.ptr[2]] IN
    \/ t.ptr[1] = Len(heap) /\ Pending(t.ptr[2])
    \/ item.name \notin ToCome /\ Requested(item.name, item.request)

Memory ==
    kind = "requester" /\ cmd = "resume" /\ exit # "err" => \A t \in touched : ShownBy(t)

Waited == kind = "requester" => \A k \in DOMAIN waiters : Requested(waiters[k].name, waiters[k].ts)

\* The controller.
ControllerFor(n) ==
    LET o == obj[n] r == run[n] IN
    /\ o.gen >= 1 /\ o.handled <= o.request /\ r.request <= o.request
    /\ o.obsGen <= o.gen /\ r.gen >= 1 /\ r.gen <= o.gen
    /\ kind = "plain" /\ o.suspended => o.obsGen < o.gen /\ r.gen < o.gen
    /\ o.ready = "True" => applied[n] = o.obsGen
    /\ o.ready = "none" => o.obsGen = 0

Controlled == \A n \in Objects : ControllerFor(n)

IInv == /\ TypeOK /\ Progress /\ OneByOne /\ AtOnce /\ Coverage /\ Accurate /\ Alone
        /\ Pointers /\ Memory /\ Waited /\ Controlled
----------------------------------------------------------------------------
(* Operators.                                                              *)

LEMMA SetToSeqOf ==
    ASSUME NEW S, IsFiniteSet(S)
    PROVE  /\ SetToSeq(S) \in Seq(S) /\ IsInjective(SetToSeq(S))
           /\ Range(SetToSeq(S)) = S /\ Len(SetToSeq(S)) = Cardinality(S)
<1> DEFINE n == Cardinality(S)
           f == SetToSeq(S)
<1>1. n \in Nat /\ ExistsBijection(1..n, S)
      BY FS_CardinalityType
<1>2. \E g \in [1..n -> S] : IsInjective(g)
      BY <1>1, Zenon DEF ExistsBijection, Bijection, Injection
<1>3. f \in [1..n -> S] /\ IsInjective(f)
      BY <1>2, Zenon DEF SetToSeq
<1>4. f \in Injection(1..n, S)
      BY <1>3, Zenon DEF Injection
<1>5. IsFiniteSet(1..n) /\ Cardinality(1..n) = n
      BY <1>1, FS_Interval
<1>6. f \in Surjection(1..n, S)
      BY <1>4, <1>5, FS_Injection
<1>7. f \in Seq(S) /\ Len(f) = n
      BY <1>1, <1>3
<1>8. Range(f) = S
      BY <1>3, <1>6, Zenon DEF Surjection, Range
<1> QED BY <1>3, <1>7, <1>8

LEMMA ItemOf ==
    ASSUME NEW n \in Objects, NEW old, old.suspended \in BOOLEAN, old.request \in Nat,
           NEW new \in ItemType, new.name = n
    PROVE  /\ Decode(old, new) \in ItemType /\ Decode(old, new).name = n
           /\ Decode(old, new).suspended = (new.suspended \/ old.suspended)
           /\ new.request # 0 => Decode(old, new).request = new.request
BY DEF Decode, ItemType

LEMMA UnsetIs ==
    Unset.suspended = FALSE /\ Unset.suspended \in BOOLEAN /\ Unset.request \in Nat
<1>1. Unset.suspended = FALSE /\ Unset.request = 0
      BY Zenon DEF Unset
<1>2. Unset.request \in Nat
      BY <1>1
<1> QED BY <1>1, <1>2, Zenon

\* What the writes to an object do to it.
LEMMA ObjectWrites ==
    ASSUME NEW o, WellFormed(o), NEW k \in {"static", "plain", "requester"}
    PROVE  /\ WellFormed(SetSuspended(k, o)) /\ WellFormed(SetUnsuspended(k, o))
           /\ SetSuspended(k, o).suspended /\ ~SetUnsuspended(k, o).suspended
           /\ \A u \in {SetSuspended(k, o), SetUnsuspended(k, o)} :
                 /\ u.request = o.request /\ u.handled = o.handled /\ u.obsGen = o.obsGen
                 /\ u.ready = o.ready /\ u.gen >= o.gen
           /\ k = "plain" /\ ~o.suspended => SetSuspended(k, o).gen = o.gen + 1
           /\ k = "plain" /\ o.suspended => SetSuspended(k, o).gen = o.gen
<1> DEFINE With(b, g) == [o EXCEPT !.suspended = b, !.gen = g]
           s == SetSuspended(k, o)
           t == SetUnsuspended(k, o)
<1>1. ASSUME NEW b \in BOOLEAN, NEW g \in Nat
      PROVE  /\ WellFormed(With(b, g)) /\ With(b, g).suspended = b /\ With(b, g).gen = g
             /\ With(b, g).request = o.request /\ With(b, g).handled = o.handled
             /\ With(b, g).obsGen = o.obsGen /\ With(b, g).ready = o.ready
      BY DEF WellFormed, ObjectType
<1>2. o.gen \in Nat /\ o.gen + 1 \in Nat /\ o.gen >= o.gen /\ o.gen + 1 >= o.gen
      BY DEF WellFormed, ObjectType
<1>3. s = IF k = "requester" \/ o.suspended THEN With(TRUE, o.gen) ELSE With(TRUE, o.gen + 1)
      BY Zenon DEF SetSuspended
<1>4. t = IF k # "requester" /\ o.suspended THEN With(FALSE, o.gen + 1) ELSE With(FALSE, o.gen)
      BY Zenon DEF SetUnsuspended
<1> HIDE DEF s, t, With
<1>5. /\ WellFormed(s) /\ s.suspended = TRUE
      /\ s.gen = IF k = "requester" \/ o.suspended THEN o.gen ELSE o.gen + 1
      /\ s.request = o.request /\ s.handled = o.handled /\ s.obsGen = o.obsGen /\ s.ready = o.ready
      BY <1>1, <1>2, <1>3
<1>6. /\ WellFormed(t) /\ t.suspended = FALSE
      /\ t.gen = IF k # "requester" /\ o.suspended THEN o.gen + 1 ELSE o.gen
      /\ t.request = o.request /\ t.handled = o.handled /\ t.obsGen = o.obsGen /\ t.ready = o.ready
      BY <1>1, <1>2, <1>4
<1>7. \A u \in {s, t} : /\ u.request = o.request /\ u.handled = o.handled /\ u.obsGen = o.obsGen
                        /\ u.ready = o.ready /\ u.gen >= o.gen
      BY <1>2, <1>5, <1>6
<1>8. /\ WellFormed(s) /\ WellFormed(t) /\ s.suspended /\ ~t.suspended
      /\ k = "plain" /\ ~o.suspended => s.gen = o.gen + 1
      /\ k = "plain" /\ o.suspended => s.gen = o.gen
      BY <1>5, <1>6
<1> QED BY <1>7, <1>8 DEF s, t

\* A request is newer than everything else about the object.
LEMMA RequestWrite ==
    ASSUME NEW o, WellFormed(o), NEW ts \in Nat, o.request <= ts, NEW u, u = [o EXCEPT !.request = ts]
    PROVE  /\ WellFormed(u) /\ u.request = ts /\ u.handled = o.handled /\ u.obsGen = o.obsGen
           /\ u.gen = o.gen /\ u.ready = o.ready /\ u.suspended = o.suspended
BY DEF WellFormed, ObjectType

LEMMA ControllerWrites ==
    ASSUME NEW o, WellFormed(o), NEW r \in RunType, NEW y \in ReadyStatus, NEW b \in BOOLEAN
    PROVE  /\ WellFormed(StartRun(o)) /\ WellFormed(FinishRun(o, r, y, b)) /\ WellFormed(MarkHandled(o))
           /\ RunOf(o) \in RunType /\ RunOf(o).gen = o.gen /\ RunOf(o).request = o.request
           /\ LET u == StartRun(o) IN
                 /\ u.request = o.request /\ u.handled = o.handled /\ u.obsGen = o.obsGen
                 /\ u.gen = o.gen /\ u.ready = "Unknown" /\ u.suspended = o.suspended
           /\ LET u == FinishRun(o, r, y, b) IN
                 /\ u.request = o.request /\ u.handled = r.request /\ u.obsGen = r.gen
                 /\ u.gen = o.gen /\ u.ready = y /\ u.suspended = o.suspended
           /\ LET u == MarkHandled(o) IN
                 /\ u.request = o.request /\ u.handled = o.request /\ u.obsGen = o.obsGen
                 /\ u.gen = o.gen /\ u.ready = o.ready /\ u.suspended = o.suspended
<1>1. WellFormed(StartRun(o)) /\ WellFormed(MarkHandled(o))
      BY DEF WellFormed, ObjectType, StartRun, MarkHandled, ReadyStatus
<1>2. WellFormed(FinishRun(o, r, y, b))
      BY DEF WellFormed, ObjectType, FinishRun, RunType
<1>3. RunOf(o) \in RunType /\ RunOf(o).gen = o.gen /\ RunOf(o).request = o.request
      BY DEF WellFormed, ObjectType, RunOf, RunType
<1>4. LET u == StartRun(o) IN
                 /\ u.request = o.request /\ u.handled = o.handled /\ u.obsGen = o.obsGen
                 /\ u.gen = o.gen /\ u.ready = "Unknown" /\ u.suspended = o.suspended
      BY DEF WellFormed, ObjectType, StartRun
<1>5. LET u == FinishRun(o, r, y, b) IN
                 /\ u.request = o.request /\ u.handled = r.request /\ u.obsGen = r.gen
                 /\ u.gen = o.gen /\ u.ready = y /\ u.suspended = o.suspended
      BY DEF WellFormed, ObjectType, FinishRun
<1>6. LET u == MarkHandled(o) IN
                 /\ u.request = o.request /\ u.handled = o.request /\ u.obsGen = o.obsGen
                 /\ u.gen = o.gen /\ u.ready = o.ready /\ u.suspended = o.suspended
      BY DEF WellFormed, ObjectType, MarkHandled
<1> QED BY <1>1, <1>2, <1>3, <1>4, <1>5, <1>6

LEMMA NewObjectIs ==
    /\ WellFormed(NewObject) /\ RunOf(NewObject) \in RunType
    /\ RunOf(NewObject).gen = 1 /\ RunOf(NewObject).request = 0
    /\ NewObject.gen = 1 /\ NewObject.request = 0 /\ NewObject.handled = 0
    /\ NewObject.obsGen = 0 /\ NewObject.ready = "none" /\ ~NewObject.suspended
BY DEF WellFormed, NewObject, ObjectType, ReadyStatus, RunOf, RunType

\* A waiter that is content has seen a Ready condition that is True, of the current
\* generation, and (ArtifactGenerator) an object that is not suspended.
LEMMA DoneMeans ==
    ASSUME NEW o, WellFormed(o), o.gen >= 1, o.ready = "none" => o.obsGen = 0,
           NEW k \in {"plain", "requester"},
           (IF k = "requester" THEN StatusVerdict(k, o) ELSE IsObjectReady(k, o)) = "done"
    PROVE  o.ready = "True" /\ o.obsGen = o.gen /\ (k = "requester" => ~o.suspended)
<1>1. o.ready \in ReadyStatus /\ o.gen \in Nat /\ o.obsGen \in Nat
      BY DEF WellFormed, ObjectType
<1>2. StatusSwitch(k, o) = "done" => KStatus(k, o) = "Current"
      BY DEF StatusSwitch, KStatus
<1>3. KStatus(k, o) = "Current" => o.ready \notin {"False", "Unknown"}
      BY DEF KStatus
<1>4. CASE k = "requester"
  <2>1. StatusVerdict(k, o) = "done"
        BY <1>4
  <2>2. /\ StatusSwitch(k, o) = "done" /\ ~o.suspended /\ o.obsGen = o.gen
        BY <1>4, <2>1, Zenon DEF StatusVerdict, IsRequesterCurrent
  <2> QED BY <1>1, <1>2, <1>3, <2>2 DEF ReadyStatus
<1>5. CASE k = "plain"
  <2>1. IsObjectReady(k, o) = "done"
        BY <1>5
  <2>2. /\ StatusSwitch(k, o) = "done" /\ o.ready # "none" /\ o.obsGen = o.gen
        BY <1>5, <2>1, Zenon DEF IsObjectReady
  <2> QED BY <1>1, <1>2, <1>3, <1>5, <2>2 DEF ReadyStatus
<1> QED BY <1>4, <1>5

----------------------------------------------------------------------------
(* What List and Patch do to the memory.                                   *)

LEMMA CurrentType ==
    ASSUME TypeOK
    PROVE  /\ Len(heap) \in Nat \ {0} /\ Current \in Seq(ItemType) /\ Current = Last(heap)
           /\ DOMAIN Current = 1..Len(Current) /\ Len(Current) \in Nat
           /\ \A i \in 1..Len(Current) : Current[i] \in ItemType /\ Current[i].name \in Objects
           /\ \A j \in 1..Len(heap) : /\ heap[j] \in Seq(ItemType) /\ Len(heap[j]) \in Nat
                                      /\ \A i \in 1..Len(heap[j]) : heap[j][i] \in ItemType
<1>1. heap \in Seq(Seq(ItemType)) /\ Len(heap) \in Nat \ {0}
      BY EmptySeq DEF TypeOK
<1>2. \A j \in 1..Len(heap) : heap[j] \in Seq(ItemType)
      BY <1>1, ElementOfSeq
<1>3. \A s \in Seq(ItemType) : /\ Len(s) \in Nat /\ DOMAIN s = 1..Len(s)
                               /\ \A i \in 1..Len(s) : s[i] \in ItemType
      OBVIOUS
<1>4. Len(heap) \in 1..Len(heap)
      BY <1>1
<1>5. Current \in Seq(ItemType)
      BY <1>2, <1>4 DEF Current
<1>6. \A x \in ItemType : x.name \in Objects
      BY DEF ItemType
<1>7. /\ DOMAIN Current = 1..Len(Current) /\ Len(Current) \in Nat
      /\ \A i \in 1..Len(Current) : Current[i] \in ItemType /\ Current[i].name \in Objects
      BY <1>3, <1>5, <1>6
<1>8. Current = Last(heap)
      BY Zenon DEF Current, Last
<1>9. \A j \in 1..Len(heap) : /\ heap[j] \in Seq(ItemType) /\ Len(heap[j]) \in Nat
                              /\ \A i \in 1..Len(heap[j]) : heap[j][i] \in ItemType
      BY <1>2, <1>3
<1> QED BY <1>1, <1>5, <1>7, <1>8, <1>9

LEMMA HeadOfTodo ==
    ASSUME TypeOK, todo # <<>>
    PROVE  /\ Head(todo) \in Objects \cup Missing \cup {All} /\ Head(todo) = todo[1]
           /\ Len(todo) \in Nat \ {0} /\ Tail(todo) \in Seq(Objects \cup Missing \cup {All})
           /\ Len(Tail(todo)) = Len(todo) - 1
           /\ \A i \in 1..Len(Tail(todo)) : Tail(todo)[i] = todo[i + 1]
BY HeadTailProperties, EmptySeq DEF TypeOK

LEMMA MatchingIs ==
    ASSUME TypeOK, todo # <<>>
    PROVE  /\ Matching \in Seq(Objects) /\ IsInjective(Matching)
           /\ Range(Matching) = {n \in Objects : Head(todo) \in {All, n}}
           /\ Head(todo) # All => Len(Matching) <= 1
<1>1. CASE Head(todo) = All
  <2>1. Matching = SetToSeq(Objects)
        BY <1>1 DEF Matching
  <2> QED BY <1>1, <2>1, SetToSeqOf, NamesAssumption
<1>2. CASE Head(todo) # All /\ Head(todo) \in Objects
  <2>1. Matching = <<Head(todo)>>
        BY <1>2, Zenon DEF Matching
  <2> QED BY <1>2, <2>1 DEF IsInjective, Range
<1>3. CASE Head(todo) # All /\ Head(todo) \notin Objects
  <2>1. Matching = <<>>
        BY <1>3, Zenon DEF Matching
  <2> QED BY <1>3, <2>1 DEF IsInjective, Range
<1> QED BY <1>1, <1>2, <1>3

\* What a List leaves in the memory.
LEMMA ListEffect ==
    ASSUME TypeOK, List
    PROVE  /\ heap' \in Seq(Seq(ItemType)) /\ heap' # <<>>
           /\ Len(Current') = Len(Matching)
           /\ \A i \in 1..Len(Matching) :
                 /\ Current'[i].name = Matching[i]
                 /\ obj[Matching[i]].suspended => Current'[i].suspended
                 /\ Current = <<>> /\ Current'[i].suspended => obj[Matching[i]].suspended
           /\ \/ Len(heap') = Len(heap) + 1 /\ \A j \in 1..Len(heap) : heap'[j] = heap[j]
              \/ /\ Len(heap') = Len(heap) /\ Len(Matching) <= Len(Current) /\ Matching # <<>>
                 /\ \A j \in 1..Len(heap) : j # Len(heap) => heap'[j] = heap[j]
<1> DEFINE found == Matching
           base(i) == IF i <= Len(Current) THEN Current[i] ELSE Unset
           new == [i \in 1..Len(found) |-> Decode(base(i), Item(found[i]))]
<1>1. found \in Seq(Objects) /\ Len(found) \in Nat
      BY MatchingIs DEF List
<1>c. /\ Len(heap) \in Nat \ {0} /\ Current = Last(heap) /\ Len(Current) \in Nat
      /\ heap \in Seq(Seq(ItemType))
      /\ \A i \in 1..Len(Current) : Current[i] \in ItemType
      BY CurrentType DEF TypeOK
<1>2. heap' = IF found = <<>> THEN Append(heap, <<>>)
              ELSE IF Len(found) <= Len(Current) THEN [heap EXCEPT ![Len(heap)] = new] ELSE Append(heap, new)
      BY <1>c, Zenon DEF List
<1>3. \A i \in 1..Len(found) :
          /\ Decode(base(i), Item(found[i])) \in ItemType
          /\ Decode(base(i), Item(found[i])).name = found[i]
          /\ Decode(base(i), Item(found[i])).suspended = (obj[found[i]].suspended \/ base(i).suspended)
  <2> SUFFICES ASSUME NEW i \in 1..Len(found)
               PROVE  /\ Decode(base(i), Item(found[i])) \in ItemType
                      /\ Decode(base(i), Item(found[i])).name = found[i]
                      /\ Decode(base(i), Item(found[i])).suspended = (obj[found[i]].suspended \/ base(i).suspended)
      OBVIOUS
  <2>1. found[i] \in Objects
        BY <1>1
  <2>2. base(i).suspended \in BOOLEAN /\ base(i).request \in Nat
    <3>1. CASE i <= Len(Current)
          BY <1>1, <1>c, <3>1 DEF ItemType
    <3>2. CASE ~(i <= Len(Current))
      <4>1. base(i) = Unset
            BY <3>2
      <4> HIDE DEF base
      <4> QED BY <4>1, UnsetIs, Zenon
    <3> QED BY <3>1, <3>2
  <2>3. /\ Item(found[i]) \in ItemType /\ Item(found[i]).name = found[i]
        /\ Item(found[i]).suspended = obj[found[i]].suspended
        BY <2>1 DEF Item, ItemType, TypeOK, ObjectType
  <2> HIDE DEF base
  <2> QED BY <2>1, <2>2, <2>3, ItemOf
<1>4. new \in Seq(ItemType) /\ Len(new) = Len(found)
      /\ \A i \in 1..Len(found) : new[i] = Decode(base(i), Item(found[i]))
  <2> HIDE DEF base, found
  <2> QED BY <1>1, <1>3
<1>5. \A i \in 1..Len(found) :
          /\ new[i].name = found[i]
          /\ obj[found[i]].suspended => new[i].suspended
          /\ Current = <<>> /\ new[i].suspended => obj[found[i]].suspended
  <2> SUFFICES ASSUME NEW i \in 1..Len(found)
               PROVE  /\ new[i].name = found[i]
                      /\ obj[found[i]].suspended => new[i].suspended
                      /\ Current = <<>> /\ new[i].suspended => obj[found[i]].suspended
      OBVIOUS
  <2>1. Current = <<>> => base(i).suspended = FALSE
    <3>1. Current = <<>> => Len(Current) = 0
          BY EmptySeq, Zenon
    <3> QED BY <1>1, <3>1, UnsetIs
  <2> HIDE DEF new, base
  <2> QED BY <1>3, <1>4, <2>1
<1>6. CASE found = <<>>
  <2>1. Len(found) = 0 /\ <<>> \in Seq(ItemType)
        BY <1>6, EmptySeq, Zenon
  <2>2. heap' = Append(heap, <<>>)
        BY <1>2, <1>6
  <2>3. /\ heap' \in Seq(Seq(ItemType)) /\ heap' # <<>> /\ Len(heap') = Len(heap) + 1
        /\ \A j \in 1..Len(heap) : heap'[j] = heap[j]
        /\ heap'[Len(heap) + 1] = <<>>
        BY <1>c, <2>1, <2>2, AppendProperties
  <2>4. Current' = <<>>
        BY <2>3 DEF Current
  <2> QED BY <2>1, <2>3, <2>4, <1>6
<1>7. CASE found # <<>> /\ Len(found) <= Len(Current)
  <2>1. heap' = [heap EXCEPT ![Len(heap)] = new]
        BY <1>2, <1>7
  <2>2. /\ heap' \in Seq(Seq(ItemType)) /\ Len(heap') = Len(heap)
        /\ \A j \in 1..Len(heap) : heap'[j] = IF j = Len(heap) THEN new ELSE heap[j]
    <3> HIDE DEF new
    <3>1. Len(heap) \in 1..Len(heap)
          BY <1>c
    <3> QED BY <1>c, <1>4, <2>1, <3>1, ExceptSeq
  <2>3. Current' = new /\ heap' # <<>>
    <3> HIDE DEF new
    <3>1. heap' # <<>>
      <4>1. heap' = <<>> => Len(heap') = 0
            BY EmptySeq, Zenon
      <4> QED BY <1>c, <2>2, <4>1
    <3>2. Len(heap) \in 1..Len(heap)
          BY <1>c
    <3> QED BY <2>2, <3>1, <3>2 DEF Current
  <2> HIDE DEF new, found
  <2>4. \A j \in 1..Len(heap) : j # Len(heap) => heap'[j] = heap[j]
        BY <2>2
  <2>5. Len(Current') = Len(found)
        BY <1>4, <2>3
  <2>6. \A i \in 1..Len(found) : Current'[i] = new[i]
        BY <2>3
  <2> QED BY <1>5, <1>7, <2>2, <2>3, <2>4, <2>5, <2>6 DEF found
<1>8. CASE found # <<>> /\ ~(Len(found) <= Len(Current))
  <2>1. heap' = Append(heap, new)
        BY <1>2, <1>8
  <2> HIDE DEF new
  <2>3. /\ heap' \in Seq(Seq(ItemType)) /\ heap' # <<>> /\ Len(heap') = Len(heap) + 1
        /\ \A j \in 1..Len(heap) : heap'[j] = heap[j]
        /\ heap'[Len(heap) + 1] = new
        BY <1>c, <1>4, <2>1, AppendProperties
  <2>4. Current' = new
        BY <2>3 DEF Current
  <2> HIDE DEF found
  <2>5. Len(Current') = Len(found)
        BY <1>4, <2>4
  <2>6. \A i \in 1..Len(found) : Current'[i] = new[i]
        BY <2>4
  <2> QED BY <1>5, <2>3, <2>5, <2>6 DEF found
<1> QED BY <1>6, <1>7, <1>8

\* The item a Patch is about: the first one that is still to be patched.
First == Len(Current) - Len(listed) + 1

LEMMA FirstIs ==
    ASSUME TypeOK, Progress, listed # <<>>
    PROVE  /\ Head(listed) = First /\ First \in 1..Len(Current) /\ Pending(First)
           /\ Len(listed) \in Nat \ {0}
           /\ Tail(listed) \in Seq(Nat) /\ Len(Tail(listed)) = Len(listed) - 1
           /\ Tail(listed) = [j \in 1..Len(Tail(listed)) |-> Len(Current) - Len(Tail(listed)) + j]
           /\ \A i \in 1..Len(Current) :
                 Pending(i) <=> i = First \/ i > Len(Current) - Len(Tail(listed))
<1>1. /\ listed \in Seq(Nat) /\ Len(listed) \in Nat \ {0} /\ Len(Current) \in Nat
      /\ DOMAIN Current = 1..Len(Current)
      BY CurrentType, EmptySeq DEF TypeOK
<1>2. /\ Head(listed) = listed[1] /\ Tail(listed) \in Seq(Nat) /\ Len(Tail(listed)) = Len(listed) - 1
      /\ \A j \in 1..Len(Tail(listed)) : Tail(listed)[j] = listed[j + 1]
      BY <1>1, HeadTailProperties
<1>3. Len(listed) <= Len(Current)
      /\ \A j \in 1..Len(listed) : listed[j] = Len(Current) - Len(listed) + j
      BY <1>1 DEF Progress
<1>4. Head(listed) = First /\ First \in 1..Len(Current)
      BY <1>1, <1>2, <1>3 DEF First
<1> DEFINE rest == Tail(listed)
           n == Len(Current)
           m == Len(listed)
<1>5. \A j \in 1..Len(rest) : rest[j] = Len(Current) - Len(rest) + j
  <2> SUFFICES ASSUME NEW j \in 1..Len(rest) PROVE rest[j] = Len(Current) - Len(rest) + j
      OBVIOUS
  <2>1. rest[j] = listed[j + 1] /\ j + 1 \in 1..Len(listed)
        BY <1>1, <1>2
  <2>2. rest[j] = n - m + (j + 1) /\ Len(rest) = m - 1
        BY <1>2, <1>3, <2>1
  <2>3. n \in Nat /\ m \in Nat /\ j \in Nat
        BY <1>1, <1>2
  <2> HIDE DEF n, m, rest
  <2>4. rest[j] = n - Len(rest) + j
        BY <2>2, <2>3
  <2> QED BY <2>4 DEF n
<1>6. rest = [j \in 1..Len(rest) |-> Len(Current) - Len(rest) + j]
  <2> HIDE DEF rest
  <2>1. rest \in Seq(Nat)
        BY <1>2 DEF rest
  <2> QED BY <1>5, <2>1
<1>7. \A i \in 1..Len(Current) : Pending(i) <=> i = First \/ i > Len(Current) - Len(rest)
  <2>1. n \in Nat /\ m \in Nat /\ m <= n /\ Len(rest) = m - 1 /\ First = n - m + 1
        BY <1>1, <1>2, <1>3 DEF First
  <2>2. \A i \in 1..n : Pending(i) <=> i > n - m
        BY <1>1 DEF Pending
  <2> HIDE DEF n, m, rest
  <2>3. \A i \in 1..n : Pending(i) <=> i = First \/ i > n - Len(rest)
        BY <2>1, <2>2
  <2> QED BY <2>3 DEF n
<1>8. Pending(First)
      BY <1>4, <1>7
<1> QED BY <1>1, <1>2, <1>4, <1>6, <1>7, <1>8

\* What a Patch does to the object and to the memory.
LEMMA PatchEffect ==
    ASSUME TypeOK, Progress, Patch
    PROVE  LET n == Current[First].name
               base == Current[First] IN
           /\ n \in Objects /\ First \in 1..Len(Current)
           /\ obj' \in [Objects -> ObjectType] /\ WellFormed(obj'[n])
           /\ \A m \in Objects : m # n => obj'[m] = obj[m]
           /\ obj'[n].handled = obj[n].handled /\ obj'[n].obsGen = obj[n].obsGen
           /\ obj'[n].ready = obj[n].ready /\ obj'[n].gen >= obj[n].gen
           /\ obj'[n].request = IF cmd = "resume" /\ kind = "requester" THEN clock + 1 ELSE obj[n].request
           /\ kind = "plain" /\ obj'[n].suspended => obj[n].suspended \/ obj'[n].gen = obj[n].gen + 1
           /\ cmd = "suspend" /\ (base.suspended => obj[n].suspended) => obj'[n].suspended
           /\ cmd = "resume" /\ (obj[n].suspended => base.suspended) => ~obj'[n].suspended
           /\ heap' \in Seq(Seq(ItemType)) /\ Len(heap') = Len(heap) /\ heap' # <<>>
           /\ \A j \in 1..Len(heap) : j # Len(heap) => heap'[j] = heap[j]
           /\ Len(Current') = Len(Current)
           /\ \A i \in 1..Len(Current) : i # First => Current'[i] = Current[i]
           /\ Current'[First].name = n
           /\ cmd = "resume" /\ kind = "requester" => Current'[First].request = clock + 1
<1> DEFINE i == First
           base == Current[First]
           n == base.name
           ts == clock + 1
           sent == IF cmd = "suspend" THEN [base EXCEPT !.suspended = TRUE]
                   ELSE [base EXCEPT !.suspended = FALSE,
                           !.request = IF kind = "requester" THEN ts ELSE @]
           answer == [name |-> n, suspended |-> obj'[n].suspended, request |-> obj'[n].request]
           o == obj[n]
<1>1. /\ listed # <<>> /\ Head(listed) = i /\ i \in 1..Len(Current)
      BY FirstIs DEF Patch
<1>2. /\ Current = Last(heap) /\ Len(heap) \in Nat \ {0} /\ base \in ItemType /\ n \in Objects
      /\ heap \in Seq(Seq(ItemType)) /\ Current \in Seq(ItemType) /\ Current = heap[Len(heap)]
      /\ Len(Current) \in Nat
      BY <1>1, CurrentType DEF TypeOK, Current
<1>a. /\ WellFormed(o) /\ o.request <= clock /\ clock \in Nat
      /\ kind \in {"static", "plain", "requester"} /\ cmd \in {"suspend", "resume"}
  <2> HIDE DEF n
  <2> QED BY <1>2 DEF TypeOK
<1>b. o.request \in Nat /\ o.gen \in Nat
      BY <1>a DEF WellFormed, ObjectType
<1>3. ts \in Nat /\ o.request <= ts
      BY <1>a, <1>b
<1>4. /\ obj' = [obj EXCEPT ![n] = IF cmd = "suspend" THEN SuspendPatch(o, base)
                                    ELSE ResumePatch(o, base, ts)]
      /\ heap' = [heap EXCEPT ![Len(heap)][i] = Decode(sent, answer)]
      BY <1>1, <1>2, Zenon DEF Patch
<1>5. /\ obj' = [obj EXCEPT ![n] = obj'[n]]
      /\ obj'[n] = IF cmd = "suspend" THEN SuspendPatch(o, base) ELSE ResumePatch(o, base, ts)
      BY <1>2, <1>4 DEF TypeOK
<1> DEFINE p == obj'[n]
<1>c. p = IF cmd = "suspend" THEN SuspendPatch(o, base) ELSE ResumePatch(o, base, ts)
      BY <1>5
<1> HIDE DEF o, p, base, ts, n
<1>w. o.gen >= o.gen /\ o.gen + 1 > o.gen
      BY <1>b
<1>8. /\ WellFormed(p) /\ p.handled = o.handled /\ p.obsGen = o.obsGen
      /\ p.ready = o.ready /\ p.gen >= o.gen
      /\ p.request = IF cmd = "resume" /\ kind = "requester" THEN ts ELSE o.request
      /\ kind = "plain" /\ p.suspended => o.suspended \/ p.gen = o.gen + 1
      /\ cmd = "suspend" /\ (base.suspended => o.suspended) => p.suspended
      /\ cmd = "resume" /\ (o.suspended => base.suspended) => ~p.suspended
  <2>s. CASE cmd = "suspend"
    <3>1. p = SuspendPatch(o, base)
          BY <1>c, <2>s
    <3>2. /\ WellFormed(p) /\ p.handled = o.handled /\ p.obsGen = o.obsGen
          /\ p.ready = o.ready /\ p.gen >= o.gen /\ p.request = o.request
          /\ (base.suspended => o.suspended) => p.suspended
          /\ kind = "plain" /\ p.suspended => o.suspended \/ p.gen = o.gen + 1
      <4>1. CASE base.suspended
            BY <1>a, <1>w, <3>1, <4>1 DEF SuspendPatch
      <4>2. CASE ~base.suspended
        <5>1. p = SetSuspended(kind, o)
              BY <3>1, <4>2 DEF SuspendPatch
        <5> QED BY <1>a, <5>1, ObjectWrites
      <4> QED BY <4>1, <4>2
    <3> QED BY <2>s, <3>2
  <2>r. CASE cmd = "resume"
    <3> DEFINE u == IF base.suspended THEN SetUnsuspended(kind, o) ELSE o
    <3>1. p = IF kind = "requester" THEN [u EXCEPT !.request = ts] ELSE u
          BY <1>c, <2>r DEF ResumePatch
    <3>2. /\ WellFormed(u) /\ u.handled = o.handled /\ u.obsGen = o.obsGen
          /\ u.ready = o.ready /\ u.gen >= o.gen /\ u.request = o.request
          /\ (o.suspended => base.suspended) => ~u.suspended
          /\ u.suspended => o.suspended
      <4>1. CASE base.suspended
            BY <1>a, <4>1, ObjectWrites
      <4>2. CASE ~base.suspended
            BY <1>a, <1>w, <4>2
      <4> QED BY <4>1, <4>2
    <3> HIDE DEF u
    <3>3. CASE kind = "requester"
      <4>1. p = [u EXCEPT !.request = ts] /\ u.request <= ts
            BY <1>a, <1>3, <3>1, <3>2, <3>3
      <4>2. /\ WellFormed(p) /\ p.request = ts /\ p.handled = u.handled
            /\ p.obsGen = u.obsGen /\ p.gen = u.gen /\ p.ready = u.ready
            /\ p.suspended = u.suspended
            BY <1>a, <1>3, <3>2, <4>1, RequestWrite
      <4> QED BY <2>r, <3>2, <3>3, <4>2
    <3>4. CASE kind # "requester"
          BY <2>r, <3>1, <3>2, <3>4
    <3> QED BY <3>3, <3>4
  <2> QED BY <1>a, <2>s, <2>r
<1> USE DEF p, base, n, ts
<1>9. answer \in ItemType /\ answer.name = n /\ answer.request = p.request
  <2>1. p.suspended \in BOOLEAN /\ p.request \in Nat
        BY <1>8 DEF WellFormed, ObjectType
  <2> HIDE DEF base, n, p
  <2> QED BY <1>2, <2>1 DEF ItemType, p
<1>10. sent.suspended \in BOOLEAN /\ sent.request \in Nat
  <2>1. base \in ItemType /\ base.request \in Nat /\ ts \in Nat
        BY <1>2, <1>3 DEF ItemType
  <2> HIDE DEF base, n, ts
  <2> QED BY <2>1 DEF ItemType
<1> DEFINE item == Decode(sent, answer)
<1>11. /\ item \in ItemType /\ item.name = n
       /\ cmd = "resume" /\ kind = "requester" => item.request = ts
  <2> HIDE DEF sent, answer, base, n
  <2>1. /\ item \in ItemType /\ item.name = n
        /\ answer.request # 0 => item.request = answer.request
        BY <1>2, <1>9, <1>10, ItemOf
  <2>2. ts # 0
        BY <1>a
  <2> HIDE DEF ts, item
  <2> QED BY <1>a, <1>8, <1>9, <2>1, <2>2
<1> HIDE DEF item, sent, answer
<1> DEFINE cur == [Current EXCEPT ![i] = item]
           L == Len(heap)
<1>12. heap' = [heap EXCEPT ![L] = cur]
  <2>1. heap' = [heap EXCEPT ![L][i] = item]
        BY <1>4 DEF item
  <2> QED BY <1>2, <2>1
<1>13. /\ cur \in Seq(ItemType) /\ Len(cur) = Len(Current)
       /\ \A j \in 1..Len(Current) : cur[j] = IF j = i THEN item ELSE Current[j]
       BY <1>1, <1>2, <1>11, ExceptSeq
<1> HIDE DEF cur
<1>14. /\ heap' \in Seq(Seq(ItemType)) /\ Len(heap') = L
       /\ \A j \in 1..L : heap'[j] = IF j = L THEN cur ELSE heap[j]
  <2>1. L \in 1..L
        BY <1>2
  <2> QED BY <1>2, <1>12, <1>13, <2>1, ExceptSeq
<1>15. heap' # <<>>
  <2>1. heap' = <<>> => Len(heap') = 0
        BY EmptySeq, Zenon
  <2> QED BY <1>2, <1>14, <2>1
<1>16. Current' = cur
  <2>1. L \in 1..L /\ Current' = heap'[Len(heap')]
        BY <1>2 DEF Current
  <2> QED BY <1>14, <2>1
<1>17. obj' \in [Objects -> ObjectType] /\ \A m \in Objects : m # n => obj'[m] = obj[m]
  <2>1. obj'[n] \in ObjectType /\ obj \in [Objects -> ObjectType]
        BY <1>8 DEF WellFormed, TypeOK
  <2> HIDE DEF n
  <2> QED BY <1>2, <1>5, <2>1
<1>18. /\ Len(Current') = Len(Current)
       /\ \A j \in 1..Len(Current) : j # i => Current'[j] = Current[j]
       /\ Current'[i].name = n
       /\ cmd = "resume" /\ kind = "requester" => Current'[i].request = ts
       BY <1>1, <1>11, <1>13, <1>16
<1> HIDE DEF base, n, ts, p
<1>19. \A j \in 1..Len(heap) : j # Len(heap) => heap'[j] = heap[j]
       BY <1>14
<1> QED BY <1>1, <1>2, <1>8, <1>14, <1>15, <1>17, <1>18, <1>19 DEF o, base, n, ts, p

----------------------------------------------------------------------------
(* The other users and the controller.                                     *)

\* What the invariant says of an object while the command is under way
\* outlives a step of somebody else.
Keeps(m) ==
    \/ m \in disturbed'
    \/ /\ obj'[m].suspended = obj[m].suspended /\ m \notin disturbed
       /\ \A ts \in Nat : Requested(m, ts) => Requested(m, ts)'

LEMMA WaitersType ==
    ASSUME TypeOK
    PROVE  /\ waiters \in Seq(WaiterType) /\ DOMAIN waiters = 1..Len(waiters) /\ Len(waiters) \in Nat
           /\ \A k \in DOMAIN waiters :
                 waiters[k] \in WaiterType /\ waiters[k].name \in Objects /\ waiters[k].ts \in Nat
<1>1. waiters \in Seq(WaiterType)
      BY DEF TypeOK
<1>2. \A w \in WaiterType : w.name \in Objects /\ w.ts \in Nat
      BY DEF WaiterType
<1>3. /\ DOMAIN waiters = 1..Len(waiters) /\ Len(waiters) \in Nat
      /\ \A k \in DOMAIN waiters : waiters[k] \in WaiterType
      BY <1>1
<1> QED BY <1>1, <1>2, <1>3

LEMMA TouchedType ==
    ASSUME TypeOK
    PROVE  /\ \A t \in touched : t.name \in Objects
           /\ TouchedNames \subseteq Objects
           /\ Pointers => \A t \in touched :
                 LET item == heap[t.ptr[1]][t.ptr[2]] IN
                 item \in ItemType /\ item.name \in Objects /\ item.request \in Nat
<1>1. \A t \in touched : t.name \in Objects
  <2>1. touched \subseteq [name : Objects, ptr : Nat \X Nat]
        BY DEF TypeOK
  <2> QED BY <2>1
<1>2. TouchedNames \subseteq Objects
      BY <1>1 DEF TouchedNames
<1>3. ASSUME Pointers, NEW t \in touched
      PROVE  LET item == heap[t.ptr[1]][t.ptr[2]] IN
             item \in ItemType /\ item.name \in Objects /\ item.request \in Nat
  <2>1. t.ptr[1] \in 1..Len(heap) /\ t.ptr[2] \in 1..Len(heap[t.ptr[1]])
        BY <1>3 DEF Pointers
  <2>2. heap[t.ptr[1]][t.ptr[2]] \in ItemType
        BY <2>1, CurrentType
  <2> QED BY <2>2 DEF ItemType
<1> QED BY <1>1, <1>2, <1>3

LEMMA WorldTypes ==
    ASSUME TypeOK, Controlled, NEW n \in Objects, NEW u, WellFormed(u),
           obj' = [obj EXCEPT ![n] = u], u.request <= clock'
    PROVE  /\ obj' \in [Objects -> ObjectType] /\ obj'[n] = u
           /\ \A m \in Objects : m # n => obj'[m] = obj[m]
           /\ clock <= clock' /\ clock' \in Nat =>
                 \A m \in Objects : WellFormed(obj'[m]) /\ obj'[m].request <= clock'
<1>1. u \in ObjectType /\ obj \in [Objects -> ObjectType] /\ clock \in Nat
      /\ \A m \in Objects : WellFormed(obj[m]) /\ obj[m].request <= clock
      BY DEF TypeOK, WellFormed
<1>2. /\ obj' \in [Objects -> ObjectType] /\ obj'[n] = u
      /\ \A m \in Objects : m # n => obj'[m] = obj[m]
      BY <1>1
<1>3. \A m \in Objects : obj[m].request \in Nat
      BY <1>1 DEF ObjectType
<1>4. ASSUME clock <= clock', clock' \in Nat, NEW m \in Objects
      PROVE  WellFormed(obj'[m]) /\ obj'[m].request <= clock'
  <2>1. CASE m = n
        BY <1>2, <2>1
  <2>2. CASE m # n
    <3>1. obj'[m] = obj[m] /\ WellFormed(obj[m]) /\ obj[m].request <= clock /\ obj[m].request \in Nat
          BY <1>1, <1>2, <1>3, <2>2
    <3> QED BY <1>1, <1>4, <3>1
  <2> QED BY <2>1, <2>2
<1> QED BY <1>2, <1>4

\* A step on one object leaves the rest of the invariant as it is, if it does so
\* for this object.
LEMMA WorldStep ==
    ASSUME IInv, NEW n \in Objects, NEW u, WellFormed(u), u.request <= clock',
           obj' = [obj EXCEPT ![n] = u],
           UNCHANGED <<kind, cmdVars>>, foreign' \in Nat, clock' \in Nat, clock <= clock',
           run' \in [Objects -> RunType], applied' \in [Objects -> Nat], served' \in [Objects -> Nat],
           active' \subseteq Objects, disturbed' \subseteq Objects, disturbed \subseteq disturbed',
           \A m \in Objects : m # n => /\ run'[m] = run[m] /\ applied'[m] = applied[m]
                                       /\ served'[m] = served[m]
                                       /\ m \in disturbed' => m \in disturbed,
           ControllerFor(n)',
           Keeps(n)
    PROVE  IInv'
<1>1. /\ obj' \in [Objects -> ObjectType] /\ obj'[n] = u
      /\ \A m \in Objects : m # n => obj'[m] = obj[m]
      /\ \A m \in Objects : WellFormed(obj'[m]) /\ obj'[m].request <= clock'
      BY WorldTypes DEF IInv
<1>2. TypeOK'
      BY <1>1 DEF IInv, TypeOK, cmdVars
<1>3. \A m \in Objects : m # n /\ ControllerFor(m) => ControllerFor(m)'
      BY <1>1 DEF ControllerFor
<1>4. Controlled'
      BY <1>3 DEF IInv, Controlled
<1>5. \A m \in Objects : Keeps(m)
  <2> SUFFICES ASSUME NEW m \in Objects, m # n, m \notin disturbed' PROVE Keeps(m)
      BY DEF Keeps
  <2>1. obj'[m] = obj[m] /\ served'[m] = served[m] /\ m \notin disturbed
        BY <1>1
  <2> QED BY <2>1 DEF Keeps, Requested
<1>6. \A m \in Objects : \A ts \in Nat : Requested(m, ts) => Requested(m, ts)'
      BY <1>5 DEF Keeps, Requested
<1>7. \A m \in Objects : m \notin disturbed' => obj'[m].suspended = obj[m].suspended /\ m \notin disturbed
      BY <1>5 DEF Keeps
<1>8. /\ Current' = Current /\ \A i : Pending(i)' = Pending(i) 
      /\ ToCome' = ToCome /\ Wanted' = Wanted /\ TouchedNames' = TouchedNames /\ Single' = Single
      BY DEF cmdVars, Current, Pending, ToCome, Named, Rest, ToPatch, Wanted, TouchedNames, Single
<1>9. Progress' /\ OneByOne' /\ AtOnce' /\ Coverage' /\ Pointers'
  <2>1. Progress' /\ OneByOne' /\ AtOnce'
        BY <1>8 DEF IInv, cmdVars, Progress, OneByOne, AtOnce
  <2>2. Coverage' /\ Pointers'
        BY <1>8 DEF IInv, cmdVars, Coverage, Pointers
  <2> QED BY <2>1, <2>2
<1>10. Accurate'
  <2>1. \A i \in DOMAIN Current : Current[i].name \in Objects
        BY CurrentType DEF IInv
  <2> QED BY <1>7, <1>8, <2>1 DEF IInv, Accurate
<1>11. Alone'
  <2>1. TouchedNames \subseteq Objects
        BY TouchedType DEF IInv
  <2>2. listed' = listed /\ touched' = touched
        BY DEF cmdVars
  <2> QED BY <1>7, <1>8, <2>1, <2>2 DEF IInv, Alone
<1>12. Memory'
  <2>1. ASSUME NEW t \in touched
        PROVE  LET item == heap[t.ptr[1]][t.ptr[2]] IN item.name \in Objects /\ item.request \in Nat
        BY TouchedType DEF IInv
  <2>2. UNCHANGED <<kind, cmd, exit, touched, heap>>
        BY DEF cmdVars
  <2> QED BY <1>6, <1>8, <2>1, <2>2 DEF IInv, Memory, ShownBy
<1>13. Waited'
  <2>1. \A k \in DOMAIN waiters : waiters[k].name \in Objects /\ waiters[k].ts \in Nat
        BY WaitersType DEF IInv
  <2>2. UNCHANGED <<kind, waiters>>
        BY DEF cmdVars
  <2> QED BY <1>6, <2>1, <2>2 DEF IInv, Waited
<1> QED BY <1>2, <1>4, <1>9, <1>10, <1>11, <1>12, <1>13 DEF IInv

\* A write that moves nothing but the request, the suspension and the
\* generation, and these as the API server does.
LEMMA WriteKeepsControlled ==
    ASSUME TypeOK, Controlled, NEW n \in Objects, NEW u, WellFormed(u), obj'[n] = u,
           UNCHANGED <<kind, run, applied>>, clock' \in Nat,
           u.handled = obj[n].handled, u.obsGen = obj[n].obsGen, u.ready = obj[n].ready,
           u.gen >= obj[n].gen, u.request = obj[n].request \/ u.request = clock + 1,
           kind = "plain" /\ u.suspended => obj[n].suspended \/ u.gen = obj[n].gen + 1
    PROVE  ControllerFor(n)'
<1> DEFINE o == obj[n]
           r == run[n]
<1>1. /\ o.request <= clock /\ clock \in Nat /\ WellFormed(o) /\ r \in RunType
      BY DEF TypeOK
<1>2. /\ o.request \in Nat /\ o.gen \in Nat /\ o.handled \in Nat /\ o.obsGen \in Nat
      /\ u.request \in Nat /\ u.gen \in Nat /\ r.gen \in Nat /\ r.request \in Nat
      BY <1>1 DEF WellFormed, ObjectType, RunType
<1>3. ControllerFor(n)
      BY DEF Controlled
<1>4. /\ o.gen >= 1 /\ o.handled <= o.request /\ r.request <= o.request
      /\ o.obsGen <= o.gen /\ r.gen >= 1 /\ r.gen <= o.gen
      /\ kind = "plain" /\ o.suspended => o.obsGen < o.gen /\ r.gen < o.gen
      /\ o.ready = "True" => applied[n] = o.obsGen
      /\ o.ready = "none" => o.obsGen = 0
      BY <1>3 DEF ControllerFor
<1>5. /\ u.handled = o.handled /\ u.obsGen = o.obsGen /\ u.ready = o.ready
      /\ u.gen >= o.gen /\ (u.request = o.request \/ u.request = clock + 1)
      /\ kind = "plain" /\ u.suspended => o.suspended \/ u.gen = o.gen + 1
      BY DEF o
<1> HIDE DEF o, r
<1>6. /\ u.gen >= 1 /\ u.handled <= u.request /\ r.request <= u.request
      /\ u.obsGen <= u.gen /\ r.gen >= 1 /\ r.gen <= u.gen
      BY <1>1, <1>2, <1>4, <1>5
<1>7. kind = "plain" /\ u.suspended => u.obsGen < u.gen /\ r.gen < u.gen
  <2> SUFFICES ASSUME kind = "plain", u.suspended PROVE u.obsGen < u.gen /\ r.gen < u.gen
      OBVIOUS
  <2>1. CASE o.suspended
    <3>1. o.obsGen < o.gen /\ r.gen < o.gen
          BY <1>4, <2>1
    <3> QED BY <1>2, <1>5, <3>1
  <2>2. CASE ~o.suspended
    <3>1. u.gen = o.gen + 1
          BY <1>5, <2>2
    <3> QED BY <1>2, <1>4, <1>5, <3>1
  <2> QED BY <2>1, <2>2
<1>8. /\ u.ready = "True" => applied[n] = u.obsGen
      /\ u.ready = "none" => u.obsGen = 0
      BY <1>4, <1>5
<1>9. r' = r /\ kind' = kind /\ applied' = applied
      BY DEF r
<1> QED BY <1>6, <1>7, <1>8, <1>9 DEF ControllerFor, r

LEMMA ForeignSafe ==
    ASSUME IInv, NEW n \in Objects, Foreign(n)
    PROVE  IInv'
<1> DEFINE o == obj[n]
<1>1. /\ WellFormed(o) /\ o.request <= clock /\ clock \in Nat /\ foreign \in Nat
      /\ kind \in {"static", "plain", "requester"} /\ disturbed \subseteq Objects
      /\ run \in [Objects -> RunType] /\ applied \in [Objects -> Nat]
      /\ served \in [Objects -> Nat] /\ active \subseteq Objects /\ obj \in [Objects -> ObjectType]
      BY DEF IInv, TypeOK
<1>2. o.gen \in Nat /\ o.gen >= o.gen
      BY <1>1 DEF WellFormed, ObjectType
<1>3. /\ UNCHANGED <<kind, cmdVars, run, applied, served, active>>
      /\ disturbed' = disturbed \cup {n} /\ foreign' = foreign + 1
      BY DEF Foreign, ctrlVars
<1>4. Keeps(n)
      BY <1>3 DEF Keeps
<1>5. \E u : /\ WellFormed(u) /\ obj' = [obj EXCEPT ![n] = u]
             /\ u.handled = o.handled /\ u.obsGen = o.obsGen /\ u.ready = o.ready
             /\ u.gen >= o.gen
             /\ kind = "plain" /\ u.suspended => o.suspended \/ u.gen = o.gen + 1
             /\ \/ u.request = o.request /\ clock' = clock
                \/ u.request = clock + 1 /\ clock' = clock + 1
  <2>1. CASE /\ clock' = clock /\ o.suspended /\ obj' = [obj EXCEPT ![n] = SetUnsuspended(kind, o)]
    <3> DEFINE u == SetUnsuspended(kind, o)
    <3> HIDE DEF o
    <3>1. /\ WellFormed(u) /\ ~u.suspended /\ u.gen >= o.gen /\ u.request = o.request
          /\ u.handled = o.handled /\ u.obsGen = o.obsGen /\ u.ready = o.ready
          BY <1>1, ObjectWrites
    <3> HIDE DEF u
    <3> QED BY <2>1, <3>1 DEF u
  <2>2. CASE /\ clock' = clock /\ ~o.suspended /\ obj' = [obj EXCEPT ![n] = SetSuspended(kind, o)]
    <3> DEFINE u == SetSuspended(kind, o)
    <3> HIDE DEF o
    <3>1. /\ WellFormed(u) /\ u.gen >= o.gen /\ u.request = o.request
          /\ u.handled = o.handled /\ u.obsGen = o.obsGen /\ u.ready = o.ready
          /\ kind = "plain" => u.gen = o.gen + 1
          BY <1>1, <2>2, ObjectWrites
    <3> HIDE DEF u
    <3> QED BY <2>2, <3>1 DEF u
  <2>3. CASE clock' = clock + 1 /\ obj' = [obj EXCEPT ![n].request = clock + 1]
    <3> DEFINE u == [o EXCEPT !.request = clock + 1]
    <3>1. obj' = [obj EXCEPT ![n] = u]
          BY <2>3
    <3> HIDE DEF o, u
    <3>2. clock + 1 \in Nat /\ o.request <= clock + 1
          BY <1>1 DEF WellFormed, ObjectType
    <3>3. /\ WellFormed(u) /\ u.request = clock + 1 /\ u.handled = o.handled /\ u.obsGen = o.obsGen
          /\ u.gen = o.gen /\ u.ready = o.ready /\ u.suspended = o.suspended
          BY <1>1, <3>2, RequestWrite DEF u
    <3> QED BY <1>2, <2>3, <3>1, <3>3
  <2> QED BY <1>1, <2>1, <2>2, <2>3 DEF Foreign
<1> HIDE DEF o
<1>6. PICK u : /\ WellFormed(u) /\ obj' = [obj EXCEPT ![n] = u]
               /\ u.handled = o.handled /\ u.obsGen = o.obsGen /\ u.ready = o.ready
               /\ u.gen >= o.gen
               /\ kind = "plain" /\ u.suspended => o.suspended \/ u.gen = o.gen + 1
               /\ \/ u.request = o.request /\ clock' = clock
                  \/ u.request = clock + 1 /\ clock' = clock + 1
      BY <1>5
<1>7. clock' \in Nat /\ clock <= clock' /\ u.request <= clock'
      BY <1>1, <1>6
<1>8. obj'[n] = u
      BY <1>1, <1>6
<1>9. ControllerFor(n)'
      BY <1>3, <1>6, <1>7, <1>8, WriteKeepsControlled DEF IInv, o
<1>10. /\ disturbed' \subseteq Objects /\ disturbed \subseteq disturbed' /\ foreign' \in Nat
       /\ run' \in [Objects -> RunType] /\ applied' \in [Objects -> Nat]
       /\ served' \in [Objects -> Nat] /\ active' \subseteq Objects
       /\ \A m \in Objects : m # n => /\ run'[m] = run[m] /\ applied'[m] = applied[m]
                                      /\ served'[m] = served[m]
                                      /\ m \in disturbed' => m \in disturbed
       /\ UNCHANGED <<kind, cmdVars>>
       BY <1>1, <1>3
<1> QED BY <1>4, <1>6, <1>7, <1>9, <1>10, WorldStep

\* A step of the controller on an object: it may handle what the run read, and
\* records what the run applied.
LEMMA ControllerStep ==
    ASSUME IInv, NEW n \in Objects, NEW u, NEW q \in RunType, NEW a \in Nat, NEW v \in Nat,
           WellFormed(u), obj' = [obj EXCEPT ![n] = u], active' \subseteq Objects,
           UNCHANGED <<kind, clock, foreign, disturbed, cmdVars>>,
           run' = [run EXCEPT ![n] = q], applied' = [applied EXCEPT ![n] = a],
           served' = [served EXCEPT ![n] = v],
           u.suspended = obj[n].suspended, u.request = obj[n].request, u.gen = obj[n].gen,
           u.handled <= obj[n].request, q.request <= obj[n].request, u.obsGen <= obj[n].gen,
           q.gen >= 1, q.gen <= obj[n].gen,
           kind = "plain" /\ obj[n].suspended => u.obsGen < obj[n].gen /\ q.gen < obj[n].gen,
           u.ready = "True" => a = u.obsGen,
           u.ready = "none" => u.obsGen = 0,
           \/ obj[n].suspended \/ u.handled = v
           \/ u.handled = obj[n].handled /\ v = served[n]
    PROVE  IInv'
<1> DEFINE o == obj[n]
<1>1. /\ WellFormed(o) /\ o.request <= clock /\ clock \in Nat /\ foreign \in Nat
      /\ kind \in {"static", "plain", "requester"} /\ disturbed \subseteq Objects
      /\ run \in [Objects -> RunType] /\ applied \in [Objects -> Nat]
      /\ served \in [Objects -> Nat] /\ active \subseteq Objects /\ obj \in [Objects -> ObjectType]
      BY DEF IInv, TypeOK
<1>2. o.gen >= 1
      BY DEF IInv, Controlled, ControllerFor
<1>3. obj'[n] = u /\ run'[n] = q /\ applied'[n] = a /\ served'[n] = v
      BY <1>1
<1> HIDE DEF o
<1>4. ControllerFor(n)'
      BY <1>2, <1>3 DEF ControllerFor, o
<1>5. Keeps(n)
  <2>1. CASE n \in disturbed
        BY <2>1 DEF Keeps
  <2>2. CASE n \notin disturbed
    <3>1. ASSUME NEW ts \in Nat, Requested(n, ts) PROVE Requested(n, ts)'
      <4>1. ~o.suspended /\ (o.handled = served[n] \/ o.handled < ts)
            BY <2>2, <3>1 DEF Requested, o
      <4> QED BY <1>3, <4>1 DEF Requested, o
    <3>2. obj'[n].suspended = obj[n].suspended
          BY <1>3
    <3> QED BY <2>2, <3>1, <3>2 DEF Keeps
  <2> QED BY <2>1, <2>2
<1>6. /\ foreign' \in Nat /\ clock' \in Nat /\ clock <= clock' /\ u.request <= clock'
  <2>1. clock' = clock /\ foreign' = foreign /\ u.request = o.request
        BY DEF o
  <2> QED BY <1>1, <2>1
<1>7. /\ disturbed' \subseteq Objects /\ disturbed \subseteq disturbed'
      /\ run' \in [Objects -> RunType] /\ applied' \in [Objects -> Nat]
      /\ served' \in [Objects -> Nat]
      /\ \A m \in Objects : m # n => /\ run'[m] = run[m] /\ applied'[m] = applied[m]
                                     /\ served'[m] = served[m]
                                     /\ m \in disturbed' => m \in disturbed
      /\ UNCHANGED <<kind, cmdVars>>
      BY <1>1
<1> QED BY <1>4, <1>5, <1>6, <1>7, WorldStep

LEMMA ControllerSafe ==
    ASSUME IInv, NEW n \in Objects, Controller(n)
    PROVE  IInv'
<1> DEFINE o == obj[n]
           r == run[n]
<1>1. /\ WellFormed(o) /\ o.request <= clock /\ clock \in Nat /\ foreign \in Nat
      /\ kind \in {"static", "plain", "requester"} /\ disturbed \subseteq Objects
      /\ run \in [Objects -> RunType] /\ applied \in [Objects -> Nat] /\ r \in RunType
      /\ served \in [Objects -> Nat] /\ active \subseteq Objects /\ obj \in [Objects -> ObjectType]
      BY DEF IInv, TypeOK
<1>2. /\ o.gen \in Nat /\ o.request \in Nat /\ o.handled \in Nat /\ o.obsGen \in Nat
      /\ r.gen \in Nat /\ r.request \in Nat
      BY <1>1 DEF WellFormed, ObjectType, RunType
<1>3. ControllerFor(n)
      BY DEF IInv, Controlled
<1>4. /\ o.gen >= 1 /\ o.handled <= o.request /\ r.request <= o.request
      /\ o.obsGen <= o.gen /\ r.gen >= 1 /\ r.gen <= o.gen
      /\ kind = "plain" /\ o.suspended => o.obsGen < o.gen /\ r.gen < o.gen
      /\ o.ready = "True" => applied[n] = o.obsGen
      /\ o.ready = "none" => o.obsGen = 0
      BY <1>3 DEF ControllerFor
<1>r. served[n] \in Nat /\ applied[n] \in Nat /\ o.gen <= o.gen /\ o.request <= o.request
      BY <1>1, <1>2
<1> DEFINE fresh == RunOf(NewObject)
<1>f. /\ fresh \in RunType /\ fresh.gen = 1 /\ fresh.request = 0
      /\ applied = [applied EXCEPT ![n] = applied[n]] /\ served = [served EXCEPT ![n] = served[n]]
      /\ run = [run EXCEPT ![n] = run[n]]
      BY <1>1, NewObjectIs
<1>g. ASSUME NEW y \in ReadyStatus, NEW b \in BOOLEAN
      PROVE  LET w == FinishRun(o, r, y, b) IN
             /\ WellFormed(w) /\ w.request = o.request /\ w.handled = r.request /\ w.obsGen = r.gen
             /\ w.gen = o.gen /\ w.ready = y /\ w.suspended = o.suspended
  <2> HIDE DEF o, r
  <2> QED BY <1>1, ControllerWrites
<1>6. CASE CtrlStart(n)
  <2> DEFINE u == StartRun(o)
             q == RunOf(o)
  <2>1. /\ WellFormed(u) /\ q \in RunType /\ q.gen = o.gen /\ q.request = o.request
        /\ u.request = o.request /\ u.handled = o.handled /\ u.obsGen = o.obsGen
        /\ u.gen = o.gen /\ u.ready = "Unknown" /\ u.suspended = o.suspended
    <3> HIDE DEF o
    <3>1. \E y \in ReadyStatus : TRUE
          BY DEF ReadyStatus
    <3> QED BY <1>1, <3>1, ControllerWrites
  <2>2. /\ obj' = [obj EXCEPT ![n] = u] /\ run' = [run EXCEPT ![n] = q] /\ ~o.suspended
        /\ UNCHANGED <<kind, clock, foreign, disturbed, cmdVars, applied, served>>
        /\ active' \subseteq Objects
        BY <1>1, <1>6 DEF CtrlStart
  <2> HIDE DEF o, u, q
  <2>3. /\ u.handled <= o.request /\ u.obsGen <= o.gen
        BY <1>4, <2>1
  <2>4. applied' = [applied EXCEPT ![n] = applied[n]] /\ served' = [served EXCEPT ![n] = served[n]]
        BY <1>f, <2>2
  <2> HIDE DEF fresh
  <2> QED BY <1>r, <1>4, <2>1, <2>2, <2>3, <2>4, ControllerStep DEF o
<1>7. CASE CtrlSucceed(n)
  <2> DEFINE u == FinishRun(o, r, "True", FALSE)
  <2>1. /\ WellFormed(u) /\ u.request = o.request /\ u.handled = r.request /\ u.obsGen = r.gen
        /\ u.gen = o.gen /\ u.ready = "True" /\ u.suspended = o.suspended
    <3> HIDE DEF o, r
    <3>1. "True" \in ReadyStatus
          BY DEF ReadyStatus
    <3> QED BY <1>g, <3>1, Zenon
  <2>2. /\ obj' = [obj EXCEPT ![n] = u] /\ run' = [run EXCEPT ![n] = fresh]
        /\ applied' = [applied EXCEPT ![n] = r.gen] /\ served' = [served EXCEPT ![n] = r.request]
        /\ UNCHANGED <<kind, clock, foreign, disturbed, cmdVars>>
        /\ active' \subseteq Objects
        BY <1>1, <1>7 DEF CtrlSucceed
  <2> HIDE DEF o, u, r, fresh
  <2>3. /\ u.handled <= o.request /\ fresh.request <= o.request /\ u.obsGen <= o.gen
        /\ fresh.gen >= 1 /\ fresh.gen <= o.gen
        BY <1>2, <1>4, <1>f, <2>1
  <2>4. kind = "plain" /\ o.suspended => u.obsGen < o.gen /\ fresh.gen < o.gen
        BY <1>2, <1>4, <1>f, <2>1
  <2> QED BY <1>2, <1>f, <2>1, <2>2, <2>3, <2>4, ControllerStep DEF o
<1>8. CASE CtrlFail(n)
  <2>0. PICK stalled \in BOOLEAN : obj' = [obj EXCEPT ![n] = FinishRun(o, r, "False", stalled)]
        BY <1>8 DEF CtrlFail
  <2> DEFINE u == FinishRun(o, r, "False", stalled)
  <2>1. /\ WellFormed(u) /\ u.request = o.request /\ u.handled = r.request /\ u.obsGen = r.gen
        /\ u.gen = o.gen /\ u.ready = "False" /\ u.suspended = o.suspended
    <3> HIDE DEF o, r
    <3>1. "False" \in ReadyStatus
          BY DEF ReadyStatus
    <3> QED BY <1>g, <3>1, Zenon
  <2>2. /\ obj' = [obj EXCEPT ![n] = u] /\ run' = [run EXCEPT ![n] = fresh]
        /\ applied' = applied /\ served' = [served EXCEPT ![n] = r.request]
        /\ UNCHANGED <<kind, clock, foreign, disturbed, cmdVars>>
        /\ active' \subseteq Objects
        BY <1>1, <1>8, <2>0 DEF CtrlFail
  <2> HIDE DEF o, u, r, fresh
  <2>3. /\ u.handled <= o.request /\ fresh.request <= o.request /\ u.obsGen <= o.gen
        /\ fresh.gen >= 1 /\ fresh.gen <= o.gen
        BY <1>2, <1>4, <1>f, <2>1
  <2>4. kind = "plain" /\ o.suspended => u.obsGen < o.gen /\ fresh.gen < o.gen
        BY <1>2, <1>4, <1>f, <2>1
  <2>5. applied' = [applied EXCEPT ![n] = applied[n]]
        BY <1>f, <2>2
  <2> QED BY <1>2, <1>r, <1>f, <2>1, <2>2, <2>3, <2>4, <2>5, ControllerStep DEF o
<1>9. CASE CtrlMarkHandled(n)
  <2> DEFINE u == MarkHandled(o)
  <2>1. /\ WellFormed(u) /\ u.request = o.request /\ u.handled = o.request /\ u.obsGen = o.obsGen
        /\ u.gen = o.gen /\ u.ready = o.ready /\ u.suspended = o.suspended
    <3> HIDE DEF o, r
    <3>1. \E y \in ReadyStatus : TRUE
          BY DEF ReadyStatus
    <3> QED BY <1>1, <3>1, ControllerWrites
  <2>2. /\ obj' = [obj EXCEPT ![n] = u] /\ o.suspended /\ kind = "requester"
        /\ UNCHANGED <<kind, clock, foreign, disturbed, active, run, applied, served, cmdVars>>
        BY <1>9 DEF CtrlMarkHandled, ctrlVars
  <2> HIDE DEF o, u, r
  <2>4. u.handled <= o.request /\ u.obsGen <= o.gen
        BY <1>r, <1>4, <2>1
  <2>5. /\ applied' = [applied EXCEPT ![n] = applied[n]] /\ served' = [served EXCEPT ![n] = served[n]]
        /\ run' = [run EXCEPT ![n] = r]
        BY <1>f, <2>2 DEF r
  <2>6. /\ kind = "plain" /\ o.suspended => u.obsGen < o.gen /\ r.gen < o.gen
        /\ u.ready = "True" => applied[n] = u.obsGen
        /\ u.ready = "none" => u.obsGen = 0
        BY <1>4, <2>1
  <2> HIDE DEF fresh
  <2>7. /\ UNCHANGED <<kind, clock, foreign, disturbed, cmdVars>> /\ active' \subseteq Objects
        /\ r.request <= o.request /\ r.gen >= 1 /\ r.gen <= o.gen
        /\ r \in RunType /\ applied[n] \in Nat /\ served[n] \in Nat
        BY <1>1, <1>r, <1>4, <2>2
  <2>8. WellFormed(u) /\ obj' = [obj EXCEPT ![n] = u] /\ o.suspended
        /\ u.suspended = o.suspended /\ u.request = o.request /\ u.gen = o.gen
        BY <2>1, <2>2
  <2> QED BY <2>4, <2>5, <2>6, <2>7, <2>8, ControllerStep DEF o
<1> QED BY <1>6, <1>7, <1>8, <1>9 DEF Controller

----------------------------------------------------------------------------
(* Waiting.                                                                *)

\* While the names, the lists and the objects stay as they are, so does most of
\* the invariant.
LEMMA WaitingStep ==
    ASSUME IInv, exit = "running", todo = <<>>,
           UNCHANGED <<kind, obj, clock, foreign, disturbed, ctrlVars,
                       cmd, args, wait, todo, listed, heap, touched>>,
           waiters' \in Seq(WaiterType), exit' \in {"running", "ok", "err"},
           kind = "requester" => \A k \in DOMAIN waiters' : Requested(waiters'[k].name, waiters'[k].ts)
    PROVE  IInv'
<1>1. TypeOK'
      BY DEF IInv, TypeOK, ctrlVars
<1>2. /\ Current' = Current /\ \A i : Pending(i)' = Pending(i)
      /\ ToCome' = ToCome /\ Wanted' = Wanted /\ TouchedNames' = TouchedNames /\ Single' = Single
      BY DEF Current, Pending, ToCome, Named, Rest, ToPatch, Wanted, TouchedNames, Single
<1>3. Progress'
      BY <1>2 DEF IInv, Progress
<1>4. OneByOne' /\ AtOnce'
      BY <1>2 DEF IInv, OneByOne, AtOnce
<1>5. Coverage' /\ Pointers'
      BY <1>2 DEF IInv, Coverage, Pointers
<1>6. Accurate' /\ Alone'
      BY <1>2 DEF IInv, Accurate, Alone
<1>7. \A n, ts : Requested(n, ts)' = Requested(n, ts)
      BY DEF Requested, ctrlVars
<1>8. Memory'
      BY <1>2, <1>7 DEF IInv, Memory, ShownBy
<1>9. Waited'
      BY <1>7 DEF Waited
<1>10. Controlled'
       BY DEF IInv, Controlled, ControllerFor, ctrlVars
<1> QED BY <1>1, <1>3, <1>4, <1>5, <1>6, <1>8, <1>9, <1>10 DEF IInv

LEMMA PollSafe ==
    ASSUME IInv, NEW k \in DOMAIN waiters, Poll(k) \/ PollAborts(k)
    PROVE  IInv'
<1>1. /\ waiters \in Seq(WaiterType) /\ DOMAIN waiters = 1..Len(waiters) /\ waiters[k] \in WaiterType
      /\ waiters # <<>>
  <2>1. waiters = <<>> => Len(waiters) = 0
        BY EmptySeq, Zenon
  <2>2. /\ waiters \in Seq(WaiterType) /\ DOMAIN waiters = 1..Len(waiters) /\ waiters[k] \in WaiterType
        /\ Len(waiters) \in Nat
        BY WaitersType DEF IInv
  <2> QED BY <2>1, <2>2
<1>2. PICK r \in {"ok", "err"} : waiters' = [waiters EXCEPT ![k].res = r]
      BY Zenon DEF Poll, PollAborts
<1>3. /\ exit = "running" /\ exit' = exit
      /\ UNCHANGED <<kind, obj, clock, foreign, disturbed, ctrlVars,
                     cmd, args, wait, todo, listed, heap, touched>>
      BY DEF Poll, PollAborts
<1> DEFINE w == [waiters[k] EXCEPT !.res = r]
<1>4. w \in WaiterType /\ w.name = waiters[k].name /\ w.ts = waiters[k].ts
      BY <1>1 DEF WaiterType
<1>5. waiters' = [waiters EXCEPT ![k] = w]
      BY <1>1, <1>2
<1> HIDE DEF w
<1>6. /\ waiters' \in Seq(WaiterType) /\ DOMAIN waiters' = DOMAIN waiters
      /\ \A j \in DOMAIN waiters : waiters'[j] = IF j = k THEN w ELSE waiters[j]
  <2>1. Len(waiters') = Len(waiters) /\ waiters' \in Seq(WaiterType)
        BY <1>1, <1>4, <1>5, ExceptSeq
  <2> QED BY <1>1, <1>4, <1>5, <2>1
<1>7. \A j \in DOMAIN waiters' : waiters'[j].name = waiters[j].name /\ waiters'[j].ts = waiters[j].ts
      BY <1>4, <1>6
<1>8. kind = "requester" => \A j \in DOMAIN waiters' : Requested(waiters'[j].name, waiters'[j].ts)
      BY <1>6, <1>7 DEF IInv, Waited
<1>9. todo = <<>>
      BY <1>1 DEF IInv, Progress
<1>10. exit' \in {"running", "ok", "err"}
       BY <1>3
<1> QED BY <1>3, <1>6, <1>8, <1>9, <1>10, WaitingStep

LEMMA FinishSafe ==
    ASSUME IInv, Finish
    PROVE  IInv'
<1>1. /\ waiters \in Seq(WaiterType) /\ waiters' = waiters /\ waiters # <<>>
      /\ exit = "running" /\ exit' \in {"running", "ok", "err"}
      /\ UNCHANGED <<kind, obj, clock, foreign, disturbed, ctrlVars,
                     cmd, args, wait, todo, listed, heap, touched>>
      BY WaitersType DEF IInv, Finish
<1>2. todo = <<>>
      BY <1>1 DEF IInv, Progress
<1>3. kind = "requester" => \A j \in DOMAIN waiters' : Requested(waiters'[j].name, waiters'[j].ts)
      BY <1>1 DEF IInv, Waited
<1> QED BY <1>1, <1>2, <1>3, WaitingStep

LEMMA StartWaitingSafe ==
    ASSUME IInv, StartWaiting
    PROVE  IInv'
<1>1. /\ Busy /\ todo = <<>> /\ exit = "running" /\ waiters = <<>>
      /\ UNCHANGED <<kind, obj, clock, foreign, disturbed, ctrlVars,
                     cmd, args, wait, todo, listed, heap, touched>>
      BY DEF StartWaiting, Busy
<1>2. CASE ~wait \/ touched = {}
  <2>1. exit' = "ok" /\ waiters' = <<>>
        BY <1>1, <1>2 DEF StartWaiting
  <2>2. waiters' \in Seq(WaiterType) /\ DOMAIN waiters' = {}
        BY <2>1
  <2> QED BY <1>1, <2>1, <2>2, WaitingStep
<1>3. CASE wait /\ touched # {}
  <2> DEFINE ps == SetToSeq(touched)
             it(j) == heap[ps[j].ptr[1]][ps[j].ptr[2]]
  <2>1. exit' = exit /\ waiters' = [j \in 1..Len(ps) |-> [name |-> it(j).name, ts |-> it(j).request, res |-> "wait"]]
        BY <1>3 DEF StartWaiting
  <2>2. ps \in Seq(touched) /\ Len(ps) \in Nat /\ \A j \in 1..Len(ps) : ps[j] \in touched
    <3>1. IsFiniteSet(touched)
          BY DEF IInv, Progress
    <3>2. ps \in Seq(touched)
          BY <3>1, SetToSeqOf
    <3> QED BY <3>2
  <2>3. \A j \in 1..Len(ps) : it(j).name \in Objects /\ it(j).request \in Nat
        BY <2>2, TouchedType DEF IInv
  <2>4. kind = "requester" => \A j \in 1..Len(ps) : Requested(it(j).name, it(j).request)
    <3>1. cmd = "resume" /\ exit # "err"
          BY <1>1, <1>3 DEF IInv, TypeOK
    <3>2. listed = <<>>
          BY <1>1 DEF IInv, Progress
    <3>3. \A i : ~Pending(i)
      <4>1. Len(listed) = 0
            BY <3>2, EmptySeq, Zenon
      <4>2. DOMAIN Current = 1..Len(Current) /\ Len(Current) \in Nat
            BY CurrentType DEF IInv
      <4> QED BY <4>1, <4>2 DEF Pending
    <3>4. kind = "requester" => \A t \in touched :
              Requested(heap[t.ptr[1]][t.ptr[2]].name, heap[t.ptr[1]][t.ptr[2]].request)
          BY <3>1, <3>3 DEF IInv, Memory, ShownBy
    <3> QED BY <2>2, <3>4
  <2> HIDE DEF ps, it
  <2>5. waiters' \in Seq(WaiterType) /\ DOMAIN waiters' = 1..Len(ps)
        BY <2>1, <2>2, <2>3 DEF WaiterType
  <2>6. \A j \in 1..Len(ps) : waiters'[j].name = it(j).name /\ waiters'[j].ts = it(j).request
        BY <2>1
  <2>7. kind = "requester" => \A j \in DOMAIN waiters' : Requested(waiters'[j].name, waiters'[j].ts)
        BY <2>4, <2>5, <2>6
  <2>8. exit' \in {"running", "ok", "err"}
        BY <1>1, <2>1
  <2> QED BY <1>1, <2>5, <2>7, <2>8, WaitingStep
<1> QED BY <1>2, <1>3

----------------------------------------------------------------------------
(* The names still to come.                                                *)

LEMMA NamesSplit ==
    ASSUME NEW s \in Seq(Objects \cup Missing \cup {All}), s # <<>>
    PROVE  /\ NamesIn(s) = NamesIn(Tail(s)) \cup {n \in Objects : Head(s) \in {All, n}}
           /\ Range(s) = Range(Tail(s)) \cup {Head(s)}
           /\ IsInjective(s) => IsInjective(Tail(s)) /\ Head(s) \notin Range(Tail(s))
<1> DEFINE t == Tail(s)
<1>1. /\ Len(s) \in Nat \ {0} /\ DOMAIN s = 1..Len(s) /\ Head(s) = s[1]
      /\ t \in Seq(Objects \cup Missing \cup {All}) /\ DOMAIN t = 1..Len(t) /\ Len(t) = Len(s) - 1
      /\ \A i \in 1..Len(t) : t[i] = s[i + 1]
      BY HeadTailProperties, EmptySeq
<1> HIDE DEF t
<1>2. \A i \in 2..Len(s) : i - 1 \in 1..Len(t) /\ t[i - 1] = s[i]
  <2> SUFFICES ASSUME NEW i \in 2..Len(s) PROVE i - 1 \in 1..Len(t) /\ t[i - 1] = s[i]
      OBVIOUS
  <2>1. i - 1 \in 1..Len(t) /\ (i - 1) + 1 = i
        BY <1>1
  <2> QED BY <1>1, <2>1
<1>3. Range(s) = Range(t) \cup {Head(s)}
  <2>1. Range(t) \cup {Head(s)} \subseteq Range(s)
        BY <1>1 DEF Range
  <2>2. \A i \in 1..Len(s) : i = 1 \/ i \in 2..Len(s)
        BY <1>1
  <2>3. Range(s) \subseteq Range(t) \cup {Head(s)}
    <3> SUFFICES ASSUME NEW i \in 1..Len(s) PROVE s[i] \in Range(t) \cup {Head(s)}
        BY <1>1 DEF Range
    <3>1. CASE i = 1
          BY <1>1, <3>1
    <3>2. CASE i \in 2..Len(s)
      <4>1. i - 1 \in DOMAIN t /\ t[i - 1] = s[i]
            BY <1>1, <1>2, <3>2
      <4> QED BY <4>1 DEF Range
    <3> QED BY <2>2, <3>1, <3>2
  <2> QED BY <2>1, <2>3
<1>4. IsInjective(s) => IsInjective(t) /\ Head(s) \notin Range(t)
  <2> SUFFICES ASSUME IsInjective(s) PROVE IsInjective(t) /\ Head(s) \notin Range(t)
      OBVIOUS
  <2>1. \A i, j \in 1..Len(s) : s[i] = s[j] => i = j
        BY <1>1 DEF IsInjective
  <2>2. \A i, j \in 1..Len(t) : t[i] = t[j] => i = j
    <3> SUFFICES ASSUME NEW i \in 1..Len(t), NEW j \in 1..Len(t), t[i] = t[j] PROVE i = j
        OBVIOUS
    <3>1. i + 1 \in 1..Len(s) /\ j + 1 \in 1..Len(s) /\ s[i + 1] = s[j + 1]
          BY <1>1
    <3>2. i + 1 = j + 1
          BY <2>1, <3>1
    <3> QED BY <1>1, <3>2
  <2>3. Head(s) \notin Range(t)
    <3>1. \A i \in 1..Len(t) : i + 1 \in 1..Len(s) /\ i + 1 # 1 /\ 1 \in 1..Len(s)
          BY <1>1
    <3>2. \A i \in 1..Len(t) : t[i] # s[1]
          BY <1>1, <2>1, <3>1
    <3> QED BY <1>1, <3>2 DEF Range
  <2> QED BY <1>1, <2>2, <2>3 DEF IsInjective
<1>5. NamesIn(s) = NamesIn(t) \cup {n \in Objects : Head(s) \in {All, n}}
      BY <1>3 DEF NamesIn
<1> QED BY <1>3, <1>4, <1>5 DEF t

LEMMA NoNames == NamesIn(<<>>) = {} /\ Len(<<>>) = 0
<1>1. Range(<<>>) = {}
      BY DEF Range
<1>2. Len(<<>>) = 0
      BY EmptySeq, Zenon
<1> QED BY <1>1, <1>2 DEF NamesIn

LEMMA OnlyOne ==
    ASSUME NEW S, IsFiniteSet(S), Cardinality(S) <= 1, NEW x \in S, NEW y \in S
    PROVE  x = y
<1>1. SUFFICES ASSUME x # y PROVE FALSE
      OBVIOUS
<1>2. IsFiniteSet({x, y}) /\ Cardinality({x, y}) = 2
  <2>1. IsFiniteSet({x}) /\ Cardinality({x}) = 1
        BY FS_Singleton
  <2>2. {x, y} = {x} \cup {y}
        OBVIOUS
  <2>3. /\ IsFiniteSet({x} \cup {y})
        /\ Cardinality({x} \cup {y}) = IF y \in {x} THEN Cardinality({x}) ELSE Cardinality({x}) + 1
        BY <2>1, FS_AddElement
  <2> QED BY <1>1, <2>1, <2>2, <2>3
<1>3. Cardinality({x, y}) <= Cardinality(S)
      BY FS_Subset
<1>4. Cardinality(S) \in Nat
      BY FS_CardinalityType
<1> QED BY <1>2, <1>3, <1>4

LEMMA WantedFinite == IsFiniteSet(Wanted) /\ Wanted \subseteq Objects
<1>1. Wanted \subseteq Objects
      BY DEF Wanted
<1> QED BY <1>1, NamesAssumption, FS_Subset

\* With names on the command line no list has more than one item; without, there
\* is one list.
LEMMA NamesAhead ==
    ASSUME IInv, listed # <<>>
    PROVE  /\ Current[First].name \notin NamesIn(Tail(todo)) /\ todo # <<>>
           /\ args # <<>> => First = 1 /\ Len(Current) = 1 /\ Len(listed) = 1
           /\ args = <<>> => Tail(todo) = <<>>
<1>1. /\ First \in 1..Len(Current) /\ First = Len(Current) - Len(listed) + 1
      /\ Len(listed) \in Nat \ {0}
      BY FirstIs DEF IInv, First
<1>2. /\ Len(Current) \in Nat /\ Len(heap) \in 1..Len(heap) /\ Current = heap[Len(heap)]
      /\ \A i \in 1..Len(Current) : Current[i].name \in Objects
      BY CurrentType DEF IInv, Current
<1>3. todo # <<>> /\ todo \in Seq(Objects \cup Missing \cup {All})
      BY DEF IInv, Progress, TypeOK
<1>4. CASE args # <<>>
  <2>1. Len(Current) <= 1 /\ IsInjective(todo) /\ Range(todo) \subseteq Range(args)
        /\ Current[1].name = Head(todo)
        BY <1>2, <1>4 DEF IInv, OneByOne
  <2>2. First = 1 /\ Len(Current) = 1 /\ Len(listed) = 1
    <3> DEFINE f == First
               c == Len(Current)
               l == Len(listed)
    <3>1. f \in 1..c /\ f = c - l + 1 /\ l \in Nat \ {0} /\ c \in Nat /\ c <= 1
          BY <1>1, <1>2, <2>1
    <3> HIDE DEF f, c, l
    <3>2. c = 1 /\ f = 1 /\ l = 1
          BY <3>1
    <3> QED BY <3>2 DEF f, c, l
  <2>3. Head(todo) \notin Range(Tail(todo)) /\ Range(Tail(todo)) \subseteq Range(args)
        BY <1>3, <2>1, NamesSplit
  <2>4. All \notin Range(args)
    <3>1. args \in Seq(Objects \cup Missing) /\ All \notin Objects \cup Missing
          BY NamesAssumption DEF IInv, TypeOK
    <3> QED BY <3>1 DEF Range
  <2> QED BY <1>3, <1>4, <2>1, <2>2, <2>3, <2>4 DEF NamesIn
<1>5. CASE args = <<>>
  <2>1. todo = <<All>>
        BY <1>3, <1>5 DEF IInv, AtOnce
  <2>2. Tail(todo) = <<>>
        BY <2>1
  <2> QED BY <1>3, <1>5, <2>2, NoNames
<1> QED BY <1>4, <1>5

----------------------------------------------------------------------------
(* A call that fails.                                                      *)

LEMMA CallFailsSafe ==
    ASSUME IInv, CallFails
    PROVE  IInv'
<1>1. /\ exit = "running" /\ waiters = <<>> /\ todo # <<>>
      /\ UNCHANGED <<kind, obj, clock, foreign, disturbed, ctrlVars,
                     cmd, args, wait, heap, waiters, touched>>
      BY DEF CallFails, Busy
<1>2. \A n, ts : Requested(n, ts)' = Requested(n, ts)
      BY <1>1 DEF Requested, ctrlVars
<1>3. Current' = Current /\ Wanted' = Wanted /\ TouchedNames' = TouchedNames /\ Single' = Single
      BY <1>1 DEF Current, Wanted, TouchedNames, Single
<1>4. Pointers' /\ Waited' /\ Controlled'
  <2>1. Pointers'
        BY <1>1 DEF IInv, Pointers
  <2>2. Waited'
        BY <1>1, <1>2 DEF IInv, Waited
  <2>3. Controlled'
        BY <1>1 DEF IInv, Controlled, ControllerFor, ctrlVars
  <2> QED BY <2>1, <2>2, <2>3
<1>5. CASE cmd = "resume" \/ Head(todo) = All
  <2>1. exit' = "err" /\ UNCHANGED <<todo, listed>>
        BY <1>5 DEF CallFails
  <2>2. \A i : Pending(i)' = Pending(i)
        BY <1>3, <2>1 DEF Pending
  <2>3. ToCome' = ToCome
        BY <1>3, <2>1, <2>2 DEF ToCome, Named, Rest, ToPatch
  <2>4. TypeOK'
        BY <1>1, <2>1 DEF IInv, TypeOK, ctrlVars
  <2>5. Progress'
        BY <1>1, <1>3, <2>1 DEF IInv, Progress
  <2>6. OneByOne' /\ AtOnce'
        BY <1>1, <1>3, <2>1 DEF IInv, OneByOne, AtOnce
  <2>7. Coverage'
        BY <1>1, <1>3, <2>1, <2>3 DEF IInv, Coverage
  <2>8. Accurate' /\ Alone'
        BY <1>1, <1>3, <2>1, <2>2, <2>3 DEF IInv, Accurate, Alone
  <2>9. Memory'
        BY <2>1 DEF Memory
  <2> QED BY <1>4, <2>4, <2>5, <2>6, <2>7, <2>8, <2>9 DEF IInv
<1>6. CASE cmd # "resume" /\ Head(todo) # All
  <2>1. todo' = Tail(todo) /\ listed' = <<>> /\ exit' = exit
        BY <1>6 DEF CallFails
  <2>2. todo \in Seq(Objects \cup Missing \cup {All})
        BY DEF IInv, TypeOK
  <2>3. Tail(todo) \in Seq(Objects \cup Missing \cup {All})
        BY <1>1, HeadOfTodo DEF IInv
  <2>4. /\ Current \in Seq(ItemType) /\ Len(Current) \in Nat /\ DOMAIN Current = 1..Len(Current)
        BY CurrentType DEF IInv
  <2>5. \A i : ~Pending(i)'
        BY <1>3, <2>1, <2>4, NoNames DEF Pending
  <2>6. ToCome' = NamesIn(Tail(todo))
        BY <2>1, <2>5 DEF ToCome, Named, Rest, ToPatch
  <2>7. NamesIn(Tail(todo)) \subseteq ToCome
    <3>1. NamesIn(Tail(todo)) \subseteq NamesIn(todo)
          BY <1>1, <2>2, NamesSplit
    <3> QED BY <3>1 DEF ToCome, Named, Rest
  <2>8. args # <<>>
        BY <1>1, <1>6 DEF IInv, AtOnce
  <2>9. TypeOK'
        BY <1>1, <2>1, <2>3 DEF IInv, TypeOK, ctrlVars
  <2>10. Progress'
    <3>1. listed' = [j \in 1..Len(listed') |-> Len(Current) - Len(listed') + j]
          BY <2>1, NoNames
    <3> QED BY <1>1, <1>3, <2>1, <2>4, <3>1, NoNames DEF IInv, Progress
  <2>11. OneByOne' /\ AtOnce'
    <3>1. IsInjective(todo) /\ Range(todo) \subseteq Range(args)
          BY <2>8 DEF IInv, OneByOne
    <3>2. IsInjective(todo') /\ Range(todo') \subseteq Range(args)
          BY <1>1, <2>1, <2>2, <3>1, NamesSplit
    <3> QED BY <1>1, <2>1, <2>8, <3>2 DEF IInv, OneByOne, AtOnce
  <2>12. Coverage'
         BY <1>1, <1>3, <1>6, <2>6, <2>7 DEF IInv, Coverage
  <2>13. Accurate'
         BY <2>5 DEF Accurate
  <2>14. Alone'
    <3>1. ASSUME Single, ToCome' # {} PROVE Current = <<>> /\ touched = {}
      <4>1. CASE listed = <<>>
            BY <2>6, <2>7, <3>1, <4>1 DEF IInv, Alone
      <4>2. CASE listed # <<>>
        <5> DEFINE m == Current[First].name
        <5>1. m \notin NamesIn(Tail(todo)) /\ First \in 1..Len(Current) /\ Pending(First)
              BY <4>2, NamesAhead, FirstIs DEF IInv
        <5>2. m \in Wanted
          <6>1. m \in Objects
                BY <5>1, CurrentType DEF IInv
          <6>2. m \in ToPatch
                BY <2>4, <5>1, <6>1 DEF ToPatch
          <6> QED BY <6>2 DEF IInv, Coverage, ToCome
        <5>3. PICK x : x \in NamesIn(Tail(todo))
              BY <2>6, <3>1
        <5>4. x \in Wanted /\ x # m
              BY <2>7, <5>1, <5>3 DEF IInv, Coverage
        <5>5. Cardinality(Wanted) <= 1
              BY <2>8, <3>1 DEF Single
        <5> HIDE DEF m
        <5> QED BY <5>2, <5>4, <5>5, WantedFinite, OnlyOne
      <4> QED BY <4>1, <4>2
    <3> QED BY <1>1, <1>3, <3>1 DEF IInv, Alone
  <2>15. Memory'
         BY <1>1, <1>6 DEF Memory
  <2> QED BY <1>4, <2>9, <2>10, <2>11, <2>12, <2>13, <2>14, <2>15 DEF IInv
<1> QED BY <1>5, <1>6

----------------------------------------------------------------------------
(* A List.                                                                 *)

LEMMA ListSafe ==
    ASSUME IInv, List
    PROVE  IInv'
<1> DEFINE found == Matching
           new == Range(found)
           l == Len(found)
<1>1. /\ exit = "running" /\ waiters = <<>> /\ todo # <<>> /\ listed = <<>>
      /\ UNCHANGED <<kind, obj, clock, foreign, ctrlVars, cmd, args, wait, waiters, touched>>
      /\ listed' = [i \in 1..l |-> i] /\ disturbed' = disturbed \ new
      /\ todo' = IF found = <<>> THEN Tail(todo) ELSE todo
      /\ exit' \in {"running", "err"}
      BY DEF List, Busy
<1>2. /\ found \in Seq(Objects) /\ IsInjective(found) /\ l \in Nat /\ DOMAIN found = 1..l
      /\ new = {n \in Objects : Head(todo) \in {All, n}} /\ (Head(todo) # All => l <= 1)
      /\ found = <<>> <=> l = 0
  <2>1. found = <<>> <=> Len(found) = 0
    <3>1. found \in Seq(Objects)
          BY <1>1, MatchingIs DEF IInv
    <3> QED BY <3>1, EmptySeq
  <2> QED BY <1>1, <2>1, MatchingIs DEF IInv
<1>3. /\ heap' \in Seq(Seq(ItemType)) /\ heap' # <<>> /\ Len(Current') = l
      /\ \A i \in 1..l : /\ Current'[i].name = found[i]
                         /\ obj[found[i]].suspended => Current'[i].suspended
                         /\ Current = <<>> /\ Current'[i].suspended => obj[found[i]].suspended
      /\ \/ Len(heap') = Len(heap) + 1 /\ \A j \in 1..Len(heap) : heap'[j] = heap[j]
         \/ /\ Len(heap') = Len(heap) /\ l <= Len(Current) /\ found # <<>>
            /\ \A j \in 1..Len(heap) : j # Len(heap) => heap'[j] = heap[j]
      BY ListEffect DEF IInv
<1>4. /\ Len(heap) \in Nat \ {0} /\ Current \in Seq(ItemType) /\ Len(Current) \in Nat
      /\ DOMAIN Current = 1..Len(Current) /\ Current = heap[Len(heap)]
      BY CurrentType DEF IInv, Current
<1>5. todo \in Seq(Objects \cup Missing \cup {All}) /\ Tail(todo) \in Seq(Objects \cup Missing \cup {All})
      BY <1>1, HeadOfTodo DEF IInv, TypeOK
<1> HIDE DEF found
<1>6. TypeOK'
  <2>1. todo' \in Seq(Objects \cup Missing \cup {All}) /\ listed' \in Seq(Nat)
        BY <1>1, <1>2, <1>5
  <2>2. /\ kind' = kind /\ obj' = obj /\ clock' = clock /\ foreign' = foreign /\ run' = run
        /\ applied' = applied /\ served' = served /\ active' = active
        /\ cmd' = cmd /\ args' = args /\ wait' = wait /\ waiters' = waiters /\ touched' = touched
        BY <1>1 DEF ctrlVars
  <2>3. disturbed' \subseteq Objects /\ exit' \in {"running", "ok", "err"}
        BY <1>1 DEF IInv, TypeOK
  <2> QED BY <1>3, <2>1, <2>2, <2>3 DEF IInv, TypeOK
<1>7. /\ DOMAIN Current' = 1..l /\ Len(listed') = l
      /\ \A i : Pending(i)' <=> i \in 1..l
  <2>1. Current' \in Seq(ItemType) /\ DOMAIN Current' = 1..Len(Current')
    <3>1. Len(heap') \in 1..Len(heap')
          BY <1>3, <1>4
    <3>2. Current' = heap'[Len(heap')]
          BY DEF Current
    <3>3. Current' \in Seq(ItemType)
          BY <1>3, <3>1, <3>2, ElementOfSeq
    <3> QED BY <3>3
  <2>2. DOMAIN Current' = 1..l /\ Len(listed') = l
        BY <1>1, <1>2, <1>3, <2>1
  <2>3. \A i : Pending(i)' <=> i \in 1..l
    <3>1. \A i : Pending(i)' <=> i \in DOMAIN Current' /\ i > Len(Current') - Len(listed')
          BY DEF Pending
    <3> HIDE DEF l
    <3>2. \A i \in 1..l : i > l - l
          BY <1>2
    <3> QED BY <1>3, <2>2, <3>1, <3>2 DEF l
  <2> QED BY <2>2, <2>3
\* What is to come stays the same: the names that are found move on to the list.
<1>8. /\ \A i \in 1..l : found[i] \in new
      /\ \A n \in new : \E i \in 1..l : n = found[i]
      /\ new \subseteq Objects
      BY <1>2 DEF Range
<1>9. ToPatch' = new
  <2>1. ASSUME NEW n \in ToPatch' PROVE n \in new
    <3>1. PICK i \in DOMAIN Current' : n = Current'[i].name
          BY <2>1 DEF ToPatch
    <3>2. i \in 1..l
          BY <1>7, <3>1
    <3> QED BY <1>3, <1>8, <3>1, <3>2
  <2>2. ASSUME NEW n \in new PROVE n \in ToPatch'
    <3>1. PICK i \in 1..l : n = found[i]
          BY <1>8, <2>2
    <3>2. /\ n \in Objects /\ i \in DOMAIN Current' /\ Pending(i)' /\ n = Current'[i].name
          BY <1>3, <1>7, <1>8, <3>1
    <3> QED BY <3>2 DEF ToPatch
  <2> QED BY <2>1, <2>2
<1>10. ToCome = NamesIn(Tail(todo)) \cup new
  <2>1. ToPatch = {}
    <3>1. \A i : ~Pending(i)
          BY <1>1, <1>4, NoNames DEF Pending
    <3> QED BY <3>1 DEF ToPatch
  <2>2. NamesIn(todo) = NamesIn(Tail(todo)) \cup new
        BY <1>1, <1>2, <1>5, NamesSplit
  <2> QED BY <1>1, <2>1, <2>2 DEF ToCome, Named, Rest
<1>11. Rest' = Tail(todo)
  <2>1. CASE found = <<>>
    <3>1. listed' = <<>>
          BY <1>1, <1>2, <2>1
    <3> QED BY <1>1, <2>1, <3>1 DEF Rest
  <2>2. CASE found # <<>>
    <3>1. listed' # <<>>
          BY <1>1, <1>2, <1>7, <2>2, NoNames
    <3> QED BY <1>1, <2>2, <3>1 DEF Rest
  <2> QED BY <2>1, <2>2
<1>12. ToCome' = ToCome
       BY <1>9, <1>10, <1>11 DEF ToCome, Named
<1>13. /\ Wanted' = Wanted /\ TouchedNames' = TouchedNames /\ Single' = Single
  <2>1. Wanted' = Wanted /\ TouchedNames' = TouchedNames
        BY <1>1 DEF Wanted, TouchedNames
  <2> QED BY <1>1, <2>1 DEF Single
<1>14. Progress'
  <2>1. listed' = [j \in 1..Len(listed') |-> Len(Current') - Len(listed') + j]
    <3> HIDE DEF l
    <3>1. \A j \in 1..l : l - l + j = j
          BY <1>2
    <3> QED BY <1>1, <1>3, <1>7, <3>1
  <2>2. \A i, j \in DOMAIN Current' : Current'[i].name = Current'[j].name => i = j
        BY <1>2, <1>3, <1>7 DEF IsInjective
  <2>3. listed' # <<>> => todo' # <<>>
    <3>1. found = <<>> => listed' = <<>>
          BY <1>1, <1>2
    <3> QED BY <1>1, <3>1
  <2>4. Len(listed') <= Len(Current')
        BY <1>2, <1>3, <1>7
  <2>5. waiters' = <<>> /\ exit' # "ok" /\ IsFiniteSet(touched')
        BY <1>1 DEF IInv, Progress
  <2> QED BY <2>1, <2>2, <2>3, <2>4, <2>5 DEF Progress
\* With names on the command line there is at most one item at a time ...
<1>15. args # <<>> => /\ l <= 1 /\ IsInjective(todo) /\ Range(todo) \subseteq Range(args)
                      /\ \A j \in 1..Len(heap) : Len(heap[j]) <= 1
                      /\ Head(todo) # All
  <2> SUFFICES ASSUME args # <<>>
               PROVE  /\ l <= 1 /\ IsInjective(todo) /\ Range(todo) \subseteq Range(args)
                      /\ \A j \in 1..Len(heap) : Len(heap[j]) <= 1
                      /\ Head(todo) # All
      OBVIOUS
  <2>1. /\ IsInjective(todo) /\ Range(todo) \subseteq Range(args)
        /\ \A j \in 1..Len(heap) : Len(heap[j]) <= 1
        BY DEF IInv, OneByOne
  <2>2. args \in Seq(Objects \cup Missing) /\ All \notin Objects \cup Missing
        BY NamesAssumption DEF IInv, TypeOK
  <2>3. All \notin Range(args)
        BY <2>2 DEF Range
  <2>4. Head(todo) \in Range(todo)
        BY <1>1, <1>5, NamesSplit
  <2> QED BY <1>2, <2>1, <2>3, <2>4
\* ... and without, nothing has been patched before the list.
<1>16. args = <<>> => todo = <<All>> /\ touched = {} /\ Current = <<>>
       BY <1>1 DEF IInv, AtOnce
<1>17. OneByOne'
  <2> SUFFICES ASSUME args # <<>> PROVE OneByOne'
      BY <1>1 DEF OneByOne
  <2>1. IsInjective(todo') /\ Range(todo') \subseteq Range(args)
        BY <1>1, <1>5, <1>15, NamesSplit
  <2>2. \A j \in 1..Len(heap') : Len(heap'[j]) <= 1
    <3>1. Len(heap') \in 1..Len(heap') /\ Len(heap'[Len(heap')]) = l
          BY <1>3, <1>4 DEF Current
    <3>2. \A j \in 1..Len(heap') : j # Len(heap') => j \in 1..Len(heap) /\ heap'[j] = heap[j]
          BY <1>3, <1>4
    <3> QED BY <1>15, <3>1, <3>2
  <2>3. listed' # <<>> => Current'[1].name = Head(todo')
    <3> SUFFICES ASSUME listed' # <<>> PROVE Current'[1].name = Head(todo')
        OBVIOUS
    <3>1. found # <<>> /\ l # 0
          BY <1>1, <1>2
    <3>2. todo' = todo /\ 1 \in 1..l
          BY <1>1, <1>2, <3>1
    <3>3. Current'[1].name = found[1] /\ found[1] \in new
          BY <1>3, <1>8, <3>2
    <3>4. found[1] \in {All, Head(todo)} \cup {n \in Objects : Head(todo) = n}
          BY <1>2, <1>15, <3>3
    <3>5. All \notin Objects /\ found[1] \in Objects
          BY <1>8, <3>3, NamesAssumption
    <3> QED BY <3>2, <3>3, <3>4, <3>5
  <2> QED BY <1>1, <2>1, <2>2, <2>3 DEF OneByOne
<1>18. AtOnce'
  <2> SUFFICES ASSUME args = <<>> PROVE AtOnce'
      BY <1>1 DEF AtOnce
  <2>1. CASE found = <<>>
    <3>1. todo = <<All>>
          BY <1>16
    <3>2. Tail(todo) = <<>>
          BY <3>1
    <3>3. todo' = <<>>
          BY <1>1, <2>1, <3>2
    <3> QED BY <3>3 DEF AtOnce
  <2>2. CASE found # <<>>
    <3>1. todo' = <<All>> /\ listed' # <<>>
          BY <1>1, <1>2, <1>7, <1>16, <2>2, NoNames
    <3> QED BY <3>1 DEF AtOnce
  <2> QED BY <2>1, <2>2
<1>19. Coverage'
  <2>1. exit' # "err" => exit # "err"
        BY <1>1
  <2> QED BY <1>1, <1>12, <1>13, <2>1 DEF IInv, Coverage
<1>20. Accurate'
  <2> SUFFICES ASSUME NEW i \in 1..l
               PROVE  /\ obj[found[i]].suspended => Current'[i].suspended
                      /\ Single /\ Current'[i].suspended => obj[found[i]].suspended
    <3>1. obj' = obj
          BY <1>1
    <3> QED BY <1>3, <1>7, <1>13, <3>1 DEF Accurate
  <2>1. found[i] \in ToCome
        BY <1>8, <1>10
  <2>2. Single => Current = <<>>
        BY <1>1, <2>1 DEF IInv, Alone
  <2> QED BY <1>3, <2>2
<1>21. Alone'
  <2> SUFFICES ASSUME Single PROVE Alone'
      BY <1>13 DEF Alone
  <2>1. ToCome # {} => touched = {}
        BY <1>1 DEF IInv, Alone
  <2>2. listed' = <<>> => Current' = <<>>
    <3>1. listed' = <<>> => l = 0
          BY <1>7, NoNames
    <3>2. Current' \in Seq(ItemType)
          BY <1>3, <1>4, ElementOfSeq DEF Current
    <3> QED BY <1>3, <3>1, <3>2, EmptySeq
  <2>3. \A n \in TouchedNames \ disturbed' : obj[n].suspended
    <3>1. CASE ToCome # {}
          BY <2>1, <3>1 DEF TouchedNames
    <3>2. CASE ToCome = {}
      <4>1. new = {}
            BY <1>10, <3>2
      <4> QED BY <1>1, <4>1 DEF IInv, Alone
    <3> QED BY <3>1, <3>2
  <2> QED BY <1>1, <1>12, <1>13, <2>1, <2>2, <2>3 DEF Alone
\* What has been patched stays where it is, or is listed again at the same place.
<1>22. ASSUME NEW t \in touched
       PROVE  /\ t.ptr[1] \in 1..Len(heap') /\ t.ptr[2] \in 1..Len(heap'[t.ptr[1]])
              /\ \/ heap'[t.ptr[1]] = heap[t.ptr[1]]
                 \/ t.ptr[1] = Len(heap') /\ t.ptr[2] \in 1..l
  <2> DEFINE p == t.ptr[1]
             q == t.ptr[2]
  <2>1. p \in 1..Len(heap) /\ q \in 1..Len(heap[p])
        BY DEF IInv, Pointers
  <2> HIDE DEF p, q
  <2>2. CASE heap'[p] = heap[p]
    <3>1. p \in 1..Len(heap')
          BY <1>3, <1>4, <2>1
    <3> QED BY <2>1, <2>2, <3>1 DEF p, q
  <2>3. CASE heap'[p] # heap[p]
    <3>1. p = Len(heap) /\ Len(heap') = Len(heap) /\ l <= Len(Current) /\ found # <<>>
          BY <1>3, <2>1, <2>3
    <3>2. args # <<>>
          BY <1>16
    <3>3. Len(Current) <= 1
          BY <1>4, <1>15, <3>2
    <3>4. l = Len(Current)
          BY <1>2, <1>4, <3>1, <3>3
    <3>5. heap'[p] = Current'
          BY <3>1 DEF Current
    <3> QED BY <1>3, <1>4, <2>1, <3>1, <3>4, <3>5 DEF p, q
  <2> QED BY <2>2, <2>3
<1>23. Pointers'
       BY <1>1, <1>22 DEF Pointers
<1>24. Memory'
  <2> SUFFICES ASSUME kind = "requester", cmd = "resume", exit' # "err", NEW t \in touched
               PROVE  ShownBy(t)'
      BY <1>1 DEF Memory
  <2>1. CASE t.ptr[1] = Len(heap') /\ t.ptr[2] \in 1..l
        BY <1>7, <2>1 DEF ShownBy
  <2>2. CASE heap'[t.ptr[1]] = heap[t.ptr[1]]
    <3> DEFINE item == heap[t.ptr[1]][t.ptr[2]]
    <3>1. \A i : ~Pending(i)
          BY <1>1, <1>4, NoNames DEF Pending
    <3>2. item.name \notin ToCome /\ Requested(item.name, item.request)
      <4>1. exit # "err"
            BY <1>1
      <4> QED BY <3>1, <4>1 DEF IInv, Memory, ShownBy
    <3> HIDE DEF item
    <3>3. item.name \notin new
          BY <1>10, <3>2
    <3>4. obj' = obj /\ served' = served
          BY <1>1 DEF ctrlVars
    <3>5. Requested(item.name, item.request)'
      <4>1. item' = heap'[t.ptr[1]][t.ptr[2]]
            BY DEF item
      <4>2. item' = item
            BY <2>2, <4>1 DEF item
      <4> QED BY <1>1, <3>2, <3>3, <3>4, <4>2 DEF Requested
    <3> QED BY <1>12, <2>2, <3>2, <3>5 DEF item, ShownBy
  <2> QED BY <1>22, <2>1, <2>2
<1>25. Waited'
       BY <1>1 DEF Waited
<1>26. Controlled'
       BY <1>1 DEF IInv, Controlled, ControllerFor, ctrlVars
<1> QED BY <1>6, <1>14, <1>17, <1>18, <1>19, <1>20, <1>21, <1>23, <1>24, <1>25, <1>26 DEF IInv

----------------------------------------------------------------------------
(* A Patch.                                                                *)

LEMMA PatchSafe ==
    ASSUME IInv, Patch, NEW i, i = First, NEW n, n = Current[First].name
    PROVE  IInv'
<1> DEFINE base == Current[i]
           c == Len(Current)
           m == Len(Tail(listed))
           here == [name |-> n, ptr |-> <<Len(heap), i>>]
           o == obj[n]
           p == obj'[n]
<1>1. /\ exit = "running" /\ waiters = <<>> /\ listed # <<>>
      /\ UNCHANGED <<kind, foreign, disturbed, ctrlVars, cmd, args, wait, waiters, exit>>
      /\ clock' = (IF cmd = "resume" /\ kind = "requester" THEN clock + 1 ELSE clock)
      /\ listed' = Tail(listed)
      /\ todo' = IF Len(listed) = 1 THEN Tail(todo) ELSE todo
      BY DEF Patch, Busy
<1>2. /\ i \in 1..c /\ Pending(i) /\ Head(listed) = i
      /\ Len(listed) \in Nat \ {0} /\ Tail(listed) \in Seq(Nat) /\ m = Len(listed) - 1
      /\ listed' = [j \in 1..m |-> c - m + j]
      /\ \A j \in 1..c : Pending(j) <=> j = i \/ j > c - m
      BY <1>1, FirstIs DEF IInv
<1>3. touched' = touched \cup {here}
  <2>1. Last(heap) = Current
        BY CurrentType DEF IInv
  <2>2. touched' = touched \cup {[name |-> Last(heap)[Head(listed)].name,
                                  ptr |-> <<Len(heap), Head(listed)>>]}
        BY DEF Patch
  <2> QED BY <1>2, <2>1, <2>2
<1>4. /\ Len(heap) \in Nat \ {0} /\ Current \in Seq(ItemType) /\ c \in Nat
      /\ DOMAIN Current = 1..c /\ Current = heap[Len(heap)] /\ base \in ItemType
      /\ \A j \in 1..c : Current[j].name \in Objects
      BY <1>2, CurrentType DEF IInv, Current
<1>5. /\ n \in Objects /\ obj' \in [Objects -> ObjectType] /\ WellFormed(p)
      /\ \A x \in Objects : x # n => obj'[x] = obj[x]
      /\ p.handled = o.handled /\ p.obsGen = o.obsGen /\ p.ready = o.ready /\ p.gen >= o.gen
      /\ p.request = IF cmd = "resume" /\ kind = "requester" THEN clock + 1 ELSE o.request
      /\ kind = "plain" /\ p.suspended => o.suspended \/ p.gen = o.gen + 1
      /\ cmd = "suspend" /\ (base.suspended => o.suspended) => p.suspended
      /\ cmd = "resume" /\ (o.suspended => base.suspended) => ~p.suspended
      BY PatchEffect DEF IInv
<1>6. /\ heap' \in Seq(Seq(ItemType)) /\ Len(heap') = Len(heap) /\ heap' # <<>>
      /\ \A j \in 1..Len(heap) : j # Len(heap) => heap'[j] = heap[j]
      /\ Len(Current') = c
      /\ \A j \in 1..c : j # i => Current'[j] = Current[j]
      /\ Current'[i].name = n
      /\ cmd = "resume" /\ kind = "requester" => Current'[i].request = clock + 1
      BY PatchEffect DEF IInv
<1>7. todo # <<>> /\ todo \in Seq(Objects \cup Missing \cup {All})
      /\ Tail(todo) \in Seq(Objects \cup Missing \cup {All})
      BY <1>1, HeadOfTodo DEF IInv, Progress, TypeOK
<1>0. n = Current[i].name /\ base = Current[i]
      OBVIOUS
<1> HIDE DEF base, c, m, here, o, p
<1>8. clock \in Nat /\ o.request \in Nat /\ o.request <= clock /\ WellFormed(o)
      /\ o.handled \in Nat /\ o.handled <= o.request /\ kind \in {"static", "plain", "requester"}
      /\ cmd \in {"suspend", "resume"} /\ p.request \in Nat
  <2>1. clock \in Nat /\ o.request <= clock /\ WellFormed(o) /\ kind \in {"static", "plain", "requester"}
        /\ cmd \in {"suspend", "resume"}
        BY <1>5 DEF IInv, TypeOK, o
  <2>2. o.request \in Nat /\ o.handled \in Nat /\ p.request \in Nat
        BY <1>5, <2>1 DEF WellFormed, ObjectType
  <2>3. o.handled <= o.request
        BY <1>5 DEF IInv, Controlled, ControllerFor, o
  <2> QED BY <2>1, <2>2, <2>3
<1>9. clock' \in Nat /\ clock <= clock' /\ p.request <= clock'
      BY <1>1, <1>5, <1>8
<1>10. TypeOK'
  <2>1. \A x \in Objects : WellFormed(obj'[x]) /\ obj'[x].request <= clock'
    <3> SUFFICES ASSUME NEW x \in Objects, x # n PROVE WellFormed(obj'[x]) /\ obj'[x].request <= clock'
        BY <1>5, <1>9 DEF p
    <3>1. obj'[x] = obj[x] /\ WellFormed(obj[x]) /\ obj[x].request <= clock
          BY <1>5 DEF IInv, TypeOK
    <3>2. obj[x].request \in Nat
          BY <3>1 DEF WellFormed, ObjectType
    <3> QED BY <1>8, <1>9, <3>1, <3>2
  <2>2. todo' \in Seq(Objects \cup Missing \cup {All}) /\ listed' \in Seq(Nat)
        BY <1>1, <1>2, <1>7
  <2>3. touched' \subseteq [name : Objects, ptr : Nat \X Nat]
    <3>1. here \in [name : Objects, ptr : Nat \X Nat]
          BY <1>2, <1>4, <1>5 DEF here
    <3>2. touched \subseteq [name : Objects, ptr : Nat \X Nat]
          BY DEF IInv, TypeOK
    <3> QED BY <1>3, <3>1, <3>2
  <2>4. /\ kind' = kind /\ foreign' = foreign /\ run' = run /\ applied' = applied
        /\ served' = served /\ active' = active /\ cmd' = cmd /\ args' = args /\ wait' = wait
        /\ waiters' = waiters /\ disturbed' = disturbed /\ exit' = exit
        BY <1>1 DEF ctrlVars
  <2> QED BY <1>5, <1>6, <1>9, <2>1, <2>2, <2>3, <2>4 DEF IInv, TypeOK
<1>11. /\ DOMAIN Current' = 1..c /\ Current' \in Seq(ItemType) /\ Len(listed') = m /\ m \in Nat
       /\ \A j \in 1..c : Current'[j].name = Current[j].name
       /\ \A j \in 1..c : Pending(j)' <=> j > c - m
       /\ \A j \in 1..c : Pending(j) <=> j = i \/ Pending(j)'
       /\ ~Pending(i)'
  <2>1. Len(heap') \in 1..Len(heap') /\ Current' = heap'[Len(heap')]
        BY <1>4, <1>6 DEF Current
  <2>2. Current' \in Seq(ItemType)
        BY <1>6, <2>1, ElementOfSeq
  <2>3. DOMAIN Current' = 1..c
        BY <1>6, <2>2
  <2>4. m \in Nat /\ Len(listed') = m
        BY <1>2
  <2>5. \A j \in 1..c : Pending(j)' <=> j > c - m
        BY <1>6, <2>3, <2>4 DEF Pending
  <2>6. \A j \in 1..c : Current'[j].name = Current[j].name
        BY <1>0, <1>6
  <2>7. i = c - m
        BY <1>2, <1>4, <2>4 DEF First, c
  <2>8. ~Pending(i)'
        BY <1>2, <1>4, <2>4, <2>5, <2>7
  <2> QED BY <1>2, <2>2, <2>3, <2>4, <2>5, <2>6, <2>8
<1>e. Len(listed) = 1 <=> listed' = <<>>
  <2>1. listed' = <<>> => Len(listed') = 0
        BY NoNames, Zenon
  <2>2. Len(listed) # 1 => Len(listed') # 0
        BY <1>2, <1>11
  <2>3. Len(listed) = 1 => listed' = <<>>
        BY <1>2
  <2> QED BY <2>1, <2>2, <2>3
<1>12. Rest' = Tail(todo) /\ Rest = Tail(todo)
  <2>1. CASE Len(listed) = 1
    <3>1. listed' = <<>>
          BY <1>e, <2>1
    <3> QED BY <1>1, <2>1, <3>1 DEF Rest
  <2>2. CASE Len(listed) # 1
    <3>1. listed' # <<>>
          BY <1>e, <2>2
    <3> QED BY <1>1, <2>2, <3>1 DEF Rest
  <2> QED BY <2>1, <2>2
\* The object of this patch is not to come again.
<1>13. n \notin ToCome' /\ n \in ToCome /\ ToCome = ToCome' \cup {n}
  <2>1. Named' = NamesIn(Tail(todo)) /\ Named = NamesIn(Tail(todo))
        BY <1>12 DEF Named
  <2>2. n \notin NamesIn(Tail(todo))
        BY <1>1, NamesAhead
  <2>3. ASSUME NEW x \in ToPatch' PROVE x \in ToPatch /\ x # n
    <3>1. PICK j \in DOMAIN Current' : Pending(j)' /\ x = Current'[j].name /\ x \in Objects
          BY <2>3 DEF ToPatch
    <3>2. j \in 1..c /\ Pending(j) /\ x = Current[j].name /\ j # i
          BY <1>11, <3>1
    <3>3. \A k, l \in DOMAIN Current : Current[k].name = Current[l].name => k = l
          BY DEF IInv, Progress
    <3> QED BY <1>0, <1>2, <1>4, <3>1, <3>2, <3>3 DEF ToPatch
  <2>4. n \in ToPatch
        BY <1>0, <1>2, <1>4, <1>5 DEF ToPatch
  <2>5. ASSUME NEW x \in ToPatch PROVE x = n \/ x \in ToPatch'
    <3>1. PICK j \in 1..c : Pending(j) /\ x = Current[j].name /\ x \in Objects
          BY <1>4, <2>5 DEF ToPatch
    <3>2. CASE j = i
          BY <1>0, <3>1, <3>2
    <3>3. CASE j # i
      <4>1. j \in DOMAIN Current' /\ Pending(j)' /\ x = Current'[j].name
            BY <1>11, <3>1, <3>3
      <4> QED BY <3>1, <4>1 DEF ToPatch
    <3> QED BY <3>2, <3>3
  <2> QED BY <2>1, <2>2, <2>3, <2>4, <2>5 DEF ToCome
<1>14. /\ Wanted' = Wanted /\ TouchedNames' = TouchedNames \cup {n} /\ Single' = Single
  <2>1. Wanted' = Wanted
        BY <1>1 DEF Wanted
  <2>2. TouchedNames' = TouchedNames \cup {n}
    <3>1. here.name = n
          BY DEF here
    <3> QED BY <1>3, <3>1 DEF TouchedNames
  <2> QED BY <1>1, <2>1, <2>2 DEF Single
<1>15. Progress'
  <2>1. listed' = [j \in 1..Len(listed') |-> Len(Current') - Len(listed') + j]
        BY <1>2, <1>6, <1>11
  <2>2. \A j, k \in DOMAIN Current' : Current'[j].name = Current'[k].name => j = k
        BY <1>4, <1>11 DEF IInv, Progress
  <2>3. listed' # <<>> => todo' # <<>>
    <3>1. Len(listed) = 1 => listed' = <<>>
          BY <1>2
    <3> QED BY <1>1, <1>7, <3>1
  <2>4. Len(listed') <= Len(Current')
    <3>1. Len(listed) <= Len(Current)
          BY DEF IInv, Progress
    <3> QED BY <1>2, <1>4, <1>6, <1>11, <3>1 DEF c
  <2>5. IsFiniteSet(touched')
    <3>1. IsFiniteSet(touched)
          BY DEF IInv, Progress
    <3> QED BY <1>3, <3>1, FS_AddElement
  <2> QED BY <1>1, <2>1, <2>2, <2>3, <2>4, <2>5 DEF Progress
<1>16. args # <<>> => i = 1 /\ c = 1 /\ Len(listed) = 1
       BY <1>1, NamesAhead DEF c
<1>17. args = <<>> => Tail(todo) = <<>>
       BY <1>1, NamesAhead
<1>18. args # <<>> => listed' = <<>>
       BY <1>2, <1>16
<1>19. OneByOne'
  <2> SUFFICES ASSUME args # <<>> PROVE OneByOne'
      BY <1>1 DEF OneByOne
  <2>1. IsInjective(todo) /\ Range(todo) \subseteq Range(args)
        /\ \A j \in 1..Len(heap) : Len(heap[j]) <= 1
        BY DEF IInv, OneByOne
  <2>2. IsInjective(todo') /\ Range(todo') \subseteq Range(args')
        BY <1>1, <1>7, <2>1, NamesSplit
  <2>3. \A j \in 1..Len(heap') : Len(heap'[j]) <= 1
    <3>1. Len(heap'[Len(heap)]) = 1
          BY <1>6, <1>16 DEF Current
    <3>2. \A j \in 1..Len(heap') : j = Len(heap) \/ heap'[j] = heap[j]
          BY <1>6
    <3>3. ASSUME NEW j \in 1..Len(heap) PROVE Len(heap'[j]) <= 1
      <4>1. CASE j = Len(heap)
        <5>1. Len(heap'[j]) = 1
              BY <3>1, <4>1, Zenon
        <5> QED BY <5>1
      <4>2. CASE j # Len(heap)
            BY <2>1, <3>2, <1>6, <4>2
      <4> QED BY <4>1, <4>2
    <3> QED BY <1>6, <3>3
  <2> QED BY <1>18, <2>2, <2>3 DEF OneByOne
<1>20. AtOnce'
  <2> SUFFICES ASSUME args = <<>> PROVE AtOnce'
      BY <1>1 DEF AtOnce
  <2>1. todo \in {<<>>, <<All>>}
        BY DEF IInv, AtOnce
  <2>2. CASE Len(listed) = 1
    <3>1. todo' = <<>>
          BY <1>1, <1>17, <2>2
    <3> QED BY <3>1 DEF AtOnce
  <2>3. CASE Len(listed) # 1
    <3>1. todo' = todo /\ listed' # <<>>
          BY <1>1, <1>e, <2>3
    <3> QED BY <2>1, <3>1 DEF AtOnce
  <2> QED BY <2>2, <2>3
<1>21. Coverage'
       BY <1>1, <1>13, <1>14 DEF IInv, Coverage
\* The memory of the items behind this one, and their objects, are as they were.
<1>22. Accurate'
  <2> SUFFICES ASSUME NEW j \in 1..c, Pending(j)', Current[j].name \notin disturbed
               PROVE  /\ obj'[Current[j].name].suspended => Current'[j].suspended
                      /\ Single /\ Current'[j].suspended => obj'[Current[j].name].suspended
    <3>1. disturbed' = disturbed
          BY <1>1
    <3> QED BY <1>11, <1>14, <3>1 DEF Accurate
  <2>1. j # i /\ Pending(j)
        BY <1>11
  <2>2. Current[j].name # n
        BY <1>0, <1>2, <1>4, <2>1 DEF IInv, Progress
  <2>3. Current'[j] = Current[j] /\ obj'[Current[j].name] = obj[Current[j].name]
        BY <1>4, <1>5, <1>6, <2>1, <2>2
  <2>4. /\ obj[Current[j].name].suspended => Current[j].suspended
        /\ Single /\ Current[j].suspended => obj[Current[j].name].suspended
        BY <1>4, <2>1 DEF IInv, Accurate
  <2> QED BY <2>3, <2>4
<1>23. n \notin disturbed => /\ o.suspended => base.suspended
                             /\ Single /\ base.suspended => o.suspended
      BY <1>0, <1>2, <1>4 DEF IInv, Accurate, o
<1>24. Alone'
  <2> SUFFICES ASSUME Single PROVE Alone'
      BY <1>14 DEF Alone
  <2>1. ASSUME listed' = <<>>, ToCome' # {} PROVE FALSE
    <3>1. ToPatch' = {}
      <4>1. m = 0
            BY <1>11, <2>1, NoNames
      <4>2. \A j \in 1..c : ~Pending(j)'
            BY <1>4, <1>11, <4>1
      <4> QED BY <1>11, <4>2 DEF ToPatch
    <3>2. ToCome' = NamesIn(Tail(todo))
          BY <1>12, <3>1 DEF ToCome, Named
    <3>3. args # <<>>
          BY <1>17, <2>1, <3>2, NoNames
    <3>4. PICK x : x \in ToCome'
          BY <2>1
    <3>5. x \in Wanted /\ n \in Wanted /\ x # n
          BY <1>13, <3>4 DEF IInv, Coverage
    <3>6. Cardinality(Wanted) <= 1
          BY <3>3 DEF Single
    <3> QED BY <3>5, <3>6, WantedFinite, OnlyOne
  <2>2. \A x \in TouchedNames' \ disturbed' : obj'[x].suspended
    <3> SUFFICES ASSUME NEW x \in TouchedNames', x \notin disturbed PROVE obj'[x].suspended
        BY <1>1
    <3>1. CASE x = n
      <4>1. cmd = "suspend"
            BY DEF Single
      <4> QED BY <1>5, <1>23, <3>1, <4>1 DEF p
    <3>2. CASE x # n
      <4>1. x \in TouchedNames /\ x \in Objects
            BY <1>14, <3>2, TouchedType DEF IInv
      <4> QED BY <1>5, <3>2, <4>1 DEF IInv, Alone
    <3> QED BY <3>1, <3>2
  <2> QED BY <2>1, <2>2 DEF Alone
<1>25. Pointers'
  <2> SUFFICES ASSUME NEW t \in touched'
               PROVE  t.ptr[1] \in 1..Len(heap') /\ t.ptr[2] \in 1..Len(heap'[t.ptr[1]])
      BY DEF Pointers
  <2>1. CASE t = here
    <3>1. t.ptr[1] = Len(heap) /\ t.ptr[2] = i
          BY <2>1 DEF here
    <3>2. Len(heap'[Len(heap)]) = c
          BY <1>6 DEF Current
    <3> QED BY <1>2, <1>4, <1>6, <3>1, <3>2
  <2>2. CASE t \in touched
    <3>1. t.ptr[1] \in 1..Len(heap) /\ t.ptr[2] \in 1..Len(heap[t.ptr[1]])
          BY <2>2 DEF IInv, Pointers
    <3>2. Len(heap'[t.ptr[1]]) = Len(heap[t.ptr[1]])
      <4>1. heap'[Len(heap)] = Current' /\ heap[Len(heap)] = Current
            BY <1>6 DEF Current
      <4> QED BY <1>6, <3>1, <4>1 DEF c
    <3> QED BY <1>6, <3>1, <3>2
  <2> QED BY <1>3, <2>1, <2>2
<1>26. Memory'
  <2> SUFFICES ASSUME kind = "requester", cmd = "resume", NEW t \in touched'
               PROVE  ShownBy(t)'
      BY <1>1 DEF Memory
  <2>1. UNCHANGED <<served, disturbed, kind, cmd>>
        BY <1>1 DEF ctrlVars
  <2>2. CASE t.ptr[1] = Len(heap) /\ t.ptr[2] = i
    <3>1. heap'[t.ptr[1]][t.ptr[2]] = Current'[i]
          BY <1>6, <2>2 DEF Current
    <3>2. Current'[i].name = n /\ Current'[i].request = clock + 1
          BY <1>6
    <3>3. n \in disturbed \/ (~p.suspended /\ p.handled < clock + 1)
      <4>1. p.handled < clock + 1
            BY <1>5, <1>8
      <4> QED BY <1>5, <1>23, <4>1
    <3> QED BY <1>13, <2>1, <3>1, <3>2, <3>3 DEF ShownBy, Requested, p
  <2>3. CASE ~(t.ptr[1] = Len(heap) /\ t.ptr[2] = i)
    <3>1. t \in touched
          BY <1>3, <2>3 DEF here
    <3>2. t.ptr[1] \in 1..Len(heap) /\ t.ptr[2] \in 1..Len(heap[t.ptr[1]])
          BY <3>1 DEF IInv, Pointers
    <3> DEFINE item == heap[t.ptr[1]][t.ptr[2]]
    <3>3. heap'[t.ptr[1]][t.ptr[2]] = item
      <4>1. heap'[Len(heap)] = Current' /\ heap[Len(heap)] = Current
            BY <1>6 DEF Current
      <4> QED BY <1>6, <2>3, <3>2, <4>1 DEF c
    <3>4. item.name \in Objects
          BY <3>1, TouchedType DEF IInv
    <3>5. ShownBy(t)
          BY <1>1, <3>1 DEF IInv, Memory
    <3>6. CASE t.ptr[1] = Len(heap) /\ Pending(t.ptr[2])
      <4>1. t.ptr[2] \in 1..c /\ Pending(t.ptr[2])'
            BY <1>4, <1>11, <2>3, <3>2, <3>6
      <4> QED BY <1>6, <3>6, <4>1 DEF ShownBy
    <3>7. CASE item.name \notin ToCome /\ Requested(item.name, item.request)
      <4>1. item.name # n /\ item.name \notin ToCome'
            BY <1>13, <3>7
      <4>2. obj'[item.name] = obj[item.name]
            BY <1>5, <3>4, <4>1
      <4> HIDE DEF item
      <4>3. item' = item
            BY <3>3 DEF item
      <4>4. Requested(item.name, item.request)'
            BY <2>1, <3>7, <4>2, <4>3 DEF Requested
      <4> QED BY <3>3, <4>1, <4>4 DEF ShownBy, item
    <3> QED BY <3>5, <3>6, <3>7 DEF ShownBy
  <2> QED BY <2>2, <2>3
<1>27. Waited'
       BY <1>1 DEF Waited
<1>28. Controlled'
  <2>1. ControllerFor(n)'
    <3>1. UNCHANGED <<kind, run, applied>> /\ (p.request = o.request \/ p.request = clock + 1)
          BY <1>1, <1>5 DEF ctrlVars
    <3> QED BY <1>5, <1>9, <3>1, WriteKeepsControlled DEF IInv, o, p
  <2>2. ASSUME NEW x \in Objects, x # n PROVE ControllerFor(x)'
    <3>1. obj'[x] = obj[x] /\ UNCHANGED <<kind, run, applied>>
          BY <1>1, <1>5, <2>2 DEF ctrlVars
    <3> QED BY <3>1 DEF IInv, Controlled, ControllerFor
  <2> QED BY <2>1, <2>2 DEF Controlled
<1> QED BY <1>10, <1>15, <1>19, <1>20, <1>21, <1>22, <1>24, <1>25, <1>26, <1>27, <1>28 DEF IInv

----------------------------------------------------------------------------
(* The invariant.                                                          *)

LEMMA InitIInv == Init => IInv
<1> SUFFICES ASSUME Init PROVE IInv
    OBVIOUS
<1>1. /\ kind \in {"static", "plain", "requester"} /\ cmd \in {"suspend", "resume"}
      /\ args \in CommandLines /\ wait \in BOOLEAN /\ (wait => cmd = "resume")
      /\ clock = 0 /\ foreign = 0 /\ active = {} /\ disturbed = {} /\ touched = {}
      /\ listed = <<>> /\ heap = << <<>> >> /\ waiters = <<>> /\ exit = "running"
      /\ applied = [n \in Objects |-> 0] /\ served = [n \in Objects |-> 0]
      /\ run = [n \in Objects |-> RunOf(NewObject)]
      /\ obj \in [Objects -> {SetSuspended(kind, NewObject), NewObject}]
      /\ todo = IF args = <<>> THEN <<All>> ELSE args
      BY DEF Init
<1>2. /\ args \in Seq(Objects \cup Missing) /\ IsInjective(args) /\ All \notin Objects \cup Missing
      /\ IsFiniteSet(Objects)
      BY <1>1, NamesAssumption
<1>3. ASSUME NEW n \in Objects
      PROVE  /\ WellFormed(obj[n]) /\ obj[n].request = 0 /\ obj[n].handled = 0
             /\ obj[n].obsGen = 0 /\ obj[n].ready = "none" /\ obj[n].gen >= 1
             /\ kind = "plain" /\ obj[n].suspended => obj[n].gen = 2
  <2> DEFINE s == SetSuspended(kind, NewObject)
  <2>1. /\ WellFormed(s) /\ s.request = 0 /\ s.handled = 0 /\ s.obsGen = 0 /\ s.ready = "none"
        /\ s.gen >= 1 /\ (kind = "plain" => s.gen = 2)
        BY <1>1, NewObjectIs, ObjectWrites
  <2> HIDE DEF s
  <2>2. CASE obj[n] = s
        BY <2>1, <2>2
  <2>3. CASE obj[n] = NewObject
        BY <2>3, NewObjectIs
  <2> QED BY <1>1, <2>2, <2>3 DEF s
<1>4. /\ Len(heap) = 1 /\ Current = <<>> /\ Len(Current) = 0 /\ DOMAIN Current = {}
      /\ Len(listed) = 0 /\ DOMAIN waiters = {}
  <2>1. heap = << <<>> >> /\ Len(heap) = 1
        BY <1>1
  <2>2. Current = <<>>
        BY <2>1 DEF Current
  <2> QED BY <1>1, <2>1, <2>2, NoNames
<1>5. TypeOK
  <2>1. /\ obj \in [Objects -> ObjectType]
        /\ \A n \in Objects : WellFormed(obj[n]) /\ obj[n].request <= clock
    <3>1. \A n \in Objects : obj[n] \in ObjectType /\ WellFormed(obj[n]) /\ obj[n].request <= clock
          BY <1>1, <1>3 DEF WellFormed
    <3> QED BY <1>1, <3>1
  <2>2. run \in [Objects -> RunType] /\ applied \in [Objects -> Nat] /\ served \in [Objects -> Nat]
        BY <1>1, NewObjectIs
  <2>3. /\ todo \in Seq(Objects \cup Missing \cup {All}) /\ listed \in Seq(Nat)
        /\ waiters \in Seq(WaiterType)
        BY <1>1, <1>2
  <2>4. heap \in Seq(Seq(ItemType)) /\ heap # <<>>
    <3>1. <<>> \in Seq(ItemType)
          OBVIOUS
    <3> QED BY <1>1, <3>1
  <2> QED BY <1>1, <2>1, <2>2, <2>3, <2>4 DEF TypeOK
<1>6. Progress
  <2>1. listed = [j \in 1..Len(listed) |-> Len(Current) - Len(listed) + j]
        BY <1>1, <1>4
  <2>2. IsFiniteSet(touched)
        BY <1>1, FS_EmptySet
  <2> QED BY <1>1, <1>4, <2>1, <2>2 DEF Progress
<1>7. OneByOne
  <2>1. \A i \in 1..Len(heap) : Len(heap[i]) <= 1
    <3>1. \A i \in 1..Len(heap) : heap[i] = Current
          BY <1>4 DEF Current
    <3> QED BY <1>4, <3>1
  <2> QED BY <1>1, <1>2, <2>1 DEF OneByOne
<1>8. AtOnce
      BY <1>1, <1>4 DEF AtOnce
<1>9. TouchedNames = {} /\ ToPatch = {} /\ \A i : ~Pending(i)
      BY <1>1, <1>4 DEF TouchedNames, ToPatch, Pending
<1>10. ToCome = Wanted
  <2>1. ToCome = NamesIn(todo)
        BY <1>1, <1>9 DEF ToCome, Named, Rest
  <2>2. CASE args = <<>>
    <3>1. Range(todo) = {All}
          BY <1>1, <2>2 DEF Range
    <3> QED BY <2>1, <2>2, <3>1 DEF NamesIn, Wanted
  <2>3. CASE args # <<>>
    <3>1. todo = args /\ All \notin Range(args)
          BY <1>1, <1>2, <2>3 DEF Range
    <3> QED BY <2>1, <2>3, <3>1 DEF NamesIn, Wanted
  <2> QED BY <2>2, <2>3
<1>11. Coverage
       BY <1>9, <1>10 DEF Coverage
<1>12. Accurate /\ Alone
       BY <1>1, <1>4, <1>9 DEF Accurate, Alone
<1>13. Pointers /\ Memory /\ Waited
       BY <1>1, <1>4 DEF Pointers, Memory, Waited
<1>14. Controlled
  <2> SUFFICES ASSUME NEW n \in Objects PROVE ControllerFor(n)
      BY DEF Controlled
  <2>1. run[n].gen = 1 /\ run[n].request = 0
        BY <1>1, NewObjectIs
  <2>2. obj[n].gen \in Nat
        BY <1>3 DEF WellFormed, ObjectType
  <2> QED BY <1>3, <2>1, <2>2 DEF ControllerFor
<1> QED BY <1>5, <1>6, <1>7, <1>8, <1>11, <1>12, <1>13, <1>14 DEF IInv

\* Nothing in the invariant hangs on a variable that vars does not list.
LEMMA StutterSafe ==
    ASSUME IInv, UNCHANGED vars
    PROVE  IInv'
<1>1. /\ UNCHANGED <<kind, obj, clock, foreign, disturbed, ctrlVars, cmdVars>>
      BY DEF vars
<1>2. /\ Current' = Current /\ \A i : Pending(i)' = Pending(i)
      /\ ToCome' = ToCome /\ Wanted' = Wanted /\ TouchedNames' = TouchedNames /\ Single' = Single
      BY <1>1 DEF cmdVars, Current, Pending, ToCome, Named, Rest, ToPatch, Wanted, TouchedNames, Single
<1>3. \A n, ts : Requested(n, ts)' = Requested(n, ts)
      BY <1>1 DEF Requested, ctrlVars
<1>4. TypeOK'
      BY <1>1 DEF IInv, TypeOK, ctrlVars, cmdVars
<1>5. Progress' /\ OneByOne' /\ AtOnce'
      BY <1>1, <1>2 DEF IInv, Progress, OneByOne, AtOnce, cmdVars
<1>6. Coverage' /\ Pointers'
      BY <1>1, <1>2 DEF IInv, Coverage, Pointers, cmdVars
<1>7. Accurate' /\ Alone'
      BY <1>1, <1>2 DEF IInv, Accurate, Alone, cmdVars
<1>8. Memory' /\ Waited'
      BY <1>1, <1>2, <1>3 DEF IInv, Memory, ShownBy, Waited, cmdVars
<1>9. Controlled'
      BY <1>1 DEF IInv, Controlled, ControllerFor, ctrlVars
<1> QED BY <1>4, <1>5, <1>6, <1>7, <1>8, <1>9 DEF IInv

LEMMA StepIInv == IInv /\ [Next]_vars => IInv'
<1> SUFFICES ASSUME IInv, [Next]_vars PROVE IInv'
    OBVIOUS
<1>1. CASE List
      BY <1>1, ListSafe
<1>2. CASE CallFails
      BY <1>2, CallFailsSafe
<1>3. CASE Patch
  <2>1. \E i, n : i = First /\ n = Current[First].name
        OBVIOUS
  <2> QED BY <1>3, <2>1, PatchSafe
<1>4. CASE StartWaiting
      BY <1>4, StartWaitingSafe
<1>5. CASE Finish
      BY <1>5, FinishSafe
<1>6. CASE \E k \in DOMAIN waiters : Poll(k) \/ PollAborts(k)
      BY <1>6, PollSafe
<1>7. CASE \E n \in Objects : Foreign(n)
      BY <1>7, ForeignSafe
<1>8. CASE \E n \in Objects : Controller(n)
      BY <1>8, ControllerSafe
<1>9. CASE Terminated \/ UNCHANGED vars
      BY <1>9, StutterSafe DEF Terminated
<1> QED BY <1>1, <1>2, <1>3, <1>4, <1>5, <1>6, <1>7, <1>8, <1>9 DEF Next, Command

\* The inductive invariant, and with it the types.
THEOREM Invariance == Spec => []IInv
<1>1. Init => IInv
      BY InitIInv
<1>2. IInv /\ [Next]_vars => IInv'
      BY StepIInv
<1> QED BY <1>1, <1>2, PTL DEF Spec

\* Nothing but the objects meant on the command line is changed, and a resume that
\* succeeds has gone through all of them.
THEOREM AllAreCovered == Spec => []CoversWanted
<1>1. IInv => CoversWanted
  <2> SUFFICES ASSUME IInv PROVE CoversWanted
      OBVIOUS
  <2>1. TypeOK /\ TouchedNames \subseteq Wanted
        BY DEF IInv, Coverage
  <2>2. ASSUME exit = "ok", cmd = "resume" PROVE TouchedNames = Wanted
    <3>1. todo = <<>> /\ listed = <<>>
          BY <2>2 DEF IInv, Progress
    <3>2. \A i : ~Pending(i)
          BY <3>1, CurrentType, NoNames DEF IInv, Pending
    <3>3. ToCome = {}
          BY <3>1, <3>2, NoNames DEF ToCome, Named, Rest, ToPatch
    <3> QED BY <2>1, <2>2, <3>3 DEF IInv, Coverage
  <2> QED BY <2>1, <2>2 DEF CoversWanted
<1> QED BY <1>1, Invariance, PTL

\* One object, or the objects of one list, are suspended when the command says so.
THEOREM OneIsSuspended == Spec => []SuspendOneSuspends
<1>1. IInv => SuspendOneSuspends
      BY DEF IInv, Alone, Single, SuspendOneSuspends
<1> QED BY <1>1, Invariance, PTL

\* A waiter that ends well has seen the object as the controller has really left it.
THEOREM ReallyResumed == Spec => ResumedIsReconciled
<1> DEFINE Waits == \A k \in DOMAIN waiters :
               LET n == waiters[k].name IN
               /\ waiters[k].res = "wait" /\ waiters'[k].res = "ok"
               /\ kind # "static"
               => /\ ~obj[n].suspended /\ applied[n] = obj[n].gen
                  /\ kind = "requester" /\ n \notin disturbed
                     => served[n] >= waiters[k].ts
<1>1. IInv /\ [Next]_vars => Waits
  <2> SUFFICES ASSUME IInv, [Next]_vars, NEW k \in DOMAIN waiters,
                      waiters[k].res = "wait", waiters'[k].res = "ok", kind # "static"
               PROVE  LET n == waiters[k].name IN
                      /\ ~obj[n].suspended /\ applied[n] = obj[n].gen
                      /\ kind = "requester" /\ n \notin disturbed
                         => served[n] >= waiters[k].ts
      OBVIOUS
  <2> DEFINE w == waiters[k]
             n == w.name
             o == obj[n]
  <2>1. waiters' # waiters /\ waiters # <<>>
        OBVIOUS
  <2>2. PICK j \in DOMAIN waiters : Poll(j) \/ PollAborts(j)
    <3>1. ~UNCHANGED vars /\ ~Terminated /\ ~List /\ ~CallFails /\ ~Patch /\ ~Finish
          BY <2>1 DEF vars, cmdVars, Terminated, List, CallFails, Patch, Finish
    <3>2. ~StartWaiting
          BY <2>1 DEF StartWaiting, Busy
    <3>3. \A x \in Objects : ~Foreign(x) /\ ~Controller(x)
          BY <2>1 DEF Foreign, Controller, CtrlStart, CtrlSucceed, CtrlFail, CtrlMarkHandled, cmdVars
    <3> QED BY <3>1, <3>2, <3>3 DEF Next, Command
  <2>3. waiters \in Seq(WaiterType) /\ n \in Objects /\ w.ts \in Nat
        BY WaitersType DEF IInv
  <2>4. j = k
    <3>1. \A r : j # k => [waiters EXCEPT ![j].res = r][k] = waiters[k]
          BY <2>3
    <3>2. \E r : waiters' = [waiters EXCEPT ![j].res = r]
          BY <2>2 DEF Poll, PollAborts
    <3> QED BY <3>1, <3>2
  <2>5. ResumeVerdict(w) = "done"
    <3>1. \A r : [waiters EXCEPT ![k].res = r][k].res = r
      <4>1. w \in WaiterType
            BY WaitersType DEF IInv
      <4>2. \A r : [waiters EXCEPT ![k].res = r][k] = [w EXCEPT !.res = r]
            BY <2>3
      <4>3. \A r : [w EXCEPT !.res = r].res = r
            BY <4>1 DEF WaiterType
      <4> QED BY <4>2, <4>3
    <3>2. ~PollAborts(k)
          BY <3>1 DEF PollAborts
    <3>3. waiters' = [waiters EXCEPT ![k].res = IF ResumeVerdict(w) = "done" THEN "ok" ELSE "err"]
          BY <2>2, <2>4, <3>2 DEF Poll
    <3> QED BY <3>1, <3>3
  <2>6. /\ WellFormed(o) /\ kind \in {"plain", "requester"} /\ ControllerFor(n)
        BY <2>3 DEF IInv, TypeOK, Controlled
  <2>7. /\ o.gen >= 1 /\ (o.ready = "none" => o.obsGen = 0)
        /\ (o.ready = "True" => applied[n] = o.obsGen)
        /\ kind = "plain" /\ o.suspended => o.obsGen < o.gen
        BY <2>6 DEF ControllerFor
  <2>8. /\ (IF kind = "requester" THEN StatusVerdict(kind, o) ELSE IsObjectReady(kind, o)) = "done"
        /\ kind = "requester" => o.handled = w.ts
    <3> HIDE DEF w
    <3>1. o = obj[w.name]
          OBVIOUS
    <3> HIDE DEF o
    <3> QED BY <2>5, <3>1 DEF ResumeVerdict
  <2> HIDE DEF o, n, w
  <2>9. o.ready = "True" /\ o.obsGen = o.gen /\ (kind = "requester" => ~o.suspended)
        BY <2>6, <2>7, <2>8, DoneMeans
  <2>10. ~o.suspended /\ applied[n] = o.gen
    <3>1. o.gen \in Nat
          BY <2>6 DEF WellFormed, ObjectType
    <3> QED BY <2>6, <2>7, <2>9, <3>1
  <2>11. kind = "requester" /\ n \notin disturbed => served[n] >= w.ts
    <3> SUFFICES ASSUME kind = "requester", n \notin disturbed PROVE served[n] >= w.ts
        OBVIOUS
    <3>1. Requested(n, w.ts)
          BY DEF IInv, Waited, n, w
    <3>2. o.handled = served[n] \/ o.handled < w.ts
          BY <3>1 DEF Requested, o
    <3>3. o.handled = w.ts
          BY <2>8
    <3> QED BY <2>3, <3>2, <3>3 DEF w
  <2> QED BY <2>10, <2>11 DEF o, n, w
<1>2. Waits => [Waits]_vars
      OBVIOUS
<1> HIDE DEF Waits
<1>3. [][Waits]_vars => ResumedIsReconciled
      BY PTL DEF ResumedIsReconciled, Waits
<1> QED BY <1>1, <1>2, <1>3, Invariance, PTL DEF Spec
=============================================================================

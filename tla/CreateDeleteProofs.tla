------------------------- MODULE CreateDeleteProofs -------------------------
(***************************************************************************)
(* Proofs about CreateDelete, for any scenarios: any objects, jobs, names  *)
(* to delete, and any number of writes of other users.                     *)
(*                                                                         *)
(* What a command has read is current as long as nobody has written since  *)
(* (Current): so no update takes away what it has not read.  And whatever  *)
(* is done to an object, its generation never goes back while it keeps its *)
(* uid (Evolves): what was deleted stays so, and what was reconciled is at *)
(* least what the command has written.                                     *)
(***************************************************************************)
EXTENDS CreateDelete, SequenceTheorems, TLAPS

\* An object with the uid of a record has at least its generation.
NotBefore(o, record) == store[o].uid = record.uid => store[o].gen >= record.gen

\* What a command has read is what is there, unless its resource version is old;
\* and even then it is no newer than what is there.
CurrentFor(c) ==
    pc[c] = "write" =>
        /\ ~stale[c] => MainOf(store[Step(c).object]) = read[c]
        /\ read[c] # Absent => read[c].uid <= uids /\ NotBefore(Step(c).object, read[c])

\* What a command waits for is at least what it has written.
SentFor(c) == pc[c] = "poll" => sent[c].uid \in 1..uids /\ NotBefore(Waited(c), sent[c])

\* A generation that is ready was reconciled.
ReadyIsFinished ==
    \A o \in Objects : store[o] # Absent /\ store[o].ready = "True" =>
        <<store[o].uid, store[o].obsGen>> \in finished

\* What the user was asked about is gone or going, unless `flux delete` is at it, or
\* will not succeed any more.
Gone(s) == store[s[1]].uid # s[2] \/ store[s[1]].deleting

Shown ==
    \A s \in shown :
        /\ s[1] \in Objects /\ s[2] \in 1..uids
        /\ \/ del.failed > 0 \/ del.pc = "aborted"
           \/ del.pc \in {"ask", "delete"} /\ s[1] = Name
           \/ Gone(s)

Waiting == \A c \in Creators : CurrentFor(c) /\ SentFor(c)

IInv == TypeOK /\ Waiting /\ ~lost /\ ReadyIsFinished /\ Shown

\* What a step does to an object: nothing, it removes it, it changes it in place,
\* or it creates one with a new uid.
Evolves(o) ==
    \/ store'[o] = store[o] \/ store'[o] = Absent
    \/ /\ store[o] # Absent /\ store'[o] # Absent
       /\ store'[o].uid = store[o].uid /\ store'[o].gen >= store[o].gen
       /\ store[o].deleting => store'[o].deleting
    \/ store'[o].uid = uids + 1 /\ uids' = uids + 1

Evolution == job' = job /\ Objects' = Objects /\ uids <= uids' /\ \A o \in Objects : Evolves(o)

----------------------------------------------------------------------------
(* Operators.                                                              *)

LEMMA AbsentMeans ==
    /\ \A r \in Record : r # Absent /\ r.uid \in Nat \ {0} /\ r.gen \in Nat \ {0}
    /\ \A r \in Main : r # Absent /\ r.uid \in Nat \ {0} /\ r.gen \in Nat \ {0}
    /\ Absent.uid = 0
BY DEF Absent, Record, Main

LEMMA FreshType ==
    ASSUME NEW uid \in Nat \ {0}, NEW spec \in Specs, NEW labels \in SUBSET Labels
    PROVE  /\ Fresh(uid, spec, labels) \in Record
           /\ Fresh(uid, spec, labels).uid = uid /\ Fresh(uid, spec, labels).gen = 1
           /\ Fresh(uid, spec, labels).spec = spec /\ Fresh(uid, spec, labels).labels = labels
           /\ Fresh(uid, spec, labels).ready = "none" /\ ~Fresh(uid, spec, labels).deleting
BY DEF Fresh, Record, ReadyStatus

LEMMA MainOfType ==
    ASSUME NEW r \in {Absent} \cup Record
    PROVE  /\ MainOf(r) \in {Absent} \cup Main
           /\ MainOf(r) = Absent <=> r = Absent
           /\ r # Absent => /\ MainOf(r).uid = r.uid /\ MainOf(r).gen = r.gen
                            /\ MainOf(r).spec = r.spec /\ MainOf(r).labels = r.labels
<1>1. CASE r = Absent
      BY <1>1 DEF MainOf
<1>2. CASE r \in Record
  <2>1. r # Absent
        BY <1>2, AbsentMeans
  <2>2. /\ MainOf(r) \in Main /\ MainOf(r).uid = r.uid /\ MainOf(r).gen = r.gen
        /\ MainOf(r).spec = r.spec /\ MainOf(r).labels = r.labels
        BY <1>2, <2>1 DEF MainOf, Main, Record
  <2> QED BY <2>1, <2>2, AbsentMeans
<1> QED BY <1>1, <1>2

\* A step of a job, as IsJob has it.
StepOf(objects) == [object : objects, how : Hows, spec : Specs, labels : SUBSET Labels]

LEMMA WishType ==
    ASSUME NEW s \in StepOf(Objects), s.how # "recreate", NEW r \in Main
    PROVE  Wish(s, r) \in Main /\ Wish(s, r).uid = r.uid /\ Wish(s, r).gen = r.gen
<1>1. CASE s.how = "secret"
      BY <1>1 DEF Wish, UpsertSecret, StepOf, Main
<1>2. CASE s.how \in {"replace", "ifChanged"}
      BY <1>2 DEF Wish, UpsertReplaced, StepOf, Main
<1>3. CASE s.how = "labels"
      BY <1>3 DEF Wish, UpsertLabelled, StepOf, Main
<1> QED BY <1>1, <1>2, <1>3 DEF StepOf, Hows

LEMMA EditedType ==
    ASSUME NEW r \in Record, NEW spec \in Specs
    PROVE  LET edited == [r EXCEPT !.spec = spec, !.gen = @ + 1] IN
           /\ edited \in Record /\ edited.uid = r.uid /\ edited.gen = r.gen + 1
           /\ edited.deleting = r.deleting /\ edited.ready = r.ready /\ edited.obsGen = r.obsGen
<1> DEFINE gen == r.gen + 1
<1>1. gen \in Nat \ {0}
      BY AbsentMeans
<1> HIDE DEF gen
<1>2. LET edited == [r EXCEPT !.spec = spec, !.gen = gen] IN
      /\ edited \in Record /\ edited.uid = r.uid /\ edited.gen = gen
      /\ edited.deleting = r.deleting /\ edited.ready = r.ready /\ edited.obsGen = r.obsGen
      BY <1>1 DEF Record
<1> QED BY <1>2 DEF gen

LEMMA ReplacedType ==
    ASSUME NEW r \in Record, NEW main \in Main
    PROVE  /\ Replaced(r, main) \in Record
           /\ MainOf(Replaced(r, main)) = main
           /\ Replaced(r, main).deleting = r.deleting /\ Replaced(r, main).ready = r.ready
           /\ Replaced(r, main).obsGen = r.obsGen
BY AbsentMeans DEF Replaced, Record, Main, MainOf

----------------------------------------------------------------------------
(* Typing.                                                                 *)

LEMMA JobFacts ==
    ASSUME TypeOK, NEW c \in Creators
    PROVE  /\ at[c] \in 1..Len(job[c].plan) /\ Len(job[c].plan) \in Nat \ {0}
           /\ DOMAIN job[c].plan = 1..Len(job[c].plan)
           /\ \A i \in 1..Len(job[c].plan) : job[c].plan[i] \in StepOf(Objects)
           /\ Step(c) \in StepOf(Objects) /\ Step(c).object \in Objects
           /\ Waited(c) \in Objects
<1>1. IsJob(job[c], Objects) /\ at[c] \in DOMAIN job[c].plan
      BY DEF TypeOK
<1>2. job[c].plan \in Seq(StepOf(Objects)) /\ job[c].plan # <<>>
      BY <1>1 DEF IsJob, StepOf
<1>3. /\ Len(job[c].plan) \in Nat \ {0} /\ DOMAIN job[c].plan = 1..Len(job[c].plan)
      /\ \A i \in 1..Len(job[c].plan) : job[c].plan[i] \in StepOf(Objects)
      BY <1>2
<1>4. \A s \in StepOf(Objects) : s.object \in Objects
      BY DEF StepOf
<1> QED BY <1>1, <1>3, <1>4 DEF Step, Waited

\* A write of one object.
LEMMA StoreWritten ==
    ASSUME TypeOK, NEW o \in Objects, NEW record \in {Absent} \cup Record,
           uids' \in Nat \ {0}, uids <= uids', record.uid <= uids',
           store' = [store EXCEPT ![o] = record], job' = job
    PROVE  /\ Objects' = Objects /\ Creators' = Creators
           /\ store' \in [Objects -> {Absent} \cup Record]
           /\ store'[o] = record /\ \A x \in Objects \ {o} : store'[x] = store[x]
           /\ \A x \in Objects : store'[x].uid <= uids'
<1>1. store \in [Objects -> {Absent} \cup Record] /\ uids \in Nat
      /\ \A x \in Objects : store[x].uid <= uids
      BY DEF TypeOK
<1>2. \A x \in Objects : store[x].uid \in Nat
      BY <1>1, AbsentMeans
<1>3. /\ Objects' = Objects /\ Creators' = Creators
      /\ store' \in [Objects -> {Absent} \cup Record]
      /\ store'[o] = record /\ \A x \in Objects \ {o} : store'[x] = store[x]
      BY <1>1 DEF Objects, Creators
<1> QED BY <1>1, <1>2, <1>3

LEMMA OutdatedType ==
    ASSUME TypeOK, NEW o
    PROVE  /\ Outdated(o) \in [Creators -> BOOLEAN]
           /\ \A c \in Creators : /\ stale[c] => Outdated(o)[c]
                                  /\ pc[c] = "write" /\ Step(c).object = o => Outdated(o)[c]
BY DEF TypeOK, Outdated

\* A command goes on with its next object, its wait or ends.
LEMMA ProceedType ==
    ASSUME TypeOK, NEW c \in Creators, job' = job, Objects' = Objects,
           Proceed(c) \/ (End(c, "err") /\ UNCHANGED at) \/ (End(c, "ok") /\ UNCHANGED at)
    PROVE  /\ pc' \in [Creators -> {"idle", "get", "write", "create", "poll", "done"}]
           /\ at' \in [Creators -> Nat] /\ exit' \in [Creators -> {"running", "ok", "err"}]
           /\ \A x \in Creators : IsJob(job[x], Objects) /\ at'[x] \in DOMAIN job[x].plan
           /\ \A x \in Creators \ {c} : pc'[x] = pc[x] /\ at'[x] = at[x] /\ exit'[x] = exit[x]
           /\ pc'[c] # "write"
<1>1. /\ pc \in [Creators -> {"idle", "get", "write", "create", "poll", "done"}]
      /\ at \in [Creators -> Nat] /\ exit \in [Creators -> {"running", "ok", "err"}]
      /\ \A x \in Creators : IsJob(job[x], Objects) /\ at[x] \in DOMAIN job[x].plan
      BY DEF TypeOK
<1>2. CASE HasMore(c) /\ Proceed(c)
  <2>1. at[c] + 1 \in DOMAIN job[c].plan
        BY <1>2, JobFacts DEF HasMore
  <2>2. /\ pc' = [pc EXCEPT ![c] = "get"] /\ at' = [at EXCEPT ![c] = @ + 1] /\ exit' = exit
        BY <1>2 DEF Proceed
  <2> QED BY <1>1, <2>1, <2>2
<1>3. CASE ~(HasMore(c) /\ Proceed(c))
      BY <1>1, <1>3 DEF Proceed, End
<1> QED BY <1>2, <1>3

\* The name that is deleted next is one of the objects.
LEMMA DeleteFacts ==
    ASSUME TypeOK
    PROVE  /\ del.pc \in {"get", "ask", "delete"} =>
                 Name \in Objects /\ Tail(del.names) \in Seq(Objects) /\ Len(del.names) \in Nat \ {0}
           /\ del.pc \in {"get", "ask", "delete"} =>
                 LET next == NextName(del) IN
                 /\ next \in DeleteState(Objects) /\ next.failed = del.failed
                 /\ next.pc \in {"get", "done"} /\ (next.pc = "get" => next.names # <<>>)
           /\ Failure(del) \in DeleteState(Objects) /\ Failure(del).pc = del.pc
           /\ Failure(del).names = del.names /\ Failure(del).failed = del.failed + 1
           /\ del.pc \in {"get", "ask", "delete"} =>
                 LET next == NextName(Failure(del)) IN
                 /\ next \in DeleteState(Objects) /\ next.failed = del.failed + 1
                 /\ next.pc \in {"get", "done"} /\ (next.pc = "get" => next.names # <<>>)
<1>1. /\ del \in DeleteState(Objects)
      /\ del.pc \in {"get", "ask", "delete"} => del.names # <<>>
      BY DEF TypeOK
<1>2. Failure(del) \in DeleteState(Objects) /\ Failure(del).pc = del.pc
      /\ Failure(del).names = del.names /\ Failure(del).failed = del.failed + 1
      BY <1>1 DEF Failure, DeleteState
<1>3. ASSUME NEW d \in DeleteState(Objects), d.names # <<>>
      PROVE  /\ Head(d.names) \in Objects /\ Tail(d.names) \in Seq(Objects)
             /\ Len(d.names) \in Nat \ {0}
             /\ NextName(d) \in DeleteState(Objects) /\ NextName(d).failed = d.failed
             /\ NextName(d).pc \in {"get", "done"}
             /\ NextName(d).pc = "get" => NextName(d).names # <<>>
  <2>1. d.names \in Seq(Objects)
        BY <1>3 DEF DeleteState
  <2>2. Head(d.names) \in Objects /\ Tail(d.names) \in Seq(Objects) /\ Len(d.names) \in Nat \ {0}
        /\ Len(Tail(d.names)) = Len(d.names) - 1
        BY <1>3, <2>1
  <2>3. /\ NextName(d) \in DeleteState(Objects) /\ NextName(d).failed = d.failed
        /\ NextName(d).names = Tail(d.names)
        /\ NextName(d).pc = IF Len(d.names) = 1 THEN "done" ELSE "get"
        BY <1>3, <2>2 DEF NextName, DeleteState
  <2>4. ASSUME Tail(d.names) = <<>> PROVE Len(d.names) = 1
    <3>1. Len(<<>>) = 0
          BY EmptySeq
    <3>2. Len(Tail(d.names)) = 0
          BY <2>4, <3>1, Zenon
    <3> QED BY <2>2, <3>2
  <2> QED BY <2>2, <2>3, <2>4
<1> QED BY <1>1, <1>2, <1>3 DEF Name

----------------------------------------------------------------------------
(* What every step does.                                                   *)

\* A step that writes one object.
LEMMA OneWritten ==
    ASSUME IInv, NEW o \in Objects, NEW record \in {Absent} \cup Record,
           uids' \in Nat \ {0}, uids <= uids', record.uid <= uids',
           store' = [store EXCEPT ![o] = record], stale' = Outdated(o), job' = job,
           record = Absent \/ (record.uid = uids + 1 /\ uids' = uids + 1)
           \/ (/\ store[o] # Absent /\ record # Absent
               /\ record.uid = store[o].uid /\ record.gen >= store[o].gen
               /\ store[o].deleting => record.deleting),
           finished \subseteq finished',
           record # Absent /\ record.ready = "True" => <<record.uid, record.obsGen>> \in finished'
    PROVE  /\ Objects' = Objects /\ Creators' = Creators
           /\ store' \in [Objects -> {Absent} \cup Record]
           /\ store'[o] = record /\ \A x \in Objects \ {o} : store'[x] = store[x]
           /\ \A x \in Objects : store'[x].uid <= uids'
           /\ stale' \in [Creators -> BOOLEAN]
           /\ Evolution /\ ReadyIsFinished'
           /\ \A c \in Creators : pc[c] = "write" /\ ~stale'[c] =>
                 ~stale[c] /\ store'[Step(c).object] = store[Step(c).object]
<1>1. /\ Objects' = Objects /\ Creators' = Creators
      /\ store' \in [Objects -> {Absent} \cup Record]
      /\ store'[o] = record /\ \A x \in Objects \ {o} : store'[x] = store[x]
      /\ \A x \in Objects : store'[x].uid <= uids'
      BY StoreWritten DEF IInv
<1>2. stale' \in [Creators -> BOOLEAN]
      BY OutdatedType DEF IInv
<1>3. ASSUME NEW c \in Creators, pc[c] = "write", ~stale'[c]
      PROVE  ~stale[c] /\ store'[Step(c).object] = store[Step(c).object]
  <2>1. ~stale[c] /\ Step(c).object # o
        BY <1>3, OutdatedType DEF IInv
  <2>2. Step(c).object \in Objects
        BY JobFacts DEF IInv
  <2> QED BY <1>1, <2>1, <2>2
<1>4. ReadyIsFinished'
      BY <1>1 DEF IInv, ReadyIsFinished
<1>5. Evolution
  <2>1. Evolves(o)
        BY <1>1 DEF Evolves
  <2>2. \A x \in Objects : Evolves(x)
        BY <1>1, <2>1 DEF Evolves
  <2> QED BY <1>1, <2>2 DEF Evolution
<1> QED BY <1>1, <1>2, <1>3, <1>4, <1>5

\* A step that writes none.
LEMMA NoneWritten ==
    ASSUME IInv, UNCHANGED <<store, uids, job>>, finished' = finished
    PROVE  /\ Objects' = Objects /\ Creators' = Creators /\ Evolution /\ ReadyIsFinished'
           /\ \A x \in Objects : store'[x].uid <= uids'
<1>1. Objects' = Objects /\ Creators' = Creators
      BY DEF Objects, Creators
<1>2. uids \in Nat /\ \A x \in Objects : store[x].uid <= uids
      BY DEF IInv, TypeOK
<1>3. Evolution
      BY <1>1, <1>2 DEF Evolution, Evolves
<1>4. ReadyIsFinished'
      BY <1>1 DEF IInv, ReadyIsFinished
<1> QED BY <1>1, <1>2, <1>3, <1>4

\* While an object keeps its uid, its generation does not go back, and what is
\* gone or going stays so.
LEMMA EvolutionKeeps ==
    ASSUME TypeOK, TypeOK', Evolution, NEW o \in Objects, NEW uid \in 1..uids
    PROVE  /\ \A gen \in Nat : (store[o].uid = uid => store[o].gen >= gen) =>
                 (store'[o].uid = uid => store'[o].gen >= gen)
           /\ (store[o].uid # uid \/ store[o].deleting) => (store'[o].uid # uid \/ store'[o].deleting)
<1>1. /\ store[o] \in {Absent} \cup Record /\ store'[o] \in {Absent} \cup Record
      /\ uids \in Nat /\ Evolves(o)
      BY DEF TypeOK, Evolution
<1>2. /\ store[o] = Absent \/ (store[o].uid \in Nat \ {0} /\ store[o].gen \in Nat)
      /\ store'[o] = Absent \/ (store'[o].uid \in Nat \ {0} /\ store'[o].gen \in Nat)
      /\ Absent.uid = 0
      BY <1>1, AbsentMeans
<1>3. CASE store'[o] = store[o]
      BY <1>3
<1>4. CASE store'[o] = Absent
      BY <1>2, <1>4
<1>5. CASE /\ store[o] # Absent /\ store'[o] # Absent
           /\ store'[o].uid = store[o].uid /\ store'[o].gen >= store[o].gen
           /\ store[o].deleting => store'[o].deleting
      BY <1>2, <1>5
<1>6. CASE store'[o].uid = uids + 1
      BY <1>1, <1>6
<1> QED BY <1>1, <1>3, <1>4, <1>5, <1>6 DEF Evolves

\* A command whose own step it is not.
LEMMA Bystander ==
    ASSUME IInv, TypeOK', Evolution, NEW c \in Creators,
           pc'[c] = "write" => pc[c] = "write" /\ at'[c] = at[c] /\ read'[c] = read[c],
           pc'[c] = "poll" => pc[c] = "poll" /\ sent'[c] = sent[c],
           pc[c] = "write" /\ ~stale'[c] =>
               ~stale[c] /\ store'[Step(c).object] = store[Step(c).object]
    PROVE  CurrentFor(c)' /\ SentFor(c)'
<1>1. /\ Step(c).object \in Objects /\ Waited(c) \in Objects /\ uids \in Nat /\ uids' \in Nat
      /\ uids <= uids' /\ job' = job /\ CurrentFor(c) /\ SentFor(c)
      /\ read[c] \in {Absent} \cup Main /\ sent[c] \in [uid : Nat, gen : Nat]
      BY JobFacts DEF IInv, TypeOK, Evolution, Waiting
<1>2. CASE pc'[c] = "write"
  <2>1. pc[c] = "write" /\ Step(c)' = Step(c) /\ read'[c] = read[c]
        BY <1>1, <1>2 DEF Step
  <2>2. ASSUME ~stale'[c] PROVE MainOf(store'[Step(c).object]) = read[c]
        BY <1>1, <2>1, <2>2 DEF CurrentFor
  <2>3. ASSUME read[c] # Absent
        PROVE  read[c].uid <= uids' /\ NotBefore(Step(c).object, read[c])'
    <3>1. read[c].uid \in 1..uids /\ read[c].gen \in Nat /\ NotBefore(Step(c).object, read[c])
          BY <1>1, <2>1, <2>3, AbsentMeans DEF CurrentFor
    <3>2. NotBefore(Step(c).object, read[c])'
          BY <1>1, <2>1, <3>1, EvolutionKeeps DEF IInv, NotBefore
    <3> QED BY <1>1, <3>1, <3>2
  <2> QED BY <1>2, <2>1, <2>2, <2>3 DEF CurrentFor, SentFor, MainOf, NotBefore
<1>3. CASE pc'[c] = "poll"
  <2>1. pc[c] = "poll" /\ Waited(c)' = Waited(c) /\ sent'[c] = sent[c]
        BY <1>1, <1>3 DEF Waited
  <2>2. sent[c].uid \in 1..uids /\ sent[c].gen \in Nat /\ NotBefore(Waited(c), sent[c])
        BY <1>1, <2>1 DEF SentFor
  <2>3. NotBefore(Waited(c), sent[c])'
        BY <1>1, <2>1, <2>2, EvolutionKeeps DEF IInv, NotBefore
  <2> QED BY <1>1, <1>3, <2>1, <2>2, <2>3 DEF CurrentFor, SentFor, NotBefore
<1> QED BY <1>2, <1>3 DEF CurrentFor, SentFor

\* What the user was asked about stays gone, and `flux delete` is done with a name
\* only when it is gone or has failed.
LEMMA StillShown ==
    ASSUME IInv, TypeOK', Evolution, shown' = shown,
           del.failed > 0 => del'.failed > 0,
           del.pc = "aborted" => del'.pc = "aborted",
           del.pc \in {"ask", "delete"} =>
               \/ del'.failed > 0 \/ del'.pc = "aborted"
               \/ del'.pc \in {"ask", "delete"} /\ del'.names = del.names
               \/ store'[Name] = Absent \/ store'[Name].deleting
    PROVE  Shown'
<1> SUFFICES ASSUME NEW s \in shown
             PROVE  /\ s[1] \in Objects' /\ s[2] \in 1..uids'
                    /\ \/ del'.failed > 0 \/ del'.pc = "aborted"
                       \/ del'.pc \in {"ask", "delete"} /\ s[1] = Name'
                       \/ Gone(s)'
    BY DEF Shown
<1>1. /\ s[1] \in Objects /\ s[2] \in 1..uids /\ Objects' = Objects
      /\ uids \in Nat /\ uids' \in Nat /\ uids <= uids'
      /\ \/ del.failed > 0 \/ del.pc = "aborted"
         \/ del.pc \in {"ask", "delete"} /\ s[1] = Name
         \/ Gone(s)
      BY DEF IInv, Shown, TypeOK, Evolution
<1>2. CASE Gone(s)
  <2>1. Gone(s)'
        BY <1>1, <1>2, EvolutionKeeps DEF IInv, Gone
  <2> QED BY <1>1, <2>1
<1>3. CASE del.pc \in {"ask", "delete"} /\ s[1] = Name
  <2>1. CASE store'[Name] = Absent
        BY <1>1, <1>3, <2>1, AbsentMeans DEF Gone
  <2>2. CASE store'[Name].deleting
        BY <1>1, <1>3, <2>2 DEF Gone
  <2> QED BY <1>1, <1>3, <2>1, <2>2 DEF Name
<1> QED BY <1>1, <1>2, <1>3

\* A step of the command c.
LEMMA CommandStep ==
    ASSUME IInv, TypeOK', Evolution, ReadyIsFinished', ~lost', UNCHANGED <<del, shown>>,
           NEW c \in Creators, CurrentFor(c)', SentFor(c)',
           \A x \in Creators \ {c} :
               /\ pc'[x] = pc[x] /\ at'[x] = at[x] /\ read'[x] = read[x] /\ sent'[x] = sent[x]
               /\ pc[x] = "write" /\ ~stale'[x] =>
                     ~stale[x] /\ store'[Step(x).object] = store[Step(x).object]
    PROVE  IInv'
<1>1. Creators' = Creators
      BY DEF Evolution, Creators
<1>2. \A x \in Creators \ {c} : CurrentFor(x)' /\ SentFor(x)'
      BY Bystander
<1>3. Waiting'
      BY <1>1, <1>2 DEF Waiting
<1>4. Shown'
      BY StillShown
<1> QED BY <1>3, <1>4 DEF IInv

\* A step of anybody else.
LEMMA OtherStep ==
    ASSUME IInv, TypeOK', Evolution, ReadyIsFinished', Shown', UNCHANGED <<lost, pc, at, read, sent>>,
           \A x \in Creators : pc[x] = "write" /\ ~stale'[x] =>
               ~stale[x] /\ store'[Step(x).object] = store[Step(x).object]
    PROVE  IInv'
<1>1. Creators' = Creators
      BY DEF Evolution, Creators
<1>2. \A x \in Creators : CurrentFor(x)' /\ SentFor(x)'
      BY Bystander
<1> QED BY <1>1, <1>2 DEF IInv, Waiting

----------------------------------------------------------------------------
(* The steps of `flux create`.                                             *)

LEMMA BeginStep ==
    ASSUME IInv, NEW c \in Creators, Begin(c) PROVE IInv' /\ Evolution
<1>1. /\ Objects' = Objects /\ Creators' = Creators /\ Evolution /\ ReadyIsFinished'
      BY NoneWritten DEF Begin, history
<1>2. TypeOK'
      BY <1>1 DEF IInv, TypeOK, Begin, history
<1>3. CurrentFor(c)' /\ SentFor(c)'
      BY DEF IInv, TypeOK, Begin, CurrentFor, SentFor
<1> QED BY <1>1, <1>2, <1>3, CommandStep DEF IInv, TypeOK, Begin, history

LEMMA GetStep ==
    ASSUME IInv, NEW c \in Creators, Get(c) PROVE IInv' /\ Evolution
<1>1. /\ Objects' = Objects /\ Creators' = Creators /\ Evolution /\ ReadyIsFinished'
      BY NoneWritten DEF Get, history
<1>2. Step(c).object \in Objects /\ store[Step(c).object] \in {Absent} \cup Record
      /\ store[Step(c).object].uid <= uids
      BY JobFacts DEF IInv, TypeOK
<1>3. MainOf(store[Step(c).object]) \in {Absent} \cup Main
      BY <1>2, MainOfType
<1>4. TypeOK'
      BY <1>1, <1>3 DEF IInv, TypeOK, Get, history
<1>5. /\ pc'[c] = "write" /\ read'[c] = MainOf(store[Step(c).object])
      /\ Step(c)' = Step(c) /\ store' = store /\ uids' = uids
      BY DEF IInv, TypeOK, Get, Step
<1>6. read'[c] # Absent => read'[c].uid <= uids /\ store[Step(c).object].gen >= read'[c].gen
  <2>1. CASE store[Step(c).object] = Absent
        BY <1>2, <1>5, <2>1, MainOfType
  <2>2. CASE store[Step(c).object] # Absent
        BY <1>2, <1>5, <2>2, MainOfType, AbsentMeans
  <2> QED BY <2>1, <2>2
<1>7. CurrentFor(c)' /\ SentFor(c)'
      BY <1>5, <1>6 DEF CurrentFor, SentFor, NotBefore, MainOf
<1> QED BY <1>1, <1>4, <1>7, CommandStep DEF IInv, TypeOK, Get, history

\* Poll and CallFails.
LEMMA EndStep ==
    ASSUME IInv, NEW c \in Creators, Poll(c) \/ CallFails(c) PROVE IInv' /\ Evolution
<1>1. /\ UNCHANGED <<store, uids, run, job, at, read, stale, sent, del, others, history>>
      /\ End(c, "ok") \/ End(c, "err")
      BY DEF Poll, CallFails
<1>2. /\ Objects' = Objects /\ Creators' = Creators /\ Evolution /\ ReadyIsFinished'
      BY <1>1, NoneWritten DEF history
<1>3. TypeOK'
      BY <1>1, <1>2 DEF IInv, TypeOK, End, history
<1>4. CurrentFor(c)' /\ SentFor(c)'
      BY <1>1 DEF IInv, TypeOK, End, CurrentFor, SentFor
<1> QED BY <1>1, <1>2, <1>3, <1>4, CommandStep DEF IInv, TypeOK, End, history

\* What is waited for is what was written last.
LEMMA LastIsWaited ==
    ASSUME TypeOK, NEW c \in Creators, Proceed(c), pc'[c] = "poll"
    PROVE  Waited(c) = Step(c).object /\ job[c].waits # "none"
<1>1. pc \in [Creators -> {"idle", "get", "write", "create", "poll", "done"}]
      BY DEF TypeOK
<1>2. ~HasMore(c) /\ job[c].waits # "none"
      BY <1>1 DEF Proceed, End
<1>3. at[c] = Len(job[c].plan)
      BY <1>2, JobFacts DEF HasMore
<1> QED BY <1>2, <1>3 DEF Waited, Step

LEMMA CreateStep ==
    ASSUME IInv, NEW c \in Creators, Create(c) PROVE IInv' /\ Evolution
<1> DEFINE o == Step(c).object
           fresh == Fresh(uids + 1, Step(c).spec, Step(c).labels)
<1>1. UNCHANGED <<run, job, read, del, others, shown, finished, lost, removed>> /\ pc[c] # "poll"
      BY DEF Create
<1>2. /\ o \in Objects /\ Step(c).spec \in Specs /\ Step(c).labels \in SUBSET Labels
      /\ uids \in Nat \ {0}
      BY JobFacts DEF IInv, TypeOK, StepOf
<1>3. CASE /\ store[o] # Absent
           /\ End(c, "err") /\ UNCHANGED <<store, uids, stale, at, sent, disturbed>>
  <2>1. /\ Objects' = Objects /\ Creators' = Creators /\ Evolution /\ ReadyIsFinished'
        BY <1>1, <1>3, NoneWritten
  <2>2. TypeOK'
        BY <1>1, <1>3, <2>1 DEF IInv, TypeOK, End
  <2>3. CurrentFor(c)' /\ SentFor(c)'
        BY <1>3 DEF IInv, TypeOK, End, CurrentFor, SentFor
  <2> QED BY <1>1, <1>3, <2>1, <2>2, <2>3, CommandStep DEF IInv, TypeOK, End
<1>4. CASE /\ store[o] = Absent
           /\ Stored(c, o, fresh) /\ uids' = uids + 1
           /\ SentIs(c, fresh) /\ Proceed(c)
  <2>1. /\ fresh \in Record /\ fresh.uid = uids + 1 /\ fresh.gen = 1 /\ fresh.ready = "none"
    <3>1. uids + 1 \in Nat \ {0}
          BY <1>2
    <3> QED BY <1>2, <3>1, FreshType
  <2> HIDE DEF o, fresh
  <2>2. /\ store' = [store EXCEPT ![o] = fresh] /\ stale' = Outdated(o)
        /\ disturbed' = disturbed \cup Disturbs(o, {c})
        BY <1>4 DEF Stored
  <2>3. uids' \in Nat \ {0} /\ uids <= uids'
        BY <1>2, <1>4
  <2>4. /\ Objects' = Objects /\ Creators' = Creators
        /\ store' \in [Objects -> {Absent} \cup Record]
        /\ store'[o] = fresh
        /\ \A x \in Objects : store'[x].uid <= uids'
        /\ stale' \in [Creators -> BOOLEAN]
        /\ Evolution /\ ReadyIsFinished'
        /\ \A x \in Creators : pc[x] = "write" /\ ~stale'[x] =>
              ~stale[x] /\ store'[Step(x).object] = store[Step(x).object]
    <3>1. /\ fresh \in {Absent} \cup Record /\ fresh.uid <= uids' /\ fresh.uid = uids + 1
          /\ uids' = uids + 1 /\ job' = job /\ finished \subseteq finished'
          /\ ~(fresh # Absent /\ fresh.ready = "True")
          BY <1>1, <1>2, <1>4, <2>1
    <3> QED BY <1>2, <2>2, <2>3, <3>1, OneWritten
  <2>5. /\ pc' \in [Creators -> {"idle", "get", "write", "create", "poll", "done"}]
        /\ at' \in [Creators -> Nat] /\ exit' \in [Creators -> {"running", "ok", "err"}]
        /\ \A x \in Creators : IsJob(job[x], Objects) /\ at'[x] \in DOMAIN job[x].plan
        /\ \A x \in Creators \ {c} : pc'[x] = pc[x] /\ at'[x] = at[x] /\ exit'[x] = exit[x]
        /\ pc'[c] # "write"
        BY <1>1, <1>4, <2>4, ProceedType DEF IInv
  <2>6. sent' \in [Creators -> [uid : Nat, gen : Nat]] /\ sent'[c] = [uid |-> uids + 1, gen |-> 1]
        /\ \A x \in Creators \ {c} : sent'[x] = sent[x]
        BY <1>2, <1>4, <2>1 DEF IInv, TypeOK, SentIs
  <2>7. disturbed' \subseteq Creators
        BY <2>2 DEF IInv, TypeOK, Disturbs
  <2>8. TypeOK'
        BY <1>1, <2>3, <2>4, <2>5, <2>6, <2>7 DEF IInv, TypeOK
  <2>9. SentFor(c)'
    <3> SUFFICES ASSUME pc'[c] = "poll"
                 PROVE  sent'[c].uid \in 1..uids' /\ NotBefore(Waited(c), sent[c])'
        BY <1>1 DEF SentFor, Waited, NotBefore
    <3>1. Waited(c)' = o
          BY <1>1, <1>4, LastIsWaited DEF IInv, Waited, o
    <3> QED BY <1>2, <1>4, <2>1, <2>3, <2>4, <2>6, <3>1 DEF NotBefore, Waited
  <2>10. CurrentFor(c)'
        BY <2>5 DEF CurrentFor
  <2> QED BY <1>1, <2>4, <2>5, <2>6, <2>8, <2>9, <2>10, CommandStep DEF IInv
<1> QED BY <1>3, <1>4 DEF Create

LEMMA RecreateStep ==
    ASSUME IInv, NEW c \in Creators, Recreate(c) PROVE IInv' /\ Evolution
<1> DEFINE o == Step(c).object
<1>1. UNCHANGED <<uids, run, job, read, sent, del, others, shown, finished, lost, removed>>
      /\ pc[c] = "write" /\ Step(c).how = "recreate"
      BY DEF Recreate
<1>2. o \in Objects /\ uids \in Nat \ {0} /\ Absent.uid = 0
      BY JobFacts, AbsentMeans DEF IInv, TypeOK
<1>3. CASE /\ Proceed(c) \/ (End(c, "err") /\ UNCHANGED at)
           /\ UNCHANGED <<store, stale, disturbed>>
  <2>1. /\ Objects' = Objects /\ Creators' = Creators /\ Evolution /\ ReadyIsFinished'
        BY <1>1, <1>3, NoneWritten
  <2>2. /\ pc' \in [Creators -> {"idle", "get", "write", "create", "poll", "done"}]
        /\ at' \in [Creators -> Nat] /\ exit' \in [Creators -> {"running", "ok", "err"}]
        /\ \A x \in Creators : IsJob(job[x], Objects) /\ at'[x] \in DOMAIN job[x].plan
        /\ \A x \in Creators \ {c} : pc'[x] = pc[x] /\ at'[x] = at[x] /\ exit'[x] = exit[x]
        /\ pc'[c] # "write"
        BY <1>1, <1>3, <2>1, ProceedType DEF IInv
  <2>3. TypeOK'
        BY <1>1, <1>3, <2>1, <2>2 DEF IInv, TypeOK
  <2>4. pc'[c] # "poll"
    <3>1. ASSUME Proceed(c), pc'[c] = "poll" PROVE FALSE
      <4>1. Waited(c) = Step(c).object /\ job[c].waits # "none" /\ at[c] = Len(job[c].plan)
        <5>1. ~HasMore(c)
              BY <3>1 DEF IInv, TypeOK, Proceed
        <5> QED BY <3>1, <5>1, LastIsWaited, JobFacts DEF IInv, HasMore
      <4>2. IsJob(job[c], Objects)
            BY DEF IInv, TypeOK
      <4> QED BY <1>1, <4>1, <4>2 DEF IsJob, Step
    <3>2. ASSUME End(c, "err") PROVE pc'[c] # "poll"
          BY <3>2 DEF IInv, TypeOK, End
    <3> QED BY <1>3, <3>1, <3>2
  <2>5. CurrentFor(c)' /\ SentFor(c)'
        BY <2>2, <2>4 DEF CurrentFor, SentFor
  <2> QED BY <1>1, <1>3, <2>1, <2>2, <2>3, <2>5, CommandStep DEF IInv
<1>4. CASE /\ store[o] # Absent
           /\ Stored(c, o, Absent)
           /\ pc' = [pc EXCEPT ![c] = "create"] /\ UNCHANGED <<at, exit>>
  <2> HIDE DEF o
  <2>1. /\ store' = [store EXCEPT ![o] = Absent] /\ stale' = Outdated(o)
        /\ disturbed' = disturbed \cup Disturbs(o, {c})
        BY <1>4 DEF Stored
  <2>2. /\ Objects' = Objects /\ Creators' = Creators
        /\ store' \in [Objects -> {Absent} \cup Record]
        /\ \A x \in Objects : store'[x].uid <= uids'
        /\ stale' \in [Creators -> BOOLEAN]
        /\ Evolution /\ ReadyIsFinished'
        /\ \A x \in Creators : pc[x] = "write" /\ ~stale'[x] =>
              ~stale[x] /\ store'[Step(x).object] = store[Step(x).object]
    <3>1. uids' \in Nat \ {0} /\ uids <= uids' /\ Absent.uid <= uids'
          BY <1>1, <1>2
    <3> QED BY <1>1, <1>2, <2>1, <3>1, OneWritten
  <2>3. disturbed' \subseteq Creators
        BY <2>1 DEF IInv, TypeOK, Disturbs
  <2>4. TypeOK'
        BY <1>1, <1>4, <2>2, <2>3 DEF IInv, TypeOK
  <2>5. CurrentFor(c)' /\ SentFor(c)'
        BY <1>4 DEF IInv, TypeOK, CurrentFor, SentFor
  <2> QED BY <1>1, <1>4, <2>2, <2>4, <2>5, CommandStep DEF IInv, TypeOK
<1> QED BY <1>3, <1>4 DEF Recreate

LEMMA UpdateStep ==
    ASSUME IInv, NEW c \in Creators, Update(c) PROVE IInv' /\ Evolution
<1> DEFINE s == Step(c)
           o == Step(c).object
           wish == Wish(s, read[c])
           record == [wish EXCEPT !.gen = IF wish.spec = read[c].spec THEN @ ELSE @ + 1]
           skipped == SameContent(wish, read[c]) /\ s.how \in {"ifChanged", "labels"}
<1>1. UNCHANGED <<uids, run, job, read, del, others, shown, finished, removed>>
      /\ pc[c] = "write" /\ read[c] # Absent /\ s.how # "recreate"
      BY DEF Update
<1>2. /\ s \in StepOf(Objects) /\ o \in Objects /\ uids \in Nat \ {0}
      /\ read[c] \in Main /\ store[o] \in {Absent} \cup Record
      BY <1>1, JobFacts DEF IInv, TypeOK
<1>3. wish \in Main /\ wish.uid = read[c].uid /\ wish.gen = read[c].gen
      BY <1>1, <1>2, WishType
<1>4. /\ record \in Main /\ record.uid = read[c].uid /\ record.gen >= read[c].gen
      /\ record.uid \in 1..uids
      /\ SameContent(wish, read[c]) => record.gen = read[c].gen
  <2>1. read[c].uid \in 1..uids /\ wish.gen \in Nat \ {0}
        BY <1>1, <1>2, <1>3, AbsentMeans DEF IInv, Waiting, CurrentFor
  <2> HIDE DEF wish
  <2>2. /\ record \in Main /\ record.uid = wish.uid
        /\ record.gen = IF wish.spec = read[c].spec THEN wish.gen ELSE wish.gen + 1
        BY <1>3 DEF Main
  <2> QED BY <1>3, <2>1, <2>2 DEF SameContent
<1>5. CASE (~skipped /\ Conflict(c))
           /\ End(c, "err") /\ UNCHANGED <<store, stale, at, sent, lost, disturbed>>
  <2>1. /\ Objects' = Objects /\ Creators' = Creators /\ Evolution /\ ReadyIsFinished'
        BY <1>1, <1>5, NoneWritten
  <2>2. TypeOK'
        BY <1>1, <1>5, <2>1 DEF IInv, TypeOK, End
  <2>3. CurrentFor(c)' /\ SentFor(c)'
        BY <1>5 DEF IInv, TypeOK, End, CurrentFor, SentFor
  <2> QED BY <1>1, <1>5, <2>1, <2>2, <2>3, CommandStep DEF IInv, TypeOK, End
<1>6. CASE ~(~skipped /\ Conflict(c)) /\ SentIs(c, record) /\ Proceed(c)
           /\ IF SameContent(wish, read[c]) THEN UNCHANGED <<store, stale, lost, disturbed>>
              ELSE /\ Stored(c, o, Replaced(store[o], record))
                   /\ lost' = (lost \/ ~SameContent(store[o], read[c]))
  <2>1. /\ Objects' = Objects /\ Creators' = Creators
        /\ store' \in [Objects -> {Absent} \cup Record]
        /\ \A x \in Objects : store'[x].uid <= uids'
        /\ stale' \in [Creators -> BOOLEAN]
        /\ Evolution /\ ReadyIsFinished' /\ ~lost' /\ disturbed' \subseteq Creators
        /\ \A x \in Creators : pc[x] = "write" /\ ~stale'[x] =>
              ~stale[x] /\ store'[Step(x).object] = store[Step(x).object]
        /\ store'[o].uid = record.uid => store'[o].gen >= record.gen
    <3>1. CASE SameContent(wish, read[c])
      <4>1. /\ Objects' = Objects /\ Creators' = Creators /\ Evolution /\ ReadyIsFinished'
            /\ \A x \in Objects : store'[x].uid <= uids'
            BY <1>1, <1>6, <3>1, NoneWritten
      <4>2. NotBefore(o, read[c])
            BY <1>1 DEF IInv, Waiting, CurrentFor
      <4>3. UNCHANGED <<store, stale, lost, disturbed>> /\ record.gen = read[c].gen
            BY <1>4, <1>6, <3>1
      <4> HIDE DEF record
      <4> QED BY <1>1, <1>4, <4>1, <4>2, <4>3 DEF IInv, TypeOK, NotBefore
    <3>2. CASE ~SameContent(wish, read[c])
      <4>1. /\ store' = [store EXCEPT ![o] = Replaced(store[o], record)] /\ stale' = Outdated(o)
            /\ disturbed' = disturbed \cup Disturbs(o, {c})
            /\ lost' = (lost \/ ~SameContent(store[o], read[c]))
            /\ store[o] # Absent /\ ~stale[c]
            BY <1>6, <3>2 DEF Stored, Conflict
      <4> HIDE DEF record, wish, s, skipped, o
      <4>2. MainOf(store[o]) = read[c] /\ store[o] \in Record
            BY <1>1, <1>2, <4>1 DEF IInv, Waiting, CurrentFor, o
      <4>3. store[o].uid = read[c].uid /\ store[o].gen = read[c].gen
            /\ SameContent(store[o], read[c])
            BY <4>1, <4>2, MainOfType DEF SameContent
      <4>4. /\ Replaced(store[o], record) \in Record
            /\ MainOf(Replaced(store[o], record)) = record
            /\ Replaced(store[o], record).deleting = store[o].deleting
            /\ Replaced(store[o], record).ready = store[o].ready
            /\ Replaced(store[o], record).obsGen = store[o].obsGen
            BY <1>4, <4>2, ReplacedType
      <4>5. /\ Replaced(store[o], record) # Absent
            /\ Replaced(store[o], record).uid = record.uid
            /\ Replaced(store[o], record).gen = record.gen
            BY <4>4, MainOfType, AbsentMeans
      <4>6. ASSUME Replaced(store[o], record).ready = "True"
            PROVE  <<record.uid, store[o].obsGen>> \in finished
            BY <1>2, <1>4, <4>1, <4>3, <4>4, <4>6 DEF IInv, ReadyIsFinished
      <4> DEFINE new == Replaced(store[o], record)
      <4> HIDE DEF new
      <4>7. /\ new \in {Absent} \cup Record /\ new.uid <= uids' /\ new # Absent
            /\ uids' \in Nat \ {0} /\ uids <= uids' /\ job' = job /\ finished \subseteq finished'
            /\ new.uid = store[o].uid /\ new.gen >= store[o].gen
            /\ store[o].deleting => new.deleting
            /\ new.ready = "True" => <<new.uid, new.obsGen>> \in finished'
            /\ store' = [store EXCEPT ![o] = new]
            BY <1>1, <1>2, <1>4, <4>1, <4>3, <4>4, <4>5, <4>6 DEF new
      <4>8. /\ Objects' = Objects /\ Creators' = Creators
            /\ store' \in [Objects -> {Absent} \cup Record]
            /\ store'[o] = new
            /\ \A x \in Objects : store'[x].uid <= uids'
            /\ stale' \in [Creators -> BOOLEAN]
            /\ Evolution /\ ReadyIsFinished'
            /\ \A x \in Creators : pc[x] = "write" /\ ~stale'[x] =>
                  ~stale[x] /\ store'[Step(x).object] = store[Step(x).object]
            BY <1>2, <4>1, <4>7, OneWritten
      <4>9. ~lost' /\ disturbed' \subseteq Creators
            BY <4>1, <4>3 DEF IInv, TypeOK, Disturbs
      <4>10. record.gen \in Nat
            BY <1>4, AbsentMeans
      <4> QED BY <4>5, <4>8, <4>9, <4>10 DEF new
    <3> QED BY <3>1, <3>2
  <2> HIDE DEF record, wish, s, skipped, o
  <2>2. /\ pc' \in [Creators -> {"idle", "get", "write", "create", "poll", "done"}]
        /\ at' \in [Creators -> Nat] /\ exit' \in [Creators -> {"running", "ok", "err"}]
        /\ \A x \in Creators : IsJob(job[x], Objects) /\ at'[x] \in DOMAIN job[x].plan
        /\ \A x \in Creators \ {c} : pc'[x] = pc[x] /\ at'[x] = at[x] /\ exit'[x] = exit[x]
        /\ pc'[c] # "write"
        BY <1>1, <1>6, <2>1, ProceedType DEF IInv
  <2>3. /\ sent' \in [Creators -> [uid : Nat, gen : Nat]]
        /\ sent'[c].uid = record.uid /\ sent'[c].gen = record.gen
        /\ \A x \in Creators \ {c} : sent'[x] = sent[x]
        BY <1>4, <1>6, AbsentMeans DEF IInv, TypeOK, SentIs
  <2>4. TypeOK'
        BY <1>1, <2>1, <2>2, <2>3 DEF IInv, TypeOK
  <2>5. SentFor(c)'
    <3> SUFFICES ASSUME pc'[c] = "poll"
                 PROVE  sent'[c].uid \in 1..uids' /\ NotBefore(Waited(c), sent[c])'
        BY <1>1 DEF SentFor, Waited, NotBefore
    <3>1. Waited(c)' = o
          BY <1>1, <1>6, LastIsWaited DEF IInv, Waited, o
    <3> QED BY <1>1, <1>4, <2>1, <2>3, <3>1 DEF NotBefore, Waited
  <2>6. CurrentFor(c)'
        BY <2>2 DEF CurrentFor
  <2> QED BY <1>1, <2>1, <2>2, <2>3, <2>4, <2>5, <2>6, CommandStep DEF IInv
<1> QED BY <1>5, <1>6 DEF Update

----------------------------------------------------------------------------
(* The steps of `flux delete`.                                             *)

\* Everything but Delete: only the command itself moves.
LEMMA AskingStep ==
    ASSUME IInv, DeleteGet \/ Agree \/ Decline \/ DeleteFails PROVE IInv' /\ Evolution
<1>1. UNCHANGED <<store, uids, run, job, local, others, finished, lost, removed, disturbed>>
      BY DEF DeleteGet, Agree, Decline, DeleteFails, history
<1>2. /\ Objects' = Objects /\ Creators' = Creators /\ Evolution /\ ReadyIsFinished'
      BY <1>1, NoneWritten
<1>3. /\ del \in DeleteState(Objects) /\ del.failed \in Nat /\ TypeOK
      /\ del.pc \in {"get", "ask", "delete"} => del.names # <<>>
      BY DEF IInv, TypeOK, DeleteState
<1>4. ASSUME del' \in DeleteState(Objects),
             del'.pc \in {"get", "ask", "delete"} => del'.names # <<>>
      PROVE  TypeOK'
      BY <1>1, <1>2, <1>4 DEF IInv, TypeOK, local
<1>5. ASSUME TypeOK', Shown' PROVE IInv' /\ Evolution
      BY <1>1, <1>2, <1>5, OtherStep DEF local
<1>6. CASE del.pc \in {"get", "delete"} /\ del' = NextName(Failure(del)) /\ shown' = shown
  <2>1. /\ del' \in DeleteState(Objects) /\ del'.failed = del.failed + 1
        /\ del'.pc \in {"get", "done"} /\ (del'.pc = "get" => del'.names # <<>>)
        BY <1>3, <1>6, DeleteFacts
  <2>2. TypeOK'
        BY <1>4, <2>1
  <2>3. del'.failed > 0
        BY <1>3, <2>1
  <2>4. Shown'
        BY <1>2, <1>6, <2>2, <2>3, StillShown
  <2> QED BY <1>5, <2>2, <2>4
<1>7. CASE Agree \/ Decline
  <2>1. /\ del' \in DeleteState(Objects) /\ del'.failed = del.failed /\ del'.names = del.names
        /\ del.pc = "ask" /\ del'.pc \in {"delete", "aborted"} /\ shown' = shown
        BY <1>3, <1>7 DEF Agree, Decline, DeleteState, history
  <2>2. TypeOK'
        BY <1>3, <1>4, <2>1
  <2>3. Shown'
        BY <1>2, <2>1, <2>2, StillShown
  <2> QED BY <1>5, <2>2, <2>3
<1>8. CASE /\ del.pc = "get" /\ store[Name] # Absent
           /\ del' = [del EXCEPT !.pc = "ask"]
           /\ shown' = shown \cup {<<Name, store[Name].uid>>}
  <2>1. /\ del' \in DeleteState(Objects) /\ del'.failed = del.failed /\ del'.names = del.names
        /\ del'.pc = "ask"
        BY <1>3, <1>8 DEF DeleteState
  <2>2. TypeOK'
        BY <1>3, <1>4, <1>8, <2>1
  <2>3. Name \in Objects /\ store[Name].uid \in 1..uids
    <3>1. Name \in Objects
          BY <1>3, <1>8, DeleteFacts
    <3>2. store[Name] \in Record /\ store[Name].uid <= uids
          BY <1>8, <3>1 DEF IInv, TypeOK
    <3> QED BY <3>1, <3>2, AbsentMeans DEF IInv, TypeOK
  <2>4. Shown'
    <3>1. Name' = Name /\ Objects' = Objects /\ uids' = uids /\ store' = store
          BY <1>1, <1>2, <2>1 DEF Name
    <3>2. ASSUME NEW x \in shown
          PROVE  x[1] \in Objects /\ x[2] \in 1..uids /\ (del.failed > 0 \/ Gone(x))
          BY <1>8 DEF IInv, Shown
    <3> QED BY <1>8, <2>1, <2>3, <3>1, <3>2 DEF Shown, Gone
  <2> QED BY <1>5, <2>2, <2>4
<1> QED BY <1>6, <1>7, <1>8 DEF DeleteGet, DeleteFails, history

\* What a deletion makes of an object.
LEMMA DeletedMeans ==
    ASSUME TypeOK, NEW o \in Objects, store[o] # Absent
    PROVE  /\ Deleted(o) = [store EXCEPT ![o] = Deleted(o)[o]]
           /\ Deleted(o)[o] \in {Absent} \cup Record
           /\ \/ Deleted(o)[o] = Absent
              \/ /\ Deleted(o)[o] \in Record /\ Deleted(o)[o].deleting
                 /\ Deleted(o)[o].uid = store[o].uid /\ Deleted(o)[o].gen = store[o].gen
                 /\ Deleted(o)[o].ready = store[o].ready
                 /\ Deleted(o)[o].obsGen = store[o].obsGen
<1>1. store \in [Objects -> {Absent} \cup Record] /\ store[o] \in Record
      BY DEF TypeOK
<1>2. CASE o \in Reconciled /\ store[o].obsGen > 0
  <2>1. Deleted(o) = [store EXCEPT ![o].deleting = TRUE]
        BY <1>2 DEF Deleted
  <2>2. Deleted(o)[o] = [store[o] EXCEPT !.deleting = TRUE]
        BY <1>1, <2>1
  <2>3. Deleted(o) = [store EXCEPT ![o] = Deleted(o)[o]]
        BY <1>1, <2>1, <2>2
  <2> QED BY <1>1, <2>2, <2>3 DEF Record
<1>3. CASE ~(o \in Reconciled /\ store[o].obsGen > 0)
  <2>1. Deleted(o) = [store EXCEPT ![o] = Absent]
        BY <1>3 DEF Deleted
  <2> QED BY <1>1, <2>1
<1> QED BY <1>2, <1>3

LEMMA DeleteStep ==
    ASSUME IInv, Delete PROVE IInv' /\ Evolution
<1>1. /\ UNCHANGED <<uids, run, job, pc, at, read, sent, exit, others, shown, finished, lost>>
      /\ del.pc = "delete"
      BY DEF Delete
<1>2. /\ TypeOK /\ uids \in Nat \ {0} /\ Name \in Objects /\ Absent.uid = 0
      /\ store[Name] \in {Absent} \cup Record /\ store[Name].uid <= uids
      /\ del \in DeleteState(Objects) /\ del.failed \in Nat
      BY <1>1, DeleteFacts, AbsentMeans DEF IInv, TypeOK, DeleteState
<1>3. CASE store[Name] = Absent
  <2>1. del' = NextName(Failure(del)) /\ UNCHANGED <<store, stale, removed, disturbed>>
        BY <1>3 DEF Delete
  <2>2. /\ Objects' = Objects /\ Creators' = Creators /\ Evolution /\ ReadyIsFinished'
        BY <1>1, <2>1, NoneWritten
  <2>3. /\ del' \in DeleteState(Objects) /\ del'.failed = del.failed + 1
        /\ del'.pc \in {"get", "done"} /\ (del'.pc = "get" => del'.names # <<>>)
        BY <1>1, <1>2, <2>1, DeleteFacts
  <2>4. TypeOK'
        BY <1>1, <2>1, <2>2, <2>3 DEF IInv, TypeOK
  <2>5. del'.failed > 0
        BY <1>2, <2>3
  <2>6. Shown'
        BY <1>1, <2>2, <2>4, <2>5, StillShown
  <2> QED BY <1>1, <2>1, <2>2, <2>4, <2>6, OtherStep
<1>4. CASE store[Name] # Absent
  <2> DEFINE o == Name
             record == Deleted(Name)[Name]
  <2>1. /\ del' = NextName(del) /\ store' = Deleted(o) /\ stale' = Outdated(o)
        /\ disturbed' = disturbed \cup Disturbs(o, {})
        BY <1>4 DEF Delete
  <2>2. /\ Deleted(o) = [store EXCEPT ![o] = record]
        /\ record \in {Absent} \cup Record
        /\ \/ record = Absent
           \/ /\ record \in Record /\ record.deleting
              /\ record.uid = store[o].uid /\ record.gen = store[o].gen
              /\ record.ready = store[o].ready /\ record.obsGen = store[o].obsGen
        BY <1>2, <1>4, DeletedMeans
  <2> HIDE DEF o, record
  <2>3. /\ o \in Objects /\ store[o] # Absent /\ store[o].uid <= uids
        /\ store[o].gen \in Nat /\ o = Name
        BY <1>2, <1>4, AbsentMeans DEF o
  <2>4. /\ uids' \in Nat \ {0} /\ uids <= uids' /\ record.uid <= uids' /\ job' = job
        /\ finished' = finished /\ store' = [store EXCEPT ![o] = record]
        /\ record = Absent \/ (/\ store[o] # Absent /\ record # Absent
                               /\ record.uid = store[o].uid /\ record.gen >= store[o].gen
                               /\ store[o].deleting => record.deleting)
        BY <1>1, <1>2, <2>1, <2>2, <2>3, AbsentMeans
  <2>5. record # Absent /\ record.ready = "True" => <<record.uid, record.obsGen>> \in finished'
        BY <2>2, <2>3, <2>4 DEF IInv, ReadyIsFinished
  <2>6. /\ Objects' = Objects /\ Creators' = Creators
        /\ store' \in [Objects -> {Absent} \cup Record]
        /\ store'[o] = record
        /\ \A x \in Objects : store'[x].uid <= uids'
        /\ stale' \in [Creators -> BOOLEAN]
        /\ Evolution /\ ReadyIsFinished'
        /\ \A c \in Creators : pc[c] = "write" /\ ~stale'[c] =>
              ~stale[c] /\ store'[Step(c).object] = store[Step(c).object]
        BY <2>1, <2>2, <2>3, <2>4, <2>5, OneWritten
  <2>7. /\ del' \in DeleteState(Objects) /\ del'.failed = del.failed
        /\ del'.pc \in {"get", "done"} /\ (del'.pc = "get" => del'.names # <<>>)
        BY <1>1, <1>2, <2>1, DeleteFacts
  <2>8. disturbed' \subseteq Creators
        BY <2>1 DEF IInv, TypeOK, Disturbs
  <2>9. TypeOK'
        BY <1>1, <2>4, <2>6, <2>7, <2>8 DEF IInv, TypeOK
  <2>10. Shown'
    <3>1. store'[Name] = Absent \/ store'[Name].deleting
          BY <2>2, <2>3, <2>6
    <3> QED BY <1>1, <2>6, <2>7, <2>9, <3>1, StillShown
  <2> QED BY <1>1, <2>6, <2>9, <2>10, OtherStep
<1> QED BY <1>3, <1>4

----------------------------------------------------------------------------
(* The steps of other users and of the controller.                         *)

\* Other users write.
LEMMA UserStep ==
    ASSUME IInv, NEW o \in Objects, OtherEdit(o) \/ OtherCreate(o) \/ OtherDelete(o)
    PROVE  IInv' /\ Evolution
<1>1. PICK record : OtherWrites(o, record)
                    /\ \/ /\ store[o] # Absent /\ uids' = uids
                          /\ record = [store[o] EXCEPT !.spec = "other", !.gen = @ + 1]
                       \/ record = Fresh(uids + 1, "other", {}) /\ uids' = uids + 1
                       \/ store[o] # Absent /\ record = Deleted(o)[o] /\ uids' = uids
      BY DEF OtherEdit, OtherCreate, OtherDelete
<1>2. /\ store' = [store EXCEPT ![o] = record] /\ stale' = Outdated(o)
      /\ disturbed' = disturbed \cup Disturbs(o, {}) /\ others < MaxOther /\ others' = others + 1
      /\ UNCHANGED <<run, job, pc, at, read, sent, exit, del, shown, finished, lost>>
      BY <1>1 DEF OtherWrites
<1>3. /\ TypeOK /\ uids \in Nat \ {0} /\ others \in 0..MaxOther /\ MaxOther \in Nat
      /\ store[o] \in {Absent} \cup Record /\ store[o].uid <= uids /\ Absent.uid = 0
      /\ "other" \in Specs
      BY CreateDeleteAssumption, AbsentMeans DEF IInv, TypeOK
<1>4. /\ record \in {Absent} \cup Record
      /\ uids' \in Nat \ {0} /\ uids <= uids' /\ record.uid <= uids'
      /\ record = Absent \/ (record.uid = uids + 1 /\ uids' = uids + 1)
         \/ (/\ store[o] # Absent /\ record # Absent
             /\ record.uid = store[o].uid /\ record.gen >= store[o].gen
             /\ store[o].deleting => record.deleting)
      /\ record # Absent /\ record.ready = "True" =>
            record.ready = store[o].ready /\ record.uid = store[o].uid
            /\ record.obsGen = store[o].obsGen /\ store[o] # Absent
  <2>1. CASE /\ store[o] # Absent /\ uids' = uids
             /\ record = [store[o] EXCEPT !.spec = "other", !.gen = @ + 1]
    <3>1. store[o] \in Record /\ store[o].gen \in Nat \ {0} /\ store[o].uid \in Nat \ {0}
          BY <1>3, <2>1, AbsentMeans
    <3>2. /\ record \in Record /\ record.uid = store[o].uid /\ record.gen = store[o].gen + 1
          /\ record.deleting = store[o].deleting /\ record.ready = store[o].ready
          /\ record.obsGen = store[o].obsGen
          BY <1>3, <2>1, <3>1, EditedType
    <3> QED BY <1>3, <2>1, <3>1, <3>2, AbsentMeans
  <2>2. CASE record = Fresh(uids + 1, "other", {}) /\ uids' = uids + 1
    <3>1. uids + 1 \in Nat \ {0} /\ {} \in SUBSET Labels
          BY <1>3
    <3>2. record \in Record /\ record.uid = uids + 1 /\ record.ready = "none"
          BY <1>3, <2>2, <3>1, FreshType
    <3> QED BY <1>3, <2>2, <3>1, <3>2
  <2>3. CASE store[o] # Absent /\ record = Deleted(o)[o] /\ uids' = uids
    <3>1. store[o].gen \in Nat
          BY <1>3, <2>3, AbsentMeans
    <3>2. CASE record = Absent
          BY <1>3, <2>3, <3>2
    <3>3. CASE record # Absent
          BY <1>3, <2>3, <3>1, <3>3, DeletedMeans, AbsentMeans
    <3> QED BY <3>2, <3>3
  <2> QED BY <1>1, <2>1, <2>2, <2>3
<1>5. record # Absent /\ record.ready = "True" => <<record.uid, record.obsGen>> \in finished'
      BY <1>2, <1>4 DEF IInv, ReadyIsFinished
<1>6. /\ Objects' = Objects /\ Creators' = Creators
      /\ store' \in [Objects -> {Absent} \cup Record]
      /\ \A x \in Objects : store'[x].uid <= uids'
      /\ stale' \in [Creators -> BOOLEAN]
      /\ Evolution /\ ReadyIsFinished'
      /\ \A c \in Creators : pc[c] = "write" /\ ~stale'[c] =>
            ~stale[c] /\ store'[Step(c).object] = store[Step(c).object]
      BY <1>2, <1>4, <1>5, OneWritten
<1>7. TypeOK'
  <2>1. disturbed' \subseteq Creators /\ others' \in 0..MaxOther
        BY <1>2, <1>3 DEF TypeOK, Disturbs
  <2> QED BY <1>2, <1>4, <1>6, <2>1 DEF IInv, TypeOK
<1>8. Shown'
      BY <1>2, <1>6, <1>7, StillShown
<1> QED BY <1>2, <1>6, <1>7, <1>8, OtherStep

LEMMA ControllerStep ==
    ASSUME IInv, NEW o \in Objects,
           StartReconciling(o) \/ FinishReconciling(o) \/ Finalize(o)
    PROVE  IInv' /\ Evolution
<1>1. /\ TypeOK /\ uids \in Nat \ {0} /\ store[o] \in {Absent} \cup Record
      /\ store[o].uid <= uids /\ Absent.uid = 0 /\ run \in [Objects -> {Idle} \cup ObjectRun]
      /\ Idle.uid = 0 /\ run[o] \in {Idle} \cup ObjectRun
      /\ \A r \in ObjectRun : r.uid \in Nat \ {0} /\ r.gen \in Nat
      BY AbsentMeans DEF IInv, TypeOK, Idle, ObjectRun
\* A write of the status.
<1>2. ASSUME NEW record \in {Absent} \cup Record, StatusWritten(o, record),
             record = Absent \/ (/\ store[o] # Absent /\ record # Absent
                                 /\ record.uid = store[o].uid /\ record.gen = store[o].gen
                                 /\ record.deleting = store[o].deleting),
             finished \subseteq finished',
             record # Absent /\ record.ready = "True" =>
                 <<record.uid, record.obsGen>> \in finished',
             run' \in [Objects -> {Idle} \cup ObjectRun]
      PROVE  IInv' /\ Evolution
  <2>1. /\ store' = [store EXCEPT ![o] = record] /\ stale' = Outdated(o)
        /\ UNCHANGED <<uids, job, pc, at, read, sent, exit, del, others, shown, lost, removed,
                       disturbed>>
        BY <1>2 DEF StatusWritten
  <2>2. /\ uids' \in Nat \ {0} /\ uids <= uids' /\ record.uid <= uids'
        /\ record = Absent \/ (/\ store[o] # Absent /\ record # Absent
                               /\ record.uid = store[o].uid /\ record.gen >= store[o].gen
                               /\ store[o].deleting => record.deleting)
        BY <1>1, <1>2, <2>1, AbsentMeans
  <2>3. /\ Objects' = Objects /\ Creators' = Creators
        /\ store' \in [Objects -> {Absent} \cup Record]
        /\ \A x \in Objects : store'[x].uid <= uids'
        /\ stale' \in [Creators -> BOOLEAN]
        /\ Evolution /\ ReadyIsFinished'
        /\ \A c \in Creators : pc[c] = "write" /\ ~stale'[c] =>
              ~stale[c] /\ store'[Step(c).object] = store[Step(c).object]
        BY <1>2, <2>1, <2>2, OneWritten
  <2>4. TypeOK'
        BY <1>2, <2>1, <2>3 DEF IInv, TypeOK
  <2>5. Shown'
        BY <2>1, <2>3, <2>4, StillShown
  <2> QED BY <2>1, <2>3, <2>4, <2>5, OtherStep
<1>3. CASE StartReconciling(o)
  <2> DEFINE record == [store[o] EXCEPT !.reconciling = TRUE, !.ready = "Unknown"]
             started == [uid |-> store[o].uid, gen |-> store[o].gen,
                         credentials |-> store[Secret] # Absent]
  <2>1. /\ store[o] # Absent /\ StatusWritten(o, record) /\ finished' = finished
        /\ run' = [run EXCEPT ![o] = started]
        BY <1>3 DEF StartReconciling
  <2>2. store[o] \in Record
        BY <1>1, <2>1
  <2>3. /\ record \in Record /\ record.uid = store[o].uid /\ record.gen = store[o].gen
        /\ record.deleting = store[o].deleting /\ record.ready = "Unknown"
        BY <2>2 DEF Record, ReadyStatus
  <2>4. started \in ObjectRun
        BY <2>2 DEF Record, ObjectRun
  <2> HIDE DEF record, started
  <2>5. record # Absent /\ record.ready # "True"
        BY <2>3, AbsentMeans
  <2>6. run' \in [Objects -> {Idle} \cup ObjectRun]
        BY <1>1, <2>1, <2>4
  <2> QED BY <1>2, <2>1, <2>3, <2>5, <2>6
<1>4. CASE FinishReconciling(o)
  <2>1. /\ run[o] # Idle /\ run' = [run EXCEPT ![o] = Idle]
        /\ run' \in [Objects -> {Idle} \cup ObjectRun]
        BY <1>1, <1>4 DEF FinishReconciling
  <2>2. CASE UNCHANGED <<store, uids, job, local, del, others, history>>
    <3>1. /\ Objects' = Objects /\ Creators' = Creators /\ Evolution /\ ReadyIsFinished'
          BY <2>2, NoneWritten DEF history
    <3>2. TypeOK'
          BY <2>1, <2>2, <3>1 DEF IInv, TypeOK, local, history
    <3>3. Shown'
          BY <2>2, <3>1, <3>2, StillShown DEF history
    <3> QED BY <2>2, <3>1, <3>2, <3>3, OtherStep DEF local, history
  <2>3. ASSUME store[o].uid = run[o].uid, NEW ready \in {"True", "False"}, NEW has \in BOOLEAN,
               StatusWritten(o, [store[o] EXCEPT !.obsGen = run[o].gen, !.ready = ready,
                                     !.artifact = has, !.reconciling = FALSE,
                                     !.stalled = (ready = "False")]),
               finished' = finished \cup
                    (IF ready = "True" THEN {<<run[o].uid, run[o].gen>>} ELSE {})
        PROVE  IInv' /\ Evolution
    <3> DEFINE record == [store[o] EXCEPT !.obsGen = run[o].gen, !.ready = ready,
                                     !.artifact = has, !.reconciling = FALSE,
                                     !.stalled = (ready = "False")]
    <3>1. run[o].uid \in Nat \ {0} /\ run[o].gen \in Nat
          BY <1>1, <2>1
    <3>2. store[o] # Absent /\ store[o] \in Record
          BY <1>1, <2>3, <3>1
    <3>3. /\ record \in Record /\ record.uid = store[o].uid /\ record.gen = store[o].gen
          /\ record.deleting = store[o].deleting /\ record.ready = ready
          /\ record.obsGen = run[o].gen
          BY <3>1, <3>2 DEF Record, ReadyStatus
    <3>4. StatusWritten(o, record)
          BY <2>3
    <3> HIDE DEF record
    <3>5. /\ finished \subseteq finished'
          /\ record.ready = "True" => <<record.uid, record.obsGen>> \in finished'
          BY <2>3, <3>3
    <3> QED BY <1>2, <2>1, <3>2, <3>3, <3>4, <3>5, AbsentMeans
  <2> QED BY <1>4, <2>2, <2>3 DEF FinishReconciling
<1>5. CASE Finalize(o)
      BY <1>1, <1>2, <1>5 DEF Finalize
<1> QED BY <1>3, <1>4, <1>5

----------------------------------------------------------------------------
(* The theorems.                                                           *)

\* The first job of a scenario starts at its first object.
LEMMA InitIInv == Init => IInv
<1> SUFFICES ASSUME Init PROVE IInv
    OBVIOUS
<1>1. PICK s \in Scenarios :
          /\ store = s.cluster /\ job = s.jobs
          /\ del = [names |-> s.names, pc |-> IF s.names = <<>> THEN "done" ELSE "get", failed |-> 0]
      BY DEF Init
<1>2. /\ store \in [Objects -> {Absent} \cup {r \in Record : r.uid = 1 /\ ~r.deleting}]
      /\ s.names \in Seq(Objects) /\ MaxOther \in Nat
      /\ \A c \in Creators : IsJob(job[c], Objects)
      BY <1>1, CreateDeleteAssumption DEF Objects, Creators
<1>3. /\ uids = 1 /\ others = 0 /\ shown = {} /\ lost = FALSE /\ disturbed = {}
      /\ run = [o \in Objects |-> Idle]
      /\ pc = [c \in Creators |-> "idle"] /\ at = [c \in Creators |-> 1]
      /\ read = [c \in Creators |-> Absent] /\ stale = [c \in Creators |-> FALSE]
      /\ sent = [c \in Creators |-> [uid |-> 0, gen |-> 0]]
      /\ exit = [c \in Creators |-> "running"]
      /\ finished = {<<store[o].uid, store[o].obsGen>> : o \in {x \in Objects : store[x] # Absent}}
      BY DEF Init
<1>4. ASSUME NEW c \in Creators PROVE 1 \in DOMAIN job[c].plan
  <2>1. job[c].plan \in Seq(StepOf(Objects)) /\ job[c].plan # <<>>
        BY <1>2 DEF IsJob, StepOf
  <2> QED BY <2>1
<1>5. /\ store \in [Objects -> {Absent} \cup Record] /\ \A o \in Objects : store[o].uid <= uids
      BY <1>2, <1>3, AbsentMeans
<1>6. del \in DeleteState(Objects) /\ (del.pc \in {"get", "ask", "delete"} => del.names # <<>>)
      BY <1>1, <1>2 DEF DeleteState
<1>7. TypeOK
      BY <1>2, <1>3, <1>4, <1>5, <1>6 DEF TypeOK
<1>8. Waiting
      BY <1>3 DEF Waiting, CurrentFor, SentFor
<1>9. ReadyIsFinished
      BY <1>3 DEF ReadyIsFinished
<1> QED BY <1>3, <1>7, <1>8, <1>9 DEF IInv, Shown

\* Every step keeps the invariant, and objects evolve as Evolves says.
LEMMA NextIInv == IInv /\ [Next]_vars => IInv' /\ Evolution
<1> SUFFICES ASSUME IInv, [Next]_vars PROVE IInv' /\ Evolution
    OBVIOUS
<1>1. CASE \E c \in Creators :
              Begin(c) \/ Get(c) \/ Create(c) \/ Update(c) \/ Recreate(c) \/ Poll(c) \/ CallFails(c)
      BY <1>1, BeginStep, GetStep, CreateStep, UpdateStep, RecreateStep, EndStep
<1>2. CASE DeleteGet \/ Agree \/ Decline \/ Delete \/ DeleteFails
      BY <1>2, AskingStep, DeleteStep
<1>3. CASE \E o \in Objects : OtherEdit(o) \/ OtherCreate(o) \/ OtherDelete(o)
      BY <1>3, UserStep
<1>4. CASE \E o \in Objects : StartReconciling(o) \/ FinishReconciling(o) \/ Finalize(o)
      BY <1>4, ControllerStep
<1>5. CASE UNCHANGED vars
  <2>1. /\ UNCHANGED <<store, uids, run, job, local, del, others, history>>
        BY <1>5 DEF vars
  <2>2. /\ Objects' = Objects /\ Creators' = Creators /\ Evolution /\ ReadyIsFinished'
        BY <2>1, NoneWritten DEF history
  <2>3. TypeOK'
        BY <2>1, <2>2 DEF IInv, TypeOK, local, history
  <2>4. Shown'
        BY <2>1, <2>2, <2>3, StillShown DEF history
  <2> QED BY <2>1, <2>2, <2>3, <2>4, OtherStep DEF local, history
<1> QED BY <1>1, <1>2, <1>3, <1>4, <1>5 DEF Next

\* The invariant holds in every state.
THEOREM Invariance == Spec => []IInv
<1>1. Init => IInv
      BY InitIInv
<1>2. IInv /\ [Next]_vars => IInv'
      BY NextIInv
<1> QED BY <1>1, <1>2, PTL DEF Spec

\* Whatever several users create at once, no update takes away a change that its
\* command has not read.
THEOREM NothingIsLost == Spec => []NothingLost
<1>1. IInv => NothingLost
      BY DEF IInv, NothingLost
<1> QED BY <1>1, Invariance, PTL

\* When `flux delete` succeeds, what the user was asked about is gone or going,
\* whatever has been created with the same names meanwhile.
THEOREM GoneForGood == Spec => []DeletedMeansGone
<1>1. IInv => DeletedMeansGone
  <2> SUFFICES ASSUME IInv, del.pc = "done", del.failed = 0, NEW s \in shown
               PROVE  store[s[1]].uid # s[2] \/ store[s[1]].deleting
      BY DEF DeletedMeansGone
  <2> QED BY DEF IInv, Shown, Gone
<1> QED BY <1>1, Invariance, PTL

\* A command's own step moves it on, and nobody else.
LEMMA OwnStepMoves ==
    ASSUME TypeOK, NEW x \in Creators,
           Begin(x) \/ Get(x) \/ Create(x) \/ Update(x) \/ Recreate(x) \/ Poll(x) \/ CallFails(x)
    PROVE  /\ pc'[x] # pc[x]
           /\ \A c \in Creators \ {x} :
                 pc'[c] = pc[c] /\ at'[c] = at[c] /\ read'[c] = read[c] /\ exit'[c] = exit[c]
<1>1. /\ pc \in [Creators -> {"idle", "get", "write", "create", "poll", "done"}]
      /\ at \in [Creators -> Nat] /\ exit \in [Creators -> {"running", "ok", "err"}]
      /\ read \in [Creators -> {Absent} \cup Main]
      BY DEF TypeOK
<1>2. CASE Begin(x)
      BY <1>1, <1>2 DEF Begin
<1>3. CASE Get(x)
      BY <1>1, <1>3 DEF Get
<1>4. ASSUME NEW how, End(x, how), UNCHANGED <<at, read>>, pc[x] # "done"
      PROVE  /\ pc'[x] # pc[x]
             /\ \A c \in Creators \ {x} :
                 pc'[c] = pc[c] /\ at'[c] = at[c] /\ read'[c] = read[c] /\ exit'[c] = exit[c]
      BY <1>1, <1>4 DEF End
<1>5. ASSUME Proceed(x), UNCHANGED read, pc[x] \in {"write", "create"}
      PROVE  /\ pc'[x] # pc[x]
             /\ \A c \in Creators \ {x} :
                 pc'[c] = pc[c] /\ at'[c] = at[c] /\ read'[c] = read[c] /\ exit'[c] = exit[c]
      BY <1>1, <1>5 DEF Proceed, End
<1>6. CASE Create(x)
      BY <1>4, <1>5, <1>6 DEF Create
<1>7. CASE Update(x)
  <2>1. \/ End(x, "err") /\ UNCHANGED <<at, read>>
        \/ Proceed(x) /\ UNCHANGED read
        BY <1>7 DEF Update
  <2> QED BY <1>4, <1>5, <1>7, <2>1 DEF Update
<1>8. CASE Recreate(x)
  <2>1. CASE pc' = [pc EXCEPT ![x] = "create"] /\ UNCHANGED <<at, exit, read>> /\ pc[x] = "write"
        BY <1>1, <2>1
  <2>2. \/ End(x, "err") /\ UNCHANGED <<at, read>>
        \/ Proceed(x) /\ UNCHANGED read
        \/ pc' = [pc EXCEPT ![x] = "create"] /\ UNCHANGED <<at, exit, read>>
        BY <1>8 DEF Recreate
  <2> QED BY <1>4, <1>5, <1>8, <2>1, <2>2 DEF Recreate
<1>9. CASE Poll(x) \/ CallFails(x)
      BY <1>4, <1>9 DEF Poll, CallFails, Running
<1> QED BY <1>2, <1>3, <1>6, <1>7, <1>8, <1>9

\* A command moves by its own steps only.
LEMMA OnlyOwnStepMoves ==
    ASSUME TypeOK, [Next]_vars, NEW c \in Creators,
           ~(Begin(c) \/ Get(c) \/ Create(c) \/ Update(c) \/ Recreate(c) \/ Poll(c) \/ CallFails(c))
    PROVE  pc'[c] = pc[c] /\ exit'[c] = exit[c] /\ at'[c] = at[c]
<1>1. ASSUME NEW x \in Creators,
             Begin(x) \/ Get(x) \/ Create(x) \/ Update(x) \/ Recreate(x) \/ Poll(x) \/ CallFails(x)
      PROVE  pc'[c] = pc[c] /\ exit'[c] = exit[c] /\ at'[c] = at[c]
      BY <1>1, OwnStepMoves
<1>2. ASSUME NEW o \in Objects, OtherEdit(o) \/ OtherCreate(o) \/ OtherDelete(o)
      PROVE  UNCHANGED <<pc, exit, at>>
      BY <1>2 DEF OtherEdit, OtherCreate, OtherDelete, OtherWrites
<1>3. ASSUME NEW o \in Objects, StartReconciling(o) \/ FinishReconciling(o) \/ Finalize(o)
      PROVE  UNCHANGED <<pc, exit, at>>
      BY <1>3 DEF StartReconciling, FinishReconciling, Finalize, StatusWritten, local
<1>4. ASSUME DeleteGet \/ Agree \/ Decline \/ Delete \/ DeleteFails \/ UNCHANGED vars
      PROVE  UNCHANGED <<pc, exit, at>>
      BY <1>4 DEF DeleteGet, Agree, Decline, Delete, DeleteFails, vars, local
<1> QED BY <1>1, <1>2, <1>3, <1>4 DEF Next

\* A command that waits for a dynamic object succeeds by a poll only.
LEMMA OnlyPollEndsWell ==
    ASSUME TypeOK, [Next]_vars, NEW c \in Creators,
           exit[c] = "running", exit'[c] = "ok", job[c].waits = "dynamic"
    PROVE  Poll(c)
<1>1. exit \in [Creators -> {"running", "ok", "err"}]
      BY DEF TypeOK
<1>2. Begin(c) \/ Get(c) \/ Create(c) \/ Update(c) \/ Recreate(c) \/ Poll(c) \/ CallFails(c)
      BY OnlyOwnStepMoves
<1>3. ~(Begin(c) \/ Get(c))
      BY <1>1 DEF Begin, Get
<1>4. ASSUME End(c, "err") PROVE FALSE
      BY <1>1, <1>4 DEF End
<1>5. ASSUME Proceed(c) PROVE FALSE
      BY <1>1, <1>5 DEF Proceed, End
<1>6. ~(Create(c) \/ Update(c) \/ Recreate(c) \/ CallFails(c))
      BY <1>1, <1>4, <1>5 DEF Create, Update, Recreate, CallFails
<1> QED BY <1>2, <1>3, <1>6

\* What a poll takes for a dynamic object that is ready.
LEMMA ReadyMeans ==
    ASSUME NEW o \in Record, Ready("dynamic", o) = "done"
    PROVE  o.obsGen = o.gen /\ o.ready = "True"
<1>1. IsObjectReady("plain", o) = "done"
      BY DEF Ready
<1>2. o.obsGen = o.gen /\ o.ready # "none" /\ StatusSwitch("plain", o) = "done"
      BY <1>1 DEF IsObjectReady
<1>3. KStatus("plain", o) = "Current"
      BY <1>2 DEF StatusSwitch, KStatus
<1> QED BY <1>2, <1>3 DEF KStatus, Record, ReadyStatus

\* A command that waits for what it has written succeeds only when the controller
\* has reconciled it as it was written, or as it became later.
THEOREM WaitsForItsOwn == Spec => SuccessMeansReconciled
<1>1. IInv /\ [Next]_vars =>
          \A c \in Creators :
              /\ exit[c] = "running" /\ exit'[c] = "ok" /\ job[c].waits = "dynamic"
              /\ store[Waited(c)].uid = sent[c].uid
              => \E f \in finished : f[1] = sent[c].uid /\ f[2] >= sent[c].gen
  <2> SUFFICES ASSUME IInv, [Next]_vars, NEW c \in Creators,
                      exit[c] = "running", exit'[c] = "ok", job[c].waits = "dynamic",
                      store[Waited(c)].uid = sent[c].uid
               PROVE  \E f \in finished : f[1] = sent[c].uid /\ f[2] >= sent[c].gen
      OBVIOUS
  <2> DEFINE o == Waited(c)
  <2>1. Poll(c)
        BY OnlyPollEndsWell DEF IInv
  <2>2. /\ pc[c] = "poll" /\ store[o] # Absent /\ Ready("dynamic", store[o]) = "done"
        BY <2>1 DEF Poll, End, IInv, TypeOK
  <2>3. o \in Objects /\ store[o] \in Record
        BY <2>2, JobFacts DEF IInv, TypeOK
  <2>4. store[o].obsGen = store[o].gen /\ store[o].ready = "True"
        BY <2>2, <2>3, ReadyMeans
  <2>5. <<store[o].uid, store[o].obsGen>> \in finished
        BY <2>2, <2>3, <2>4 DEF IInv, ReadyIsFinished
  <2>6. store[o].gen >= sent[c].gen
        BY <2>2 DEF IInv, Waiting, SentFor, NotBefore
  <2> DEFINE f == <<store[o].uid, store[o].obsGen>>
  <2>7. f \in finished /\ f[1] = sent[c].uid /\ f[2] >= sent[c].gen
        BY <2>4, <2>5, <2>6
  <2> QED BY <2>7
<1> QED BY <1>1, Invariance, PTL DEF Spec, SuccessMeansReconciled

----------------------------------------------------------------------------
(* What several objects of a command are left as: a second invariant, that *)
(* holds with the first one.                                               *)

Stays(o) == store[o] # Absent /\ ~store[o].deleting

Asked(s) == (s.how # "labels" => store[s.object].spec = s.spec)
            /\ s.labels \subseteq store[s.object].labels

\* The objects of a command that it is done with.
Written(c) == IF pc[c] \in {"poll", "done"} THEN at[c] ELSE at[c] - 1

AskedAt(c, i) == LET s == job[c].plan[i] IN
    /\ store[s.object] # Absent => Asked(s)
    /\ s.object \notin Reconciled \/ pc[c] = "done" => Stays(s.object)

AsRead(c) == LET o == Step(c).object IN
    /\ read[c] = Absent => store[o] = Absent
    /\ read[c] # Absent /\ store[o] # Absent => SameContent(store[o], read[c])
    /\ read[c] # Absent /\ o \notin Reconciled => store[o] # Absent

\* A command that nobody has disturbed has left what it is done with as asked, and
\* deals with an object as it has read it: only what is deleted can go meanwhile.
UndisturbedFor(c) ==
    /\ exit[c] = "running" <=> pc[c] # "done"
    /\ pc[c] = "idle" => at[c] = 1
    /\ pc[c] = "poll" => job[c].waits # "none"
    /\ c \notin disturbed /\ exit[c] # "err" /\ pc[c] # "idle" =>
          /\ \A i \in 1..Written(c) : AskedAt(c, i)
          /\ pc[c] = "write" => AsRead(c)
          /\ pc[c] \in {"poll", "done"} => at[c] = Len(job[c].plan)

Undisturbed == \A c \in Creators : UndisturbedFor(c)

\* Only what a controller reconciles has a finalizer.
Finalizers == \A o \in Objects : store[o] # Absent /\ store[o].deleting => o \in Reconciled

SecretIsThere == store[Secret] # Absent \/ Secret \in removed

\* The Secret is there when a job is past it, and when something refers to it.
SecretBefore ==
    /\ \A c \in Creators : \A i \in DOMAIN job[c].plan :
          job[c].plan[i].object = Secret /\ i < at[c] => SecretIsThere
    /\ \A o \in Objects \cap Reconciled :
          store[o] # Absent /\ store[o].spec \in NeedSecret(job) => SecretIsThere
    /\ SecretFirst(job) /\ "other" \notin NeedSecret(job)

JInv == Undisturbed /\ Finalizers /\ SecretBefore

----------------------------------------------------------------------------
(* What is left as asked.                                                  *)

\* What a step of the controller does to an object: its spec and labels stay, and
\* only what is deleted goes.
Undisturbing(o) ==
    \/ store'[o] = store[o]
    \/ /\ store[o] # Absent /\ store'[o] # Absent
       /\ SameContent(store'[o], store[o]) /\ store'[o].deleting = store[o].deleting
    \/ store[o] # Absent /\ store[o].deleting /\ store'[o] = Absent

\* The objects of a job are distinct; what is reconciled comes last and is waited for.
LEMMA PlanFacts ==
    ASSUME TypeOK, NEW c \in Creators
    PROVE  /\ \A i \in 1..Len(job[c].plan) : job[c].plan[i].object \in Objects
           /\ \A i \in 1..Len(job[c].plan) :
                 job[c].plan[i].object = Step(c).object => i = at[c]
           /\ \A i \in 1..Len(job[c].plan) : job[c].plan[i].object \in Reconciled =>
                 i = Len(job[c].plan) /\ job[c].waits # "none"
           /\ job[c].waits # "none" => job[c].plan[Len(job[c].plan)].how # "recreate"
<1>1. IsJob(job[c], Objects) /\ at[c] \in 1..Len(job[c].plan)
      /\ DOMAIN job[c].plan = 1..Len(job[c].plan)
      /\ \A i \in 1..Len(job[c].plan) : job[c].plan[i] \in StepOf(Objects)
      BY JobFacts DEF TypeOK
<1>2. \A i \in 1..Len(job[c].plan) : job[c].plan[i].object \in Objects
      BY <1>1 DEF StepOf
<1> QED BY <1>1, <1>2 DEF IsJob, Step

\* As long as a command is not disturbed, only the controller touches its objects
\* while others move.
LEMMA QuietStep ==
    ASSUME IInv, [Next]_vars, NEW c \in Creators, pc[c] # "idle", pc'[c] = pc[c],
           c \notin disturbed', NEW i \in DOMAIN job[c].plan
    PROVE  /\ at'[c] = at[c] /\ read'[c] = read[c] /\ exit'[c] = exit[c]
           /\ c \notin disturbed /\ Undisturbing(job[c].plan[i].object)
<1> DEFINE object == job[c].plan[i].object
<1>1. TypeOK /\ object \in Objects
      BY PlanFacts, JobFacts DEF IInv
<1>2. ASSUME store' = store, disturbed' = disturbed
      PROVE  c \notin disturbed /\ Undisturbing(object)
      BY <1>2 DEF Undisturbing
<1>3. ASSUME NEW o, NEW record, store' = [store EXCEPT ![o] = record],
             NEW by, disturbed' = disturbed \cup Disturbs(o, by), c \notin by
      PROVE  c \notin disturbed /\ Undisturbing(object)
  <2>1. c \notin Disturbs(o, by) /\ c \notin disturbed
        BY <1>3
  <2>2. object # o
        BY <1>3, <2>1 DEF Disturbs
  <2>3. store'[object] = store[object]
        BY <1>1, <1>3, <2>2 DEF TypeOK
  <2> QED BY <2>1, <2>3 DEF Undisturbing
<1>4. ASSUME NEW x \in Creators,
             Begin(x) \/ Get(x) \/ Create(x) \/ Update(x) \/ Recreate(x) \/ Poll(x) \/ CallFails(x)
      PROVE  /\ at'[c] = at[c] /\ read'[c] = read[c] /\ exit'[c] = exit[c]
             /\ c \notin disturbed /\ Undisturbing(object)
  <2>1. /\ x # c
        /\ at'[c] = at[c] /\ read'[c] = read[c] /\ exit'[c] = exit[c]
        BY <1>1, <1>4, OwnStepMoves
  <2>2. \/ UNCHANGED <<store, disturbed>>
        \/ \E record : Stored(x, Step(x).object, record)
        BY <1>4 DEF Begin, Get, Create, Update, Recreate, Poll, CallFails, history
  <2>3. ASSUME NEW record, Stored(x, Step(x).object, record)
        PROVE  c \notin disturbed /\ Undisturbing(object)
    <3>1. /\ store' = [store EXCEPT ![Step(x).object] = record]
          /\ disturbed' = disturbed \cup Disturbs(Step(x).object, {x})
          BY <2>3 DEF Stored
    <3>2. c \notin {x}
          BY <2>1
    <3> QED BY <1>3, <3>1, <3>2
  <2> QED BY <1>2, <2>1, <2>2, <2>3
<1>5. ASSUME DeleteGet \/ Agree \/ Decline \/ DeleteFails \/ UNCHANGED vars
      PROVE  /\ at'[c] = at[c] /\ read'[c] = read[c] /\ exit'[c] = exit[c]
             /\ c \notin disturbed /\ Undisturbing(object)
  <2>1. UNCHANGED <<store, local, disturbed>>
        BY <1>5 DEF DeleteGet, Agree, Decline, DeleteFails, vars, history
  <2> QED BY <1>2, <2>1 DEF local
<1>6. ASSUME Delete
      PROVE  /\ at'[c] = at[c] /\ read'[c] = read[c] /\ exit'[c] = exit[c]
             /\ c \notin disturbed /\ Undisturbing(object)
  <2>1. UNCHANGED <<at, read, exit>>
        BY <1>6 DEF Delete
  <2>2. \/ UNCHANGED <<store, disturbed>>
        \/ store[Name] # Absent /\ store' = Deleted(Name) /\ disturbed' = disturbed \cup Disturbs(Name, {})
        BY <1>6 DEF Delete
  <2>3. Name \in Objects
        BY <1>1, <1>6, DeleteFacts DEF Delete
  <2>4. \/ UNCHANGED <<store, disturbed>>
        \/ /\ store' = [store EXCEPT ![Name] = Deleted(Name)[Name]]
           /\ disturbed' = disturbed \cup Disturbs(Name, {})
        BY <1>1, <2>2, <2>3, DeletedMeans
  <2>5. c \notin {}
        OBVIOUS
  <2> QED BY <1>2, <1>3, <2>1, <2>4, <2>5
<1>7. ASSUME NEW o \in Objects, OtherEdit(o) \/ OtherCreate(o) \/ OtherDelete(o)
      PROVE  /\ at'[c] = at[c] /\ read'[c] = read[c] /\ exit'[c] = exit[c]
             /\ c \notin disturbed /\ Undisturbing(object)
  <2>1. PICK record : OtherWrites(o, record)
        BY <1>7 DEF OtherEdit, OtherCreate, OtherDelete
  <2>2. /\ UNCHANGED <<at, read, exit>> /\ store' = [store EXCEPT ![o] = record]
        /\ disturbed' = disturbed \cup Disturbs(o, {}) /\ c \notin {}
        BY <2>1 DEF OtherWrites
  <2> QED BY <1>3, <2>2
<1>8. ASSUME NEW o \in Objects, StartReconciling(o) \/ FinishReconciling(o) \/ Finalize(o)
      PROVE  /\ at'[c] = at[c] /\ read'[c] = read[c] /\ exit'[c] = exit[c]
             /\ c \notin disturbed /\ Undisturbing(object)
  <2>1. UNCHANGED <<at, read, exit, disturbed>>
        BY <1>8 DEF StartReconciling, FinishReconciling, Finalize, StatusWritten, local, history
  <2>2. CASE store' = store
        BY <1>2, <2>1, <2>2
  <2>3. CASE store' # store
    <3>1. PICK record : StatusWritten(o, record)
                        /\ \/ /\ store[o] # Absent /\ record # Absent
                              /\ SameContent(record, store[o])
                              /\ record.deleting = store[o].deleting
                           \/ store[o] # Absent /\ store[o].deleting /\ record = Absent
      <4>1. CASE StartReconciling(o)
        <5> DEFINE record == [store[o] EXCEPT !.reconciling = TRUE, !.ready = "Unknown"]
        <5>1. StatusWritten(o, record) /\ store[o] \in Record
              BY <1>1, <4>1 DEF StartReconciling, TypeOK
        <5>2. /\ record \in Record /\ SameContent(record, store[o])
              /\ record.deleting = store[o].deleting
              BY <5>1 DEF Record, ReadyStatus, SameContent
        <5> QED BY <5>1, <5>2, AbsentMeans
      <4>2. CASE FinishReconciling(o)
        <5>1. PICK ready \in {"True", "False"}, has \in BOOLEAN :
                StatusWritten(o, [store[o] EXCEPT !.obsGen = run[o].gen, !.ready = ready,
                                     !.artifact = has, !.reconciling = FALSE,
                                     !.stalled = (ready = "False")])
                /\ store[o].uid = run[o].uid /\ run[o] # Idle
              BY <2>3, <4>2 DEF FinishReconciling
        <5>2. run[o] \in ObjectRun /\ store[o] \in {Absent} \cup Record
              BY <1>1, <5>1 DEF TypeOK
        <5>3. store[o] \in Record /\ run[o].gen \in Nat
              BY <5>1, <5>2 DEF ObjectRun, Absent
        <5> DEFINE record == [store[o] EXCEPT !.obsGen = run[o].gen, !.ready = ready,
                                     !.artifact = has, !.reconciling = FALSE,
                                     !.stalled = (ready = "False")]
        <5>4. /\ record \in Record /\ SameContent(record, store[o])
              /\ record.deleting = store[o].deleting
              BY <5>3 DEF Record, ReadyStatus, SameContent
        <5> QED BY <5>1, <5>3, <5>4, AbsentMeans
      <4>3. CASE Finalize(o)
            BY <4>3 DEF Finalize
      <4> QED BY <1>8, <4>1, <4>2, <4>3
    <3>2. store' = [store EXCEPT ![o] = record]
          BY <3>1 DEF StatusWritten
    <3>3. store'[object] = IF object = o THEN record ELSE store[object]
          BY <1>1, <3>2 DEF TypeOK
    <3> HIDE DEF object
    <3>4. Undisturbing(object)
          BY <3>1, <3>3 DEF Undisturbing
    <3> QED BY <2>1, <3>4
  <2> QED BY <2>2, <2>3
<1> QED BY <1>4, <1>5, <1>6, <1>7, <1>8 DEF Next

\* Whose step it is not.
LEMMA StillAsked ==
    ASSUME IInv, JInv, [Next]_vars, NEW c \in Creators, pc'[c] = pc[c],
           exit'[c] = exit[c], at'[c] = at[c]
    PROVE  UndisturbedFor(c)'
<1>1. /\ TypeOK /\ job' = job /\ at[c] \in 1..Len(job[c].plan) /\ Len(job[c].plan) \in Nat
      /\ DOMAIN job[c].plan = 1..Len(job[c].plan)
      BY JobFacts, NextIInv DEF IInv, Evolution
<1>2. Written(c)' = Written(c) /\ \A i \in 1..Written(c) : i \in DOMAIN job[c].plan
      BY <1>1 DEF Written
<1>3. UndisturbedFor(c)
      BY DEF JInv, Undisturbed
<1> SUFFICES ASSUME c \notin disturbed', exit[c] # "err", pc[c] # "idle"
             PROVE  /\ \A i \in 1..Written(c) : AskedAt(c, i)'
                    /\ pc[c] = "write" => AsRead(c)'
                    /\ c \notin disturbed
      BY <1>1, <1>2, <1>3 DEF UndisturbedFor
<1>4. at[c] \in DOMAIN job[c].plan
      BY <1>1
<1>5. /\ read'[c] = read[c] /\ c \notin disturbed
      /\ \A i \in DOMAIN job[c].plan : Undisturbing(job[c].plan[i].object)
      BY <1>4, QuietStep
<1>6. ASSUME NEW i \in 1..Written(c)
      PROVE  AskedAt(c, i)'
  <2> DEFINE s == job[c].plan[i]
  <2>1. /\ Undisturbing(s.object) /\ s.object \in Objects
        /\ store[s.object] # Absent => Asked(s)
        /\ s.object \notin Reconciled \/ pc[c] = "done" => Stays(s.object)
        BY <1>1, <1>2, <1>3, <1>5, PlanFacts DEF UndisturbedFor, AskedAt
  <2>2. store'[s.object] # Absent =>
            /\ store[s.object] # Absent
            /\ store'[s.object].spec = store[s.object].spec
            /\ store'[s.object].labels = store[s.object].labels
        BY <2>1 DEF Undisturbing, SameContent
  <2>3. job' = job
        BY <1>1
  <2> HIDE DEF s
  <2>4. store'[s.object] # Absent =>
            (s.how # "labels" => store'[s.object].spec = s.spec)
            /\ s.labels \subseteq store'[s.object].labels
        BY <2>1, <2>2 DEF Asked
  <2>5. s.object \notin Reconciled \/ pc[c] = "done" =>
            store'[s.object] # Absent /\ ~store'[s.object].deleting
        BY <2>1 DEF Stays, Undisturbing
  <2> QED BY <2>3, <2>4, <2>5 DEF s, AskedAt, Asked, Stays
<1>7. ASSUME pc[c] = "write"
      PROVE  AsRead(c)'
  <2> DEFINE o == Step(c).object
  <2>1. Step(c)' = Step(c)
        BY <1>1 DEF Step
  <2>2. Undisturbing(o) /\ o \in Objects
        BY <1>1, <1>4, <1>5, JobFacts DEF Step
  <2>3. /\ read[c] = Absent => store[o] = Absent
        /\ read[c] # Absent /\ store[o] # Absent => SameContent(store[o], read[c])
        /\ read[c] # Absent /\ o \notin Reconciled => store[o] # Absent
        BY <1>3, <1>5, <1>7 DEF UndisturbedFor, AsRead
  <2>4. store[o] # Absent /\ store[o].deleting => o \in Reconciled
        BY <2>2 DEF JInv, Finalizers
  <2> HIDE DEF o
  <2>5. /\ read[c] = Absent => store'[o] = Absent
        /\ read[c] # Absent /\ store'[o] # Absent => SameContent(store'[o], read[c])
        /\ read[c] # Absent /\ o \notin Reconciled => store'[o] # Absent
        BY <2>2, <2>3, <2>4 DEF Undisturbing, SameContent
  <2> QED BY <1>5, <2>1, <2>5 DEF o, AsRead, SameContent
<1> QED BY <1>5, <1>6, <1>7

\* An object is written, or left as it is: the command goes on.
LEMMA ProceedAsked ==
    ASSUME IInv, JInv, NEW c \in Creators, pc[c] \in {"write", "create"}, Proceed(c),
           job' = job, disturbed \subseteq disturbed',
           NEW s, s = Step(c), \A x \in Objects \ {s.object} : store'[x] = store[x],
           c \notin disturbed =>
               /\ store'[s.object] # Absent => Asked(s)'
               /\ s.object \notin Reconciled => Stays(s.object)'
    PROVE  UndisturbedFor(c)'
<1>1. /\ TypeOK /\ at[c] \in 1..Len(job[c].plan) /\ Len(job[c].plan) \in Nat
      /\ DOMAIN job[c].plan = 1..Len(job[c].plan) /\ s = job[c].plan[at[c]]
      BY JobFacts DEF IInv, Step
<1>2. /\ pc \in [Creators -> {"idle", "get", "write", "create", "poll", "done"}]
      /\ at \in [Creators -> Nat] /\ exit \in [Creators -> {"running", "ok", "err"}]
      BY <1>1 DEF TypeOK
<1>3. UndisturbedFor(c)
      BY DEF JInv, Undisturbed
<1>4. exit[c] = "running" /\ Written(c) = at[c] - 1
      BY <1>2, <1>3 DEF UndisturbedFor, Written
<1>5. ASSUME c \notin disturbed', NEW i \in 1..at[c],
             pc'[c] = "done" => \A k \in 1..at[c] : job[c].plan[k].object \notin Reconciled
      PROVE  AskedAt(c, i)'
  <2> DEFINE t == job[c].plan[i]
  <2>1. c \notin disturbed
        BY <1>5
  <2>2. CASE i = at[c]
        BY <1>1, <1>5, <2>1, <2>2 DEF AskedAt
  <2>3. CASE i # at[c]
    <3>1. /\ i \in 1..Written(c) /\ i \in 1..Len(job[c].plan)
          BY <1>1, <1>4, <2>3
    <3>2. t.object \in Objects \ {s.object}
          BY <1>1, <2>3, <3>1, PlanFacts
    <3>3. /\ store[t.object] # Absent => Asked(t)
          /\ t.object \notin Reconciled => Stays(t.object)
          /\ store'[t.object] = store[t.object]
          BY <1>2, <1>3, <1>4, <2>1, <3>1, <3>2 DEF UndisturbedFor, AskedAt
    <3> HIDE DEF t
    <3>4. /\ store'[t.object] # Absent =>
                (t.how # "labels" => store'[t.object].spec = t.spec)
                /\ t.labels \subseteq store'[t.object].labels
          /\ t.object \notin Reconciled => store'[t.object] # Absent /\ ~store'[t.object].deleting
          BY <3>3 DEF Asked, Stays
    <3> QED BY <1>5, <3>4 DEF AskedAt, Asked, Stays, t
  <2> QED BY <2>2, <2>3
<1>6. CASE HasMore(c)
  <2>1. /\ pc'[c] = "get" /\ at'[c] = at[c] + 1 /\ exit'[c] = "running"
        BY <1>2, <1>4, <1>6 DEF Proceed
  <2>2. Written(c)' = at[c]
        BY <1>1, <2>1 DEF Written
  <2> QED BY <1>5, <2>1, <2>2 DEF UndisturbedFor
<1>7. CASE ~HasMore(c) /\ job[c].waits # "none"
  <2>1. /\ pc'[c] = "poll" /\ at'[c] = at[c] /\ exit'[c] = "running"
        BY <1>2, <1>4, <1>7 DEF Proceed
  <2>2. Written(c)' = at[c] /\ at[c] = Len(job[c].plan)
        BY <1>1, <1>7, <2>1 DEF Written, HasMore
  <2> QED BY <1>5, <1>7, <2>1, <2>2 DEF UndisturbedFor
<1>8. CASE ~HasMore(c) /\ job[c].waits = "none"
  <2>1. /\ pc'[c] = "done" /\ at'[c] = at[c] /\ exit'[c] = "ok"
        BY <1>2, <1>4, <1>8 DEF Proceed, End
  <2>2. Written(c)' = at[c] /\ at[c] = Len(job[c].plan)
        BY <1>1, <1>8, <2>1 DEF Written, HasMore
  <2>3. \A i \in 1..at[c] : job[c].plan[i].object \notin Reconciled
        BY <1>1, <1>8, <2>2, PlanFacts
  <2> QED BY <1>5, <2>1, <2>2, <2>3 DEF UndisturbedFor
<1> QED BY <1>6, <1>7, <1>8

\* A command that has failed is not spoken of.
LEMMA ErrAsked ==
    ASSUME TypeOK, NEW c \in Creators, End(c, "err"), pc[c] # "idle"
    PROVE  UndisturbedFor(c)'
BY DEF TypeOK, End, UndisturbedFor

LEMMA BeginAsked ==
    ASSUME IInv, JInv, NEW c \in Creators, Begin(c) PROVE UndisturbedFor(c)'
<1>1. /\ pc'[c] = "get" /\ pc[c] = "idle" /\ UNCHANGED <<at, exit, disturbed>>
      BY DEF IInv, TypeOK, Begin, history
<1>2. at[c] = 1 /\ exit[c] = "running"
      BY <1>1 DEF JInv, Undisturbed, UndisturbedFor
<1>3. Written(c)' = 0
      BY <1>1, <1>2 DEF Written
<1> QED BY <1>1, <1>2, <1>3 DEF UndisturbedFor

LEMMA GetAsked ==
    ASSUME IInv, JInv, NEW c \in Creators, Get(c) PROVE UndisturbedFor(c)'
<1>1. /\ pc'[c] = "write" /\ pc[c] = "get" /\ UNCHANGED <<store, job, at, exit, disturbed>>
      /\ read'[c] = MainOf(store[Step(c).object])
      BY DEF IInv, TypeOK, Get, history
<1>2. UndisturbedFor(c)
      BY DEF JInv, Undisturbed
<1>3. Written(c)' = Written(c)
      BY <1>1 DEF Written
<1>4. \A i \in 1..Written(c) : AskedAt(c, i) => AskedAt(c, i)'
      BY <1>1 DEF AskedAt, Asked, Stays
<1>5. AsRead(c)'
  <2> DEFINE o == Step(c).object
  <2>1. Step(c)' = Step(c) /\ store[o] \in {Absent} \cup Record
        BY <1>1, JobFacts DEF Step, IInv, TypeOK
  <2> HIDE DEF o
  <2>2. /\ read'[c] = Absent => store[o] = Absent
        /\ read'[c] # Absent => store[o] # Absent /\ SameContent(store[o], read'[c])
        BY <1>1, <2>1, MainOfType DEF SameContent, o
  <2> QED BY <1>1, <2>1, <2>2 DEF AsRead, SameContent, o
<1> QED BY <1>1, <1>2, <1>3, <1>4, <1>5 DEF UndisturbedFor

LEMMA CreateAsked ==
    ASSUME IInv, JInv, NEW c \in Creators, Create(c) PROVE UndisturbedFor(c)'
<1>1. pc[c] \in {"write", "create"} /\ job' = job /\ TypeOK
      BY DEF Create, IInv
<1>2. PICK s : s = Step(c)
      OBVIOUS
<1>3. CASE End(c, "err")
      BY <1>1, <1>3, ErrAsked
<1> DEFINE fresh == Fresh(uids + 1, s.spec, s.labels)
<1>4. CASE Stored(c, s.object, fresh) /\ Proceed(c)
  <2>1. /\ s.object \in Objects /\ s.spec \in Specs /\ s.labels \in SUBSET Labels
        /\ uids + 1 \in Nat \ {0}
        BY <1>1, <1>2, JobFacts DEF TypeOK, StepOf
  <2>2. fresh # Absent /\ fresh.spec = s.spec /\ fresh.labels = s.labels /\ ~fresh.deleting
        BY <2>1, FreshType, AbsentMeans
  <2> HIDE DEF fresh
  <2>3. /\ store' = [store EXCEPT ![s.object] = fresh] /\ disturbed \subseteq disturbed'
        /\ store'[s.object] = fresh /\ \A x \in Objects \ {s.object} : store'[x] = store[x]
        BY <1>1, <1>4, <2>1 DEF Stored, TypeOK
  <2>4. Asked(s)' /\ Stays(s.object)'
        BY <2>2, <2>3 DEF Asked, Stays
  <2> QED BY <1>1, <1>2, <1>4, <2>3, <2>4, ProceedAsked
<1> QED BY <1>2, <1>3, <1>4 DEF Create

\* What is made of what was read is as asked.
LEMMA WishAsked ==
    ASSUME NEW s \in StepOf(Objects), s.how # "recreate", NEW r \in Main
    PROVE  /\ s.how # "labels" => Wish(s, r).spec = s.spec
           /\ s.how = "labels" => Wish(s, r).spec = r.spec
           /\ s.labels \subseteq Wish(s, r).labels
<1>1. CASE s.how = "secret"
      BY <1>1 DEF Wish, UpsertSecret, StepOf, Main
<1>2. CASE s.how \in {"replace", "ifChanged"}
      BY <1>2 DEF Wish, UpsertReplaced, StepOf, Main
<1>3. CASE s.how = "labels"
      BY <1>3 DEF Wish, UpsertLabelled, StepOf, Main
<1> QED BY <1>1, <1>2, <1>3 DEF StepOf, Hows

\* What an update does to its object.
LEMMA UpdateFacts ==
    ASSUME IInv, NEW c \in Creators, Update(c), NEW s, s = Step(c)
    PROVE  /\ pc[c] = "write" /\ job' = job /\ s \in StepOf(Objects) /\ s.how # "recreate"
           /\ read[c] \in Main /\ read[c] # Absent /\ removed' = removed
           /\ End(c, "err") \/ Proceed(c)
           /\ disturbed \subseteq disturbed'
           /\ \A x \in Objects \ {s.object} : store'[x] = store[x]
           /\ \/ /\ store'[s.object] = store[s.object]
                 /\ Proceed(c) => SameContent(Wish(s, read[c]), read[c])
              \/ /\ store[s.object] \in Record /\ store'[s.object] \in Record
                 /\ SameContent(store'[s.object], Wish(s, read[c]))
                 /\ SameContent(store[s.object], read[c])
                 /\ store'[s.object].deleting = store[s.object].deleting
           /\ Proceed(c) /\ s.how = "secret" => store[s.object] # Absent
<1> DEFINE o == s.object
           wish == Wish(s, read[c])
           record == [wish EXCEPT !.gen = IF wish.spec = read[c].spec THEN @ ELSE @ + 1]
           skipped == SameContent(wish, read[c]) /\ s.how \in {"ifChanged", "labels"}
<1>1. /\ pc[c] = "write" /\ job' = job /\ read[c] # Absent /\ s.how # "recreate"
      /\ removed' = removed
      BY DEF Update
<1>2. TypeOK /\ s \in StepOf(Objects) /\ o \in Objects /\ read[c] \in Main
      /\ store[o] \in {Absent} \cup Record
      BY <1>1, JobFacts DEF IInv, TypeOK
<1>3. wish \in Main
      BY <1>1, <1>2, WishType
<1>4. record \in Main /\ SameContent(record, wish)
  <2> HIDE DEF wish
  <2>1. wish.gen \in Nat \ {0} /\ wish.gen + 1 \in Nat \ {0}
        BY <1>3, AbsentMeans
  <2> QED BY <1>3, <2>1 DEF Main, SameContent
<1>5. pc[c] # "done" /\ pc \in [Creators -> {"idle", "get", "write", "create", "poll", "done"}]
      /\ exit \in [Creators -> {"running", "ok", "err"}]
      BY <1>1, <1>2 DEF TypeOK
<1>6. ~(Proceed(c) /\ End(c, "err"))
      BY <1>5 DEF Proceed, End
<1>7. CASE (~skipped /\ Conflict(c)) /\ End(c, "err") /\ UNCHANGED <<store, disturbed>>
      BY <1>1, <1>2, <1>6, <1>7
<1>8. CASE ~(~skipped /\ Conflict(c)) /\ Proceed(c) /\ SameContent(wish, read[c])
           /\ UNCHANGED <<store, disturbed>>
  <2>1. s.how = "secret" => store[o] # Absent
        BY <1>8 DEF Conflict
  <2> QED BY <1>1, <1>2, <1>8, <2>1
<1>9. CASE ~(~skipped /\ Conflict(c)) /\ Proceed(c) /\ ~SameContent(wish, read[c])
           /\ Stored(c, o, Replaced(store[o], record))
  <2>1. store[o] # Absent /\ ~stale[c]
        BY <1>9 DEF Conflict
  <2>2. MainOf(store[o]) = read[c] /\ store[o] \in Record
        BY <1>1, <1>2, <2>1 DEF IInv, Waiting, CurrentFor
  <2>3. SameContent(store[o], read[c])
        BY <2>1, <2>2, MainOfType DEF SameContent
  <2> HIDE DEF record, wish, o, skipped
  <2>4. /\ Replaced(store[o], record) \in Record
        /\ MainOf(Replaced(store[o], record)) = record
        /\ Replaced(store[o], record).deleting = store[o].deleting
        BY <1>4, <2>2, ReplacedType
  <2> DEFINE new == Replaced(store[o], record)
  <2>5. SameContent(new, record)
        BY <2>4, MainOfType, AbsentMeans DEF SameContent
  <2> HIDE DEF new
  <2>6. store' = [store EXCEPT ![o] = new] /\ disturbed \subseteq disturbed'
        BY <1>9 DEF Stored, new
  <2>7. store'[o] = new /\ \A x \in Objects \ {o} : store'[x] = store[x]
        BY <1>2, <2>6 DEF TypeOK, o
  <2>8. SameContent(new, wish) /\ new \in Record /\ new.deleting = store[o].deleting
        BY <1>4, <2>4, <2>5 DEF new, SameContent
  <2> QED BY <1>1, <1>2, <1>9, <2>1, <2>2, <2>3, <2>6, <2>7, <2>8 DEF o, wish
<1>10. \/ (~skipped /\ Conflict(c)) /\ End(c, "err") /\ UNCHANGED <<store, disturbed>>
       \/ /\ ~(~skipped /\ Conflict(c)) /\ Proceed(c) 
          /\ IF SameContent(wish, read[c]) THEN UNCHANGED <<store, disturbed>>
             ELSE Stored(c, o, Replaced(store[o], record))
  BY DEF Update
<1> HIDE DEF o, wish, record, skipped
<1> QED BY <1>7, <1>8, <1>9, <1>10

LEMMA UpdateAsked ==
    ASSUME IInv, JInv, NEW c \in Creators, Update(c) PROVE UndisturbedFor(c)'
<1>1. PICK s : s = Step(c)
      OBVIOUS
<1>2. /\ pc[c] = "write" /\ job' = job /\ s \in StepOf(Objects) /\ s.how # "recreate"
      /\ read[c] \in Main /\ read[c] # Absent
      /\ End(c, "err") \/ Proceed(c)
      /\ disturbed \subseteq disturbed'
      /\ \A x \in Objects \ {s.object} : store'[x] = store[x]
      /\ \/ /\ store'[s.object] = store[s.object]
            /\ Proceed(c) => SameContent(Wish(s, read[c]), read[c])
         \/ /\ store[s.object] \in Record /\ store'[s.object] \in Record
            /\ SameContent(store'[s.object], Wish(s, read[c]))
            /\ store'[s.object].deleting = store[s.object].deleting
      BY <1>1, UpdateFacts
<1>3. CASE End(c, "err")
      BY <1>2, <1>3, ErrAsked DEF IInv
<1>4. CASE Proceed(c)
  <2> DEFINE wish == Wish(s, read[c])
             o == s.object
  <2>1. /\ s.how # "labels" => wish.spec = s.spec
        /\ s.labels \subseteq wish.labels
        BY <1>2, WishAsked
  <2>2. o \in Objects
        BY <1>2 DEF StepOf
  <2>3. ASSUME c \notin disturbed
        PROVE  /\ store[o] # Absent => SameContent(store[o], read[c])
               /\ o \notin Reconciled => store[o] # Absent
    <3>1. UndisturbedFor(c) /\ exit[c] # "err"
          BY <1>2 DEF JInv, Undisturbed, UndisturbedFor, IInv, TypeOK
    <3> QED BY <1>1, <1>2, <2>3, <3>1 DEF UndisturbedFor, AsRead
  <2>4. store[o] # Absent /\ store[o].deleting => o \in Reconciled
        BY <2>2 DEF JInv, Finalizers
  <2>5. \A r \in Record : r # Absent
        BY AbsentMeans
  <2>6. \/ store'[o] = store[o] /\ SameContent(wish, read[c])
        \/ /\ store[o] \in Record /\ store'[o] \in Record
           /\ SameContent(store'[o], wish)
           /\ store'[o].deleting = store[o].deleting
        BY <1>2, <1>4
  <2> HIDE DEF wish, o
  <2>7. ASSUME c \notin disturbed, store'[o] # Absent
        PROVE  store'[o].spec = wish.spec /\ store'[o].labels = wish.labels
        BY <2>3, <2>6, <2>7 DEF SameContent
  <2>8. ASSUME c \notin disturbed, o \notin Reconciled
        PROVE  store'[o] # Absent /\ ~store'[o].deleting
        BY <2>3, <2>4, <2>5, <2>6, <2>8
  <2>9. c \notin disturbed =>
            /\ store'[s.object] # Absent => Asked(s)'
            /\ s.object \notin Reconciled => Stays(s.object)'
        BY <2>1, <2>7, <2>8 DEF Asked, Stays, o
  <2> QED BY <1>1, <1>2, <1>4, <2>9, ProceedAsked
<1> QED BY <1>2, <1>3, <1>4

LEMMA RecreateAsked ==
    ASSUME IInv, JInv, NEW c \in Creators, Recreate(c) PROVE UndisturbedFor(c)'
<1>1. PICK s : s = Step(c)
      OBVIOUS
<1>2. /\ pc[c] = "write" /\ job' = job /\ s.how = "recreate" /\ read[c] # Absent /\ TypeOK
      BY <1>1 DEF Recreate, IInv
<1>3. /\ s \in StepOf(Objects) /\ s.object \in Objects /\ s.object \notin Reconciled
  <2>1. s = job[c].plan[at[c]] /\ at[c] \in 1..Len(job[c].plan)
        BY <1>1, <1>2, JobFacts DEF Step
  <2> QED BY <1>1, <1>2, <2>1, JobFacts, PlanFacts
<1>4. UndisturbedFor(c) /\ exit[c] = "running"
      BY <1>2 DEF JInv, Undisturbed, UndisturbedFor, TypeOK
<1>5. CASE End(c, "err")
      BY <1>2, <1>5, ErrAsked
<1>6. CASE ~Differs(s, read[c]) /\ Proceed(c) /\ UNCHANGED <<store, stale, disturbed>>
  <2>1. ASSUME c \notin disturbed
        PROVE  store[s.object] # Absent /\ SameContent(store[s.object], read[c])
        BY <1>1, <1>2, <1>3, <1>4, <2>1 DEF UndisturbedFor, AsRead
  <2>2. c \notin disturbed => Asked(s)' /\ Stays(s.object)'
        BY <1>3, <1>6, <2>1 DEF Differs, SameContent, Asked, Stays, JInv, Finalizers
  <2> QED BY <1>1, <1>2, <1>6, <2>2, ProceedAsked
<1>7. CASE /\ Stored(c, s.object, Absent)
           /\ pc' = [pc EXCEPT ![c] = "create"] /\ UNCHANGED <<at, exit>>
  <2>1. /\ disturbed \subseteq disturbed' /\ pc'[c] = "create" /\ at'[c] = at[c] /\ exit'[c] = exit[c]
        /\ \A x \in Objects \ {s.object} : store'[x] = store[x]
        BY <1>2, <1>3, <1>7 DEF Stored, TypeOK
  <2>2. Written(c)' = Written(c) /\ Written(c) = at[c] - 1 /\ at[c] \in 1..Len(job[c].plan)
        /\ Len(job[c].plan) \in Nat
        BY <1>2, <2>1, JobFacts DEF Written
  <2>3. ASSUME NEW i \in 1..Written(c), c \notin disturbed
        PROVE  AskedAt(c, i)'
    <3> DEFINE t == job[c].plan[i]
    <3>1. i \in 1..Len(job[c].plan) /\ i # at[c] /\ AskedAt(c, i)
          BY <1>2, <1>4, <2>2, <2>3 DEF UndisturbedFor
    <3>2. t.object \in Objects \ {s.object}
          BY <1>1, <1>2, <3>1, PlanFacts
    <3>3. store'[t.object] = store[t.object] /\ job' = job
          BY <1>2, <2>1, <3>2
    <3>4. (store[t.object] # Absent => Asked(t))
          /\ (t.object \notin Reconciled => Stays(t.object))
          BY <3>1 DEF AskedAt
    <3> HIDE DEF t
    <3>5. /\ store'[t.object] # Absent =>
                (t.how # "labels" => store'[t.object].spec = t.spec)
                /\ t.labels \subseteq store'[t.object].labels
          /\ t.object \notin Reconciled => store'[t.object] # Absent /\ ~store'[t.object].deleting
          BY <3>3, <3>4 DEF Asked, Stays
    <3> QED BY <2>1, <3>3, <3>5 DEF AskedAt, Asked, Stays, t
  <2> QED BY <1>4, <2>1, <2>2, <2>3 DEF UndisturbedFor
<1> QED BY <1>1, <1>5, <1>6, <1>7 DEF Recreate

\* A poll that succeeds has seen the object, and that nobody deletes it.
LEMMA PollAsked ==
    ASSUME IInv, JInv, NEW c \in Creators, Poll(c) PROVE UndisturbedFor(c)'
<1>1. /\ UNCHANGED <<store, job, at, disturbed>> /\ pc[c] = "poll" /\ TypeOK
      BY DEF Poll, IInv, history
<1>2. UndisturbedFor(c) /\ exit[c] = "running"
      BY <1>1 DEF JInv, Undisturbed, UndisturbedFor, TypeOK
<1>3. CASE End(c, "err")
      BY <1>1, <1>3, ErrAsked
<1>4. CASE End(c, "ok") /\ store[Waited(c)] # Absent /\ Ready(job[c].waits, store[Waited(c)]) = "done"
  <2> DEFINE o == Waited(c)
  <2>1. o \in Objects /\ store[o] \in Record
        BY <1>1, <1>4, JobFacts DEF TypeOK
  <2>2. pc'[c] = "done" /\ exit'[c] = "ok"
        BY <1>1, <1>4 DEF TypeOK, End
  <2>3. ~store[o].deleting
    <3>1. ASSUME store[o].deleting PROVE FALSE
      <4>1. Ready(job[c].waits, store[o]) # "error" /\ IsJob(job[c], Objects)
            BY <1>1, <1>4 DEF TypeOK
      <4>2. CASE job[c].waits = "static"
            BY <3>1, <4>1, <4>2 DEF Ready
      <4>3. CASE job[c].waits = "dynamic"
            BY <1>4, <2>1, <3>1, <4>1, <4>3, ReadyMeans DEF Ready
      <4>4. job[c].waits # "none"
            BY <1>1, <1>2 DEF UndisturbedFor
      <4> QED BY <4>1, <4>2, <4>3, <4>4 DEF IsJob
    <3> QED BY <3>1
  <2>4. ASSUME c \notin disturbed'
        PROVE  at[c] = Len(job[c].plan) /\ \A i \in 1..Written(c)' : AskedAt(c, i)'
    <3>1. at[c] = Len(job[c].plan) /\ Written(c)' = at[c] /\ Written(c) = at[c]
          /\ \A i \in 1..at[c] : AskedAt(c, i)
          BY <1>1, <1>2, <2>2, <2>4 DEF UndisturbedFor, Written
    <3>2. ASSUME NEW i \in 1..at[c]
          PROVE  AskedAt(c, i)'
      <4> DEFINE t == job[c].plan[i]
      <4>1. i \in 1..Len(job[c].plan)
            BY <1>1, <3>1, <3>2, JobFacts
      <4>2. CASE t.object \notin Reconciled
            BY <1>1, <3>1, <4>2 DEF AskedAt, Asked, Stays
      <4>3. CASE t.object \in Reconciled
        <5>1. t.object = o
              BY <1>1, <4>1, <4>3, PlanFacts DEF Waited
        <5> QED BY <1>1, <1>4, <2>3, <3>1, <5>1 DEF AskedAt, Asked, Stays
      <4> QED BY <4>2, <4>3
    <3> QED BY <3>1, <3>2
  <2> QED BY <1>1, <2>2, <2>4 DEF UndisturbedFor
<1> QED BY <1>3, <1>4 DEF Poll

----------------------------------------------------------------------------
(* What is there with its credentials.                                     *)

\* Where the spec and the finalizer of an object are from, and where it went.
Changes(o) ==
    /\ store'[o] # Absent =>
          \/ store[o] # Absent /\ store'[o].spec = store[o].spec
          \/ store'[o].spec = "other"
          \/ \E c \in Creators : Step(c).object = o /\ store'[o].spec = Step(c).spec
    /\ store'[o] # Absent /\ store'[o].deleting =>
          o \in Reconciled \/ (store[o] # Absent /\ store[o].deleting)
    /\ store'[o] = Absent /\ store[o] # Absent =>
          \/ o \in removed' \/ store[o].deleting
          \/ \E c \in Creators : Step(c).object = o /\ Step(c).how = "recreate"

LEMMA StoreChanges ==
    ASSUME IInv, [Next]_vars
    PROVE  removed \subseteq removed' /\ \A o \in Objects : Changes(o)
<1>1. TypeOK /\ store \in [Objects -> {Absent} \cup Record] /\ uids + 1 \in Nat \ {0}
      BY DEF IInv, TypeOK
<1>2. ASSUME store' = store
      PROVE  \A o \in Objects : Changes(o)
      BY <1>2 DEF Changes
<1>3. ASSUME NEW o \in Objects, NEW record, store' = [store EXCEPT ![o] = record],
             (store'[o] = record) => Changes(o)
      PROVE  \A x \in Objects : Changes(x)
      BY <1>1, <1>3 DEF Changes
<1>4. ASSUME NEW c \in Creators, Create(c) PROVE \A o \in Objects : Changes(o)
  <2> DEFINE o == Step(c).object
             fresh == Fresh(uids + 1, Step(c).spec, Step(c).labels)
  <2>1. /\ o \in Objects /\ Step(c).spec \in Specs /\ Step(c).labels \in SUBSET Labels
        BY <1>1, JobFacts DEF StepOf
  <2>2. fresh # Absent /\ fresh.spec = Step(c).spec /\ ~fresh.deleting
        BY <1>1, <2>1, FreshType, AbsentMeans
  <2>3. store' = store \/ store' = [store EXCEPT ![o] = fresh]
        BY <1>4 DEF Create, Stored
  <2> HIDE DEF fresh
  <2>4. store'[o] = fresh => Changes(o)
        BY <2>2 DEF Changes
  <2> QED BY <1>2, <1>3, <2>1, <2>3, <2>4
<1>5. ASSUME NEW c \in Creators, Update(c) PROVE \A o \in Objects : Changes(o)
  <2>1. PICK s : s = Step(c)
        OBVIOUS
  <2> DEFINE o == s.object
             wish == Wish(s, read[c])
  <2>2. /\ s \in StepOf(Objects) /\ s.how # "recreate" /\ read[c] \in Main
        /\ \A x \in Objects \ {o} : store'[x] = store[x]
        /\ \/ store'[o] = store[o]
           \/ /\ store[o] \in Record /\ store'[o] \in Record
              /\ SameContent(store'[o], wish)
              /\ SameContent(store[o], read[c])
              /\ store'[o].deleting = store[o].deleting
        BY <1>5, <2>1, UpdateFacts
  <2>3. /\ s.how # "labels" => wish.spec = s.spec
        /\ s.how = "labels" => wish.spec = read[c].spec
        BY <2>2, WishAsked
  <2>4. \A r \in Record : r # Absent
        BY AbsentMeans
  <2> HIDE DEF wish
  <2>5. \A x \in Objects \ {o} : Changes(x)
        BY <2>2 DEF Changes
  <2>6. Changes(o)
        BY <2>1, <2>2, <2>3, <2>4 DEF Changes, SameContent
  <2> QED BY <2>5, <2>6
<1>6. ASSUME NEW c \in Creators, Recreate(c) PROVE \A o \in Objects : Changes(o)
  <2> DEFINE o == Step(c).object
  <2>1. o \in Objects
        BY <1>1, JobFacts
  <2>2. (store' = store \/ store' = [store EXCEPT ![o] = Absent]) /\ Step(c).how = "recreate"
        BY <1>6 DEF Recreate, Stored
  <2>3. store'[o] = Absent => Changes(o)
        BY <2>2 DEF Changes
  <2> QED BY <1>2, <1>3, <2>1, <2>2, <2>3
\* A deletion.
<1>7. ASSUME NEW o \in Objects, store[o] # Absent, store' = [store EXCEPT ![o] = Deleted(o)[o]],
             o \in removed'
      PROVE  \A x \in Objects : Changes(x)
  <2>1. store'[o] = Deleted(o)[o]
        BY <1>1, <1>7
  <2>2. Deleted(o)[o] # Absent => o \in Reconciled /\ Deleted(o)[o].spec = store[o].spec
    <3>1. CASE o \in Reconciled /\ store[o].obsGen > 0
      <4>1. Deleted(o)[o] = [store[o] EXCEPT !.deleting = TRUE] /\ store[o] \in Record
            BY <1>1, <1>7, <3>1 DEF Deleted
      <4> QED BY <3>1, <4>1 DEF Record
    <3>2. CASE ~(o \in Reconciled /\ store[o].obsGen > 0)
          BY <1>1, <3>2 DEF Deleted
    <3> QED BY <3>1, <3>2
  <2>3. Changes(o)
        BY <1>7, <2>1, <2>2 DEF Changes
  <2> QED BY <1>3, <1>7, <2>3
<1>8. ASSUME Delete PROVE removed \subseteq removed' /\ \A o \in Objects : Changes(o)
  <2>1. Name \in Objects
        BY <1>1, <1>8, DeleteFacts DEF Delete
  <2>2. CASE store[Name] = Absent
        BY <1>2, <1>8, <2>2 DEF Delete
  <2>3. CASE store[Name] # Absent
        BY <1>1, <1>7, <1>8, <2>1, <2>3, DeletedMeans DEF Delete
  <2> QED BY <2>2, <2>3
<1>9. ASSUME NEW o \in Objects, OtherEdit(o) \/ OtherCreate(o) \/ OtherDelete(o)
      PROVE  removed \subseteq removed' /\ \A x \in Objects : Changes(x)
  <2>1. CASE OtherEdit(o)
    <3> DEFINE record == [store[o] EXCEPT !.spec = "other", !.gen = @ + 1]
    <3>1. store' = [store EXCEPT ![o] = record] /\ removed' = removed /\ store[o] \in Record
          BY <1>1, <2>1 DEF OtherEdit, OtherWrites
    <3>2. "other" \in Specs
          BY CreateDeleteAssumption
    <3>3. record.deleting = store[o].deleting /\ record.spec = "other" /\ record \in Record
      <4>1. /\ record \in Record /\ record.deleting = store[o].deleting
            BY <3>1, <3>2, EditedType
      <4> QED BY <3>1, <4>1 DEF Record
    <3> HIDE DEF record
    <3>4. store'[o] = record => Changes(o)
          BY <3>1, <3>3, AbsentMeans DEF Changes
    <3> QED BY <1>3, <3>1, <3>4
  <2>2. CASE OtherCreate(o)
    <3> DEFINE record == Fresh(uids + 1, "other", {})
    <3>1. store' = [store EXCEPT ![o] = record] /\ removed' = removed
          BY <2>2 DEF OtherCreate, OtherWrites
    <3>2. record \in Record /\ record.spec = "other" /\ ~record.deleting
      <4>1. "other" \in Specs /\ {} \in SUBSET Labels
            BY CreateDeleteAssumption
      <4> QED BY <1>1, <4>1, FreshType
    <3> HIDE DEF record
    <3>3. store'[o] = record => Changes(o)
          BY <3>2, AbsentMeans DEF Changes
    <3> QED BY <1>3, <3>1, <3>3
  <2>3. CASE OtherDelete(o)
        BY <1>7, <2>3 DEF OtherDelete, OtherWrites
  <2> QED BY <1>9, <2>1, <2>2, <2>3
<1>10. ASSUME NEW o \in Objects, StartReconciling(o) \/ FinishReconciling(o) \/ Finalize(o)
       PROVE  removed \subseteq removed' /\ \A x \in Objects : Changes(x)
  <2>1. CASE StartReconciling(o)
    <3> DEFINE record == [store[o] EXCEPT !.reconciling = TRUE, !.ready = "Unknown"]
    <3>1. store' = [store EXCEPT ![o] = record] /\ removed' = removed /\ store[o] \in Record
          /\ store[o] # Absent
          BY <1>1, <2>1 DEF StartReconciling, StatusWritten
    <3>2. record \in Record /\ record.spec = store[o].spec /\ record.deleting = store[o].deleting
          BY <3>1 DEF Record, ReadyStatus
    <3> HIDE DEF record
    <3>3. store'[o] = record => Changes(o)
          BY <3>1, <3>2, AbsentMeans DEF Changes
    <3> QED BY <1>3, <3>1, <3>3
  <2>2. CASE FinishReconciling(o)
    <3>1. CASE UNCHANGED <<store, removed>>
          BY <1>2, <3>1
    <3>2. CASE ~UNCHANGED <<store, removed>>
      <4>1. PICK ready \in {"True", "False"}, has \in BOOLEAN :
              StatusWritten(o, [store[o] EXCEPT !.obsGen = run[o].gen, !.ready = ready,
                                   !.artifact = has, !.reconciling = FALSE,
                                   !.stalled = (ready = "False")])
              /\ store[o].uid = run[o].uid /\ run[o] # Idle
            BY <2>2, <3>2 DEF FinishReconciling, history
      <4>2. store[o] \in Record /\ store[o] # Absent /\ run[o].gen \in Nat
            BY <1>1, <4>1 DEF TypeOK, ObjectRun, Absent
      <4> DEFINE record == [store[o] EXCEPT !.obsGen = run[o].gen, !.ready = ready,
                                   !.artifact = has, !.reconciling = FALSE,
                                   !.stalled = (ready = "False")]
      <4>3. store' = [store EXCEPT ![o] = record] /\ removed' = removed
            BY <4>1 DEF StatusWritten
      <4>4. record \in Record /\ record.spec = store[o].spec
            /\ record.deleting = store[o].deleting
            BY <4>2 DEF Record, ReadyStatus
      <4> HIDE DEF record
      <4>5. store'[o] = record => Changes(o)
            BY <4>2, <4>4, AbsentMeans DEF Changes
      <4> QED BY <1>3, <4>3, <4>5
    <3> QED BY <3>1, <3>2
  <2>3. CASE Finalize(o)
    <3>1. store' = [store EXCEPT ![o] = Absent] /\ removed' = removed /\ store[o].deleting
          BY <2>3 DEF Finalize, StatusWritten
    <3>2. store'[o] = Absent => Changes(o)
          BY <3>1 DEF Changes
    <3> QED BY <1>3, <3>1, <3>2
  <2> QED BY <1>10, <2>1, <2>2, <2>3
<1>11. ASSUME NEW c \in Creators,
              Begin(c) \/ Get(c) \/ Create(c) \/ Update(c) \/ Recreate(c) \/ Poll(c) \/ CallFails(c)
       PROVE  removed \subseteq removed' /\ \A o \in Objects : Changes(o)
  <2>1. removed' = removed
        BY <1>11 DEF Begin, Get, Create, Update, Recreate, Poll, CallFails, history
  <2>2. CASE Begin(c) \/ Get(c) \/ Poll(c) \/ CallFails(c)
        BY <1>2, <2>1, <2>2 DEF Begin, Get, Poll, CallFails
  <2> QED BY <1>4, <1>5, <1>6, <1>11, <2>1, <2>2
<1>12. ASSUME DeleteGet \/ Agree \/ Decline \/ DeleteFails \/ UNCHANGED vars
       PROVE  removed \subseteq removed' /\ \A o \in Objects : Changes(o)
       BY <1>2, <1>12 DEF DeleteGet, Agree, Decline, DeleteFails, vars, history
<1> QED BY <1>8, <1>9, <1>10, <1>11, <1>12 DEF Next

\* The Secret goes only when somebody deletes it.
LEMMA SecretStays ==
    ASSUME IInv, JInv, [Next]_vars, Secret \in Objects, SecretIsThere
    PROVE  SecretIsThere'
<1>1. Changes(Secret) /\ removed \subseteq removed'
      BY StoreChanges
<1>2. ~(store[Secret] # Absent /\ store[Secret].deleting)
      BY CreateDeleteAssumption DEF JInv, Finalizers
<1>3. ASSUME NEW c \in Creators, Step(c).object = Secret PROVE Step(c).how # "recreate"
  <2>1. at[c] \in DOMAIN job[c].plan /\ SecretFirst(job)
        BY JobFacts DEF IInv, JInv, SecretBefore
  <2> QED BY <1>3, <2>1 DEF SecretFirst, Creators, Step
<1> QED BY <1>1, <1>2, <1>3 DEF SecretIsThere, Changes

\* A job goes past its Secret only when it is there.
LEMMA SecretPassed ==
    ASSUME IInv, JInv, [Next]_vars, NEW c \in Creators, at'[c] # at[c], Step(c).object = Secret
    PROVE  store'[Secret] # Absent
<1>1. TypeOK /\ at[c] \in DOMAIN job[c].plan /\ Secret \in Objects
      /\ Step(c) \in StepOf(Objects)
      BY JobFacts DEF IInv
<1>2. Step(c).how = "secret"
      BY <1>1 DEF JInv, SecretBefore, SecretFirst, Creators, Step
<1>3. Begin(c) \/ Get(c) \/ Create(c) \/ Update(c) \/ Recreate(c) \/ Poll(c) \/ CallFails(c)
      BY <1>1, OnlyOwnStepMoves
<1>4. Create(c) \/ Update(c)
      BY <1>2, <1>3 DEF Begin, Get, Recreate, Poll, CallFails
<1>5. CASE Create(c)
  <2> DEFINE fresh == Fresh(uids + 1, Step(c).spec, Step(c).labels)
  <2>1. store' = [store EXCEPT ![Secret] = fresh]
        BY <1>5 DEF Create, Stored
  <2>2. /\ uids + 1 \in Nat \ {0} /\ Step(c).spec \in Specs /\ Step(c).labels \in SUBSET Labels
        BY <1>1 DEF TypeOK, StepOf
  <2>3. fresh # Absent
        BY <2>2, FreshType, AbsentMeans
  <2> QED BY <1>1, <2>1, <2>3 DEF TypeOK
<1>6. CASE Update(c)
  <2>1. PICK s : s = Step(c)
        OBVIOUS
  <2>2. Proceed(c)
        BY <1>6 DEF Update
  <2>3. store[s.object] # Absent
        /\ (store'[s.object] = store[s.object] \/ store'[s.object] \in Record)
        BY <1>2, <1>6, <2>1, <2>2, UpdateFacts
  <2> QED BY <2>1, <2>3, AbsentMeans
<1> QED BY <1>4, <1>5, <1>6

\* Every step keeps the second invariant, given the first.
LEMMA NextJInv == IInv /\ JInv /\ [Next]_vars => JInv'
<1> SUFFICES ASSUME IInv, JInv, [Next]_vars PROVE JInv'
    OBVIOUS
<1>1. /\ TypeOK /\ job' = job /\ Objects' = Objects /\ Creators' = Creators
      BY NextIInv DEF IInv, Evolution, Creators
<1>2. removed \subseteq removed' /\ \A o \in Objects : Changes(o)
      BY StoreChanges
<1>3. Undisturbed'
  <2> SUFFICES ASSUME NEW c \in Creators PROVE UndisturbedFor(c)'
      BY <1>1 DEF Undisturbed
  <2>1. CASE Begin(c) \/ Get(c) \/ Create(c) \/ Update(c) \/ Recreate(c) \/ Poll(c)
        BY <2>1, BeginAsked, GetAsked, CreateAsked, UpdateAsked, RecreateAsked, PollAsked
  <2>2. CASE CallFails(c)
        BY <1>1, <2>2, ErrAsked DEF CallFails, Running
  <2>3. CASE ~(Begin(c) \/ Get(c) \/ Create(c) \/ Update(c) \/ Recreate(c) \/ Poll(c) \/ CallFails(c))
    <3>1. pc'[c] = pc[c] /\ exit'[c] = exit[c] /\ at'[c] = at[c]
          BY <1>1, <2>3, OnlyOwnStepMoves
    <3> QED BY <3>1, StillAsked
  <2> QED BY <2>1, <2>2, <2>3
<1>4. Finalizers'
  <2> SUFFICES ASSUME NEW o \in Objects, store'[o] # Absent, store'[o].deleting
               PROVE  o \in Reconciled
      BY <1>1 DEF Finalizers
  <2> QED BY <1>2 DEF Changes, JInv, Finalizers
<1>5. SecretBefore'
  <2>1. SecretFirst(job)' /\ NeedSecret(job)' = NeedSecret(job) /\ "other" \notin NeedSecret(job)
        /\ SecretFirst(job)
        BY <1>1 DEF JInv, SecretBefore, SecretFirst, NeedSecret
  <2>2. ASSUME NEW c \in Creators, NEW i \in DOMAIN job[c].plan, job[c].plan[i].object = Secret
        PROVE  /\ Secret \in Objects
               /\ i < at[c] => SecretIsThere
               /\ i < at'[c] => SecretIsThere'
    <3>1. /\ Secret \in Objects /\ i \in Nat /\ at[c] \in Nat /\ at[c] \in DOMAIN job[c].plan
          /\ i < at[c] => SecretIsThere
          BY <1>1, <2>2, JobFacts, PlanFacts DEF JInv, SecretBefore
    <3>2. CASE i < at[c]
          BY <3>1, <3>2, SecretStays
    <3>3. CASE ~(i < at[c]) /\ i < at'[c]
      <4>1. at'[c] # at[c]
            BY <3>3
      <4>2. i = at[c]
        <5>1. at'[c] = at[c] + 1
          <6>1. Begin(c) \/ Get(c) \/ Create(c) \/ Update(c) \/ Recreate(c) \/ Poll(c)
                \/ CallFails(c)
                BY <1>1, <4>1, OnlyOwnStepMoves
          <6>2. Proceed(c)
                BY <4>1, <6>1 DEF Begin, Get, Create, Update, Recreate, Poll, CallFails
          <6> QED BY <1>1, <4>1, <6>2 DEF Proceed, TypeOK
        <5> QED BY <3>1, <3>3, <5>1
      <4>3. Step(c).object = Secret
            BY <2>2, <4>2 DEF Step
      <4> QED BY <3>1, <3>3, <4>1, <4>3, SecretPassed DEF SecretIsThere
    <3> QED BY <3>1, <3>2, <3>3
  <2>3. ASSUME NEW o \in Objects \cap Reconciled, store'[o] # Absent,
               store'[o].spec \in NeedSecret(job)
        PROVE  SecretIsThere'
    <3>1. Secret \in Objects
      <4>1. PICK c \in Creators : \E i \in DOMAIN job[c].plan : job[c].plan[i].object = Secret
            BY <2>3 DEF NeedSecret, Creators
      <4> QED BY <2>2, <4>1
    <3>2. SecretIsThere
      <4>1. CASE store[o] # Absent /\ store'[o].spec = store[o].spec
            BY <2>3, <4>1 DEF JInv, SecretBefore
      <4>2. CASE \E c \in Creators : Step(c).object = o /\ store'[o].spec = Step(c).spec
        <5>1. PICK c \in Creators : Step(c).object = o /\ store'[o].spec = Step(c).spec
              BY <4>2
        <5>2. at[c] \in 1..Len(job[c].plan) /\ Len(job[c].plan) \in Nat
              /\ DOMAIN job[c].plan = 1..Len(job[c].plan)
              BY <1>1, JobFacts
        <5>3. \E k \in 1..(at[c] - 1) : job[c].plan[k].object = Secret
              BY <2>1, <2>3, <5>1, <5>2 DEF SecretFirst, Creators, Step
        <5> QED BY <2>2, <5>2, <5>3
      <4> QED BY <1>2, <2>1, <2>3, <4>1, <4>2 DEF Changes
    <3> QED BY <3>1, <3>2, SecretStays
  <2> QED BY <1>1, <2>1, <2>2, <2>3 DEF SecretBefore
<1> QED BY <1>3, <1>4, <1>5 DEF JInv

LEMMA InitJInv == Init => JInv
<1> SUFFICES ASSUME Init PROVE JInv
    OBVIOUS
<1>1. PICK s \in Scenarios : store = s.cluster /\ job = s.jobs
      BY DEF Init
<1>2. /\ store \in [Objects -> {Absent} \cup {r \in Record : r.uid = 1 /\ ~r.deleting}]
      /\ SecretFirst(job) /\ "other" \notin NeedSecret(job)
      /\ \A o \in Objects \cap Reconciled :
            store[o] # Absent /\ store[o].spec \in NeedSecret(job) => store[Secret] # Absent
      BY <1>1, CreateDeleteAssumption DEF Objects
<1>3. Finalizers
      BY <1>2 DEF Finalizers
<1>4. /\ pc = [c \in Creators |-> "idle"] /\ at = [c \in Creators |-> 1]
      /\ exit = [c \in Creators |-> "running"]
      BY DEF Init
<1>5. Undisturbed
      BY <1>4 DEF Undisturbed, UndisturbedFor
<1>6. \A c \in Creators : \A i \in DOMAIN job[c].plan : ~(i < at[c])
  <2> SUFFICES ASSUME NEW c \in Creators, NEW i \in DOMAIN job[c].plan PROVE ~(i < 1)
      BY <1>4
  <2>1. DOMAIN job[c].plan = 1..Len(job[c].plan) /\ Len(job[c].plan) \in Nat
        BY InitIInv, JobFacts DEF IInv
  <2> QED BY <2>1
<1>7. SecretBefore
      BY <1>2, <1>6 DEF SecretBefore, SecretIsThere
<1> QED BY <1>3, <1>5, <1>7 DEF JInv

\* A command that succeeds, undisturbed, leaves all its objects as asked; and whether
\* it succeeds or fails half way, no source is there without its credentials.
THEOREM UsableAfterwards == Spec => []LeftUsable
<1>1. IInv /\ JInv => AsAsked
  <2> SUFFICES ASSUME IInv, JInv, NEW c \in Creators, exit[c] = "ok", c \notin disturbed,
                      NEW i \in DOMAIN job[c].plan
               PROVE  LET s == job[c].plan[i]
                          record == store[s.object]
                      IN /\ record # Absent
                         /\ s.how # "labels" => record.spec = s.spec
                         /\ s.labels \subseteq record.labels
      BY DEF AsAsked
  <2>1. UndisturbedFor(c) /\ pc[c] = "done"
        BY DEF JInv, Undisturbed, UndisturbedFor
  <2>2. DOMAIN job[c].plan = 1..Len(job[c].plan)
        BY JobFacts DEF IInv
  <2>3. AskedAt(c, i)
        BY <2>1, <2>2 DEF UndisturbedFor, Written
  <2> QED BY <2>1, <2>3 DEF AskedAt, Asked, Stays
<1>2. IInv /\ JInv => CredentialsFirst
  <2> SUFFICES ASSUME IInv, JInv, NEW c \in Creators,
                      NEW i \in DOMAIN job[c].plan, NEW j \in DOMAIN job[c].plan,
                      job[c].plan[i].object = Secret, job[c].plan[j].object \in Reconciled,
                      store[job[c].plan[j].object] # Absent,
                      store[job[c].plan[j].object].spec = job[c].plan[j].spec
               PROVE  store[Secret] # Absent \/ Secret \in removed
      BY DEF CredentialsFirst
  <2>1. /\ job[c].plan[j].object \in Objects /\ job[c].plan[j].spec \in Specs
        BY JobFacts, PlanFacts DEF IInv, StepOf
  <2>2. job[c].plan[j].spec \in NeedSecret(job)
        BY <2>1 DEF NeedSecret, Creators
  <2> QED BY <2>1, <2>2 DEF JInv, SecretBefore, SecretIsThere
<1>3. IInv /\ JInv => LeftUsable
      BY <1>1, <1>2 DEF LeftUsable
<1>4. Init => JInv
      BY InitJInv
<1>5. IInv /\ JInv /\ [Next]_vars => JInv'
      BY NextJInv
<1> QED BY <1>3, <1>4, <1>5, Invariance, PTL DEF Spec
=============================================================================

---------------------------- MODULE CreateDelete ----------------------------
(***************************************************************************)
(* `flux create` and `flux delete` at work on a cluster: each object of a  *)
(* command is read and then created, updated, left alone or deleted and    *)
(* created anew; the last one may be waited for.  Other users write, the   *)
(* controller reconciles, and every command may be killed between two of   *)
(* its calls: the next one with the same job is then a second run.         *)
(*                                                                         *)
(* A job is what module CreateCommands works out: the objects in their     *)
(* order, each with the way it is written, and whether the last one is     *)
(* waited for as a dynamic or as a static object.                          *)
(***************************************************************************)
EXTENDS Naturals, Sequences, FiniteSets, TLC, ToolkitObject

CONSTANTS
    Scenarios,    \* what each `flux create` does (jobs), what is given to `flux delete`
                  \* (names), and the cluster to begin with: object -> record or Absent
    Specs,        \* what an object can be made to be; "other" is what others write
    Labels,       \* the labels of an object
    Secret,       \* the object that holds the credentials of a source
    Reconciled,   \* the objects a controller reconciles
    MaxOther      \* bound: writes of other users

Absent == [uid |-> 0]

\* An object of the cluster, and what a command reads and updates of it: the API
\* server keeps the status.
Record == [uid : Nat \ {0}, spec : Specs, labels : SUBSET Labels, gen : Nat \ {0}, obsGen : Nat,
           ready : ReadyStatus, reconciling : BOOLEAN, stalled : BOOLEAN, artifact : BOOLEAN,
           deleting : BOOLEAN]
Main == [uid : Nat \ {0}, gen : Nat \ {0}, spec : Specs, labels : SUBSET Labels]

\* A run of a controller, and the state of `flux delete`.
ObjectRun == [uid : Nat \ {0}, gen : Nat \ {0}, credentials : BOOLEAN]
DeleteState(objects) ==
    [names : Seq(objects), pc : {"get", "ask", "delete", "aborted", "done"}, failed : Nat]

\* How the objects of a command are written: upsertSecret, the other upserts with
\* or without a look at what would change, those of a tenant.
Hows == {"secret", "replace", "ifChanged", "labels", "recreate"}

\* Every object is written once; what a controller reconciles comes last and is
\* waited for, and no role binding is.
IsJob(j, objects) ==
    /\ j.plan \in Seq([object : objects, how : Hows, spec : Specs, labels : SUBSET Labels])
    /\ j.plan # <<>>
    /\ j.waits \in {"none", "dynamic", "static"}
    /\ \A i, k \in DOMAIN j.plan : j.plan[i].object = j.plan[k].object => i = k
    /\ \A i \in DOMAIN j.plan : j.plan[i].object \in Reconciled => i = Len(j.plan) /\ j.waits # "none"
    /\ j.waits # "none" => j.plan[Len(j.plan)].how # "recreate"

\* The specs that refer to the credentials: jobs make them after the Secret.
NeedSecret(jobs) ==
    {spec \in Specs : \E c \in DOMAIN jobs : \E i, k \in DOMAIN jobs[c].plan :
        /\ jobs[c].plan[i].object = Secret
        /\ jobs[c].plan[k].object \in Reconciled /\ jobs[c].plan[k].spec = spec}

\* A Secret is written by upsertSecret, and before what refers to it.
SecretFirst(jobs) ==
    \A c \in DOMAIN jobs : LET plan == jobs[c].plan IN
        \A i \in DOMAIN plan :
            /\ plan[i].object = Secret => plan[i].how = "secret"
            /\ plan[i].object \in Reconciled /\ plan[i].spec \in NeedSecret(jobs) =>
                  \E k \in 1..(i - 1) : plan[k].object = Secret

ASSUME CreateDeleteAssumption ==
    /\ MaxOther \in Nat /\ "other" \in Specs /\ Secret \notin Reconciled
    /\ \A s \in Scenarios : LET objects == DOMAIN s.cluster IN
          /\ s.cluster \in [objects -> {Absent} \cup {r \in Record : r.uid = 1 /\ ~r.deleting}]
          /\ s.names \in Seq(objects)
          /\ \A c \in DOMAIN s.jobs : IsJob(s.jobs[c], objects)
          /\ SecretFirst(s.jobs) /\ "other" \notin NeedSecret(s.jobs)
          /\ \A o \in objects \cap Reconciled :
                s.cluster[o] # Absent /\ s.cluster[o].spec \in NeedSecret(s.jobs) =>
                    s.cluster[Secret] # Absent

VARIABLES
    store,     \* the cluster
    uids,      \* uids given so far
    run,       \* the controller's run of an object, or Idle
    job,       \* creator -> its job
    pc, at,    \* creator -> its step, and the position in its plan
    read,      \* creator -> what it has read of the object
    stale,     \* creator -> the object was written since: its resource version is old
    sent,      \* creator -> uid and generation of the object it waits for
    exit,      \* creator -> "running", "ok" or "err"
    del,       \* the state of `flux delete`
    others,    \* writes of other users so far
    shown,     \* history: names and uids the user was asked about
    finished,  \* history: uids and generations that were reconciled
    lost,      \* history: an update has replaced what was not read
    removed,   \* history: objects that somebody has deleted
    disturbed  \* history: creators in whose objects others wrote since they began

local == <<pc, at, read, stale, sent, exit>>
history == <<shown, finished, lost, removed, disturbed>>
vars == <<store, uids, run, job, local, del, others, history>>

Idle == [uid |-> 0]
Objects == DOMAIN store
Creators == DOMAIN job

\* An object that was created just now.
Fresh(uid, spec, labels) ==
    [uid |-> uid, spec |-> spec, labels |-> labels, gen |-> 1, obsGen |-> 0, ready |-> "none",
     reconciling |-> FALSE, stalled |-> FALSE, artifact |-> FALSE, deleting |-> FALSE]

\* Mutant of Step: the last object goes first.
StepFromTheEnd(c) == job[c].plan[Len(job[c].plan) + 1 - at[c]]

Step(c) == job[c].plan[at[c]]
Waited(c) == job[c].plan[Len(job[c].plan)].object

Init ==
    /\ \E s \in Scenarios :
          /\ store = s.cluster /\ job = s.jobs
          /\ del = [names |-> s.names, pc |-> IF s.names = <<>> THEN "done" ELSE "get",
                    failed |-> 0]
    /\ uids = 1
    /\ run = [o \in Objects |-> Idle]
    /\ pc = [c \in Creators |-> "idle"] /\ at = [c \in Creators |-> 1]
    /\ read = [c \in Creators |-> Absent] /\ stale = [c \in Creators |-> FALSE]
    /\ sent = [c \in Creators |-> [uid |-> 0, gen |-> 0]]
    /\ exit = [c \in Creators |-> "running"]
    /\ others = 0
    /\ shown = {} /\ lost = FALSE /\ removed = {} /\ disturbed = {}
    /\ finished = {<<store[o].uid, store[o].obsGen>> : o \in {x \in Objects : store[x] # Absent}}

----------------------------------------------------------------------------
(* The API server.                                                         *)

\* A write makes the resource versions others have read old ...
Outdated(o) == [c \in Creators |-> stale[c] \/ (pc[c] = "write" /\ Step(c).object = o)]

\* ... and, unless it is of the status, disturbs those who deal with the object.
Disturbs(o, by) ==
    {c \in Creators \ by : pc[c] # "idle" /\ \E i \in DOMAIN job[c].plan : job[c].plan[i].object = o}

\* Whether the update of a record as it was read changes something.
SameContent(a, b) == a.spec = b.spec /\ a.labels = b.labels

\* The API server's answer to a write of o by the command c.
Stored(c, o, record) ==
    /\ store' = [store EXCEPT ![o] = record]
    /\ stale' = Outdated(o)
    /\ disturbed' = disturbed \cup Disturbs(o, {c})

----------------------------------------------------------------------------
(* `flux create`.                                                          *)

Begin(c) ==
    /\ pc[c] = "idle"
    /\ pc' = [pc EXCEPT ![c] = "get"]
    /\ UNCHANGED <<store, uids, run, job, at, read, stale, sent, exit, del, others, history>>

End(c, how) ==
    /\ pc' = [pc EXCEPT ![c] = "done"]
    /\ exit' = [exit EXCEPT ![c] = how]

\* What updates send: the API server keeps the status of an object.
MainOf(o) == IF o = Absent THEN Absent
             ELSE [uid |-> o.uid, gen |-> o.gen, spec |-> o.spec, labels |-> o.labels]

Get(c) ==
    /\ pc[c] = "get"
    /\ pc' = [pc EXCEPT ![c] = "write"]
    /\ read' = [read EXCEPT ![c] = MainOf(store[Step(c).object])]
    /\ stale' = [stale EXCEPT ![c] = FALSE]
    /\ UNCHANGED <<store, uids, run, job, at, sent, exit, del, others, history>>

\* What is made of the record that was read: upsertSecret adds labels, the sources
\* and the others replace them, a tenant's keep them if theirs are among them.
UpsertSecret(s, r) == [r EXCEPT !.spec = s.spec, !.labels = @ \cup s.labels]
UpsertReplaced(s, r) == [r EXCEPT !.spec = s.spec, !.labels = s.labels]
UpsertLabelled(s, r) == [r EXCEPT !.labels = IF s.labels \subseteq @ THEN @ ELSE s.labels]

Wish(s, r) ==
    CASE s.how = "secret" -> UpsertSecret(s, r)
      [] s.how \in {"replace", "ifChanged"} -> UpsertReplaced(s, r)
      [] s.how = "labels" -> UpsertLabelled(s, r)

\* Mutant of Differs: a role binding for another role is as good.
DiffersInLabels(s, r) == ~(s.labels \subseteq r.labels)

\* Whether a role binding must go: equality.Semantic.DeepDerivative.
Differs(s, r) == s.spec # r.spec \/ ~(s.labels \subseteq r.labels)

HasMore(c) == at[c] < Len(job[c].plan)

\* The step is done: the next one, the wait, or the end.
Proceed(c) ==
    IF HasMore(c)
    THEN /\ pc' = [pc EXCEPT ![c] = "get"] /\ at' = [at EXCEPT ![c] = @ + 1] /\ UNCHANGED exit
    ELSE IF job[c].waits # "none"
    THEN pc' = [pc EXCEPT ![c] = "poll"] /\ UNCHANGED <<at, exit>>
    ELSE End(c, "ok") /\ UNCHANGED at

SentIs(c, record) == sent' = [sent EXCEPT ![c] = [uid |-> record.uid, gen |-> record.gen]]

\* Create, for an object that was not there or has just been deleted.
Create(c) ==
    LET s == Step(c)
        o == s.object
    IN
       /\ pc[c] = "create" \/ (pc[c] = "write" /\ read[c] = Absent)
       /\ IF store[o] # Absent
          THEN End(c, "err") /\ UNCHANGED <<store, uids, stale, at, sent, disturbed>>
          ELSE /\ Stored(c, o, Fresh(uids + 1, s.spec, s.labels))
               /\ uids' = uids + 1
               /\ SentIs(c, Fresh(uids + 1, s.spec, s.labels))
               /\ Proceed(c)
    /\ UNCHANGED <<run, job, read, del, others, shown, finished, lost, removed>>

\* Mutant of Conflict: updates carry no resource version.
ConflictIfGone(c) == store[Step(c).object].uid # read[c].uid

\* The API server refuses an update of what is not there, or is no longer as read.
Conflict(c) == store[Step(c).object] = Absent \/ stale[c]

\* The record with another main part.
Replaced(record, main) ==
    [record EXCEPT !.uid = main.uid, !.gen = main.gen, !.spec = main.spec, !.labels = main.labels]

\* Update; an update that changes nothing is not one.
Update(c) ==
    LET s == Step(c)
        o == s.object
        wish == Wish(s, read[c])
        record == [wish EXCEPT !.gen = IF wish.spec = read[c].spec THEN @ ELSE @ + 1]
        skipped == SameContent(wish, read[c]) /\ s.how \in {"ifChanged", "labels"}
    IN /\ pc[c] = "write"
       /\ read[c] # Absent /\ s.how # "recreate"
       /\ IF ~skipped /\ Conflict(c)
          THEN End(c, "err") /\ UNCHANGED <<store, stale, at, sent, lost, disturbed>>
          ELSE /\ IF SameContent(wish, read[c]) THEN UNCHANGED <<store, stale, lost, disturbed>>
                  ELSE /\ Stored(c, o, Replaced(store[o], record))
                       /\ lost' = (lost \/ ~SameContent(store[o], read[c]))
               /\ SentIs(c, record)
               /\ Proceed(c)
    /\ UNCHANGED <<uids, run, job, read, del, others, shown, finished, removed>>

\* upsertRoleBinding: as it is, or deleted by name, whatever it has become.
Recreate(c) ==
    LET s == Step(c)
        o == s.object
    IN /\ pc[c] = "write"
       /\ read[c] # Absent /\ s.how = "recreate"
       /\ IF ~Differs(s, read[c]) THEN Proceed(c) /\ UNCHANGED <<store, stale, disturbed>>
          ELSE IF store[o] = Absent
          THEN End(c, "err") /\ UNCHANGED <<at, store, stale, disturbed>>
          ELSE /\ Stored(c, o, Absent)
               /\ pc' = [pc EXCEPT ![c] = "create"]
               /\ UNCHANGED <<at, exit>>
    /\ UNCHANGED <<uids, run, job, read, sent, del, others, shown, finished, lost, removed>>

\* Mutant of Ready: the Ready condition of any generation.
ReadyAtAnyGeneration(waits, o) ==
    IF o.deleting THEN "error"
    ELSE IF o.ready = "none" THEN "wait" ELSE StatusSwitch("static", o)

\* isObjectReadyConditionFunc and isStaticObjectReadyConditionFunc; a dynamic object
\* must have been observed before it counts that it is being deleted.
Ready(waits, o) ==
    IF o.deleting /\ (waits = "static" \/ (o.obsGen = o.gen /\ o.ready # "none"))
    THEN "error"
    ELSE IsObjectReady(IF waits = "dynamic" THEN "plain" ELSE "static", o)

\* A poll that does not wait for another one; an object that is ready may have to
\* have an artifact too.
Poll(c) ==
    LET o == store[Waited(c)] IN
    /\ pc[c] = "poll"
    /\ \/ o = Absent /\ End(c, "err")
       \/ o # Absent /\ Ready(job[c].waits, o) = "error" /\ End(c, "err")
       \/ /\ o # Absent /\ Ready(job[c].waits, o) = "done"
          /\ End(c, IF job[c].artifact /\ ~o.artifact THEN "err" ELSE "ok")
    /\ UNCHANGED <<store, uids, run, job, at, read, stale, sent, del, others, history>>

Running(c) == pc[c] \in {"get", "write", "create", "poll"}

\* A call fails, the deadline passes or the command is killed.
CallFails(c) ==
    /\ Running(c)
    /\ End(c, "err")
    /\ UNCHANGED <<store, uids, run, job, at, read, stale, sent, del, others, history>>

----------------------------------------------------------------------------
(* `flux delete`, with a deadline for each name.                           *)

Name == Head(del.names)

\* Mutant of Failure: the command goes on as if nothing had failed.
FailureForgotten(d) == d

Failure(d) == [d EXCEPT !.failed = @ + 1]

\* The next name, or the end.
NextName(d) ==
    [d EXCEPT !.names = Tail(@), !.pc = IF Len(d.names) = 1 THEN "done" ELSE "get"]

DeleteGet ==
    /\ del.pc = "get"
    /\ IF store[Name] = Absent
       THEN del' = NextName(Failure(del)) /\ UNCHANGED shown
       ELSE /\ del' = [del EXCEPT !.pc = "ask"]
            /\ shown' = shown \cup {<<Name, store[Name].uid>>}
    /\ UNCHANGED <<store, uids, run, job, local, others, finished, lost, removed, disturbed>>

\* The prompt; --silent is the user who agrees at once.
Agree ==
    /\ del.pc = "ask"
    /\ del' = [del EXCEPT !.pc = "delete"]
    /\ UNCHANGED <<store, uids, run, job, local, others, history>>

Decline ==
    /\ del.pc = "ask"
    /\ del' = [del EXCEPT !.pc = "aborted"]
    /\ UNCHANGED <<store, uids, run, job, local, others, history>>

\* The API server deletes: an object with a finalizer is only marked.
Deleted(o) ==
    IF o \in Reconciled /\ store[o].obsGen > 0
    THEN [store EXCEPT ![o].deleting = TRUE] ELSE [store EXCEPT ![o] = Absent]

\* Delete by name, whatever bears it now.
Delete ==
    /\ del.pc = "delete"
    /\ IF store[Name] = Absent
       THEN del' = NextName(Failure(del)) /\ UNCHANGED <<store, stale, removed, disturbed>>
       ELSE /\ del' = NextName(del)
            /\ store' = Deleted(Name)
            /\ stale' = Outdated(Name)
            /\ removed' = removed \cup {Name}
            /\ disturbed' = disturbed \cup Disturbs(Name, {})
    /\ UNCHANGED <<uids, run, job, pc, at, read, sent, exit, others, shown, finished, lost>>

DeleteFails ==
    /\ del.pc \in {"get", "delete"}
    /\ del' = NextName(Failure(del))
    /\ UNCHANGED <<store, uids, run, job, local, others, history>>

----------------------------------------------------------------------------
(* Other users and the controller, external.                               *)

OtherWrites(o, record) ==
    /\ others < MaxOther
    /\ others' = others + 1
    /\ store' = [store EXCEPT ![o] = record]
    /\ stale' = Outdated(o)
    /\ disturbed' = disturbed \cup Disturbs(o, {})
    /\ UNCHANGED <<run, job, pc, at, read, sent, exit, del, shown, finished, lost>>

OtherEdit(o) ==
    /\ store[o] # Absent /\ store[o].spec # "other"
    /\ OtherWrites(o, [store[o] EXCEPT !.spec = "other", !.gen = @ + 1])
    /\ UNCHANGED <<uids, removed>>

OtherCreate(o) ==
    /\ store[o] = Absent
    /\ OtherWrites(o, Fresh(uids + 1, "other", {}))
    /\ uids' = uids + 1 /\ UNCHANGED removed

OtherDelete(o) ==
    /\ store[o] # Absent
    /\ OtherWrites(o, Deleted(o)[o])
    /\ removed' = removed \cup {o} /\ UNCHANGED uids

StatusWritten(o, record) ==
    /\ store' = [store EXCEPT ![o] = record]
    /\ stale' = Outdated(o)
    /\ UNCHANGED <<uids, job, pc, at, read, sent, exit, del, others,
                   shown, lost, removed, disturbed>>

StartReconciling(o) ==
    /\ o \in Reconciled /\ store[o] # Absent /\ run[o] = Idle
    /\ ~store[o].deleting /\ ~(store[o].obsGen = store[o].gen /\ store[o].ready = "True")
    /\ run' = [run EXCEPT ![o] = [uid |-> store[o].uid, gen |-> store[o].gen,
                                  credentials |-> store[Secret] # Absent]]
    /\ StatusWritten(o, [store[o] EXCEPT !.reconciling = TRUE, !.ready = "Unknown"])
    /\ UNCHANGED finished

\* A run that has no credentials fails; one of an object that is gone is dropped.
FinishReconciling(o) ==
    /\ run[o] # Idle
    /\ run' = [run EXCEPT ![o] = Idle]
    /\ IF store[o].uid # run[o].uid
       THEN UNCHANGED <<store, uids, job, local, del, others, history>>
       ELSE \E ready \in IF run[o].credentials THEN {"True", "False"} ELSE {"False"}, has \in BOOLEAN :
              /\ StatusWritten(o, [store[o] EXCEPT !.obsGen = run[o].gen, !.ready = ready,
                                     !.artifact = has, !.reconciling = FALSE,
                                     !.stalled = (ready = "False")])
              /\ finished' = finished \cup
                    (IF ready = "True" THEN {<<run[o].uid, run[o].gen>>} ELSE {})

Finalize(o) ==
    /\ store[o] # Absent /\ store[o].deleting
    /\ StatusWritten(o, Absent)
    /\ UNCHANGED <<run, finished>>

----------------------------------------------------------------------------


Next ==
    \/ \E c \in Creators :
          Begin(c) \/ Get(c) \/ Create(c) \/ Update(c) \/ Recreate(c) \/ Poll(c) \/ CallFails(c)
    \/ DeleteGet \/ Agree \/ Decline \/ Delete \/ DeleteFails
    \/ \E o \in Objects : OtherEdit(o) \/ OtherCreate(o) \/ OtherDelete(o)
    \/ \E o \in Objects : StartReconciling(o) \/ FinishReconciling(o) \/ Finalize(o)

Spec == Init /\ [][Next]_vars

----------------------------------------------------------------------------

\* Types, and what there is to do in the states of a command.
TypeOK ==
    /\ uids \in Nat \ {0} /\ others \in 0..MaxOther
    /\ store \in [Objects -> {Absent} \cup Record] /\ \A o \in Objects : store[o].uid <= uids
    /\ run \in [Objects -> {Idle} \cup ObjectRun]
    /\ \A c \in Creators : IsJob(job[c], Objects) /\ at[c] \in DOMAIN job[c].plan
    /\ pc \in [Creators -> {"idle", "get", "write", "create", "poll", "done"}]
    /\ at \in [Creators -> Nat] /\ exit \in [Creators -> {"running", "ok", "err"}]
    /\ read \in [Creators -> {Absent} \cup Main] /\ stale \in [Creators -> BOOLEAN]
    /\ sent \in [Creators -> [uid : Nat, gen : Nat]]
    /\ del \in DeleteState(Objects)
    /\ del.pc \in {"get", "ask", "delete"} => del.names # <<>>
    /\ disturbed \subseteq Creators

\* An update never takes away a change that its command has not read.
NothingLost == TypeOK /\ ~lost

\* A command that succeeds while nobody else writes leaves all its objects as it
\* was asked to, whatever was there and whatever failed commands have left.
AsAsked ==
    \A c \in Creators : exit[c] = "ok" /\ c \notin disturbed =>
        \A i \in DOMAIN job[c].plan :
            LET s == job[c].plan[i]
                record == store[s.object]
            IN /\ record # Absent
               /\ s.how # "labels" => record.spec = s.spec
               /\ s.labels \subseteq record.labels

\* A source that needs credentials is never there without them, unless somebody
\* has deleted them.
CredentialsFirst ==
    \A c \in Creators : LET plan == job[c].plan IN
        \A i, j \in DOMAIN plan :
            /\ plan[i].object = Secret /\ plan[j].object \in Reconciled
            /\ store[plan[j].object] # Absent /\ store[plan[j].object].spec = plan[j].spec
            => store[Secret] # Absent \/ Secret \in removed

\* What a command that creates several objects leaves, whether it succeeds or
\* fails half way (create_tenant.go, create_source_git.go): all of them as asked,
\* or nothing that lacks what it needs.
LeftUsable == AsAsked /\ CredentialsFirst

\* `flux delete` succeeds only if all it was given were there, and what the user
\* was asked about is gone or going.
DeletedMeansGone ==
    del.pc = "done" /\ del.failed = 0 =>
        \A s \in shown : store[s[1]].uid # s[2] \/ store[s[1]].deleting

\* A command that waits succeeds only when the generation it has written, or a
\* later one, was reconciled, unless the object was replaced meanwhile.
SuccessMeansReconciled ==
    [][\A c \in Creators :
          /\ exit[c] = "running" /\ exit'[c] = "ok" /\ job[c].waits = "dynamic"
          /\ store[Waited(c)].uid = sent[c].uid
          => \E f \in finished : f[1] = sent[c].uid /\ f[2] >= sent[c].gen]_vars
=============================================================================

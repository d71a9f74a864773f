------------------------ MODULE PluginManagerProofs ------------------------
(***************************************************************************)
(* Proofs about PluginManager, for any plugins, versions and number of     *)
(* processes.                                                              *)
(*                                                                         *)
(* AsReported speaks of names nobody is at.  What makes it true is what a  *)
(* command that is half way there can rely on: as long as nobody has met   *)
(* it the binary is the one it has written, and as soon as somebody has    *)
(* the name is spoiled (Undisturbed).  A name with a binary placed by hand *)
(* is nobody's and has no receipt, which no update passes (ByHand).        *)
(***************************************************************************)
EXTENDS PluginManager, TLAPS

\* A command that downloads or writes a plugin knows its name and version.
Targets ==
    \A p \in Procs :
        /\ proc[p].pc \in {"download", "copy", "receipt", "unreceipt"} => proc[p].name \in Plugins
        /\ proc[p].pc \in {"download", "copy", "receipt"} => proc[p].version \in Versions

\* The binary that a command half way with its name has left there.
LeftBy(r) ==
    IF r.pc = "unreceipt" THEN NoFile
    ELSE [exists |-> TRUE, version |-> r.version, whole |-> r.pc = "receipt"]

Undisturbed ==
    \A p \in Procs, n \in Plugins : HalfWay(p, n) =>
        /\ n \notin manual
        /\ IF proc[p].alone
             THEN bin[n] = LeftBy(proc[p]) /\ \A q \in Procs \ {p} : ~HalfWay(q, n)
             ELSE n \in spoiled

\* An update is about to overwrite n.
Updating(p, n) == At(p, "download") /\ proc[p].name = n /\ proc[p].cmd = "update"

ByHand ==
    \A n \in manual :
        /\ n \notin spoiled
        /\ bin[n] = [exists |-> TRUE, version |-> Manual, whole |-> TRUE]
        /\ \A p \in Procs : ~Updating(p, n)

IInv == TypeOK /\ Targets /\ Undisturbed /\ ByHand /\ AsReported

----------------------------------------------------------------------------
(* Typing, and what the steps of a command do to its state.                *)

ProcType == [pc : Labels, cmd : {"none", "install", "update"}, todo : SUBSET Plugins,
             name : Plugins \cup {""}, version : 0..MaxVersion, alone : BOOLEAN]

\* The state of one command as TypeOK has it.
Sound(r) ==
    /\ r \in ProcType
    /\ r.pc = "check" => r.todo # {}
    /\ r.pc = "idle" => r = Idle

LEMMA TypeFacts ==
    TypeOK <=> /\ latest \in [Plugins -> Versions]
               /\ bin \in [Plugins -> [exists : BOOLEAN, version : 0..(MaxVersion + 1), whole : BOOLEAN]]
               /\ receipt \in [Plugins -> [exists : BOOLEAN, version : 0..MaxVersion]]
               /\ proc \in [Procs -> ProcType]
               /\ \A p \in Procs : Sound(proc[p])
               /\ spoiled \subseteq Plugins /\ manual \subseteq Plugins
               /\ reported \in [Plugins -> 0..MaxVersion]
BY DEF TypeOK, ProcType, Sound, At

LEMMA IdleSound == Sound(Idle)
BY PluginAssumption DEF Sound, Idle, ProcType, Labels

HalfWayLabels == {"copy", "receipt", "unreceipt"}

LEMMA HalfWayMeans ==
    ASSUME NEW q \in Procs, NEW n
    PROVE  HalfWay(q, n) <=> proc[q].name = n /\ proc[q].pc \in HalfWayLabels
BY DEF HalfWay, Busy, HalfWayLabels

\* A step of one process alone.
LEMMA OneMoves ==
    ASSUME NEW p \in Procs, NEW r, Sound(r), proc \in [Procs -> ProcType],
           \A q \in Procs : Sound(proc[q]),
           proc' = [proc EXCEPT ![p] = r]
    PROVE  /\ proc' \in [Procs -> ProcType] /\ \A q \in Procs : Sound(proc'[q])
           /\ proc'[p] = r /\ \A q \in Procs \ {p} : proc'[q] = proc[q]
BY DEF Sound

\* A command that goes on with the next name, or ends, is at no name.
LEMMA ProceedMeans ==
    ASSUME TypeOK, NEW p \in Procs, Proceed(p) \/ proc' = [proc EXCEPT ![p] = Idle]
    PROVE  \E r : /\ proc' = [proc EXCEPT ![p] = r]
                  /\ Sound(r) /\ r.pc \in {"idle", "check"}
<1>1. proc[p].todo \subseteq Plugins
  <2>1. Sound(proc[p])
        BY TypeFacts
  <2> QED BY <2>1 DEF Sound, ProcType
<1>2. Sound(Idle) /\ Idle.pc = "idle"
      BY IdleSound DEF Idle
<1> DEFINE onward == [Idle EXCEPT !.pc = "check", !.cmd = "update", !.todo = proc[p].todo]
<1>3. proc[p].todo # {} => Sound(onward) /\ onward.pc = "check"
  <2>1. Idle \in ProcType
        BY <1>2 DEF Sound
  <2>2. onward \in ProcType /\ onward.pc = "check" /\ onward.todo = proc[p].todo
        BY <1>1, <2>1 DEF ProcType, Labels
  <2> QED BY <2>2 DEF Sound
<1>4. \/ proc' = [proc EXCEPT ![p] = Idle]
      \/ proc[p].todo # {} /\ proc' = [proc EXCEPT ![p] = onward]
      BY DEF Proceed
<1> HIDE DEF onward
<1> QED BY <1>2, <1>3, <1>4

\* A command that is begun, or that checks the next plugin, is at no name.
LEMMA BeginMeans ==
    ASSUME TypeOK, NEW p \in Procs,
           (\E n \in Plugins, v \in Versions : Install(p, n, v)) \/ Update(p) \/ Check(p)
    PROVE  \E r : /\ proc' = [proc EXCEPT ![p] = r]
                  /\ Sound(r) /\ r.pc \in {"idle", "check", "download"}
                  /\ r.pc = "download" =>
                        /\ r.name \in Plugins /\ r.version \in Versions
                        /\ r.cmd = "update" => receipt[r.name].exists
<1>1. /\ Sound(Idle) /\ Idle \in ProcType /\ Idle.pc = "idle"
      /\ proc[p] \in ProcType /\ latest \in [Plugins -> Versions]
      BY TypeFacts, IdleSound DEF Sound, Idle
<1>2. ASSUME NEW n \in Plugins, NEW v \in Versions, Install(p, n, v)
      PROVE  \E r : /\ proc' = [proc EXCEPT ![p] = r]
                    /\ Sound(r) /\ r.pc = "download" /\ r.cmd = "install"
                    /\ r.name \in Plugins /\ r.version \in Versions
  <2> DEFINE r == [Idle EXCEPT !.pc = "download", !.cmd = "install", !.name = n, !.version = v]
  <2>1. v \in 0..MaxVersion
        BY DEF Versions
  <2>2. r \in ProcType /\ r.pc = "download" /\ r.cmd = "install" /\ r.name = n /\ r.version = v
        BY <1>1, <2>1 DEF ProcType, Labels
  <2> QED BY <1>2, <2>2 DEF Install, Sound
<1>3. ASSUME Update(p)
      PROVE  \E r : /\ proc' = [proc EXCEPT ![p] = r]
                    /\ Sound(r) /\ r.pc = "check"
  <2>1. PICK names \in SUBSET Plugins :
           /\ names # {}
           /\ proc' = [proc EXCEPT ![p] = [Idle EXCEPT !.pc = "check", !.cmd = "update",
                                                       !.todo = names]]
        BY <1>3 DEF Update
  <2> DEFINE r == [Idle EXCEPT !.pc = "check", !.cmd = "update", !.todo = names]
  <2>2. r \in ProcType /\ r.pc = "check" /\ r.todo = names
        BY <1>1 DEF ProcType, Labels
  <2> QED BY <2>1, <2>2 DEF Sound
<1>4. ASSUME Check(p)
      PROVE  \E r : /\ proc' = [proc EXCEPT ![p] = r]
                    /\ Sound(r) /\ r.pc \in {"idle", "check", "download"}
                    /\ r.pc = "download" =>
                          /\ r.name \in Plugins /\ r.version \in Versions
                          /\ r.cmd = "update" => receipt[r.name].exists
  <2>1. PICK n \in proc[p].todo :
          LET rest == [proc[p] EXCEPT !.todo = @ \ {n}] IN
          \/ /\ CheckUpdate(n) = "install"
             /\ proc' = [proc EXCEPT ![p] = [rest EXCEPT !.pc = "download", !.name = n,
                                                         !.version = latest[n]]]
          \/ proc' = [proc EXCEPT ![p] = IF rest.todo = {} THEN Idle ELSE rest]
        BY <1>4 DEF Check
  <2> DEFINE rest == [proc[p] EXCEPT !.todo = @ \ {n}]
             r == [rest EXCEPT !.pc = "download", !.name = n, !.version = latest[n]]
  <2>2. n \in Plugins /\ proc[p].pc = "check"
        BY <1>1, <1>4 DEF Check, At, ProcType
  <2>3. rest \in ProcType /\ rest.pc = "check"
        BY <1>1, <2>2 DEF ProcType
  <2>4. latest[n] \in Versions /\ latest[n] \in 0..MaxVersion
        BY <1>1, <2>2 DEF Versions
  <2>5. r \in ProcType /\ r.pc = "download" /\ r.name = n /\ r.version = latest[n]
        BY <2>2, <2>3, <2>4 DEF ProcType, Labels
  <2>6. CheckUpdate(n) = "install" => receipt[n].exists
        BY DEF CheckUpdate
  <2>7. rest.todo # {} => Sound(rest)
        BY <2>3 DEF Sound
  <2> HIDE DEF rest, r
  <2>8. CASE CheckUpdate(n) = "install" /\ proc' = [proc EXCEPT ![p] = r]
        BY <2>2, <2>4, <2>5, <2>6, <2>8 DEF Sound
  <2>9. CASE proc' = [proc EXCEPT ![p] = IF rest.todo = {} THEN Idle ELSE rest]
        BY <1>1, <2>3, <2>7, <2>9
  <2> QED BY <2>1, <2>8, <2>9 DEF rest, r
<1>5. CASE \E n \in Plugins, v \in Versions : Install(p, n, v)
      BY <1>2, <1>5
<1> QED BY <1>3, <1>4, <1>5

\* Entering a name: whoever is half way there is not alone any more.
LEMMA EnterMeans ==
    ASSUME TypeOK, NEW p \in Procs, NEW n \in Plugins, NEW label \in {"copy", "unreceipt"},
           Enter(p, n, label)
    PROVE  /\ proc' \in [Procs -> ProcType] /\ \A q \in Procs : Sound(proc'[q])
           /\ proc'[p].pc = label /\ proc'[p].name = n /\ proc'[p].version = proc[p].version
           /\ proc'[p].alone => \A q \in Procs \ {p} : ~HalfWay(q, n)
           /\ (\A q \in Procs \ {p} : ~HalfWay(q, n)) => proc'[p].alone
           /\ \A q \in Procs \ {p} :
                 IF HalfWay(q, n)
                   THEN /\ proc'[q].pc = proc[q].pc /\ proc'[q].name = proc[q].name
                        /\ proc'[q].version = proc[q].version /\ ~proc'[q].alone
                   ELSE proc'[q] = proc[q]
<1> DEFINE others == {q \in Procs \ {p} : HalfWay(q, n)}
           mine == [proc[p] EXCEPT !.pc = label, !.name = n, !.alone = others = {}]
           met(q) == [proc[q] EXCEPT !.alone = FALSE]
<1>1. /\ proc \in [Procs -> ProcType] /\ \A q \in Procs : Sound(proc[q])
      BY TypeFacts
<1>2. proc' = [q \in Procs |-> IF q = p THEN mine ELSE IF q \in others THEN met(q) ELSE proc[q]]
      BY DEF Enter
<1>3. (others = {}) \in BOOLEAN
      OBVIOUS
<1>4. /\ mine \in ProcType /\ mine.pc = label /\ mine.name = n /\ mine.version = proc[p].version
      /\ mine.alone = (others = {})
  <2>1. proc[p] \in ProcType
        BY <1>1
  <2> HIDE DEF others
  <2> QED BY <2>1 DEF ProcType, Labels
<1>5. ASSUME NEW q \in Procs, HalfWay(q, n)
      PROVE  /\ Sound(met(q)) /\ met(q).pc = proc[q].pc /\ met(q).name = proc[q].name
             /\ met(q).version = proc[q].version /\ met(q).alone = FALSE
  <2>1. proc[q] \in ProcType /\ proc[q].pc \notin {"idle", "check"}
        BY <1>1, <1>5, HalfWayMeans DEF HalfWayLabels
  <2> QED BY <2>1 DEF Sound, ProcType
<1>6. Sound(mine)
      BY <1>4 DEF Sound
<1> HIDE DEF mine, met
<1>7. \A q \in Procs : Sound(proc'[q])
      BY <1>1, <1>2, <1>5, <1>6
<1>8. proc' \in [Procs -> ProcType]
      BY <1>2, <1>7 DEF Sound
<1> QED BY <1>2, <1>4, <1>5, <1>7, <1>8

----------------------------------------------------------------------------
(* The inductive invariant.                                                *)

LEMMA InitIInv == Init => IInv
<1> SUFFICES ASSUME Init PROVE IInv
    OBVIOUS
<1>1. \A p \in Procs : proc[p] = Idle /\ proc[p].pc = "idle"
      BY DEF Init, Idle
<1>2. \A p \in Procs, n \in Plugins : ~HalfWay(p, n)
      BY <1>1, HalfWayMeans DEF HalfWayLabels
<1>3. TypeOK
  <2>1. proc \in [Procs -> ProcType] /\ \A p \in Procs : Sound(proc[p])
        BY IdleSound DEF Init, Sound
  <2>2. 1 \in Versions /\ 0 \in 0..MaxVersion /\ 0 \in 0..(MaxVersion + 1)
        BY PluginAssumption DEF Versions
  <2> QED BY <2>1, <2>2, TypeFacts DEF Init, NoFile, NoReceipt
<1> QED BY <1>1, <1>2, <1>3
        DEF IInv, Init, Targets, Undisturbed, ByHand, AsReported, NoFile, NoReceipt

\* A name with a binary placed by hand has no receipt.
LEMMA ByHandNoReceipt ==
    ASSUME IInv, NEW n \in manual
    PROVE  n \in Plugins /\ receipt[n] = NoReceipt /\ reported[n] = 0
<1>0. manual \subseteq Plugins
      BY TypeFacts DEF IInv
<1>1. n \in Plugins \ spoiled /\ \A q \in Procs : ~HalfWay(q, n)
      BY <1>0 DEF IInv, ByHand, Undisturbed
<1>2. bin[n].version = 0
      BY DEF IInv, ByHand, Manual
<1>3. CASE reported[n] = 0
      BY <1>1, <1>3, Zenon DEF IInv, AsReported
<1>4. CASE reported[n] # 0
  <2>1. bin[n] = [exists |-> TRUE, version |-> reported[n], whole |-> TRUE]
        BY <1>1, <1>4, Zenon DEF IInv, AsReported
  <2> QED BY <1>2, <1>4, <2>1
<1> QED BY <1>3, <1>4

\* A command that is begun changes nothing yet.
LEMMA BeginKeeps ==
    ASSUME IInv, NEW p \in Procs, UNCHANGED <<latest, files, history>>,
           (\E n \in Plugins, v \in Versions : Install(p, n, v)) \/ Update(p) \/ Check(p)
    PROVE  IInv'
<1>1. PICK r : /\ proc' = [proc EXCEPT ![p] = r]
               /\ Sound(r) /\ r.pc \in {"idle", "check", "download"}
               /\ r.pc = "download" =>
                     /\ r.name \in Plugins /\ r.version \in Versions
                     /\ r.cmd = "update" => receipt[r.name].exists
      BY BeginMeans DEF IInv
<1>2. /\ proc' \in [Procs -> ProcType] /\ \A q \in Procs : Sound(proc'[q])
      /\ proc'[p] = r /\ \A q \in Procs \ {p} : proc'[q] = proc[q]
      BY <1>1, OneMoves, TypeFacts DEF IInv
<1>3. TypeOK'
      BY <1>2 DEF IInv, files, history, TypeOK, ProcType, Sound, At
<1>4. Targets'
      BY <1>1 DEF IInv, Targets
<1>5. proc[p].pc \in {"idle", "check"}
      BY DEF Install, Update, Check, At
<1>6. \A q \in Procs, n \in Plugins : HalfWay(q, n)' <=> HalfWay(q, n)
      BY <1>1, <1>5 DEF HalfWay, Busy
<1>7. Undisturbed'
      BY <1>2, <1>5, <1>6 DEF IInv, Undisturbed, files, history, HalfWay
<1>8. ByHand'
  <2>1. \A n \in manual : ~receipt[n].exists
        BY ByHandNoReceipt DEF NoReceipt
  <2> QED BY <1>1, <1>2, <2>1 DEF IInv, ByHand, Updating, At, files, history
<1>9. AsReported'
      BY <1>6 DEF IInv, AsReported, files, history
<1> QED BY <1>3, <1>4, <1>7, <1>8, <1>9 DEF IInv

\* What a command that ends leaves to the others, whatever becomes of the receipt:
\* the name is spoiled, or the command was alone there, or was not half way.
LEMMA EndKeeps ==
    ASSUME IInv, NEW p \in Procs, Proceed(p) \/ proc' = [proc EXCEPT ![p] = Idle],
           UNCHANGED <<latest, bin, manual>>,
           \/ spoiled' = spoiled \cup Touched(p)
           \/ /\ HalfWay(p, proc[p].name)
              /\ spoiled' = IF proc[p].alone THEN spoiled \ {proc[p].name} ELSE spoiled
    PROVE  /\ proc' \in [Procs -> ProcType] /\ \A q \in Procs : Sound(proc'[q])
           /\ spoiled' \subseteq Plugins
           /\ Targets' /\ Undisturbed' /\ ByHand'
           /\ \A n \in Plugins \ {proc[p].name} :
                 /\ n \in spoiled' <=> n \in spoiled
                 /\ \A q \in Procs : HalfWay(q, n)' <=> HalfWay(q, n)
<1>t. /\ proc \in [Procs -> ProcType] /\ \A q \in Procs : Sound(proc[q])
      /\ spoiled \subseteq Plugins /\ manual \subseteq Plugins
      BY TypeFacts DEF IInv
<1>1. PICK r : /\ proc' = [proc EXCEPT ![p] = r]
               /\ Sound(r) /\ r.pc \in {"idle", "check"}
      BY ProceedMeans DEF IInv
<1>2. /\ proc' \in [Procs -> ProcType] /\ \A q \in Procs : Sound(proc'[q])
      /\ proc'[p] = r /\ \A q \in Procs \ {p} : proc'[q] = proc[q]
      BY <1>t, <1>1, OneMoves
<1>3. Targets'
      BY <1>1 DEF IInv, Targets
<1>4. \A q \in Procs, n \in Plugins : HalfWay(q, n)' <=> HalfWay(q, n) /\ q # p
      BY <1>1, <1>2 DEF HalfWay, Busy
<1>5. \A n \in manual : n \in Plugins /\ n \notin spoiled /\ ~HalfWay(p, n)
      BY <1>t DEF IInv, ByHand, Undisturbed
<1>6. ByHand'
  <2>1. \A n \in manual : n \notin spoiled'
        BY <1>5 DEF Touched
  <2>2. \A n \in manual, q \in Procs : ~Updating(q, n)'
        BY <1>1 DEF IInv, ByHand, Updating, At
  <2> QED BY <2>1, <2>2 DEF IInv, ByHand
<1>7. Undisturbed'
  <2> SUFFICES ASSUME NEW q \in Procs, NEW n \in Plugins, HalfWay(q, n)'
               PROVE  /\ n \notin manual'
                      /\ IF proc'[q].alone
                           THEN /\ bin'[n] = LeftBy(proc'[q])
                                /\ \A o \in Procs \ {q} : ~HalfWay(o, n)'
                           ELSE n \in spoiled'
      BY DEF Undisturbed
  <2>1. HalfWay(q, n) /\ q # p /\ proc'[q] = proc[q]
        BY <1>2, <1>4
  <2>2. n \in spoiled => n \in spoiled' \/ (HalfWay(p, n) /\ proc[p].alone)
        OBVIOUS
  <2>3. ~(HalfWay(p, n) /\ proc[p].alone)
        BY <2>1 DEF IInv, Undisturbed
  <2> QED BY <1>4, <2>1 DEF IInv, Undisturbed
<1>8. \A n \in Plugins \ {proc[p].name} :
         /\ n \in spoiled' <=> n \in spoiled
         /\ \A q \in Procs : HalfWay(q, n)' <=> HalfWay(q, n)
  <2>1. \A n \in Plugins \ {proc[p].name} : ~HalfWay(p, n)
        BY DEF HalfWay, Busy
  <2> QED BY <1>4, <2>1 DEF Touched
<1>9. spoiled' \subseteq Plugins
      BY <1>t DEF Touched
<1> QED BY <1>2, <1>3, <1>6, <1>7, <1>8, <1>9

\* The files of the other names are as they were reported.
LEMMA OthersAsReported ==
    ASSUME AsReported, NEW m, UNCHANGED manual,
           \A n \in Plugins \ {m} :
              /\ n \in spoiled' <=> n \in spoiled
              /\ \A q \in Procs : HalfWay(q, n)' <=> HalfWay(q, n)
              /\ receipt'[n] = receipt[n] /\ bin'[n] = bin[n] /\ reported'[n] = reported[n],
           m \in Plugins \ spoiled' => 
              IF reported'[m] = 0
                THEN receipt'[m] = NoReceipt /\ (bin'[m].exists => m \in manual')
                ELSE /\ receipt'[m] = [exists |-> TRUE, version |-> reported'[m]]
                     /\ bin'[m] = [exists |-> TRUE, version |-> reported'[m], whole |-> TRUE]
    PROVE  AsReported'
<1> SUFFICES ASSUME NEW n \in Plugins, n \notin spoiled', \A q \in Procs : ~HalfWay(q, n)'
             PROVE  IF reported'[n] = 0
                      THEN receipt'[n] = NoReceipt /\ (bin'[n].exists => n \in manual')
                      ELSE /\ receipt'[n] = [exists |-> TRUE, version |-> reported'[n]]
                           /\ bin'[n] = [exists |-> TRUE, version |-> reported'[n], whole |-> TRUE]
    BY DEF AsReported
<1>1. CASE n # m
      BY DEF AsReported
<1> QED BY <1>1

\* A command that is half way and was alone finds its binary; if it was not
\* alone the name is spoiled.
LEMMA FoundThere ==
    ASSUME IInv, NEW p \in Procs, proc[p].pc \in HalfWayLabels
    PROVE  LET n == proc[p].name IN
           /\ n \in Plugins /\ HalfWay(p, n) /\ n \notin manual
           /\ IF proc[p].alone THEN bin[n] = LeftBy(proc[p]) ELSE n \in spoiled
<1>1. proc[p].name \in Plugins /\ HalfWay(p, proc[p].name)
      BY HalfWayMeans DEF IInv, Targets, HalfWayLabels
<1> QED BY <1>1 DEF IInv, Undisturbed

LEMMA WriteReceiptKeeps ==
    ASSUME IInv, NEW p \in Procs, WriteReceipt(p)
    PROVE  IInv'
<1> DEFINE n == proc[p].name
           v == proc[p].version
<1>t. /\ receipt \in [Plugins -> [exists : BOOLEAN, version : 0..MaxVersion]]
      /\ reported \in [Plugins -> 0..MaxVersion]
      BY TypeFacts DEF IInv
<1>1. /\ n \in Plugins /\ HalfWay(p, n)
      /\ IF proc[p].alone THEN bin[n] = LeftBy(proc[p]) ELSE n \in spoiled
      BY FoundThere DEF WriteReceipt, At, HalfWayLabels
<1>2. v \in Versions /\ v # 0 /\ v \in 0..MaxVersion
      BY DEF WriteReceipt, At, IInv, Targets, Versions
<1>3. /\ receipt' = [receipt EXCEPT ![n] = [exists |-> TRUE, version |-> v]]
      /\ reported' = [reported EXCEPT ![n] = v]
      /\ spoiled' = IF proc[p].alone THEN spoiled \ {n} ELSE spoiled
      /\ Proceed(p) /\ UNCHANGED <<latest, bin, manual>> /\ proc[p].pc = "receipt"
      BY DEF WriteReceipt, At
<1>4. /\ proc' \in [Procs -> ProcType] /\ \A q \in Procs : Sound(proc'[q])
      /\ spoiled' \subseteq Plugins
      /\ Targets' /\ Undisturbed' /\ ByHand'
      /\ \A m \in Plugins \ {n} :
            /\ m \in spoiled' <=> m \in spoiled
            /\ \A q \in Procs : HalfWay(q, m)' <=> HalfWay(q, m)
      BY <1>1, <1>3, EndKeeps
<1>5. TypeOK'
      BY <1>3, <1>4 DEF IInv, TypeOK, ProcType, Sound, At
<1>6. /\ receipt'[n] = [exists |-> TRUE, version |-> v] /\ reported'[n] = v
      /\ \A m \in Plugins \ {n} : receipt'[m] = receipt[m] /\ reported'[m] = reported[m]
      BY <1>t, <1>1, <1>3
<1>7. n \notin spoiled' => bin'[n] = [exists |-> TRUE, version |-> v, whole |-> TRUE]
      BY <1>1, <1>3 DEF LeftBy
<1>8. AsReported'
  <2>1. /\ AsReported /\ UNCHANGED manual
        /\ n \in Plugins \ spoiled' =>
              IF reported'[n] = 0
                THEN receipt'[n] = NoReceipt /\ (bin'[n].exists => n \in manual')
                ELSE /\ receipt'[n] = [exists |-> TRUE, version |-> reported'[n]]
                     /\ bin'[n] = [exists |-> TRUE, version |-> reported'[n], whole |-> TRUE]
        BY <1>2, <1>3, <1>6, <1>7 DEF IInv
  <2>2. \A m \in Plugins \ {n} :
           /\ m \in spoiled' <=> m \in spoiled
           /\ \A q \in Procs : HalfWay(q, m)' <=> HalfWay(q, m)
           /\ receipt'[m] = receipt[m] /\ bin'[m] = bin[m] /\ reported'[m] = reported[m]
        BY <1>3, <1>4
  <2> HIDE DEF n
  <2> QED BY <2>1, <2>2, OthersAsReported
<1> QED BY <1>4, <1>5, <1>8 DEF IInv

LEMMA RemoveReceiptKeeps ==
    ASSUME IInv, NEW p \in Procs, RemoveReceipt(p)
    PROVE  IInv'
<1> DEFINE n == proc[p].name
<1>t. /\ receipt \in [Plugins -> [exists : BOOLEAN, version : 0..MaxVersion]]
      /\ reported \in [Plugins -> 0..MaxVersion]
      BY TypeFacts DEF IInv
<1>1. /\ n \in Plugins /\ HalfWay(p, n)
      /\ IF proc[p].alone THEN bin[n] = LeftBy(proc[p]) ELSE n \in spoiled
      BY FoundThere DEF RemoveReceipt, At, HalfWayLabels
<1>3. /\ receipt' = [receipt EXCEPT ![n] = NoReceipt]
      /\ reported' = [reported EXCEPT ![n] = 0]
      /\ spoiled' = IF proc[p].alone THEN spoiled \ {n} ELSE spoiled
      /\ Proceed(p) /\ UNCHANGED <<latest, bin, manual>> /\ proc[p].pc = "unreceipt"
      BY DEF RemoveReceipt, Unreceipted, At
<1>4. /\ proc' \in [Procs -> ProcType] /\ \A q \in Procs : Sound(proc'[q])
      /\ spoiled' \subseteq Plugins
      /\ Targets' /\ Undisturbed' /\ ByHand'
      /\ \A m \in Plugins \ {n} :
            /\ m \in spoiled' <=> m \in spoiled
            /\ \A q \in Procs : HalfWay(q, m)' <=> HalfWay(q, m)
      BY <1>1, <1>3, EndKeeps
<1>5. TypeOK'
  <2>1. 0 \in 0..MaxVersion
        BY PluginAssumption
  <2> QED BY <1>t, <1>1, <1>3, <1>4, <2>1, TypeFacts
          DEF IInv, TypeOK, ProcType, Sound, At, NoReceipt
<1>6. /\ receipt'[n] = NoReceipt /\ reported'[n] = 0
      /\ \A m \in Plugins \ {n} : receipt'[m] = receipt[m] /\ reported'[m] = reported[m]
      BY <1>t, <1>1, <1>3
<1>7. n \notin spoiled' => ~bin'[n].exists
      BY <1>1, <1>3 DEF LeftBy, NoFile
<1>8. AsReported'
      BY <1>3, <1>4, <1>6, <1>7, OthersAsReported DEF IInv
<1> QED BY <1>4, <1>5, <1>8 DEF IInv

LEMMA StopKeeps ==
    ASSUME IInv, NEW p \in Procs, Fails(p) \/ Killed(p)
    PROVE  IInv'
<1> DEFINE n == proc[p].name
<1>t. /\ receipt \in [Plugins -> [exists : BOOLEAN, version : 0..MaxVersion]]
      /\ reported \in [Plugins -> 0..MaxVersion]
      BY TypeFacts DEF IInv
<1>1. /\ \/ receipt' = receipt
         \/ At(p, "receipt") /\ receipt' = [receipt EXCEPT ![n] = EmptyReceipt]
      /\ spoiled' = spoiled \cup Touched(p)
      /\ Proceed(p) \/ proc' = [proc EXCEPT ![p] = Idle]
      /\ UNCHANGED <<latest, bin, reported, manual>>
      BY DEF Fails, Killed
<1>2. /\ proc' \in [Procs -> ProcType] /\ \A q \in Procs : Sound(proc'[q])
      /\ spoiled' \subseteq Plugins
      /\ Targets' /\ Undisturbed' /\ ByHand'
      /\ \A m \in Plugins \ {n} :
            /\ m \in spoiled' <=> m \in spoiled
            /\ \A q \in Procs : HalfWay(q, m)' <=> HalfWay(q, m)
      BY <1>1, EndKeeps
<1>3. receipt' \in [Plugins -> [exists : BOOLEAN, version : 0..MaxVersion]]
  <2>1. EmptyReceipt \in [exists : BOOLEAN, version : 0..MaxVersion]
        BY PluginAssumption DEF EmptyReceipt
  <2> QED BY <1>t, <1>1, <2>1
<1>4. TypeOK'
      BY <1>1, <1>2, <1>3 DEF IInv, TypeOK, ProcType, Sound, At
<1>5. \A m \in Plugins \ {n} : receipt'[m] = receipt[m]
      BY <1>t, <1>1
<1>6. CASE HalfWay(p, n)
  <2>1. n \in Plugins => n \in spoiled'
        BY <1>1, <1>6 DEF Touched
  <2> QED BY <1>1, <1>2, <1>4, <1>5, <2>1, OthersAsReported DEF IInv
<1>7. CASE ~HalfWay(p, n)
  <2>1. receipt' = receipt
        BY <1>1, <1>7 DEF At, HalfWay, Busy
  <2>2. spoiled' = spoiled
        BY <1>1, <1>7 DEF Touched, HalfWay, Busy
  <2>3. \A q \in Procs \ {p} : proc'[q] = proc[q]
        BY <1>1, ProceedMeans, TypeFacts DEF IInv
  <2>4. \A q \in Procs, m \in Plugins : HalfWay(q, m) => HalfWay(q, m)'
        BY <1>7, <2>3 DEF HalfWay, Busy
  <2>5. AsReported'
        BY <1>1, <2>1, <2>4 DEF IInv, AsReported
  <2> QED BY <1>2, <1>4, <2>5 DEF IInv
<1> QED BY <1>6, <1>7

\* The first change of a file of a name.
LEMMA EnterKeeps ==
    ASSUME IInv, NEW p \in Procs, NEW n \in Plugins, NEW label \in {"copy", "unreceipt"},
           NEW b \in [exists : BOOLEAN, version : 0..(MaxVersion + 1), whole : BOOLEAN],
           Enter(p, n, label), proc[p].pc \notin HalfWayLabels,
           label = "copy" => proc[p].version \in Versions,
           bin' = [bin EXCEPT ![n] = b], b = LeftBy(proc'[p]),
           manual' = manual \ {n},
           spoiled' = IF \E q \in Procs \ {p} : HalfWay(q, n) THEN spoiled \cup {n} ELSE spoiled,
           UNCHANGED <<latest, receipt, reported>>
    PROVE  IInv'
<1>t. /\ bin \in [Plugins -> [exists : BOOLEAN, version : 0..(MaxVersion + 1), whole : BOOLEAN]]
      /\ spoiled \subseteq Plugins /\ manual \subseteq Plugins
      BY TypeFacts DEF IInv
<1>1. /\ proc' \in [Procs -> ProcType] /\ \A q \in Procs : Sound(proc'[q])
      /\ proc'[p].pc = label /\ proc'[p].name = n /\ proc'[p].version = proc[p].version
      /\ proc'[p].alone => \A q \in Procs \ {p} : ~HalfWay(q, n)
      /\ (\A q \in Procs \ {p} : ~HalfWay(q, n)) => proc'[p].alone
      /\ \A q \in Procs \ {p} :
            IF HalfWay(q, n)
              THEN /\ proc'[q].pc = proc[q].pc /\ proc'[q].name = proc[q].name
                   /\ proc'[q].version = proc[q].version /\ ~proc'[q].alone
              ELSE proc'[q] = proc[q]
      BY EnterMeans DEF IInv
<1>2. \A q \in Procs \ {p} :
         /\ proc'[q].pc = proc[q].pc /\ proc'[q].name = proc[q].name
         /\ proc'[q].version = proc[q].version
      BY <1>1
<1>3. \A q \in Procs, m \in Plugins : HalfWay(q, m)' <=> IF q = p THEN m = n ELSE HalfWay(q, m)
      BY <1>1 DEF HalfWay, Busy
<1>4. bin'[n] = LeftBy(proc'[p]) /\ \A m \in Plugins \ {n} : bin'[m] = bin[m]
      BY <1>t
<1>5. TypeOK'
  <2>1. /\ bin' \in [Plugins -> [exists : BOOLEAN, version : 0..(MaxVersion + 1), whole : BOOLEAN]]
        /\ spoiled' \subseteq Plugins /\ manual' \subseteq Plugins
        BY <1>t
  <2> QED BY <1>1 DEF IInv, TypeOK, ProcType, Sound, At
<1>6. Targets'
      BY <1>1 DEF IInv, Targets
<1>7. Undisturbed'
  <2> SUFFICES ASSUME NEW q \in Procs, NEW m \in Plugins, HalfWay(q, m)'
               PROVE  /\ m \notin manual'
                      /\ IF proc'[q].alone
                           THEN /\ bin'[m] = LeftBy(proc'[q])
                                /\ \A o \in Procs \ {q} : ~HalfWay(o, m)'
                           ELSE m \in spoiled'
      BY DEF Undisturbed
  <2>1. CASE q = p
        BY <1>1, <1>3, <1>4, <2>1
  <2>2. CASE q # p /\ m = n
        BY <1>1, <1>3, <2>2
  <2>3. CASE q # p /\ m # n
    <3>1. HalfWay(q, m) /\ ~HalfWay(q, n)
          BY <1>3, <2>3 DEF HalfWay, Busy
    <3>2. proc'[q] = proc[q] /\ bin'[m] = bin[m] /\ (m \in spoiled => m \in spoiled')
          BY <1>1, <2>3, <3>1
    <3> QED BY <1>3, <3>1, <3>2 DEF IInv, Undisturbed
  <2> QED BY <2>1, <2>2, <2>3
<1>8. ByHand'
  <2>1. ASSUME NEW m \in manual', NEW q \in Procs PROVE ~Updating(q, m)'
    <3>1. CASE q # p /\ ~HalfWay(q, n)
          BY <1>1, <3>1 DEF IInv, ByHand, Updating, At
    <3>2. CASE q # p /\ HalfWay(q, n)
          BY <1>2, <3>2 DEF Updating, HalfWay, Busy
    <3>3. CASE q = p
          BY <1>1, <3>3 DEF Updating
    <3> QED BY <3>1, <3>2, <3>3
  <2>2. \A m \in manual' : m \in manual /\ m # n /\ m \notin spoiled' /\ bin'[m] = bin[m]
        BY DEF IInv, ByHand
  <2> QED BY <2>1, <2>2 DEF IInv, ByHand
<1>9. AsReported'
  <2> SUFFICES ASSUME NEW m \in Plugins, m \notin spoiled', \A q \in Procs : ~HalfWay(q, m)'
               PROVE  IF reported'[m] = 0
                        THEN receipt'[m] = NoReceipt /\ (bin'[m].exists => m \in manual')
                        ELSE /\ receipt'[m] = [exists |-> TRUE, version |-> reported'[m]]
                             /\ bin'[m] = [exists |-> TRUE, version |-> reported'[m], whole |-> TRUE]
      BY DEF AsReported
  <2>1. m # n /\ m \notin spoiled /\ \A q \in Procs : ~HalfWay(q, m)
    <3>1. m # n
          BY <1>3
    <3>2. ~HalfWay(p, m)
          BY HalfWayMeans
    <3> QED BY <1>3, <3>2
  <2>2. receipt'[m] = receipt[m] /\ bin'[m] = bin[m] /\ reported'[m] = reported[m]
        BY <2>1
  <2>3. IF reported[m] = 0
          THEN receipt[m] = NoReceipt /\ (bin[m].exists => m \in manual)
          ELSE /\ receipt[m] = [exists |-> TRUE, version |-> reported[m]]
               /\ bin[m] = [exists |-> TRUE, version |-> reported[m], whole |-> TRUE]
        BY <2>1, Zenon DEF IInv, AsReported
  <2> QED BY <2>1, <2>3
<1> QED BY <1>5, <1>6, <1>7, <1>8, <1>9 DEF IInv

LEMMA CreateKeeps ==
    ASSUME IInv, NEW p \in Procs, Create(p)
    PROVE  IInv'
<1> DEFINE n == proc[p].name
           v == proc[p].version
           b == [exists |-> TRUE, version |-> v, whole |-> FALSE]
<1>1. n \in Plugins /\ v \in Versions /\ proc[p].pc = "download"
      BY DEF Create, At, IInv, Targets
<1>2. bin' = [bin EXCEPT ![n] = b]
      BY DEF Create, Verified
<1>3. b \in [exists : BOOLEAN, version : 0..(MaxVersion + 1), whole : BOOLEAN]
      BY <1>1, PluginAssumption DEF Versions
<1>4. b = LeftBy(proc'[p])
  <2>1. Enter(p, n, "copy")
        BY DEF Create
  <2>2. proc'[p].pc = "copy" /\ proc'[p].version = v
        BY <1>1, <2>1, EnterMeans DEF IInv
  <2> QED BY <2>2 DEF LeftBy
<1>5. /\ Enter(p, n, "copy") /\ manual' = manual \ {n}
      /\ spoiled' = IF \E q \in Procs \ {p} : HalfWay(q, n) THEN spoiled \cup {n} ELSE spoiled
      /\ UNCHANGED <<latest, receipt, reported>>
      BY DEF Create
<1>6. "copy" \in {"copy", "unreceipt"} /\ proc[p].pc \notin HalfWayLabels
      BY <1>1 DEF HalfWayLabels
<1> HIDE DEF n, v, b
<1> QED BY <1>1, <1>2, <1>3, <1>4, <1>5, <1>6, EnterKeeps DEF v

LEMMA UninstallKeeps ==
    ASSUME IInv, NEW p \in Procs, NEW n \in Plugins, Uninstall(p, n)
    PROVE  IInv'
<1>1. NoFile \in [exists : BOOLEAN, version : 0..(MaxVersion + 1), whole : BOOLEAN]
      BY PluginAssumption DEF NoFile
<1>2. Enter(p, n, "unreceipt") /\ proc[p].pc \notin HalfWayLabels
      BY DEF Uninstall, At, HalfWayLabels
<1>3. NoFile = LeftBy(proc'[p])
      BY <1>2, EnterMeans DEF IInv, LeftBy
<1>4. /\ bin' = [bin EXCEPT ![n] = NoFile] /\ manual' = manual \ {n}
      /\ spoiled' = IF \E q \in Procs \ {p} : HalfWay(q, n) THEN spoiled \cup {n} ELSE spoiled
      /\ UNCHANGED <<latest, receipt, reported>>
      BY DEF Uninstall
<1> QED BY <1>1, <1>2, <1>3, <1>4, EnterKeeps

LEMMA CopyKeeps ==
    ASSUME IInv, NEW p \in Procs, Copy(p)
    PROVE  IInv'
<1> DEFINE n == proc[p].name
           r == [proc[p] EXCEPT !.pc = "receipt"]
<1>t. /\ bin \in [Plugins -> [exists : BOOLEAN, version : 0..(MaxVersion + 1), whole : BOOLEAN]]
      /\ proc \in [Procs -> ProcType] /\ \A q \in Procs : Sound(proc[q])
      BY TypeFacts DEF IInv
<1>1. /\ n \in Plugins /\ HalfWay(p, n) /\ n \notin manual
      /\ IF proc[p].alone THEN bin[n] = LeftBy(proc[p]) ELSE n \in spoiled
      BY FoundThere DEF Copy, At, HalfWayLabels
<1>2. PICK w \in BOOLEAN :
         /\ w <=> /\ bin[n].exists /\ bin[n].version \in {proc[p].version, Corrupt}
                  /\ \A q \in Procs \ {p} : ~(Busy(q, n) /\ At(q, "copy"))
         /\ bin' = [bin EXCEPT ![n].whole = w]
      BY DEF Copy
<1>3. /\ r \in ProcType /\ r.pc = "receipt" /\ r.name = n /\ r.alone = proc[p].alone
      /\ r.version = proc[p].version /\ proc' = [proc EXCEPT ![p] = r]
  <2>1. proc[p] \in ProcType
        BY <1>t
  <2>2. proc' = [proc EXCEPT ![p] = r]
        BY DEF Copy
  <2> QED BY <2>1, <2>2 DEF ProcType, Labels
<1>4. proc[p].pc = "copy" /\ UNCHANGED <<latest, receipt, spoiled, reported, manual>>
      BY DEF Copy, At, history
<1> HIDE DEF r
<1>5. /\ proc' \in [Procs -> ProcType] /\ \A q \in Procs : Sound(proc'[q])
      /\ proc'[p] = r /\ \A q \in Procs \ {p} : proc'[q] = proc[q]
  <2>1. Sound(r)
        BY <1>3 DEF Sound
  <2> QED BY <1>t, <1>3, <2>1
<1>6. \A q \in Procs, m \in Plugins : HalfWay(q, m)' <=> HalfWay(q, m)
      BY <1>3, <1>4 DEF HalfWay, Busy
<1>7. \A m \in Plugins \ {n} : bin'[m] = bin[m]
      BY <1>2
<1>8. TypeOK'
  <2>1. bin' \in [Plugins -> [exists : BOOLEAN, version : 0..(MaxVersion + 1), whole : BOOLEAN]]
        BY <1>t, <1>2
  <2> QED BY <1>4, <1>5, <2>1 DEF IInv, TypeOK, ProcType, Sound, At
<1>9. Targets'
      BY <1>3, <1>4 DEF IInv, Targets
<1>10. proc[p].alone => bin'[n] = LeftBy(r)
  <2> SUFFICES ASSUME proc[p].alone PROVE bin'[n] = LeftBy(r)
      OBVIOUS
  <2>1. bin[n] = [exists |-> TRUE, version |-> proc[p].version, whole |-> FALSE]
        BY <1>1, <1>4 DEF LeftBy
  <2>2. \A q \in Procs \ {p} : ~(Busy(q, n) /\ At(q, "copy"))
        BY <1>1 DEF IInv, Undisturbed, HalfWay, At
  <2>3. bin[n].exists /\ bin[n].version \in {proc[p].version, Corrupt}
        BY <2>1
  <2>4. w = TRUE
        BY <1>2, <2>2, <2>3, Zenon
  <2>5. /\ bin'[n] \in [exists : BOOLEAN, version : 0..(MaxVersion + 1), whole : BOOLEAN]
        /\ bin'[n].exists = bin[n].exists /\ bin'[n].version = bin[n].version
        /\ bin'[n].whole = TRUE
        BY <1>t, <1>1, <1>2, <2>4
  <2>6. bin'[n] = [exists |-> TRUE, version |-> proc[p].version, whole |-> TRUE]
    <3>1. bin'[n] = [exists |-> bin'[n].exists, version |-> bin'[n].version, whole |-> bin'[n].whole]
          BY <2>5
    <3>2. bin[n].exists = TRUE /\ bin[n].version = proc[p].version
          BY <2>1
    <3> QED BY <2>5, <3>2
  <2>7. LeftBy(r) = [exists |-> TRUE, version |-> proc[p].version, whole |-> TRUE]
        BY <1>3 DEF LeftBy
  <2> QED BY <2>6, <2>7
<1>11. Undisturbed'
  <2> SUFFICES ASSUME NEW q \in Procs, NEW m \in Plugins, HalfWay(q, m)'
               PROVE  /\ m \notin manual'
                      /\ IF proc'[q].alone
                           THEN /\ bin'[m] = LeftBy(proc'[q])
                                /\ \A o \in Procs \ {q} : ~HalfWay(o, m)'
                           ELSE m \in spoiled'
      BY DEF Undisturbed
  <2>1. CASE q = p
    <3>1. m = n
          BY <1>3, <2>1 DEF HalfWay, Busy
    <3> QED BY <1>3, <1>4, <1>5, <1>6, <1>10, <2>1, <3>1 DEF IInv, Undisturbed
  <2>2. CASE q # p
    <3>1. HalfWay(q, m) /\ proc'[q] = proc[q]
          BY <1>5, <1>6, <2>2
    <3>2. proc[q].alone => m # n
          BY <1>1, <2>2, <3>1 DEF IInv, Undisturbed
    <3> QED BY <1>4, <1>6, <1>7, <3>1, <3>2 DEF IInv, Undisturbed
  <2> QED BY <2>1, <2>2
<1>12. ByHand'
  <2>1. \A m \in manual : m \in Plugins \ {n}
        BY <1>1, TypeFacts DEF IInv
  <2>2. \A m \in manual, q \in Procs : ~Updating(q, m)'
        BY <1>3 DEF IInv, ByHand, Updating, At
  <2> QED BY <1>4, <1>7, <2>1, <2>2 DEF IInv, ByHand
<1>13. AsReported'
  <2>1. \A m \in Plugins : (\A q \in Procs : ~HalfWay(q, m)') => m # n
        BY <1>1, <1>6
  <2> QED BY <1>4, <1>6, <1>7, <2>1 DEF IInv, AsReported
<1> QED BY <1>8, <1>9, <1>11, <1>12, <1>13 DEF IInv

LEMMA PublishKeeps ==
    ASSUME IInv, NEW n \in Plugins, Publish(n)
    PROVE  IInv'
<1>1. latest' \in [Plugins -> Versions]
  <2>1. latest \in [Plugins -> Versions]
        BY TypeFacts DEF IInv
  <2>2. latest[n] + 1 \in Versions
        BY <2>1, PluginAssumption DEF Publish, Versions
  <2> QED BY <2>1, <2>2 DEF Publish
<1>2. UNCHANGED <<bin, receipt, proc, spoiled, reported, manual>>
      BY DEF Publish, files, history
<1>3. TypeOK'
      BY <1>1, <1>2 DEF IInv, TypeOK, At
<1>4. Targets' /\ Undisturbed' /\ ByHand' /\ AsReported'
      BY <1>2 DEF IInv, Targets, Undisturbed, ByHand, AsReported, HalfWay, Busy, Updating, At
<1> QED BY <1>3, <1>4 DEF IInv

LEMMA UserPlacesKeeps ==
    ASSUME IInv, NEW n \in Plugins, UserPlaces(n)
    PROVE  IInv'
<1> DEFINE placed == [exists |-> TRUE, version |-> Manual, whole |-> TRUE]
           proper == ~bin[n].exists /\ n \notin spoiled /\ \A q \in Procs : ~Busy(q, n)
           met(q) == [proc[q] EXCEPT !.alone = FALSE]
<1>t. /\ bin \in [Plugins -> [exists : BOOLEAN, version : 0..(MaxVersion + 1), whole : BOOLEAN]]
      /\ proc \in [Procs -> ProcType] /\ \A q \in Procs : Sound(proc[q])
      /\ spoiled \subseteq Plugins /\ manual \subseteq Plugins
      BY TypeFacts DEF IInv
<1>1. /\ bin' = [bin EXCEPT ![n] = placed]
      /\ manual' = IF proper THEN manual \cup {n} ELSE manual
      /\ spoiled' = IF proper \/ n \in manual THEN spoiled ELSE spoiled \cup {n}
      /\ proc' = [q \in Procs |-> IF HalfWay(q, n) THEN met(q) ELSE proc[q]]
      /\ UNCHANGED <<latest, receipt, reported>>
      BY DEF UserPlaces
<1>2. bin'[n] = placed /\ \A m \in Plugins \ {n} : bin'[m] = bin[m]
      BY <1>t, <1>1
<1>3. ASSUME NEW q \in Procs, HalfWay(q, n)
      PROVE  /\ Sound(met(q)) /\ met(q).pc = proc[q].pc /\ met(q).name = proc[q].name
             /\ met(q).version = proc[q].version /\ met(q).alone = FALSE
  <2>1. proc[q] \in ProcType /\ proc[q].pc \notin {"idle", "check"}
        BY <1>t, <1>3, HalfWayMeans DEF HalfWayLabels
  <2> QED BY <2>1 DEF Sound, ProcType
<1> HIDE DEF met, proper
<1>4. /\ proc' \in [Procs -> ProcType]
      /\ \A q \in Procs :
            /\ Sound(proc'[q])
            /\ IF HalfWay(q, n)
                 THEN /\ proc'[q].pc = proc[q].pc /\ proc'[q].name = proc[q].name
                      /\ proc'[q].version = proc[q].version /\ ~proc'[q].alone
                 ELSE proc'[q] = proc[q]
  <2>1. \A q \in Procs : Sound(proc'[q])
        BY <1>t, <1>1, <1>3
  <2>2. proc' \in [Procs -> ProcType]
        BY <1>1, <2>1 DEF Sound
  <2> QED BY <1>1, <1>3, <2>1, <2>2
<1>5. \A q \in Procs, m \in Plugins : /\ HalfWay(q, m)' <=> HalfWay(q, m)
                                      /\ Updating(q, m)' => Updating(q, m)
  <2> SUFFICES ASSUME NEW q \in Procs
               PROVE  \A m \in Plugins : /\ HalfWay(q, m)' <=> HalfWay(q, m)
                                         /\ Updating(q, m)' => Updating(q, m)
      OBVIOUS
  <2>1. CASE HalfWay(q, n)
        BY <1>4 DEF HalfWay, Busy, Updating, At
  <2>2. CASE ~HalfWay(q, n)
        BY <1>4 DEF HalfWay, Busy, Updating, At
  <2> QED BY <2>1, <2>2
<1>6. proper => /\ n \notin spoiled /\ receipt[n] = NoReceipt /\ reported[n] = 0
                /\ \A q \in Procs : ~HalfWay(q, n) /\ ~Updating(q, n)
  <2> SUFFICES ASSUME proper
               PROVE  /\ n \notin spoiled /\ receipt[n] = NoReceipt /\ reported[n] = 0
                      /\ \A q \in Procs : ~HalfWay(q, n) /\ ~Updating(q, n)
      OBVIOUS
  <2>1. n \notin spoiled /\ ~bin[n].exists
        BY DEF proper
  <2>2. \A q \in Procs : ~HalfWay(q, n) /\ ~Updating(q, n)
        BY DEF proper, HalfWay, Updating, At, Busy
  <2>3. CASE reported[n] = 0
        BY <2>1, <2>2, <2>3, Zenon DEF IInv, AsReported
  <2>4. CASE reported[n] # 0
    <3>1. bin[n] = [exists |-> TRUE, version |-> reported[n], whole |-> TRUE]
          BY <2>1, <2>2, <2>4, Zenon DEF IInv, AsReported
    <3> QED BY <2>1, <3>1
  <2> QED BY <2>3, <2>4
<1>7. n \in manual => /\ n \notin spoiled /\ receipt[n] = NoReceipt /\ reported[n] = 0
                      /\ \A q \in Procs : ~HalfWay(q, n) /\ ~Updating(q, n)
      BY ByHandNoReceipt DEF IInv, ByHand, Undisturbed
<1>8. TypeOK'
  <2>1. placed \in [exists : BOOLEAN, version : 0..(MaxVersion + 1), whole : BOOLEAN]
        BY PluginAssumption DEF Manual
  <2>2. bin' \in [Plugins -> [exists : BOOLEAN, version : 0..(MaxVersion + 1), whole : BOOLEAN]]
        BY <1>t, <1>1, <2>1
  <2>3. spoiled' \subseteq Plugins /\ manual' \subseteq Plugins
        BY <1>t, <1>1
  <2> QED BY <1>1, <1>4, <2>2 DEF IInv, TypeOK, ProcType, Sound, At
<1>9. Targets'
  <2>1. \A q \in Procs : /\ proc'[q].pc = proc[q].pc /\ proc'[q].name = proc[q].name
                         /\ proc'[q].version = proc[q].version
        BY <1>4
  <2> QED BY <2>1 DEF IInv, Targets
<1>10. Undisturbed'
  <2> SUFFICES ASSUME NEW q \in Procs, NEW m \in Plugins, HalfWay(q, m)
               PROVE  /\ m \notin manual'
                      /\ IF proc'[q].alone
                           THEN /\ bin'[m] = LeftBy(proc'[q])
                                /\ \A o \in Procs \ {q} : ~HalfWay(o, m)
                           ELSE m \in spoiled'
      BY <1>5 DEF Undisturbed
  <2>1. CASE m = n
        BY <1>1, <1>4, <1>6, <1>7, <2>1
  <2>2. CASE m # n
    <3>1. ~HalfWay(q, n)
          BY <2>2 DEF HalfWay, Busy
    <3>2. proc'[q] = proc[q] /\ bin'[m] = bin[m]
          BY <1>2, <1>4, <3>1
    <3>3. (m \in manual' <=> m \in manual) /\ (m \in spoiled' <=> m \in spoiled)
          BY <1>1, <2>2
    <3> QED BY <3>2, <3>3 DEF IInv, Undisturbed
  <2> QED BY <2>1, <2>2
<1>11. ByHand'
  <2> SUFFICES ASSUME NEW m \in manual'
               PROVE  m \notin spoiled' /\ bin'[m] = placed /\ \A q \in Procs : ~Updating(q, m)'
      BY DEF ByHand
  <2>1. CASE m = n
        BY <1>1, <1>2, <1>5, <1>6, <1>7, <2>1
  <2>2. CASE m # n
    <3>1. m \in manual /\ m \in Plugins /\ (m \in spoiled' <=> m \in spoiled) /\ bin'[m] = bin[m]
          BY <1>t, <1>1, <2>2
    <3> QED BY <1>5, <3>1 DEF IInv, ByHand
  <2> QED BY <2>1, <2>2
<1>12. AsReported'
  <2> SUFFICES ASSUME NEW m \in Plugins, m \notin spoiled', \A q \in Procs : ~HalfWay(q, m)
               PROVE  IF reported[m] = 0
                        THEN receipt[m] = NoReceipt /\ (bin'[m].exists => m \in manual')
                        ELSE /\ receipt[m] = [exists |-> TRUE, version |-> reported[m]]
                             /\ bin'[m] = [exists |-> TRUE, version |-> reported[m], whole |-> TRUE]
      BY <1>1, <1>5 DEF AsReported
  <2>1. CASE m = n
        BY <1>1, <1>6, <1>7, <2>1
  <2>2. CASE m # n
    <3>1. m \notin spoiled /\ bin'[m] = bin[m] /\ (m \in manual => m \in manual')
          BY <1>1, <2>2
    <3>2. IF reported[m] = 0
            THEN receipt[m] = NoReceipt /\ (bin[m].exists => m \in manual)
            ELSE /\ receipt[m] = [exists |-> TRUE, version |-> reported[m]]
                 /\ bin[m] = [exists |-> TRUE, version |-> reported[m], whole |-> TRUE]
          BY <3>1, Zenon DEF IInv, AsReported
    <3> QED BY <3>1, <3>2
  <2> QED BY <2>1, <2>2
<1> QED BY <1>8, <1>9, <1>10, <1>11, <1>12 DEF IInv

LEMMA NextIInv == IInv /\ [Next]_vars => IInv'
<1> SUFFICES ASSUME IInv, [Next]_vars PROVE IInv'
    OBVIOUS
<1>1. ASSUME NEW p \in Procs,
             (\E n \in Plugins, v \in Versions : Install(p, n, v)) \/ Update(p) \/ Check(p)
      PROVE  IInv'
  <2>1. UNCHANGED <<latest, files, history>>
        BY <1>1 DEF Install, Update, Check
  <2> QED BY <1>1, <2>1, BeginKeeps
<1>2. ASSUME NEW p \in Procs, NEW n \in Plugins, Uninstall(p, n)
      PROVE  IInv'
      BY <1>2, UninstallKeeps
<1>3. ASSUME NEW p \in Procs,
             Create(p) \/ Copy(p) \/ WriteReceipt(p) \/ RemoveReceipt(p) \/ Fails(p) \/ Killed(p)
      PROVE  IInv'
      BY <1>3, CreateKeeps, CopyKeeps, WriteReceiptKeeps, RemoveReceiptKeeps, StopKeeps
<1>4. ASSUME NEW n \in Plugins, Publish(n) \/ UserPlaces(n)
      PROVE  IInv'
      BY <1>4, PublishKeeps, UserPlacesKeeps
<1>5. CASE UNCHANGED vars
      BY <1>5 DEF vars, files, history, IInv, TypeOK, Targets, Undisturbed, ByHand, AsReported,
                  HalfWay, Busy, Updating, At
<1> QED BY <1>1, <1>2, <1>3, <1>4, <1>5 DEF Next

----------------------------------------------------------------------------
(* The theorems.                                                           *)

\* What is called up to date is, as what is reported is true.
LEMMA UpToDateFollows == IInv => UpToDateIsNewest
<1> SUFFICES ASSUME IInv, NEW n \in Plugins \ spoiled, \A q \in Procs : ~HalfWay(q, n),
                    CheckUpdate(n) = "uptodate"
             PROVE  bin[n].whole /\ bin[n].version = latest[n]
    BY DEF UpToDateIsNewest
<1>1. receipt[n].exists /\ receipt[n].version = latest[n]
      BY DEF CheckUpdate
<1>2. receipt[n] # NoReceipt
      BY <1>1 DEF NoReceipt
<1>3. /\ receipt[n] = [exists |-> TRUE, version |-> reported[n]]
      /\ bin[n] = [exists |-> TRUE, version |-> reported[n], whole |-> TRUE]
      BY <1>2, Zenon DEF IInv, AsReported
<1> QED BY <1>1, <1>3

\* What the plugin commands last reported about a name, and what update calls up
\* to date, is true of the files there: for any number of commands at the same
\* time, failures and kills, of every name that no command left half way and
\* where no two of them met (plugin/install.go, plugin/update.go).
THEOREM InstalledTruly == Spec => []InstalledIsTrue
<1>1. IInv => InstalledIsTrue
      BY UpToDateFollows DEF IInv, InstalledIsTrue
<1> QED BY InitIInv, NextIInv, <1>1, PTL DEF Spec

\* A binary properly placed by hand is never overwritten by an update, not even
\* by one that was running while it was placed (CheckUpdate in plugin/update.go).
THEOREM ManualIsKept == Spec => ManualKept
<1>1. IInv /\ [Next]_vars =>
         [\A n \in manual : \A p \in Procs :
             At(p, "download") /\ proc[p].name = n /\ proc[p].cmd = "update"
                => bin'[n] = bin[n]]_vars
      BY DEF IInv, ByHand, Updating
<1> QED BY InitIInv, NextIInv, <1>1, PTL DEF Spec, ManualKept
=============================================================================

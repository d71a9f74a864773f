---------------------- MODULE ConcurrentCommandsProofs ----------------------
(***************************************************************************)
(* Proofs about ConcurrentCommands, for any plans of builders, pods and    *)
(* logs, watches, invocations of the receiver and numbers of retries.      *)
(*                                                                         *)
(* One command runs, so the invariant is that of each command by itself.   *)
(* What it relates: of a build, each directory to what the builder at work *)
(* has made of it and to the action that Cancel goes by; of the logs, what *)
(* is shown and held to how far each request has got and whether its       *)
(* message has left the pipe; of the watches, what was printed to what     *)
(* each goroutine has received; of the trigger, the attempts made to those *)
(* that came through and those that were never answered.                   *)
(***************************************************************************)
EXTENDS ConcurrentCommands, SequenceTheorems, TLAPS

----------------------------------------------------------------------------
(* flux build kustomization.                                               *)

Untouched == {"start", "locking", "saving", "reporting"}
Generating == {"unlocking", "recording", "waiting", "building", "cleaning"}
Noted == {"waiting", "building", "cleaning"}

\* What a builder makes of a directory in which the user has f.
Kept(f) == [file |-> f.file, saved |-> f.file]
Filled(f) == [file |-> "generated", saved |-> f.file]
ActionFor(f) == IF f.file = "none" THEN "created" ELSE "updated"

\* The directory of the builder at work, as far as Cancel has not crossed with it.
DirAtWork(is, was) ==
    /\ worker \in Untouched => is = was
    /\ worker = "writing" => is = Kept(was) /\ made = ActionFor(was)
    /\ worker \in Generating =>
          made = ActionFor(was) /\ (is = Filled(was) \/ (seen # "" /\ is = was))
    /\ worker = "failing" =>
          \/ made = "unchanged" /\ is = was
          \/ made = ActionFor(was) /\ (is \in {Kept(was), Filled(was)} \/ (seen # "" /\ is = was))

\* What the first builder's action says, which is what Cancel goes by.
Recorded ==
    /\ worker \in Noted => action[at] = made
    /\ at = 1 /\ worker \notin Noted \cup {"reporting"} => action[1] = "unset"
    /\ at = 1 /\ action[1] # "unset" => action[1] = ActionFor(found[plan[1]])
    /\ at > 1 => action[1] = ActionFor(found[plan[1]])
    /\ seen # "" => seen = "unset" \/ seen = action[1]

OnDisk ==
    /\ \A d \in Building!Dirs : d # plan[at] /\ ~(crossed /\ d = plan[1]) => dirs[d] = found[d]
    /\ ~(crossed /\ plan[at] = plan[1]) => DirAtWork(dirs[plan[at]], found[plan[at]])
    /\ Recorded
    /\ at = 1 /\ seen \notin {"", "unset"} => dirs[plan[1]] = found[plan[1]]
    /\ crossed => at > 1

BuildInv ==
    /\ Building!TypeOK
    /\ \A d \in Building!Dirs : found[d].saved = "none" /\ found[d].file # "generated"
    /\ inMemory => dirs = found /\ worker # "writing"
    /\ ~inMemory => OnDisk
    /\ main \in {"waiting", "cancelling"} => seen = ""
    /\ main = "leaving" => seen # ""
    /\ main = "ended" /\ seen = "" => worker = "reporting"
    /\ seen = "" => ~crossed

LEMMA PlansAssumed ==
    ASSUME NEW p \in Plans
    PROVE  /\ 1 \in DOMAIN p /\ DOMAIN p = 1 .. Len(p) /\ Len(p) \in Nat
           /\ \A i \in DOMAIN p : p[i] \in Building!Dirs
<1>1. p \in Seq(Building!Dirs) /\ p # <<>>
  BY ConcurrentAssumption
<1> QED
  BY <1>1

DirType == [file : Building!Files, saved : Building!Files]
UserDir == {f \in DirType : f.saved = "none" /\ f.file # "generated"}

\* Cleaning up leaves the directory as the user had it, if it is given the action
\* that was taken, and does no harm to it if that is done again.
LEMMA CleaningRestores ==
    ASSUME NEW f \in UserDir
    PROVE  /\ Building!CleanDirectory(f, ActionFor(f)) = {f}
           /\ Building!CleanDirectory(Kept(f), ActionFor(f)) = {f}
           /\ Building!CleanDirectory(Filled(f), ActionFor(f)) = {f}
           /\ Building!CleanDirectory(f, "unset") = {f} /\ Building!CleanDirectory(f, "unchanged") = {f}
           /\ Building!CleanDirectory(Filled(f), "unset") \subseteq {Filled(f), f}
<1>1. f = [file |-> f.file, saved |-> "none"] /\ f.file \in {"none", "user"}
  BY DEF UserDir, DirType, Building!Files
<1> HIDE DEF UserDir
<1>2. CASE f.file = "none"
  BY <1>1, <1>2 DEF Building!CleanDirectory, ActionFor, Kept, Filled
<1>3. CASE f.file = "user"
  BY <1>1, <1>3 DEF Building!CleanDirectory, ActionFor, Kept, Filled
<1> QED
  BY <1>1, <1>2, <1>3

LEMMA CleaningAtWork ==
    ASSUME NEW f \in UserDir, NEW is, NEW a,
           \/ a \in {"unset", "unchanged"} /\ is = f
           \/ a = ActionFor(f) /\ is \in {f, Kept(f), Filled(f)}
    PROVE  Building!CleanDirectory(is, a) = {f}
  BY CleaningRestores

LEMMA CleaningTyped ==
    ASSUME NEW d \in DirType, NEW a
    PROVE  Building!CleanDirectory(d, a) \subseteq DirType
  BY DEF DirType, Building!Files, Building!CleanDirectory

LEMMA MadeTyped ==
    ASSUME NEW f \in UserDir
    PROVE  f \in DirType /\ Kept(f) \in DirType /\ Filled(f) \in DirType /\ ActionFor(f) \in {"created", "updated"}
  BY DEF UserDir, DirType, Building!Files, Kept, Filled, ActionFor

LEMMA BuildInit == Building!Init => BuildInv
<1> SUFFICES ASSUME Building!Init
             PROVE  BuildInv
  OBVIOUS
<1>1. PICK has \in [Building!Dirs -> {"none", "user"}] : found = [d \in Building!Dirs |-> [file |-> has[d], saved |-> "none"]]
  BY DEF Building!Init
<1>2. found \in [Building!Dirs -> [file : Building!Files, saved : Building!Files]]
  BY <1>1 DEF Building!Files
<1>3. \A d \in Building!Dirs : found[d].saved = "none" /\ found[d].file # "generated"
  BY <1>1
<1>4. plan \in Plans /\ 1 \in DOMAIN plan /\ \A i \in DOMAIN plan : plan[i] \in Building!Dirs
  BY PlansAssumed DEF Building!Init
<1>5. Building!TypeOK
  BY <1>2, <1>4 DEF Building!Init, Building!TypeOK, Building!Actions
<1>6. OnDisk
  <2>1. Recorded
    <3>1. at = 1 /\ worker = "start" /\ action[1] = "unset" /\ seen = ""
      BY <1>4 DEF Building!Init
    <3>2. ~(at > 1)
      <4>1. at = 1
        BY <3>1
      <4> QED
        BY <4>1
    <3> QED
      BY <3>1, <3>2 DEF Recorded, Noted
  <2>2. DirAtWork(dirs[plan[at]], found[plan[at]])
    BY <1>4 DEF Building!Init, DirAtWork, Untouched, Generating
  <2> QED
    BY <1>4, <2>1, <2>2 DEF Building!Init, OnDisk
<1> QED
  BY <1>3, <1>5, <1>6 DEF Building!Init, BuildInv

LEMMA BuildUnchanged == BuildInv /\ UNCHANGED building => BuildInv'
<1> SUFFICES ASSUME BuildInv, UNCHANGED building
             PROVE  BuildInv'
  OBVIOUS
<1>1. UNCHANGED <<plan, inMemory, found, dirs, lock, at, action, made, worker, main, signalled, failed, seen, crossed>>
  BY DEF building
<1>2. Building!TypeOK'
  BY <1>1 DEF BuildInv, Building!TypeOK
<1>3. \A f, u : DirAtWork(f, u)' <=> DirAtWork(f, u)
  BY <1>1 DEF DirAtWork
<1>4. Recorded' <=> Recorded
  BY <1>1 DEF Recorded
<1>5. OnDisk' <=> OnDisk
  BY <1>1, <1>3, <1>4 DEF OnDisk
<1> QED
  BY <1>1, <1>2, <1>5 DEF BuildInv

\* What the type invariant says of the directories and of the builder at work.
Placed ==
    /\ plan \in Plans /\ at \in 1 .. Len(plan) /\ Len(plan) \in Nat
    /\ plan[1] \in Building!Dirs /\ plan[at] \in Building!Dirs
    /\ dirs \in [Building!Dirs -> DirType] /\ found \in [Building!Dirs -> UserDir]
    /\ action \in [1 .. Len(plan) -> Building!Actions]
    /\ inMemory \in BOOLEAN

LEMMA BuildPlaced == BuildInv => Placed
<1> SUFFICES ASSUME BuildInv
             PROVE  Placed
  OBVIOUS
<1>1. plan \in Plans /\ at \in DOMAIN plan /\ action \in [DOMAIN plan -> Building!Actions] /\ inMemory \in BOOLEAN
  BY DEF BuildInv, Building!TypeOK
<1>2. DOMAIN plan = 1 .. Len(plan) /\ Len(plan) \in Nat /\ plan[1] \in Building!Dirs /\ plan[at] \in Building!Dirs
  BY <1>1, PlansAssumed
<1>3. dirs \in [Building!Dirs -> DirType] /\ found \in [Building!Dirs -> DirType]
  BY DEF BuildInv, Building!TypeOK, DirType
<1>4. found \in [Building!Dirs -> UserDir]
  BY <1>3 DEF BuildInv, UserDir
<1> QED
  BY <1>1, <1>2, <1>3, <1>4 DEF Placed

\* The files of a directory that is cleaned up.
LEMMA CleanedUp ==
    ASSUME Placed, ~inMemory, NEW path \in Building!Dirs, NEW a, Building!Cleanup(path, a)
    PROVE  /\ dirs' \in [Building!Dirs -> DirType]
           /\ dirs'[path] \in Building!CleanDirectory(dirs[path], a)
           /\ \A d \in Building!Dirs : d # path => dirs'[d] = dirs[d]
<1>1. PICK c \in Building!CleanDirectory(dirs[path], a) : dirs' = [dirs EXCEPT ![path] = c]
  BY DEF Building!Cleanup
<1>2. c \in DirType
  BY <1>1, CleaningTyped DEF Placed
<1> QED
  BY <1>1, <1>2 DEF Placed

\* A step of the goroutine that leaves the files alone and goes on with its builder.
LEMMA BuildMoves ==
    ASSUME OnDisk, UNCHANGED <<plan, found, dirs, at, seen, crossed>>,
           ~(crossed /\ plan[at] = plan[1]) => DirAtWork(dirs[plan[at]], found[plan[at]])',
           Recorded'
    PROVE  OnDisk'
  BY DEF OnDisk

\* What all steps of the goroutine have in common.
Going == main # "ended" /\ UNCHANGED <<plan, inMemory, found, signalled, crossed>>

LEMMA SavedAndWritten ==
    ASSUME NEW f \in UserDir
    PROVE  /\ [f EXCEPT !.saved = f.file] = Kept(f)
           /\ [Kept(f) EXCEPT !.file = "generated"] = Filled(f)
           /\ (IF f.file = "none" THEN "created" ELSE "updated") = ActionFor(f)
<1>1. f = [file |-> f.file, saved |-> "none"]
  BY DEF UserDir, DirType, Building!Files
<1> QED
  BY <1>1 DEF Kept, Filled, ActionFor

LEMMA BuildNext == BuildInv /\ Building!Next => BuildInv'
<1> SUFFICES ASSUME BuildInv, Building!Next
             PROVE  BuildInv'
  OBVIOUS
<1>0. Placed
  BY BuildPlaced
<1> DEFINE d0 == plan[at]
           Rest == /\ \A d \in Building!Dirs : found[d].saved = "none" /\ found[d].file # "generated"
                   /\ inMemory => dirs = found /\ worker # "writing"
                   /\ main \in {"waiting", "cancelling"} => seen = ""
                   /\ main = "leaving" => seen # ""
                   /\ main = "ended" /\ seen = "" => worker = "reporting"
                   /\ seen = "" => ~crossed
<1>i. (~inMemory => OnDisk) /\ Rest /\ Building!TypeOK
  BY DEF BuildInv
<1>c. ~inMemory => (crossed => at > 1) /\ (~(crossed /\ d0 = plan[1]) => DirAtWork(dirs[d0], found[d0]))
  BY <1>i, Zenon DEF OnDisk
<1>f. ~inMemory /\ at = 1 => ~crossed
  BY <1>c, <1>0 DEF Placed
<1>r. ~inMemory => Recorded
  BY <1>i, Zenon DEF OnDisk
<1>1. CASE Building!Resolve /\ Going
  <2> USE <1>1 DEF Building!Resolve, Going
  <2>1. Building!TypeOK'
    BY <1>i DEF Building!TypeOK
  <2>2. ASSUME ~inMemory
        PROVE  OnDisk'
    BY <1>i, <2>2, BuildMoves DEF OnDisk, DirAtWork, Recorded, Untouched, Generating, Noted
  <2>3. Rest'
    BY <1>i
  <2> QED
    BY <2>1, <2>2, <2>3 DEF BuildInv
<1>2. CASE Building!Lock /\ Going
  <2> USE <1>2 DEF Building!Lock, Going
  <2>1. Building!TypeOK'
    BY <1>i DEF Building!TypeOK, Building!Acquire
  <2>2. ASSUME ~inMemory
        PROVE  OnDisk'
    BY <1>i, <2>2, BuildMoves DEF OnDisk, DirAtWork, Recorded, Untouched, Generating, Noted
  <2>3. Rest'
    BY <1>i
  <2> QED
    BY <2>1, <2>2, <2>3 DEF BuildInv
<1>3. CASE Building!Save /\ Going
  <2> USE <1>3 DEF Building!Save, Going, Building!dir
  <2>1. Building!TypeOK'
    <3>1. dirs' \in [Building!Dirs -> DirType]
      BY <1>0 DEF Placed, DirType, Building!Files
    <3> QED
      BY <1>i, <3>1 DEF Building!TypeOK, Building!Actions, DirType
  <2>2. ASSUME ~inMemory
        PROVE  OnDisk'
    <3>1. CASE worker' = "writing"
      <4>1. /\ dirs' = [dirs EXCEPT ![d0].saved = dirs[d0].file]
            /\ made' = IF dirs[d0].file = "none" THEN "created" ELSE "updated"
        BY <2>2, <3>1
      <4>2. \A d \in Building!Dirs : d # d0 => dirs'[d] = dirs[d]
        BY <4>1, <1>0 DEF Placed
      <4>3. ~(crossed /\ d0 = plan[1]) => dirs'[d0] = Kept(found[d0]) /\ made' = ActionFor(found[d0])
        <5>1. SUFFICES ASSUME ~(crossed /\ d0 = plan[1])
                       PROVE  dirs'[d0] = Kept(found[d0]) /\ made' = ActionFor(found[d0])
          OBVIOUS
        <5>2. dirs[d0] = found[d0]
          BY <1>i, <2>2, <5>1 DEF OnDisk, DirAtWork, Untouched
        <5>3. dirs'[d0] = [found[d0] EXCEPT !.saved = found[d0].file]
          BY <4>1, <5>2, <1>0 DEF Placed
        <5> QED
          BY <4>1, <5>2, <5>3, <1>0, SavedAndWritten DEF Placed
      <4>4. ~(crossed /\ d0 = plan[1]) => DirAtWork(dirs[plan[at]], found[plan[at]])'
        BY <3>1, <4>3 DEF DirAtWork, Untouched, Generating
      <4>5. Recorded' /\ (at = 1 => seen \in {"", "unset"})
        BY <1>f, <1>r, <2>2, <3>1 DEF Recorded, Noted
      <4> QED
        BY <1>i, <2>2, <4>2, <4>4, <4>5 DEF OnDisk
    <3>2. CASE worker' = "failing"
      BY <1>i, <2>2, <3>2, BuildMoves DEF OnDisk, DirAtWork, Recorded, Untouched, Generating, Noted
    <3> QED
      BY <2>2, <3>1, <3>2
  <2>3. Rest'
    BY <1>i
  <2> QED
    BY <2>1, <2>2, <2>3 DEF BuildInv
<1>4. CASE Building!Write /\ Going
  <2> USE <1>4 DEF Building!Write, Going, Building!dir
  <2>0. ~inMemory
    BY <1>i, <1>0 DEF Placed
  <2>1. Building!TypeOK'
    <3>1. dirs' \in [Building!Dirs -> DirType]
      BY <1>0 DEF Placed, DirType, Building!Files
    <3> QED
      BY <1>i, <3>1 DEF Building!TypeOK, Building!Actions, DirType
  <2>2. OnDisk'
    <3>1. \A d \in Building!Dirs : d # d0 => dirs'[d] = dirs[d]
      BY <1>0 DEF Placed
    <3>2. dirs'[d0] = dirs[d0] \/ dirs'[d0] = [dirs[d0] EXCEPT !.file = "generated"]
      BY <1>0 DEF Placed
    <3>3. worker' = "unlocking" => dirs'[d0] = [dirs[d0] EXCEPT !.file = "generated"]
      BY <1>0 DEF Placed
    <3>4. ~(crossed /\ d0 = plan[1]) => DirAtWork(dirs[plan[at]], found[plan[at]])'
      <4> SUFFICES ASSUME ~(crossed /\ d0 = plan[1])
                   PROVE  DirAtWork(dirs[plan[at]], found[plan[at]])'
        OBVIOUS
      <4>1. dirs[d0] = Kept(found[d0]) /\ made = ActionFor(found[d0])
        BY <1>i, <2>0 DEF OnDisk, DirAtWork
      <4>2. [dirs[d0] EXCEPT !.file = "generated"] = Filled(found[d0])
        BY <4>1, <1>0, SavedAndWritten DEF Placed
      <4> QED
        BY <3>2, <3>3, <4>1, <4>2 DEF DirAtWork, Untouched, Generating
    <3>5. Recorded' /\ (at = 1 => seen \in {"", "unset"})
      BY <1>i, <2>0 DEF OnDisk, Recorded, Noted
    <3> QED
      BY <1>i, <2>0, <3>1, <3>4, <3>5 DEF OnDisk
  <2>3. Rest'
    BY <1>i, <2>0
  <2> QED
    BY <2>1, <2>2, <2>3 DEF BuildInv
<1>5. CASE Building!Generated /\ Going
  <2> USE <1>5 DEF Building!Generated, Going
  <2>1. Building!TypeOK'
    BY <1>i DEF Building!TypeOK, Building!Release
  <2>2. ASSUME ~inMemory
        PROVE  OnDisk'
    BY <1>i, <2>2, BuildMoves DEF OnDisk, DirAtWork, Recorded, Untouched, Generating, Noted
  <2>3. Rest'
    BY <1>i
  <2> QED
    BY <2>1, <2>2, <2>3 DEF BuildInv
<1>6. CASE Building!GenerateFailed /\ Going
  <2> USE <1>6 DEF Building!GenerateFailed, Going, Building!dir
  <2>1. CASE inMemory
    <3>1. dirs' = dirs
      BY <2>1 DEF Building!Cleanup
    <3>2. Building!TypeOK'
      BY <1>i, <3>1 DEF Building!TypeOK, Building!Release
    <3> QED
      BY <2>1, <1>i, <3>1, <3>2 DEF BuildInv
  <2>2. CASE ~inMemory
    <3>1. /\ dirs' \in [Building!Dirs -> DirType]
          /\ dirs'[d0] \in Building!CleanDirectory(dirs[d0], made)
          /\ \A d \in Building!Dirs : d # d0 => dirs'[d] = dirs[d]
      BY <1>0, <2>2, CleanedUp DEF Placed
    <3>2. Building!TypeOK'
      BY <1>i, <3>1 DEF Building!TypeOK, Building!Release, DirType
    <3>3. ~(crossed /\ d0 = plan[1]) => dirs'[d0] = found[d0]
      <4> SUFFICES ASSUME ~(crossed /\ d0 = plan[1])
                   PROVE  dirs'[d0] = found[d0]
        OBVIOUS
      <4>1. \/ made = "unchanged" /\ dirs[d0] = found[d0]
            \/ made = ActionFor(found[d0]) /\ dirs[d0] \in {found[d0], Kept(found[d0]), Filled(found[d0])}
        BY <1>c, <2>2 DEF DirAtWork
      <4>2. found[d0] \in UserDir
        BY <1>0 DEF Placed
      <4>3. Building!CleanDirectory(dirs[d0], made) = {found[d0]}
        BY <4>1, <4>2, CleaningAtWork
      <4> QED
        BY <3>1, <4>3
    <3>4. Recorded' /\ (at = 1 => seen \in {"", "unset"})
      BY <1>i, <2>2 DEF OnDisk, Recorded, Noted
    <3>5. OnDisk'
      BY <1>i, <2>2, <3>1, <3>3, <3>4 DEF OnDisk, DirAtWork, Untouched, Generating
    <3> QED
      BY <2>2, <1>i, <3>2, <3>5 DEF BuildInv
  <2> QED
    BY <2>1, <2>2, <1>0 DEF Placed
<1>7. CASE Building!Record /\ Going
  <2> USE <1>7 DEF Building!Record, Going
  <2>1. Building!TypeOK'
    BY <1>i DEF Building!TypeOK
  <2>2. ASSUME ~inMemory
        PROVE  OnDisk'
    <3>1. ~(crossed /\ d0 = plan[1]) => DirAtWork(dirs[plan[at]], found[plan[at]])' /\ made = ActionFor(found[d0])
      BY <1>i, <2>2 DEF OnDisk, DirAtWork, Untouched, Generating
    <3>2. action'[at] = made /\ (at # 1 => action'[1] = action[1])
      BY <1>0 DEF Placed
    <3>3. Recorded'
      <4>1. at = 1 \/ at > 1
        BY <1>0 DEF Placed
      <4>2. at = 1 => seen \in {"", "unset"} /\ made = ActionFor(found[plan[1]])
        BY <1>f, <1>r, <2>2, <3>1 DEF Recorded, Noted
      <4> QED
        BY <1>i, <2>2, <3>2, <4>1, <4>2 DEF OnDisk, Recorded, Noted
    <3>4. at = 1 => seen \in {"", "unset"}
      BY <1>i, <2>2 DEF OnDisk, Recorded, Noted
    <3> QED
      BY <1>i, <2>2, <3>1, <3>3, <3>4 DEF OnDisk
  <2>3. Rest'
    BY <1>i
  <2> QED
    BY <2>1, <2>2, <2>3 DEF BuildInv
<1>8. CASE Building!StartBuild /\ Going
  <2> USE <1>8 DEF Building!StartBuild, Going
  <2>1. Building!TypeOK'
    BY <1>i DEF Building!TypeOK, Building!Acquire
  <2>2. ASSUME ~inMemory
        PROVE  OnDisk'
    BY <1>i, <2>2, BuildMoves DEF OnDisk, DirAtWork, Recorded, Untouched, Generating, Noted
  <2>3. Rest'
    BY <1>i
  <2> QED
    BY <2>1, <2>2, <2>3 DEF BuildInv
<1>9. CASE Building!EndBuild /\ Going
  <2> USE <1>9 DEF Building!EndBuild, Going
  <2>1. Building!TypeOK'
    BY <1>i DEF Building!TypeOK, Building!Release
  <2>2. ASSUME ~inMemory
        PROVE  OnDisk'
    BY <1>i, <2>2, BuildMoves DEF OnDisk, DirAtWork, Recorded, Untouched, Generating, Noted
  <2>3. Rest'
    BY <1>i
  <2> QED
    BY <2>1, <2>2, <2>3 DEF BuildInv
<1>10. CASE Building!Clean /\ Going
  <2> USE <1>10 DEF Building!Clean, Going, Building!dir
  <2>a. /\ at' \in 1 .. Len(plan)
        /\ (at' = at /\ worker' = "reporting") \/ (at' = at + 1 /\ worker' = "start")
    BY <1>0 DEF Placed
  <2>t. dirs' \in [Building!Dirs -> DirType] => Building!TypeOK'
    <3>1. DOMAIN plan = 1 .. Len(plan)
      BY <1>0, PlansAssumed DEF Placed
    <3>2. (at' = at \/ at' # 1) /\ (at # 1 => at' # 1)
      BY <2>a, <1>0 DEF Placed
    <3> QED
      BY <1>i, <2>a, <3>1, <3>2 DEF Building!TypeOK, DirType
  <2>1. CASE inMemory
    <3>1. dirs' = dirs
      BY <2>1 DEF Building!Cleanup
    <3> QED
      BY <2>1, <1>i, <1>0, <3>1, <2>t DEF BuildInv, Placed
  <2>2. CASE ~inMemory
    <3>1. /\ dirs' \in [Building!Dirs -> DirType]
          /\ dirs'[d0] \in Building!CleanDirectory(dirs[d0], action[at])
          /\ \A d \in Building!Dirs : d # d0 => dirs'[d] = dirs[d]
      BY <1>0, <2>2, CleanedUp DEF Placed
    <3>2. ~(crossed /\ d0 = plan[1]) => dirs'[d0] = found[d0] /\ action[at] = ActionFor(found[d0])
      <4> SUFFICES ASSUME ~(crossed /\ d0 = plan[1])
                   PROVE  dirs'[d0] = found[d0] /\ action[at] = ActionFor(found[d0])
        OBVIOUS
      <4>1. made = ActionFor(found[d0]) /\ dirs[d0] \in {found[d0], Filled(found[d0])}
        BY <1>c, <2>2 DEF DirAtWork, Generating
      <4>2. action[at] = made
        BY <1>r, <2>2 DEF Recorded, Noted
      <4>3. found[d0] \in UserDir
        BY <1>0 DEF Placed
      <4>4. Building!CleanDirectory(dirs[d0], action[at]) = {found[d0]}
        BY <4>1, <4>2, <4>3, CleaningAtWork
      <4> QED
        BY <3>1, <4>1, <4>2, <4>4
    <3>3. \A d \in Building!Dirs : ~(crossed /\ d = plan[1]) => dirs'[d] = found[d]
      BY <1>i, <2>2, <3>1, <3>2 DEF OnDisk
    <3>4. at = 1 => ~crossed
      BY <1>f, <2>2
    <3>5. Recorded'
      <4>1. (at = 1 \/ at > 1) /\ (at' = 1 => at = 1 /\ worker' = "reporting")
        BY <1>0, <2>a DEF Placed
      <4>2. action[1] = ActionFor(found[plan[1]])
        BY <1>r, <2>2, <3>2, <3>4, <4>1 DEF Recorded
      <4>3. seen # "" => seen = "unset" \/ seen = action[1]
        BY <1>r, <2>2, Zenon DEF Recorded
      <4> QED
        BY <2>a, <4>1, <4>2, <4>3 DEF Recorded, Noted
    <3>6. plan[at'] \in Building!Dirs /\ plan[1] \in Building!Dirs
      BY <2>a, <1>0, PlansAssumed DEF Placed
    <3>7. crossed => at' > 1
      BY <1>c, <2>2, <2>a, <1>0 DEF Placed
    <3>8. OnDisk'
      <4>1. ~(crossed /\ plan[at'] = plan[1]) => DirAtWork(dirs[plan[at]], found[plan[at]])'
        BY <2>a, <3>3, <3>6 DEF DirAtWork, Untouched, Generating
      <4>2. at' = 1 => dirs'[plan[1]] = found[plan[1]]
        BY <3>3, <3>6, <3>7
      <4> QED
        BY <3>3, <3>5, <3>7, <4>1, <4>2 DEF OnDisk
    <3> QED
      BY <2>2, <1>i, <2>a, <2>t, <3>1, <3>8 DEF BuildInv
  <2> QED
    BY <2>1, <2>2, <1>0 DEF Placed
<1>11. CASE Building!Report /\ Going
  <2> USE <1>11 DEF Building!Report, Going
  <2>1. Building!TypeOK'
    BY <1>i DEF Building!TypeOK
  <2>2. ASSUME ~inMemory
        PROVE  OnDisk'
    BY <1>i, <2>2, BuildMoves DEF OnDisk, DirAtWork, Recorded, Untouched, Generating, Noted
  <2>3. Rest'
    BY <1>i
  <2> QED
    BY <2>1, <2>2, <2>3 DEF BuildInv
<1>12. CASE Building!Interrupt \/ Building!TakeSignal \/ Building!Leave
  <2> USE <1>12 DEF Building!Interrupt, Building!TakeSignal, Building!Leave
  <2>1. Building!TypeOK'
    BY <1>i DEF Building!TypeOK
  <2>2. ASSUME ~inMemory
        PROVE  OnDisk'
    BY <1>i, <2>2, BuildMoves DEF OnDisk, DirAtWork, Recorded
  <2>3. Rest' /\ UNCHANGED inMemory
    <3>1. CASE Building!Interrupt
      BY <1>i, <3>1
    <3>2. CASE Building!TakeSignal
      BY <1>i, <3>2
    <3>3. CASE Building!Leave
      BY <1>i, <3>3
    <3> QED
      BY <3>1, <3>2, <3>3
  <2> QED
    BY <2>1, <2>2, <2>3 DEF BuildInv
<1>13. CASE Building!Cancel
  <2> USE <1>13 DEF Building!Cancel
  <2>0. /\ UNCHANGED <<plan, inMemory, found, at, action, made, worker>> /\ seen' = action[1] /\ main' = "leaving"
        /\ crossed' = Building!Crossing /\ seen = "" /\ ~crossed /\ lock = "free"
    BY <1>i
  <2>a. at = 1 => worker \notin {"saving", "writing", "unlocking", "failing", "building"}
    BY <2>0, <1>i DEF Building!TypeOK
  <2>b. action[1] \in Building!Actions /\ action[1] # ""
    <3>1. action[1] \in Building!Actions
      BY <1>0 DEF Placed
    <3> QED
      BY <3>1, Zenon DEF Building!Actions
  <2>r. main' = "leaving" /\ seen' # ""
    BY <2>0, <2>b, Zenon
  <2>t. dirs' \in [Building!Dirs -> DirType] => Building!TypeOK'
    BY <1>i, <2>b DEF Building!TypeOK, DirType, Building!Crossing, Building!dir
  <2>1. CASE inMemory
    <3>1. dirs' = dirs
      BY <2>1 DEF Building!Cleanup
    <3>2. Building!TypeOK'
      BY <1>0, <3>1, <2>t DEF Placed
    <3>3. inMemory' /\ dirs' = found' /\ worker' # "writing"
      BY <2>0, <2>1, <1>i, <3>1
    <3> QED
      BY <2>0, <2>r, <1>i, <3>2, <3>3, Zenon DEF BuildInv
  <2>2. CASE ~inMemory
    <3> DEFINE first == plan[1]
    <3>1. /\ dirs' \in [Building!Dirs -> DirType]
          /\ dirs'[first] \in Building!CleanDirectory(dirs[first], action[1])
          /\ \A d \in Building!Dirs : d # first => dirs'[d] = dirs[d]
      BY <1>0, <2>2, CleanedUp DEF Placed
    <3>2. (at = 1 \/ at > 1) /\ found[first] \in UserDir /\ first \in Building!Dirs /\ d0 \in Building!Dirs
      BY <1>0 DEF Placed
    <3>3. \A d \in Building!Dirs : d # d0 => dirs[d] = found[d]
      BY <1>i, <2>0, <2>2 DEF OnDisk
    <3>4. DirAtWork(dirs[d0], found[d0])
      BY <1>c, <2>0, <2>2
    <3>5. d0 # first => dirs'[first] = found[first]
      <4> SUFFICES ASSUME d0 # first
                   PROVE  dirs'[first] = found[first]
        OBVIOUS
      <4>1. at > 1 /\ dirs[first] = found[first]
        BY <3>2, <3>3
      <4>2. action[1] = ActionFor(found[first])
        BY <1>r, <2>2, <4>1 DEF Recorded
      <4>3. Building!CleanDirectory(dirs[first], action[1]) = {found[first]}
        BY <3>2, <4>1, <4>2, CleaningAtWork
      <4> QED
        BY <3>1, <4>3
    <3>6. d0 = first /\ worker # "writing" /\ (at > 1 \/ worker # "recording") => dirs'[first] = found[first]
      <4> SUFFICES ASSUME d0 = first, worker # "writing", at > 1 \/ worker # "recording"
                   PROVE  dirs'[first] = found[first]
        OBVIOUS
      <4> HIDE DEF d0
      <4>1. CASE at > 1
        <5>1. action[1] = ActionFor(found[first])
          BY <1>r, <2>2, <4>1 DEF Recorded
        <5>2. dirs[first] \in {found[first], Kept(found[first]), Filled(found[first])}
          BY <3>4, <1>i DEF DirAtWork, Untouched, Generating, Building!TypeOK
        <5>3. Building!CleanDirectory(dirs[first], action[1]) = {found[first]}
          BY <3>2, <5>1, <5>2, CleaningAtWork
        <5> QED
          BY <3>1, <5>3
      <4>2. CASE at = 1
        <5>1. CASE worker \in {"waiting", "cleaning"}
          <6>1. action[1] = ActionFor(found[first]) /\ dirs[first] \in {found[first], Filled(found[first])}
            BY <3>4, <5>1, <4>2, <1>r, <2>2 DEF DirAtWork, Generating, Recorded, Noted
          <6>2. Building!CleanDirectory(dirs[first], action[1]) = {found[first]}
            BY <3>2, <6>1, CleaningAtWork
          <6> QED
            BY <3>1, <6>2
        <5>2. CASE worker \in {"start", "locking", "reporting"}
          <6>1. dirs[first] = found[first] /\ action[1] \in {"unset", ActionFor(found[first])}
            BY <3>4, <5>2, <4>2, <1>r, <2>2 DEF DirAtWork, Untouched, Recorded, Noted
          <6>2. Building!CleanDirectory(dirs[first], action[1]) = {found[first]}
            BY <3>2, <6>1, CleaningAtWork
          <6> QED
            BY <3>1, <6>2
        <5>3. ~(at > 1)
          BY <4>2
        <5> QED
          BY <4>2, <5>1, <5>2, <5>3, <2>a, <1>i DEF Building!TypeOK
      <4> QED
        BY <3>2, <4>1, <4>2
    <3>7. at = 1 /\ worker = "recording" =>
             action[1] = "unset" /\ made = ActionFor(found[first]) /\ dirs'[first] \in {Filled(found[first]), found[first]}
      <4> SUFFICES ASSUME at = 1, worker = "recording"
                   PROVE  action[1] = "unset" /\ made = ActionFor(found[first]) /\ dirs'[first] \in {Filled(found[first]), found[first]}
        OBVIOUS
      <4>1. action[1] = "unset"
        BY <1>r, <2>2 DEF Recorded, Noted
      <4>2. made = ActionFor(found[first]) /\ dirs[first] = Filled(found[first])
        BY <3>4, <2>0 DEF DirAtWork, Generating
      <4> QED
        BY <3>1, <3>2, <4>1, <4>2, CleaningRestores
    <3>8. \A d \in Building!Dirs : d # d0 => dirs'[d] = found[d]
      BY <3>1, <3>3, <3>5
    <3>9. ~(crossed' /\ d0 = first) => DirAtWork(dirs[plan[at]], found[plan[at]])'
      <4> SUFFICES ASSUME ~(crossed' /\ d0 = first)
                   PROVE  DirAtWork(dirs[plan[at]], found[plan[at]])'
        OBVIOUS
      <4>1. CASE d0 # first
        <5>1. dirs'[d0] = dirs[d0]
          BY <3>1, <3>2, <4>1
        <5> QED
          BY <2>0, <2>b, <3>4, <5>1 DEF DirAtWork
      <4>2. CASE d0 = first
        <5>1. worker # "writing"
          BY <2>0, <4>2 DEF Building!Crossing, Building!dir
        <5> QED
          BY <2>0, <2>b, <3>2, <3>4, <3>6, <3>7, <4>2, <5>1 DEF DirAtWork, Untouched, Generating
      <4> QED
        BY <4>1, <4>2
    <3>10. Recorded'
      <4>1. seen' = action'[1]
        BY <2>0
      <4> QED
        BY <1>r, <2>0, <2>2, <4>1 DEF Recorded, Noted
    <3>11. at = 1 /\ seen' \notin {"", "unset"} => dirs'[first] = found[first]
      BY <2>0, <2>a, <3>6, <3>7
    <3>12. crossed' => at > 1
      BY <2>0, <2>a, <3>2 DEF Building!Crossing
    <3>13. OnDisk'
      BY <2>0, <3>8, <3>9, <3>10, <3>11, <3>12 DEF OnDisk
    <3>14. Building!TypeOK' /\ ~inMemory'
      <4>1. Building!TypeOK'
        BY <2>t, <3>1
      <4>2. inMemory' = inMemory
        OBVIOUS
      <4> QED
        BY <2>2, <4>1, <4>2
    <3> QED
      BY <2>0, <2>r, <1>i, <3>13, <3>14, Zenon DEF BuildInv
  <2> QED
    BY <2>1, <2>2, <1>0 DEF Placed
<1> QED
  BY <1>1, <1>2, <1>3, <1>4, <1>5, <1>6, <1>7, <1>8, <1>9, <1>10, <1>11, <1>12, <1>13
  DEF Building!Next, Building!Worker, Building!Main, Going

----------------------------------------------------------------------------
(* flux get --watch.                                                       *)

Received(w, n) == <<w, n>> \in Watching!ToSet(taken)

\* What a goroutine has received and has passed on.
Forwarding(w) ==
    /\ forwarder[w] = "receiving" => \A n \in 1 .. events[w] : n <= received[w] <=> Received(w, n)
    /\ forwarder[w] = "sending" =>
          received[w] # 0 /\ \A n \in 1 .. events[w] : n < received[w] <=> Received(w, n)
    /\ forwarder[w] = "stopping" /\ ~done => w \in ended /\ Watching!AllTaken(w)
    /\ forwarder[w] = "returned" => done

\* Whoever stops, does so for a reason.
Stopping ==
    /\ result = "closed" => \A w \in Watches : forwarder[w] = "returned"
    /\ printer \in {"stopping", "ended"} /\ ~error => result = "closed"
    /\ done /\ ~error => \E w \in ended : Watching!AllTaken(w)

WatchInv ==
    /\ Watching!TypeOK
    /\ received \in [Watches -> Nat] /\ taken \in Seq(Watches \X Nat)
    /\ Watching!InOrder
    /\ \A w \in Watches : Forwarding(w)
    /\ Stopping

LEMMA WatchesAssumed == Watches # {} /\ MaxEvents \in Nat
  BY ConcurrentAssumption

LEMMA WatchInit == Watching!Init => WatchInv
<1> SUFFICES ASSUME Watching!Init
             PROVE  WatchInv
  OBVIOUS
<1>1. Watching!TypeOK /\ received \in [Watches -> Nat] /\ taken \in Seq(Watches \X Nat)
  <2>1. events \in [Watches -> Nat] /\ \A w \in Watches : received[w] \in 0 .. events[w]
    BY WatchesAssumed DEF Watching!Init
  <2>2. taken \in Seq(Watches \X Nat)
    BY DEF Watching!Init
  <2> QED
    BY <2>1, <2>2 DEF Watching!Init, Watching!TypeOK
<1>2. Watching!InOrder
  BY DEF Watching!Init, Watching!InOrder
<1>3. \A w \in Watches : Forwarding(w)
  BY <1>1, WatchesAssumed DEF Watching!Init, Watching!TypeOK, Forwarding, Received, Watching!ToSet
<1>4. Stopping
  BY DEF Watching!Init, Stopping
<1> QED
  BY <1>1, <1>2, <1>3, <1>4 DEF WatchInv

\* A step that receives and takes nothing.
LEMMA WatchSettled ==
    ASSUME WatchInv, UNCHANGED <<events, received, taken>>
    PROVE  /\ Watching!InOrder' /\ received' \in [Watches -> Nat] /\ taken' \in Seq(Watches \X Nat)
           /\ \A w \in Watches : Watching!AllTaken(w)' <=> Watching!AllTaken(w)
           /\ \A w \in Watches : \A n : Received(w, n)' <=> Received(w, n)
<1>1. Watching!InOrder'
  BY DEF WatchInv, Watching!InOrder
<1>2. \A w \in Watches : Watching!AllTaken(w)' <=> Watching!AllTaken(w)
  BY DEF Watching!AllTaken
<1>3. \A w \in Watches : \A n : Received(w, n)' <=> Received(w, n)
  BY DEF Received
<1> QED
  BY <1>1, <1>2, <1>3 DEF WatchInv

LEMMA WatchReceive ==
    ASSUME WatchInv, NEW w \in Watches, Watching!ReceiveEvent(w)
    PROVE  WatchInv'
<1> USE DEF Watching!ReceiveEvent
<1>1. Watching!TypeOK' /\ received' \in [Watches -> Nat]
  BY WatchesAssumed DEF WatchInv, Watching!TypeOK
<1>2. Watching!InOrder' /\ taken' \in Seq(Watches \X Nat)
  BY DEF WatchInv, Watching!InOrder
<1>3. ASSUME NEW v \in Watches
      PROVE  Forwarding(v)'
  <2>1. CASE v = w
    <3>1. \A n \in 1 .. events[w] : n <= received[w] <=> Received(w, n)
      BY DEF WatchInv, Forwarding
    <3>2. events[w] \in Nat /\ received[w] \in Nat /\ received'[w] = received[w] + 1 /\ forwarder'[w] = "sending"
      BY WatchesAssumed DEF WatchInv, Watching!TypeOK
    <3> QED
      BY <2>1, <3>1, <3>2 DEF Forwarding, Received
  <2>2. CASE v # w
    BY <2>2 DEF WatchInv, Watching!TypeOK, Forwarding, Received, Watching!AllTaken
  <2> QED
    BY <2>1, <2>2
<1>4. Stopping'
  BY DEF WatchInv, Watching!TypeOK, Stopping, Watching!AllTaken
<1> QED
  BY <1>1, <1>2, <1>3, <1>4 DEF WatchInv

LEMMA WatchForward ==
    ASSUME WatchInv, NEW w \in Watches, Watching!Forward(w)
    PROVE  WatchInv'
<1> DEFINE n0 == received[w]
<1> USE DEF Watching!Forward
<1>0. n0 \in Nat /\ n0 \in 1 .. events[w] /\ events \in [Watches -> Nat] /\ forwarder \in [Watches -> {"receiving", "sending", "stopping", "returned"}]
  BY WatchesAssumed DEF WatchInv, Watching!TypeOK, Forwarding
<1>a. taken \in Seq(Watches \X Nat) /\ taken' = Append(taken, <<w, n0>>)
  BY DEF WatchInv
<1>b. /\ DOMAIN taken' = 1 .. Len(taken) + 1 /\ DOMAIN taken = 1 .. Len(taken) /\ Len(taken) \in Nat
      /\ \A i \in 1 .. Len(taken) : taken'[i] = taken[i]
      /\ taken'[Len(taken) + 1] = <<w, n0>>
  BY <1>a, <1>0
<1>c. \A v \in Watches : \A n : Received(v, n)' <=> Received(v, n) \/ (v = w /\ n = n0)
  BY <1>b DEF Received, Watching!ToSet
<1>1. Watching!TypeOK' /\ received' \in [Watches -> Nat] /\ taken' \in Seq(Watches \X Nat)
  <2>1. Watching!TypeOK'
    BY DEF WatchInv, Watching!TypeOK
  <2> QED
    BY <2>1, <1>a, <1>0 DEF WatchInv
<1>d. \A n \in 1 .. events[w] : n < n0 <=> Received(w, n)
  BY DEF WatchInv, Forwarding
<1>2. Watching!InOrder'
  <2> SUFFICES ASSUME NEW i \in DOMAIN taken', NEW v \in Watches, taken'[i][1] = v
               PROVE  /\ taken'[i][2] \in 1 .. events[v]
                      /\ \A n \in 1 .. events[v] : n < taken'[i][2] <=> \E j \in 1 .. i - 1 : taken'[j] = <<v, n>>
    BY Zenon DEF Watching!InOrder
  <2>1. CASE i \in 1 .. Len(taken)
    <3>1. taken[i][2] \in 1 .. events[v] /\ \A n \in 1 .. events[v] : n < taken[i][2] <=> \E j \in 1 .. i - 1 : taken[j] = <<v, n>>
      BY <2>1, <1>b DEF WatchInv, Watching!InOrder
    <3>2. \A j \in 1 .. i - 1 : taken'[j] = taken[j]
      BY <2>1, <1>b
    <3> QED
      BY <2>1, <3>1, <3>2, <1>b
  <2>2. CASE i = Len(taken) + 1
    <3>1. v = w /\ taken'[i][2] = n0
      BY <2>2, <1>b
    <3>2. \A n \in 1 .. events[w] : Received(w, n) <=> \E j \in 1 .. i - 1 : taken'[j] = <<w, n>>
      <4>1. \A n : Received(w, n) <=> \E j \in 1 .. Len(taken) : taken[j] = <<w, n>>
        BY <1>b DEF Received, Watching!ToSet
      <4>2. 1 .. i - 1 = 1 .. Len(taken)
        BY <2>2, <1>b
      <4> QED
        BY <4>1, <4>2, <1>b
    <3> QED
      BY <3>1, <3>2, <1>0, <1>d
  <2>3. i \in 1 .. Len(taken) \/ i = Len(taken) + 1
    BY <1>b
  <2> QED
    BY <2>1, <2>2, <2>3
<1>3. ASSUME NEW v \in Watches
      PROVE  Forwarding(v)'
  <2>1. CASE v = w
    <3>1. forwarder'[w] = "receiving"
      BY <1>0
    <3> QED
      BY <2>1, <3>1, <1>0, <1>c, <1>d DEF Forwarding
  <2>2. CASE v # w
    <3>1. forwarder'[v] = forwarder[v] /\ Forwarding(v)
      BY <2>2, <1>0 DEF WatchInv
    <3>2. Watching!AllTaken(v)' <=> Watching!AllTaken(v)
      BY <2>2, <1>c DEF Watching!AllTaken, Received
    <3> QED
      BY <2>2, <3>1, <3>2, <1>c DEF Forwarding
  <2> QED
    BY <2>1, <2>2
<1>4. Stopping'
  <2>1. \A v \in Watches : Watching!AllTaken(v) => Watching!AllTaken(v)'
    BY <1>c DEF Watching!AllTaken, Received
  <2>2. ended \subseteq Watches /\ result # "closed"
    BY <1>0 DEF WatchInv, Watching!TypeOK, Stopping
  <2> QED
    BY <2>1, <2>2 DEF WatchInv, Stopping
<1> QED
  BY <1>1, <1>2, <1>3, <1>4 DEF WatchInv

LEMMA WatchNext == WatchInv /\ Watching!Next => WatchInv'
<1> SUFFICES ASSUME WatchInv, Watching!Next
             PROVE  WatchInv'
  OBVIOUS
<1>t. /\ ended \subseteq Watches /\ forwarder \in [Watches -> {"receiving", "sending", "stopping", "returned"}]
      /\ events \in [Watches -> Nat] /\ result \in {"open", "closed"}
  BY WatchesAssumed DEF WatchInv, Watching!TypeOK
<1>1. ASSUME NEW w \in Watches, Watching!ServerCloses(w)
      PROVE  WatchInv'
  <2> USE <1>1 DEF Watching!ServerCloses
  <2>1. Watching!TypeOK'
    BY DEF WatchInv, Watching!TypeOK
  <2> QED
    BY <2>1, <1>t, WatchSettled DEF WatchInv, Forwarding, Stopping
<1>2. ASSUME NEW w \in Watches, Watching!Closed(w)
      PROVE  WatchInv'
  <2> USE <1>2 DEF Watching!Closed
  <2>1. Watching!TypeOK'
    BY DEF WatchInv, Watching!TypeOK
  <2>2. w \in ended /\ received[w] = events[w] => Watching!AllTaken(w)
    BY <1>t DEF WatchInv, Forwarding, Watching!AllTaken, Received
  <2>3. w \in stopped => done
    BY DEF WatchInv, Watching!TypeOK
  <2> QED
    BY <2>1, <2>2, <2>3, <1>t, WatchSettled DEF WatchInv, Forwarding, Stopping
<1>3. ASSUME NEW w \in Watches, Watching!GiveUp(w)
      PROVE  WatchInv'
  <2> USE <1>3 DEF Watching!GiveUp
  <2>1. Watching!TypeOK'
    BY DEF WatchInv, Watching!TypeOK
  <2> QED
    BY <2>1, <1>t, WatchSettled DEF WatchInv, Forwarding, Stopping
<1>4. ASSUME NEW w \in Watches, Watching!StopAll(w)
      PROVE  WatchInv'
  <2> USE <1>4 DEF Watching!StopAll, Watching!Stop
  <2>1. Watching!TypeOK'
    BY WatchesAssumed DEF WatchInv, Watching!TypeOK
  <2> QED
    BY <2>1, <1>t, WatchSettled DEF WatchInv, Forwarding, Stopping
<1>5. CASE Watching!CloseResult
  <2> USE <1>5 DEF Watching!CloseResult
  <2>1. Watching!TypeOK'
    BY DEF WatchInv, Watching!TypeOK
  <2> QED
    BY <2>1, <1>t, WatchSettled DEF WatchInv, Forwarding, Stopping
<1>6. CASE Watching!PrintRow
  <2> USE <1>6 DEF Watching!PrintRow
  <2>1. Watching!TypeOK'
    BY DEF WatchInv, Watching!TypeOK
  <2> QED
    BY <2>1, <1>t, WatchSettled DEF WatchInv, Forwarding, Stopping
<1>7. CASE Watching!Deadline
  <2> USE <1>7 DEF Watching!Deadline
  <2>1. Watching!TypeOK'
    BY DEF WatchInv, Watching!TypeOK
  <2> QED
    BY <2>1, <1>t, WatchSettled DEF WatchInv, Forwarding, Stopping
<1>8. CASE Watching!ResultClosed
  <2> USE <1>8 DEF Watching!ResultClosed
  <2>1. Watching!TypeOK'
    BY DEF WatchInv, Watching!TypeOK
  <2> QED
    BY <2>1, <1>t, WatchSettled DEF WatchInv, Forwarding, Stopping
<1>9. CASE Watching!Return
  <2> USE <1>9 DEF Watching!Return, Watching!Stop
  <2>1. Watching!TypeOK'
    BY WatchesAssumed DEF WatchInv, Watching!TypeOK
  <2>2. ~error => done
    BY WatchesAssumed DEF WatchInv, Stopping, Forwarding
  <2> QED
    BY <2>1, <2>2, <1>t, WatchSettled DEF WatchInv, Forwarding, Stopping
<1> QED
  BY <1>1, <1>2, <1>3, <1>4, <1>5, <1>6, <1>7, <1>8, <1>9, WatchReceive, WatchForward
  DEF Watching!Next, Watching!Command, Watching!Goroutine

LEMMA WatchUnchanged == WatchInv /\ UNCHANGED watching => WatchInv'
<1> SUFFICES ASSUME WatchInv, UNCHANGED watching
             PROVE  WatchInv'
  OBVIOUS
<1>1. UNCHANGED <<events, received, ended, stopped, forwarder, done, result, printer, taken, error>>
  BY DEF watching
<1>2. Watching!TypeOK'
  BY <1>1 DEF WatchInv, Watching!TypeOK
<1>3. ended \subseteq Watches
  BY DEF WatchInv, Watching!TypeOK
<1> QED
  BY <1>1, <1>2, <1>3, WatchSettled DEF WatchInv, Forwarding, Stopping

----------------------------------------------------------------------------
(* flux trigger receiver.                                                  *)

TriggerInv ==
    /\ Triggering!TypeOK
    /\ Triggering!Triggered /\ Triggering!TriesHard /\ Triggering!OnlyWithCredentials
    /\ \A a \in 0 .. attempt - 1 : a \in unanswered
    /\ step = "pause" => attempt < retries /\ attempt \in unanswered
    /\ triggered \subseteq 0 .. attempt
    /\ step = "wait" /\ answer = "ok" => attempt \in triggered
    /\ step = "wait" /\ answer = "refused" => ~Triggering!Fits
    /\ network # {} \/ step \in {"send", "wait", "pause"} => Triggering!Valid(invocation)

Receiver == invocation.receiver
Sent == Triggering!Request(invocation)
Trusted ==
    \/ Triggering!Fits
    \/ Receiver.type = "generic" /\ invocation.token = Receiver.token

\* What the webhook handler checks is enough to know the credentials for the
\* receiver's own.
LEMMA AcceptedIsTrusted ==
    ASSUME invocation \in Invocations, Triggering!Valid(invocation),
           Triggering!Known(Receiver, Sent), Triggering!Accepted(Receiver, Sent)
    PROVE  Trusted
<1> DEFINE t == invocation.type  rt == Receiver.type
<1>1. rt \in {"generic", "generic-hmac", Triggering!OIDC}
  BY ConcurrentAssumption DEF Receiver
<1>3. Sent.path = IF rt = Triggering!OIDC THEN "" ELSE Receiver.token
  BY Zenon DEF Triggering!Known
<1>4. Sent.path = (IF t = Triggering!OIDC THEN "" ELSE invocation.token)
  BY Zenon DEF Sent, Triggering!Request
<1>5. t # Triggering!OIDC => invocation.token # ""
  BY Zenon DEF Triggering!Valid
<1>6. rt # Triggering!OIDC => Receiver.token # ""
  BY Zenon, ConcurrentAssumption DEF Receiver
<1>7. CASE rt = Triggering!OIDC
  <2>1. t = Triggering!OIDC
    BY <1>3, <1>4, <1>5, <1>7, Zenon
  <2>2. Triggering!OIDCToken(invocation) = Receiver.audience
    <3>1. Sent.bearer = Triggering!OIDCToken(invocation)
      BY <2>1, Zenon DEF Sent, Triggering!Request
    <3> QED
      BY <3>1, <1>7, Zenon DEF Triggering!Accepted
  <2> QED
    BY <1>7, <2>1, <2>2, Zenon DEF Trusted, Triggering!Fits, Receiver
<1>8. CASE rt = "generic"
  <2>1. Receiver.token = invocation.token
    BY <1>1, <1>3, <1>4, <1>5, <1>6, <1>8, Zenon DEF Triggering!OIDC
  <2> QED
    BY <1>8, <2>1, Zenon DEF Trusted
<1>9. CASE rt = "generic-hmac"
  <2>1. rt # Triggering!OIDC
    BY <1>9 DEF Triggering!OIDC
  <2>2. t # Triggering!OIDC /\ Receiver.token = invocation.token
    BY <2>1, <1>3, <1>4, <1>6, Zenon
  <2>3. Sent.signature = Receiver.token
    BY <1>9, Zenon DEF Triggering!Accepted
  <2>4. Sent.signature = (IF t = "generic-hmac" THEN invocation.token ELSE "")
    BY Zenon DEF Sent, Triggering!Request
  <2>5. t = rt
    BY <1>6, <1>9, <2>1, <2>3, <2>4, Zenon
  <2> QED
    BY <2>1, <2>2, <2>5, Zenon DEF Trusted, Triggering!Fits, Receiver
<1> QED
  BY <1>1, <1>7, <1>8, <1>9

\* The receiver's own credentials are never refused.
LEMMA FittingIsAccepted ==
    ASSUME Triggering!Fits
    PROVE  Triggering!Accepted(Receiver, Sent)
<1>1. Receiver.type = "generic-hmac" => Sent.signature = Receiver.token
  <2> SUFFICES ASSUME Receiver.type = "generic-hmac"
               PROVE  Sent.signature = Receiver.token
    OBVIOUS
  <2>1. Receiver.type # Triggering!OIDC
    BY DEF Triggering!OIDC
  <2>2. invocation.type = "generic-hmac" /\ invocation.token = Receiver.token
    BY <2>1, Zenon DEF Triggering!Fits, Receiver
  <2> QED
    BY <2>2, Zenon DEF Sent, Triggering!Request
<1>2. Receiver.type = Triggering!OIDC => Sent.bearer = Receiver.audience
  BY Zenon DEF Triggering!Fits, Receiver, Sent, Triggering!Request
<1> QED
  BY <1>1, <1>2, Zenon DEF Triggering!Accepted

\* Nor does a command that has them fail for want of a token.
LEMMA FittingHasToken ==
    ASSUME invocation \in Invocations, Triggering!Fits, invocation.type = Triggering!OIDC
    PROVE  Triggering!OIDCToken(invocation) # ""
<1>1. Receiver.type = Triggering!OIDC
  BY Zenon DEF Triggering!Fits, Receiver
<1>2. Receiver.audience # ""
  BY <1>1, ConcurrentAssumption, Zenon DEF Receiver
<1>3. Triggering!OIDCToken(invocation) = Receiver.audience
  BY <1>1, Zenon DEF Triggering!Fits, Receiver
<1> QED
  BY <1>2, <1>3, Zenon

LEMMA RetriesAreNumbers == Retries \subseteq Int
  BY ConcurrentAssumption

LEMMA TriggerInit == Triggering!Init => TriggerInv
<1> SUFFICES ASSUME Triggering!Init
             PROVE  TriggerInv
  OBVIOUS
<1>1. Triggering!TypeOK
  BY DEF Triggering!Init, Triggering!TypeOK, Triggering!Attempts
<1>2. ~(step = "wait") /\ ~(step = "pause") /\ ~(step \in {"send", "wait", "pause"})
  BY DEF Triggering!Init
<1>3. 0 .. attempt - 1 = {} /\ network = {} /\ triggered = {} /\ outcome = "running"
  BY DEF Triggering!Init
<1> QED
  BY <1>1, <1>2, <1>3 DEF TriggerInv, Triggering!Triggered, Triggering!TriesHard, Triggering!OnlyWithCredentials

LEMMA TriggerFixed ==
    ASSUME UNCHANGED invocation
    PROVE  /\ Triggering!Fits' <=> Triggering!Fits
           /\ Triggering!Valid(invocation)' <=> Triggering!Valid(invocation)
           /\ Trusted' <=> Trusted
  BY DEF Triggering!Fits, Trusted, Receiver

\* The invariant without the definitions that depend on the invocation alone.
TriggerState ==
    /\ Triggering!TypeOK
    /\ Triggering!Triggered
    /\ outcome = "err" /\ Triggering!Valid(invocation) /\ Triggering!Fits /\ invocation.provider = "" =>
          overdue \/ Triggering!Attempts \subseteq unanswered
    /\ triggered # {} => Trusted
    /\ \A a \in 0 .. attempt - 1 : a \in unanswered
    /\ step = "pause" => attempt < retries /\ attempt \in unanswered
    /\ triggered \subseteq 0 .. attempt
    /\ step = "wait" /\ answer = "ok" => attempt \in triggered
    /\ step = "wait" /\ answer = "refused" => ~Triggering!Fits
    /\ network # {} \/ step \in {"send", "wait", "pause"} => Triggering!Valid(invocation)

LEMMA TriggerInvIsState == TriggerInv <=> TriggerState
  BY DEF TriggerInv, TriggerState, Triggering!TriesHard, Triggering!OnlyWithCredentials, Trusted, Receiver

LEMMA TriggerNumbers ==
    ASSUME Triggering!TypeOK
    PROVE  retries \in Int /\ attempt \in Nat /\ attempt \in Triggering!Attempts
<1>1. retries \in Int
  BY RetriesAreNumbers DEF Triggering!TypeOK
<1>2. attempt \in {0} \cup (0 .. retries)
  BY DEF Triggering!TypeOK, Triggering!Attempts
<1> QED
  BY <1>1, <1>2 DEF Triggering!Attempts

\* An attempt that failed for a reason that may pass is counted.
LEMMA RetryableKeeps ==
    ASSUME TriggerState, step \in {"send", "wait"}, Triggering!Retryable,
           UNCHANGED <<invocation, retries, attempt, network, registered, overdue, triggered>>,
           answer' \in {answer, "none"}
    PROVE  TriggerState'
<1>t. Triggering!TypeOK
  BY DEF TriggerState
<1>0. retries \in Int /\ attempt \in Nat /\ attempt \in Triggering!Attempts
  BY <1>t, TriggerNumbers
<1>1. unanswered' = unanswered \cup {attempt} /\ step' \in {"ended", "pause"}
  BY DEF Triggering!Retryable, Triggering!Exit
<1>2. Triggering!TypeOK'
  BY <1>0, <1>t DEF Triggering!TypeOK, Triggering!Attempts, Triggering!Retryable, Triggering!LastAttempt, Triggering!Exit
<1>3. \A a \in 0 .. attempt - 1 : a \in unanswered
  BY Zenon DEF TriggerState
<1>4. outcome' = "err" => Triggering!Attempts \subseteq unanswered'
  <2>1. outcome = "running"
    BY <1>t DEF Triggering!TypeOK
  <2>2. outcome' = "err" => attempt >= retries
    BY <2>1 DEF Triggering!Retryable, Triggering!LastAttempt, Triggering!Exit
  <2>3. \A a \in 0 .. attempt : a \in unanswered'
    BY <1>0, <1>1, <1>3
  <2> QED
    BY <1>0, <2>2, <2>3 DEF Triggering!Attempts
<1>5. step' = "pause" => attempt < retries
  BY <1>0 DEF Triggering!Retryable, Triggering!LastAttempt, Triggering!Exit
<1>6. Triggering!Triggered'
  BY <1>t, <1>1 DEF TriggerState, Triggering!Triggered, Triggering!Retryable, Triggering!Exit, Triggering!TypeOK
<1> QED
  BY <1>1, <1>2, <1>3, <1>4, <1>5, <1>6, TriggerFixed DEF TriggerState, Triggering!Attempts

LEMMA TriggerNext == TriggerInv /\ Triggering!Next => TriggerInv'
<1> SUFFICES ASSUME TriggerState, Triggering!Next
             PROVE  TriggerState'
  BY TriggerInvIsState, PTL
<1>t. Triggering!TypeOK
  BY DEF TriggerState
<1>0. retries \in Int /\ attempt \in Nat /\ attempt \in Triggering!Attempts
  BY <1>t, TriggerNumbers
<1>4. CASE Triggering!NextAttempt
  <2> USE <1>4 DEF Triggering!NextAttempt
  <2>0. attempt < retries /\ attempt \in unanswered
    BY Zenon DEF TriggerState
  <2>1. attempt' \in Nat /\ attempt' \in Triggering!Attempts' /\ attempt \in unanswered
    BY <1>0, <2>0 DEF Triggering!Attempts
  <2>2. Triggering!TypeOK'
    BY <1>0, <1>t, <2>1 DEF Triggering!TypeOK
  <2>3. \A a \in 0 .. attempt - 1 : a \in unanswered
    BY DEF TriggerState
  <2>4. \A a \in 0 .. attempt' - 1 : a \in unanswered'
    BY <1>0, <2>1, <2>3
  <2>5. triggered \subseteq 0 .. attempt
    BY DEF TriggerState
  <2>6. triggered' \subseteq 0 .. attempt'
    BY <1>0, <2>5
  <2>7. Triggering!Triggered'
    <3>1. outcome = "running"
      BY <1>t DEF Triggering!TypeOK
    <3> QED
      BY <1>0, <2>4, <2>5, <3>1 DEF Triggering!Triggered
  <2> QED
    BY <2>2, <2>4, <2>6, <2>7, TriggerFixed DEF TriggerState, Triggering!Attempts
<1>2. CASE Triggering!Send
  <2> USE <1>2 DEF Triggering!Send
  <2>1. CASE overdue
    BY <2>1, RetryableKeeps
  <2>2. CASE ~overdue
    <3>a. network' = network \cup {attempt} /\ UNCHANGED <<attempt, retries>>
      BY <2>2
    <3>b. network \subseteq 0 .. attempt
      BY <1>t DEF Triggering!TypeOK
    <3>0. network' \subseteq 0 .. attempt' /\ attempt \in Triggering!Attempts'
      BY <3>a, <3>b, <1>0 DEF Triggering!Attempts
    <3>1. Triggering!TypeOK'
      BY <2>2, <1>0, <1>t, <3>0 DEF Triggering!TypeOK
    <3> QED
      BY <2>2, <3>1, <1>0, TriggerFixed DEF TriggerState, Triggering!Triggered, Triggering!Attempts
  <2> QED
    BY <2>1, <2>2
<1>1. CASE Triggering!Resolve
  BY <1>1, FittingHasToken, TriggerFixed
  DEF Triggering!Resolve, Triggering!Exit, Triggering!OIDC, TriggerState, Triggering!TypeOK, Triggering!Attempts, Triggering!Triggered
<1>3. CASE Triggering!Receive
  <2> USE <1>3 DEF Triggering!Receive
  <2>1. CASE answer = "ok"
    <3>1. Triggering!Exit("ok") /\ UNCHANGED unanswered
      BY <2>1 DEF Triggering!RetryableAnswers
    <3>2. Triggering!TypeOK'
      BY <3>1, <1>t DEF Triggering!TypeOK, Triggering!Attempts, Triggering!Exit
    <3> QED
      BY <2>1, <3>1, <3>2, TriggerFixed DEF TriggerState, Triggering!Attempts, Triggering!Triggered, Triggering!Exit
  <2>2. CASE answer \in Triggering!RetryableAnswers
    <3>1. answer # "ok" /\ Triggering!Retryable
      BY <2>2 DEF Triggering!RetryableAnswers
    <3>2. TriggerState'
      BY <3>1, RetryableKeeps
    <3> QED
      BY <3>2
  <2>3. CASE answer \notin Triggering!RetryableAnswers \cup {"ok"}
    <3>1. answer = "refused" /\ Triggering!Exit("err") /\ UNCHANGED unanswered
      BY <2>3, <1>t DEF Triggering!RetryableAnswers, Triggering!TypeOK
    <3>2. ~Triggering!Fits
      BY <3>1 DEF TriggerState
    <3> QED
      BY <3>1, <3>2, TriggerFixed DEF TriggerState, Triggering!TypeOK, Triggering!Attempts, Triggering!Triggered, Triggering!Exit
  <2> QED
    BY <2>1, <2>2, <2>3
<1>5. CASE Triggering!GiveUp
  BY <1>5, TriggerFixed DEF Triggering!GiveUp, Triggering!Exit, TriggerState, Triggering!TypeOK, Triggering!Attempts, Triggering!Triggered
<1>6. CASE Triggering!ConnectionBreaks
  <2>1. step = "wait" /\ Triggering!Retryable /\ UNCHANGED <<invocation, retries, attempt, network, answer, registered, overdue, triggered>>
    BY <1>6 DEF Triggering!ConnectionBreaks
  <2> QED
    BY <2>1, RetryableKeeps
<1>7. CASE Triggering!FetchFails
  BY <1>7, TriggerFixed DEF Triggering!FetchFails, Triggering!Exit, TriggerState, Triggering!TypeOK, Triggering!Attempts, Triggering!Triggered
<1>8. CASE Triggering!DeadlinePasses
  BY <1>8, TriggerFixed DEF Triggering!DeadlinePasses, TriggerState, Triggering!TypeOK, Triggering!Attempts, Triggering!Triggered
<1>9. CASE Triggering!Register
  <2> USE <1>9 DEF Triggering!Register
  <2>1. Triggering!TypeOK'
    BY <1>0, <1>t DEF Triggering!TypeOK, Triggering!Attempts
  <2> QED
    BY <2>1, TriggerFixed DEF TriggerState, Triggering!Triggered, Triggering!Attempts
<1>10. ASSUME NEW a \in network, Triggering!Handle(a)
       PROVE  TriggerState'
  <2>0. UNCHANGED <<invocation, retries, step, attempt, registered, overdue, unanswered, outcome>> /\ network' = network \ {a}
    BY <1>10 DEF Triggering!Handle
  <2>1. Triggering!Valid(invocation)
    BY DEF TriggerState
  <2>2. PICK status \in {"notFound", "refused", "ok", "busy"} :
          /\ status \in {"ok", "busy"} => Triggering!Known(Receiver, Sent) /\ Triggering!Accepted(Receiver, Sent)
          /\ status = "refused" => ~Triggering!Accepted(Receiver, Sent)
          /\ answer' = IF step = "wait" /\ a = attempt THEN status ELSE answer
          /\ \/ status \in {"ok", "busy"} /\ triggered' = triggered \cup {a}
             \/ status # "ok" /\ UNCHANGED triggered
    BY <1>10 DEF Triggering!Handle, Receiver, Sent
  <2>3. a \in 0 .. attempt /\ invocation \in Invocations
    BY <1>t DEF Triggering!TypeOK
  <2>4. status \in {"ok", "busy"} => Trusted
    BY <2>1, <2>2, <2>3, AcceptedIsTrusted
  <2>5. status = "refused" => ~Triggering!Fits
    BY <2>2, FittingIsAccepted
  <2>6. answer' \in {"none", "ok", "busy", "notFound", "refused"}
    BY <2>2, <1>t DEF Triggering!TypeOK
  <2>7. Triggering!TypeOK'
    BY <2>0, <2>6, <1>t DEF Triggering!TypeOK, Triggering!Attempts
  <2>8. a < attempt => a \in unanswered
    <3>1. \A b \in 0 .. attempt - 1 : b \in unanswered
      BY Zenon DEF TriggerState
    <3> QED
      BY <3>1, <2>3, <1>0
  <2>9. Triggering!Triggered' /\ triggered' \subseteq 0 .. attempt'
    <3>1. Triggering!Triggered /\ triggered \subseteq 0 .. attempt
      BY Zenon DEF TriggerState
    <3> QED
      BY <3>1, <2>0, <2>2, <2>3, <2>8 DEF Triggering!Triggered
  <2>10. step = "wait" /\ answer' = "ok" => attempt \in triggered'
    BY <2>2 DEF TriggerState
  <2>11. step = "wait" /\ answer' = "refused" => ~Triggering!Fits
    BY <2>2, <2>5 DEF TriggerState
  <2>12. triggered' # {} => Trusted
    BY <2>2, <2>4 DEF TriggerState
  <2> QED
    BY <2>0, <2>1, <2>7, <2>9, <2>10, <2>11, <2>12, TriggerFixed DEF TriggerState, Triggering!Attempts
<1>11. ASSUME NEW a \in network, Triggering!Lose(a)
       PROVE  TriggerState'
  <2>1. Triggering!TypeOK'
    BY <1>11, <1>t DEF Triggering!Lose, Triggering!TypeOK, Triggering!Attempts
  <2> QED
    BY <1>11, <2>1, TriggerFixed DEF Triggering!Lose, TriggerState, Triggering!Attempts, Triggering!Triggered
<1> QED
  BY <1>1, <1>2, <1>3, <1>4, <1>5, <1>6, <1>7, <1>8, <1>9, <1>10, <1>11 DEF Triggering!Next, Triggering!Command

LEMMA TriggerUnchanged == TriggerInv /\ UNCHANGED triggering => TriggerInv'
<1> SUFFICES ASSUME TriggerState, UNCHANGED triggering
             PROVE  TriggerState'
  BY TriggerInvIsState, PTL
<1>1. UNCHANGED <<invocation, retries, step, attempt, network, answer, registered, overdue, triggered, unanswered, outcome>>
  BY DEF triggering
<1>2. Triggering!TypeOK'
  BY <1>1 DEF TriggerState, Triggering!TypeOK, Triggering!Attempts
<1> QED
  BY <1>1, <1>2, TriggerFixed DEF TriggerState, Triggering!Attempts, Triggering!Triggered

----------------------------------------------------------------------------
(* flux logs.                                                              *)

Messages == [pod : Nat, line : Nat, piece : Nat]
Msg(p, i, k) == [pod |-> p, line |-> i, piece |-> k]
Writing == {"waiting", "opening", "reading", "writing", "written", "refused", "told", "failed", "returned"}
Gone == {"failed", "returned"}
NotHad == {"refused", "told", "failed"}

\* The entries of the log of a pod, said of the pods as a value.
Clear(log, i) == \A j \in 1 .. i : log[j] \notin Logging!Unreadable
EntriesIn(ps, p) ==
    {e \in [pod : {p}, line : DOMAIN ps[p].log, piece : {1, 2}] :
        Clear(ps[p].log, e.line) /\ e.piece <= Logging!Writes(ps[p].log[e.line])}

\* m is the entry that comes after those in S, of those of its pod.
IsNext(m, S, ps) ==
    /\ m.pod \in DOMAIN ps /\ m \in EntriesIn(ps, m.pod)
    /\ \A e \in EntriesIn(ps, m.pod) : Logging!Before(e, m) <=> e \in S
Ordered(out, ps) ==
    \A i \in DOMAIN out : IsNext(out[i], {out[j] : j \in 1 .. i - 1}, ps)

LogTypes ==
    /\ pods \in Seq(Logging!Pod) /\ follow \in BOOLEAN
    /\ broken \in BOOLEAN /\ expired \in BOOLEAN /\ closed \in BOOLEAN
    /\ line \in [Logging!Pods -> Nat] /\ pieces \in [Logging!Pods -> Nat]
    /\ writer \in [Logging!Pods -> Writing]
    /\ shown \in [Logging!Channels -> Seq(Messages)]
    /\ held \in [Logging!Channels -> Seq(Messages)] /\ \A c \in Logging!Channels : Len(held[c]) <= 1
    /\ pipe \in [Logging!Channels -> Seq(Messages)] /\ \A c \in Logging!Channels : Len(pipe[c]) <= 1
    /\ copier \in [Logging!Channels -> {"copying", "showing", "finished", "failed"}]
    /\ awaits \in Logging!Channels \cup {"ended"} /\ exit \in {"ok", "failed"}

Set(s) == Logging!ToSet(s)
From(s, p) == \E m \in Set(s) : m.pod = p

\* Where a request can be, of a pod: the lines read of its log, the writes to come.
ReadSoFar(pod, at_, i, k, cut) ==
    /\ i <= Len(pod.log)
    /\ pod.refused => at_ \in {"waiting", "opening"} \cup NotHad
    /\ at_ \in NotHad => pod.refused \/ cut
    /\ at_ \in {"waiting", "opening"} \cup NotHad => i = 0
    /\ i # 0 => Clear(pod.log, i - 1)
    /\ at_ \notin {"writing", "written"} => k = 0
    /\ at_ \in {"reading", "writing", "written"} => Clear(pod.log, i)
    /\ at_ \in {"writing", "written"} => i # 0 /\ k \in 1 .. Logging!Writes(pod.log[i])
    /\ at_ = "returned" /\ ~cut => i = Len(pod.log) \/ ~Clear(pod.log, i)
PodRead == \A p \in Logging!Pods : ReadSoFar(pods[p], writer[p], line[p], pieces[p], expired)

\* The writes to come of which nobody has read what they write, and what has
\* therefore been passed on.
Left(at_, k, atPipe) == IF at_ = "written" /\ ~atPipe THEN k - 1 ELSE k
Passed(e, i, k) == e.line < i \/ (e.line = i /\ e.piece > k)
PassedOn(ps, p, i, k, S) == \A e \in EntriesIn(ps, p) : Passed(e, i, k) <=> e \in S

\* Nothing that is written is dropped: all that was passed on is shown or held.
Flowing == copier["stdout"] # "failed" /\ (Logging!parallel \/ ~broken)
Handed ==
    Flowing => \A p \in Logging!Pods :
        PassedOn(pods, p, line[p], Left(writer[p], pieces[p], From(pipe["stdout"], p)),
                 Set(shown["stdout"]) \cup Set(held["stdout"]))

Copied ==
    /\ \A m \in Set(held["stdout"]) : IsNext(m, Set(shown["stdout"]), pods)
    /\ \A m \in Set(pipe["stdout"]) :
          m.pod \in Logging!Pods /\ writer[m.pod] = "written" /\ m = Msg(m.pod, line[m.pod], pieces[m.pod])
    /\ \A m \in Set(pipe["stderr"]) : m.pod \in Logging!Pods /\ writer[m.pod] = "told" /\ m.line = 0
    /\ \A m \in Set(held["stderr"]) : m.line = 0

\* The pods of which it is told, or about to be, that their log could not be had.
Notice(S) == {m \in S : m.line = 0}
Told == {m.pod : m \in Notice(Set(shown["stderr"])) \cup Set(held["stderr"]) \cup Set(pipe["stderr"])}
Refusals == Told = {p \in Logging!Pods : writer[p] \in {"told", "failed"}}

\* What else is on stderr, and that a line that is no JSON is never passed in silence.
Justified(m) ==
    \/ m.line = 0
    \/ m.piece = 0 /\ (expired \/ pods[m.pod].log[m.line] = "broken")
    \/ m.piece # 0 /\ broken /\ ~Logging!parallel
Complaints ==
    /\ \A m \in Set(shown["stderr"]) : Justified(m)
    /\ \A p \in Logging!Pods :
          line[p] # 0 /\ pods[p].log[line[p]] = "broken" => Msg(p, line[p], 0) \in Set(shown["stderr"])

Phases ==
    /\ \A c \in Logging!Channels : held[c] # <<>> <=> copier[c] = "showing"
    /\ copier["stdout"] = "failed" => broken
    /\ copier["stderr"] # "failed"
    /\ closed => Logging!parallel /\ \A p \in Logging!Pods : writer[p] \in Gone
    /\ \A c \in Logging!Channels : copier[c] = "finished" => closed /\ pipe[c] = <<>>
    /\ awaits = "stderr" => copier["stdout"] \in {"finished", "failed"}
    /\ awaits = "ended" /\ Logging!parallel =>
          copier["stdout"] \in {"finished", "failed"} /\ copier["stderr"] = "finished"

OneByOne ==
    ~Logging!parallel =>
        /\ \A c \in Logging!Channels : copier[c] = "copying" /\ pipe[c] = <<>>
        /\ \A p, q \in Logging!Pods : p < q /\ writer[q] # "waiting" => writer[p] \in Gone
        /\ awaits = "ended" => \A p \in Logging!Pods : writer[p] \in Gone
        /\ \A p \in Logging!Pods : writer[p] \notin {"told", "written"}
        /\ pods # <<>> => (exit = "failed" <=> \E p \in Logging!Pods : writer[p] = "failed")

LogsInv ==
    /\ LogTypes /\ Ordered(shown["stdout"], pods)
    /\ PodRead /\ Handed /\ Copied /\ Refusals /\ Complaints /\ Phases /\ OneByOne

----------------------------------------------------------------------------
\* What the set of a sequence of messages is.
LEMMA Sets ==
    /\ Set(<<>>) = {}
    /\ \A s \in Seq(Messages) : Set(s) \subseteq Messages
    /\ \A x : Set(<<x>>) = {x}
    /\ \A s \in Seq(Messages), x \in Messages : Set(Append(s, x)) = Set(s) \cup {x}
  <1>1. Set(<<>>) = {}
    BY DEF Set, Logging!ToSet
  <1>2. \A s \in Seq(Messages) : Set(s) \subseteq Messages
    BY DEF Set, Logging!ToSet
  <1>3. \A x : Set(<<x>>) = {x}
    BY DEF Set, Logging!ToSet
  <1>4. ASSUME NEW s \in Seq(Messages), NEW x \in Messages
        PROVE  Set(Append(s, x)) = Set(s) \cup {x}
    <2>1. DOMAIN Append(s, x) = DOMAIN s \cup {Len(s) + 1}
      OBVIOUS
    <2>2. \A i \in DOMAIN s : Append(s, x)[i] = s[i]
      OBVIOUS
    <2>3. Append(s, x)[Len(s) + 1] = x
      OBVIOUS
    <2> HIDE DEF Messages
    <2> QED BY <2>1, <2>2, <2>3 DEF Set, Logging!ToSet
  <1> QED BY <1>1, <1>2, <1>3, <1>4

\* A pipe, and what a copier holds, is empty or one message.
LEMMA AtMostOne ==
    ASSUME NEW s \in Seq(Messages), Len(s) <= 1, s # <<>>
    PROVE  /\ s = <<s[1]>> /\ s[1] \in Messages /\ Set(s) = {s[1]}
           /\ \A t \in Seq(Messages) : t \o s = Append(t, s[1])
  <1>1. Len(s) \in Nat /\ Len(s) # 0 /\ DOMAIN s = 1 .. Len(s)
    OBVIOUS
  <1>. HIDE DEF Messages
  <1>5. Len(s) = 1
    BY <1>1
  <1>6. DOMAIN s = {1} /\ s[1] \in Messages
    BY <1>1, <1>5
  <1>2. s = <<s[1]>>
    BY <1>5, <1>6
  <1>3. Set(s) = {s[1]}
    BY <1>6 DEF Set, Logging!ToSet
  <1>4. ASSUME NEW t \in Seq(Messages)
        PROVE  t \o s = Append(t, s[1])
    <2>1. t \o <<s[1]>> = Append(t, s[1])
      BY <1>6, AppendIsConcat
    <2> QED BY <2>1, <1>2
  <1> QED BY <1>2, <1>3, <1>4, <1>6

\* Which the entries of a log are.
LEMMA EntriesAre ==
    ASSUME NEW ps \in Seq(Logging!Pod), NEW p \in DOMAIN ps
    PROVE  /\ \A e \in EntriesIn(ps, p) :
                 /\ e.pod = p /\ e.line \in 1 .. Len(ps[p].log) /\ e.piece \in {1, 2}
                 /\ Clear(ps[p].log, e.line) /\ e.piece <= Logging!Writes(ps[p].log[e.line])
                 /\ e = Msg(p, e.line, e.piece)
           /\ \A i \in 1 .. Len(ps[p].log), k \in {1, 2} :
                 Clear(ps[p].log, i) /\ k <= Logging!Writes(ps[p].log[i]) => Msg(p, i, k) \in EntriesIn(ps, p)
  <1>1. ps[p] \in Logging!Pod
    OBVIOUS
  <1>2. ps[p].log \in Seq(Logging!Kinds) /\ DOMAIN ps[p].log = 1 .. Len(ps[p].log)
    BY <1>1 DEF Logging!Pod
  <1>3. ASSUME NEW e \in EntriesIn(ps, p)
        PROVE  /\ e.pod = p /\ e.line \in 1 .. Len(ps[p].log) /\ e.piece \in {1, 2}
               /\ Clear(ps[p].log, e.line) /\ e.piece <= Logging!Writes(ps[p].log[e.line])
               /\ e = Msg(p, e.line, e.piece)
    <2>1. e \in [pod : {p}, line : 1 .. Len(ps[p].log), piece : {1, 2}]
      BY <1>2 DEF EntriesIn
    <2>2. Clear(ps[p].log, e.line) /\ e.piece <= Logging!Writes(ps[p].log[e.line])
      BY DEF EntriesIn
    <2> QED BY <2>1, <2>2 DEF Msg
  <1>4. ASSUME NEW i \in 1 .. Len(ps[p].log), NEW k \in {1, 2},
               Clear(ps[p].log, i), k <= Logging!Writes(ps[p].log[i])
        PROVE  Msg(p, i, k) \in EntriesIn(ps, p)
    BY <1>2, <1>4 DEF EntriesIn, Msg
  <1> QED BY <1>3, <1>4

\* What is shown stays in order when the entry that comes next is shown.
LEMMA ShowNext ==
    ASSUME NEW ps, NEW out \in Seq(Messages), NEW m \in Messages,
           Ordered(out, ps), IsNext(m, Set(out), ps)
    PROVE  Ordered(Append(out, m), ps)
  <1> DEFINE more == Append(out, m)
  <1>1. DOMAIN more = DOMAIN out \cup {Len(out) + 1} /\ more[Len(out) + 1] = m
    OBVIOUS
  <1>2. \A i \in DOMAIN out : more[i] = out[i]
    OBVIOUS
  <1>3. DOMAIN out = 1 .. Len(out) /\ Len(out) \in Nat
    OBVIOUS
  <1> HIDE DEF more, Messages
  <1>4. ASSUME NEW i \in DOMAIN out
        PROVE  IsNext(more[i], {more[j] : j \in 1 .. i - 1}, ps)
    <2>1. {more[j] : j \in 1 .. i - 1} = {out[j] : j \in 1 .. i - 1}
      BY <1>2, <1>3
    <2> QED BY <2>1, <1>2 DEF Ordered
  <1>5. IsNext(more[Len(out) + 1], {more[j] : j \in 1 .. Len(out) + 1 - 1}, ps)
    <2>1. {more[j] : j \in 1 .. Len(out) + 1 - 1} = Set(out)
      BY <1>2, <1>3 DEF Set, Logging!ToSet
    <2> QED BY <2>1, <1>1
  <1>6. Ordered(more, ps)
    <2> SUFFICES ASSUME NEW i \in DOMAIN more
                 PROVE  IsNext(more[i], {more[j] : j \in 1 .. i - 1}, ps)
      BY DEF Ordered
    <2>1. CASE i \in DOMAIN out
      BY <1>4, <2>1
    <2>2. CASE i = Len(out) + 1
      BY <1>5, <2>2
    <2> QED BY <1>1, <2>1, <2>2
  <1> QED BY <1>6 DEF more

----------------------------------------------------------------------------
LEMMA ClustersAssumed == Clusters \subseteq Seq(Seq(Logging!Pod))
  BY ConcurrentAssumption

\* The pods that getPods returns are pods of the cluster.
LEMMA PodsReturned ==
    ASSUME NEW c \in Clusters, NEW ret \in Logging!GetPods(c)
    PROVE  ret \in Seq(Logging!Pod)
  <1> DEFINE all == UNION {Logging!ToSet(ps) : ps \in Logging!ToSet(c)}
  <1>1. c \in Seq(Seq(Logging!Pod))
    BY ClustersAssumed
  <1>2. all \subseteq Logging!Pod
    <2>1. \A ps \in Logging!ToSet(c) : ps \in Seq(Logging!Pod)
      BY <1>1 DEF Logging!ToSet
    <2>2. \A ps \in Seq(Logging!Pod) : Logging!ToSet(ps) \subseteq Logging!Pod
      BY DEF Logging!ToSet
    <2> QED BY <2>1, <2>2
  <1>3. PICK n \in 0 .. Len(c) : ret \in [1 .. n -> all]
    BY DEF Logging!GetPods
  <1>4. n \in Nat
    BY <1>1
  <1> HIDE DEF all
  <1> QED BY <1>2, <1>3, <1>4

LEMMA LogsInit == Logging!Init => LogsInv
  <1> SUFFICES ASSUME Logging!Init PROVE LogsInv
    OBVIOUS
  <1>1. pods \in Seq(Logging!Pod)
    BY PodsReturned DEF Logging!Init
  <1>2. Logging!Pods = 1 .. Len(pods) /\ Len(pods) \in Nat
    BY <1>1 DEF Logging!Pods
  <1>3. /\ line = [p \in Logging!Pods |-> 0] /\ pieces = [p \in Logging!Pods |-> 0]
        /\ pipe = [c \in Logging!Channels |-> <<>>] /\ held = [c \in Logging!Channels |-> <<>>]
        /\ shown = [c \in Logging!Channels |-> <<>>]
        /\ copier = [c \in Logging!Channels |-> "copying"]
    BY DEF Logging!Init
  <1>4. writer = [p \in Logging!Pods |-> IF Logging!parallel \/ p = 1 THEN "opening" ELSE "waiting"]
    BY DEF Logging!Init
  <1>5. /\ follow \in BOOLEAN /\ closed = FALSE /\ broken = FALSE /\ expired = FALSE
        /\ awaits = (IF pods = <<>> THEN "ended" ELSE "stdout")
        /\ exit = (IF pods = <<>> THEN "failed" ELSE "ok")
    BY DEF Logging!Init
  <1>6. \A c \in Logging!Channels :
           shown[c] = <<>> /\ held[c] = <<>> /\ pipe[c] = <<>> /\ copier[c] = "copying"
    BY <1>3
  <1>7. \A p \in Logging!Pods : line[p] = 0 /\ pieces[p] = 0 /\ writer[p] \in {"opening", "waiting"}
    BY <1>3, <1>4
  <1>8. "stdout" \in Logging!Channels /\ "stderr" \in Logging!Channels
    BY DEF Logging!Channels
  <1>a. LogTypes
    <2>1. line \in [Logging!Pods -> Nat] /\ pieces \in [Logging!Pods -> Nat]
      BY <1>3
    <2>2. writer \in [Logging!Pods -> Writing]
      BY <1>4 DEF Writing
    <2>3. <<>> \in Seq(Messages) /\ Len(<<>>) = 0
      OBVIOUS
    <2>4. /\ shown \in [Logging!Channels -> Seq(Messages)]
          /\ held \in [Logging!Channels -> Seq(Messages)] /\ pipe \in [Logging!Channels -> Seq(Messages)]
      BY <1>3, <2>3
    <2>5. \A c \in Logging!Channels : Len(held[c]) <= 1 /\ Len(pipe[c]) <= 1
      BY <1>6, <2>3
    <2>6. copier \in [Logging!Channels -> {"copying", "showing", "finished", "failed"}]
      BY <1>3
    <2>7. awaits \in Logging!Channels \cup {"ended"} /\ exit \in {"ok", "failed"}
      BY <1>5, <1>8
    <2>8. follow \in BOOLEAN /\ broken \in BOOLEAN /\ expired \in BOOLEAN /\ closed \in BOOLEAN
      BY <1>5
    <2> QED BY <1>1, <2>1, <2>2, <2>4, <2>5, <2>6, <2>7, <2>8 DEF LogTypes
  <1>b. Ordered(shown["stdout"], pods)
    BY <1>6, <1>8 DEF Ordered
  <1>c. PodRead
    <2> SUFFICES ASSUME NEW p \in Logging!Pods
                 PROVE  ReadSoFar(pods[p], writer[p], line[p], pieces[p], expired)
      BY DEF PodRead
    <2>1. Len(pods[p].log) \in Nat
      BY <1>1, <1>2 DEF Logging!Pod
    <2> QED BY <1>7, <2>1 DEF ReadSoFar, NotHad
  <1>d. Handed
    <2> SUFFICES ASSUME NEW p \in Logging!Pods
                 PROVE  PassedOn(pods, p, line[p], Left(writer[p], pieces[p], From(pipe["stdout"], p)),
                                 Set(shown["stdout"]) \cup Set(held["stdout"]))
      BY DEF Handed
    <2>1. Set(shown["stdout"]) \cup Set(held["stdout"]) = {}
      BY <1>6, <1>8, Sets
    <2>2. Left(writer[p], pieces[p], From(pipe["stdout"], p)) = 0
      BY <1>7 DEF Left
    <2>3. \A e \in EntriesIn(pods, p) : e.line \in Nat /\ e.line # 0
      BY <1>1, <1>2, EntriesAre DEF Logging!Pods
    <2> QED BY <1>7, <2>1, <2>2, <2>3 DEF PassedOn, Passed
  <1>e. Copied
    BY <1>6, <1>8, Sets DEF Copied
  <1>f. Refusals /\ Complaints
    <2>1. Told = {} /\ Set(shown["stderr"]) = {}
      BY <1>6, <1>8, Sets DEF Told, Notice
    <2> QED BY <1>7, <2>1 DEF Refusals, Complaints
  <1>g. Phases
    <2>1. \A c \in Logging!Channels : copier[c] = "copying" /\ held[c] = <<>>
      BY <1>6
    <2>2. awaits = "ended" => ~Logging!parallel
      BY <1>1, <1>5 DEF Logging!parallel
    <2>3. awaits # "stderr" /\ closed = FALSE
      BY <1>5
    <2> QED BY <1>8, <2>1, <2>2, <2>3 DEF Phases
  <1>h. OneByOne
    <2> SUFFICES ASSUME ~Logging!parallel
                 PROVE  OneByOne
      BY DEF OneByOne
    <2>1. \A p, q \in Logging!Pods : p < q => writer[q] = "waiting"
      BY <1>2, <1>4
    <2>2. awaits = "ended" => Logging!Pods = {}
      BY <1>1, <1>2, <1>5
    <2>3. pods # <<>> => exit = "ok"
      BY <1>5
    <2>4. \A p \in Logging!Pods : writer[p] \notin {"told", "written", "failed"}
      BY <1>7
    <2> QED BY <1>6, <2>1, <2>2, <2>3, <2>4 DEF OneByOne
  <1> QED BY <1>a, <1>b, <1>c, <1>d, <1>e, <1>f, <1>g, <1>h DEF LogsInv

----------------------------------------------------------------------------
(* The requests.                                                           *)

LEMMA WritesAre ==
    /\ \A kind : Logging!Writes(kind) \in 0 .. 2
    /\ \A kind : kind \notin {"entry", "long"} => Logging!Writes(kind) = 0
    /\ Logging!Writes("entry") = 1 /\ Logging!Writes("long") = 2
  BY DEF Logging!Writes

LEMMA ClearIs ==
    ASSUME NEW log
    PROVE  /\ Clear(log, 0)
           /\ \A i \in Nat : Clear(log, i + 1) <=> Clear(log, i) /\ log[i + 1] \notin Logging!Unreadable
           /\ \A i, j \in Nat : i <= j /\ Clear(log, j) => Clear(log, i)
  <1>1. Clear(log, 0)
    BY DEF Clear
  <1>2. ASSUME NEW i \in Nat
        PROVE  Clear(log, i + 1) <=> Clear(log, i) /\ log[i + 1] \notin Logging!Unreadable
    <2>1. 1 .. i + 1 = (1 .. i) \cup {i + 1}
      OBVIOUS
    <2> QED BY <2>1 DEF Clear
  <1>3. ASSUME NEW i \in Nat, NEW j \in Nat, i <= j
        PROVE  Clear(log, j) => Clear(log, i)
    <2>1. 1 .. i \subseteq 1 .. j
      BY <1>3
    <2> QED BY <2>1 DEF Clear
  <1> QED BY <1>1, <1>2, <1>3

\* What the types say, in a form that is cited below.
LEMMA LogsTyped ==
    ASSUME LogTypes
    PROVE  /\ pods \in Seq(Logging!Pod) /\ Logging!Pods = 1 .. Len(pods) /\ Len(pods) \in Nat
           /\ Logging!Pods = DOMAIN pods
           /\ \A p \in Logging!Pods :
                 /\ pods[p] \in Logging!Pod /\ p \in Nat /\ p # 0
                 /\ pods[p].log \in Seq(Logging!Kinds) /\ Len(pods[p].log) \in Nat /\ pods[p].refused \in BOOLEAN
                 /\ line[p] \in Nat /\ pieces[p] \in Nat /\ writer[p] \in Writing
           /\ "stdout" \in Logging!Channels /\ "stderr" \in Logging!Channels
           /\ \A c \in Logging!Channels :
                 /\ shown[c] \in Seq(Messages) /\ held[c] \in Seq(Messages) /\ pipe[c] \in Seq(Messages)
                 /\ Len(held[c]) <= 1 /\ Len(pipe[c]) <= 1
                 /\ copier[c] \in {"copying", "showing", "finished", "failed"}
  <1>1. pods \in Seq(Logging!Pod)
    BY DEF LogTypes
  <1>2. Logging!Pods = 1 .. Len(pods) /\ Len(pods) \in Nat /\ Logging!Pods = DOMAIN pods
    BY <1>1 DEF Logging!Pods
  <1>3. ASSUME NEW p \in Logging!Pods
        PROVE  /\ pods[p] \in Logging!Pod /\ p \in Nat /\ p # 0
               /\ pods[p].log \in Seq(Logging!Kinds) /\ Len(pods[p].log) \in Nat /\ pods[p].refused \in BOOLEAN
    <2>1. pods[p] \in Logging!Pod /\ p \in Nat /\ p # 0
      BY <1>1, <1>2
    <2> QED BY <2>1 DEF Logging!Pod
  <1>4. ASSUME NEW p \in Logging!Pods
        PROVE  line[p] \in Nat /\ pieces[p] \in Nat /\ writer[p] \in Writing
    BY DEF LogTypes
  <1>5. "stdout" \in Logging!Channels /\ "stderr" \in Logging!Channels
    BY DEF Logging!Channels
  <1>6. ASSUME NEW c \in Logging!Channels
        PROVE  /\ shown[c] \in Seq(Messages) /\ held[c] \in Seq(Messages) /\ pipe[c] \in Seq(Messages)
               /\ Len(held[c]) <= 1 /\ Len(pipe[c]) <= 1
               /\ copier[c] \in {"copying", "showing", "finished", "failed"}
    BY DEF LogTypes
  <1> QED BY <1>1, <1>2, <1>3, <1>4, <1>5, <1>6

LEMMA MessagesAre ==
    ASSUME LogTypes, NEW p \in Logging!Pods
    PROVE  Logging!Message(p) = Msg(p, line[p], pieces[p]) /\ Msg(p, line[p], pieces[p]) \in Messages
  BY LogsTyped DEF Logging!Message, Msg, Messages

\* A request changes where it is itself, and neither what the copiers are at nor the
\* command.
LEMMA RequestTouches ==
    ASSUME LogsInv, NEW p \in Logging!Pods, Logging!Request(p)
    PROVE  /\ awaits # "ended"
           /\ follow' = follow /\ pods' = pods /\ copier' = copier /\ held' = held /\ closed' = closed
           /\ broken' = broken /\ expired' = expired /\ awaits' = awaits
           /\ writer' \in [Logging!Pods -> Writing]
           /\ line' \in [Logging!Pods -> Nat] /\ pieces' \in [Logging!Pods -> Nat]
           /\ \A q \in Logging!Pods : q # p => writer'[q] = writer[q] /\ line'[q] = line[q] /\ pieces'[q] = pieces[q]
  <1> DEFINE Moved == /\ writer' \in [Logging!Pods -> Writing]
                      /\ line' \in [Logging!Pods -> Nat] /\ pieces' \in [Logging!Pods -> Nat]
                      /\ \A q \in Logging!Pods : q # p =>
                            writer'[q] = writer[q] /\ line'[q] = line[q] /\ pieces'[q] = pieces[q]
  <1>10. /\ awaits # "ended"
         /\ follow' = follow /\ pods' = pods /\ copier' = copier /\ held' = held /\ closed' = closed
         /\ broken' = broken /\ expired' = expired /\ awaits' = awaits
    BY DEF Logging!Request
  <1> SUFFICES Moved
    BY <1>10
  <1>1. /\ writer \in [Logging!Pods -> Writing]
        /\ line \in [Logging!Pods -> Nat] /\ pieces \in [Logging!Pods -> Nat]
    BY DEF LogsInv, LogTypes
  <1>2. CASE Logging!Open(p)
    <2>1. line' = line /\ pieces' = pieces
      BY <1>2 DEF Logging!Open
    <2> QED BY <1>1, <1>2, <2>1 DEF Logging!Open, Writing
  <1>3. CASE Logging!ReadLine(p)
    <2>1. \A kind : Logging!Writes(kind) \in Nat
      BY WritesAre
    <2>2. line' = [line EXCEPT ![p] = line[p] + 1]
      BY <1>3 DEF Logging!ReadLine
    <2>3. pieces' = [pieces EXCEPT ![p] = Logging!Writes(Logging!Log(p)[line[p] + 1])]
      BY <1>3 DEF Logging!ReadLine
    <2>4. PICK w \in Writing : writer' = [writer EXCEPT ![p] = w]
      <3>1. "reading" \in Writing /\ "returned" \in Writing /\ "writing" \in Writing
        BY DEF Writing
      <3> QED BY <1>3, <3>1 DEF Logging!ReadLine
    <2> QED BY <1>1, <2>1, <2>2, <2>3, <2>4
  <1>4. CASE Logging!EndOfLog(p) \/ Logging!CutOff(p)
    <2>1. line' = line /\ pieces' = pieces
      BY <1>4 DEF Logging!EndOfLog, Logging!CutOff
    <2>2. writer' = [writer EXCEPT ![p] = "returned"]
      BY <1>4 DEF Logging!EndOfLog, Logging!CutOff
    <2> QED BY <1>1, <2>1, <2>2 DEF Writing
  <1>5. CASE Logging!WriteToPipe(p)
    <2>1. line' = line /\ pieces' = pieces
      BY <1>5 DEF Logging!WriteToPipe
    <2> QED BY <1>1, <1>5, <2>1 DEF Logging!WriteToPipe, Writing
  <1>6. CASE Logging!PipeRead(p) \/ Logging!WriteOut(p)
    <2>1. line' = line
      BY <1>6 DEF Logging!PipeRead, Logging!WriteOut
    <2>2. pieces[p] - 1 \in Nat
      <3>1. ReadSoFar(pods[p], writer[p], line[p], pieces[p], expired)
        BY DEF LogsInv, PodRead
      <3>2. writer[p] \in {"writing", "written"}
        BY <1>6 DEF Logging!PipeRead, Logging!WriteOut
      <3>3. pieces[p] \in 1 .. Logging!Writes(pods[p].log[line[p]])
        BY <3>1, <3>2 DEF ReadSoFar
      <3> QED BY <3>3, WritesAre
    <2>3. pieces' = [pieces EXCEPT ![p] = pieces[p] - 1]
      BY <1>6 DEF Logging!PipeRead, Logging!WriteOut
    <2>4. writer' = [writer EXCEPT ![p] = IF pieces[p] > 1 THEN "writing" ELSE "reading"]
      BY <1>6 DEF Logging!PipeRead, Logging!WriteOut
    <2> QED BY <1>1, <2>1, <2>2, <2>3, <2>4 DEF Writing
  <1>7. CASE Logging!Refused(p)
    <2>1. line' = line /\ pieces' = pieces
      BY <1>7 DEF Logging!Refused
    <2>2. PICK w \in Writing : writer' = [writer EXCEPT ![p] = w]
      BY <1>7 DEF Logging!Refused, Writing
    <2> QED BY <1>1, <2>1, <2>2
  <1>8. CASE Logging!Told(p)
    <2>1. line' = line /\ pieces' = pieces
      BY <1>8 DEF Logging!Told
    <2> QED BY <1>1, <1>8, <2>1 DEF Logging!Told, Writing
  <1> QED
    BY <1>2, <1>3, <1>4, <1>5, <1>6, <1>7, <1>8 DEF Logging!Request

\* Where a request gets to is consistent with the log.
LEMMA RequestReads ==
    ASSUME LogsInv, NEW p \in Logging!Pods, Logging!Request(p)
    PROVE  PodRead'
  <1> DEFINE log == pods[p].log
             i == line[p]
             There == ReadSoFar(pods[p], writer'[p], line'[p], pieces'[p], expired)
  <1>1. LogTypes /\ PodRead
    BY DEF LogsInv
  <1>2. ReadSoFar(pods[p], writer[p], line[p], pieces[p], expired)
    BY <1>1 DEF PodRead
  <1>3. /\ log \in Seq(Logging!Kinds) /\ Len(log) \in Nat /\ pods[p].refused \in BOOLEAN
        /\ i \in Nat /\ pieces[p] \in Nat
    BY <1>1, LogsTyped
  <1>4. /\ writer \in [Logging!Pods -> Writing]
        /\ line \in [Logging!Pods -> Nat] /\ pieces \in [Logging!Pods -> Nat]
    BY <1>1 DEF LogTypes
  <1>5. SUFFICES There
    <2>1. /\ pods' = pods /\ expired' = expired
          /\ \A q \in Logging!Pods : q # p => writer'[q] = writer[q] /\ line'[q] = line[q] /\ pieces'[q] = pieces[q]
      BY RequestTouches
    <2>2. Logging!Pods' = Logging!Pods
      BY <2>1 DEF Logging!Pods
    <2>3. ASSUME NEW q \in Logging!Pods
          PROVE  ReadSoFar(pods[q], writer'[q], line'[q], pieces'[q], expired)
      <3>1. CASE q = p
        BY <1>5, <3>1
      <3>2. CASE q # p
        <4>1. ReadSoFar(pods[q], writer[q], line[q], pieces[q], expired)
          BY <1>1 DEF PodRead
        <4> QED BY <2>1, <3>2, <4>1
      <3> QED BY <3>1, <3>2
    <2> QED BY <2>1, <2>2, <2>3 DEF PodRead
  <1>a. CASE Logging!Open(p)
    <2>1. writer[p] = "opening" /\ line' = line /\ pieces' = pieces
      BY <1>a DEF Logging!Open
    <2>2. writer'[p] = IF pods[p].refused \/ expired THEN "refused" ELSE "reading"
      BY <1>a, <1>4 DEF Logging!Open
    <2>3. i = 0 /\ pieces[p] = 0 /\ Clear(log, 0)
      BY <1>2, <2>1, ClearIs DEF ReadSoFar
    <2> QED BY <1>3, <2>1, <2>2, <2>3 DEF ReadSoFar, NotHad
  <1>b. CASE Logging!ReadLine(p)
    <2> DEFINE kind == log[i + 1]
    <2>1. writer[p] = "reading" /\ i < Len(log)
      BY <1>b DEF Logging!ReadLine, Logging!Log
    <2>2. line'[p] = i + 1 /\ pieces'[p] = Logging!Writes(kind)
      BY <1>b, <1>4 DEF Logging!ReadLine, Logging!Log
    <2>3. writer'[p] = CASE kind \in Logging!Skipped -> "reading"
                         [] kind \in Logging!Unreadable -> "returned"
                         [] OTHER -> "writing"
      BY <1>b, <1>4 DEF Logging!ReadLine, Logging!Log
    <2>4. Clear(log, i) /\ (Clear(log, i + 1) <=> kind \notin Logging!Unreadable) /\ ~pods[p].refused
      BY <1>2, <1>3, <2>1, ClearIs DEF ReadSoFar, NotHad
    <2>5. kind \in Logging!Kinds /\ i + 1 - 1 = i /\ i + 1 <= Len(log)
      BY <1>3, <2>1
    <2>6. CASE kind \in Logging!Skipped
      <3>1. kind \notin Logging!Unreadable /\ Logging!Writes(kind) = 0 /\ writer'[p] = "reading"
        BY <2>3, <2>6, WritesAre DEF Logging!Skipped, Logging!Unreadable
      <3> QED BY <1>3, <2>2, <2>4, <2>5, <3>1 DEF ReadSoFar, NotHad
    <2>7. CASE kind \in Logging!Unreadable
      <3>1. Logging!Writes(kind) = 0 /\ writer'[p] = "returned"
        BY <2>3, <2>7, WritesAre DEF Logging!Skipped, Logging!Unreadable
      <3> QED BY <1>3, <2>2, <2>4, <2>5, <2>7, <3>1 DEF ReadSoFar, NotHad
    <2>8. CASE kind \in {"entry", "long"}
      <3>1. kind \notin Logging!Unreadable /\ Logging!Writes(kind) \in 1 .. 2 /\ writer'[p] = "writing"
        BY <2>3, <2>8, WritesAre DEF Logging!Skipped, Logging!Unreadable
      <3>2. i + 1 # 0 /\ pieces'[p] \in 1 .. Logging!Writes(log[i + 1])
        BY <1>3, <2>2, <3>1
      <3> QED BY <1>3, <2>2, <2>4, <2>5, <3>1, <3>2 DEF ReadSoFar, NotHad
    <2> QED BY <2>5, <2>6, <2>7, <2>8 DEF Logging!Kinds, Logging!Skipped, Logging!Unreadable
  <1>c. CASE Logging!EndOfLog(p) \/ Logging!CutOff(p)
    <2>1. writer[p] = "reading" /\ line' = line /\ pieces' = pieces /\ (i = Len(log) \/ expired)
      BY <1>c DEF Logging!EndOfLog, Logging!CutOff, Logging!Log
    <2>2. writer'[p] = "returned"
      BY <1>c, <1>4 DEF Logging!EndOfLog, Logging!CutOff
    <2> QED BY <1>2, <2>1, <2>2 DEF ReadSoFar, NotHad
  <1>d. CASE Logging!WriteToPipe(p)
    <2>1. writer[p] = "writing" /\ line' = line /\ pieces' = pieces
      BY <1>d DEF Logging!WriteToPipe
    <2>2. writer'[p] = "written"
      BY <1>d, <1>4 DEF Logging!WriteToPipe
    <2> QED BY <1>2, <2>1, <2>2 DEF ReadSoFar, NotHad
  <1>e. CASE Logging!PipeRead(p) \/ Logging!WriteOut(p)
    <2>1. writer[p] \in {"writing", "written"} /\ line' = line
      BY <1>e DEF Logging!PipeRead, Logging!WriteOut
    <2>2. pieces'[p] = pieces[p] - 1 /\ writer'[p] = IF pieces[p] > 1 THEN "writing" ELSE "reading"
      BY <1>e, <1>4 DEF Logging!PipeRead, Logging!WriteOut
    <2>3. pieces[p] \in 1 .. Logging!Writes(log[i]) /\ i # 0 /\ Clear(log, i) /\ ~pods[p].refused
      BY <1>2, <2>1 DEF ReadSoFar, NotHad
    <2>4. Logging!Writes(log[i]) \in Nat
      BY WritesAre
    <2>5. CASE pieces[p] > 1
      BY <1>2, <1>3, <2>1, <2>2, <2>3, <2>4, <2>5 DEF ReadSoFar, NotHad
    <2>6. CASE pieces[p] = 1
      BY <1>2, <1>3, <2>1, <2>2, <2>3, <2>4, <2>6 DEF ReadSoFar, NotHad
    <2> QED BY <2>3, <2>4, <2>5, <2>6
  <1>f. CASE Logging!Refused(p)
    <2>1. writer[p] = "refused" /\ line' = line /\ pieces' = pieces
      BY <1>f DEF Logging!Refused
    <2>2. writer'[p] \in {"told", "failed"}
      BY <1>f, <1>4 DEF Logging!Refused
    <2> QED BY <1>2, <2>1, <2>2 DEF ReadSoFar, NotHad
  <1>g. CASE Logging!Told(p)
    <2>1. writer[p] = "told" /\ line' = line /\ pieces' = pieces
      BY <1>g DEF Logging!Told
    <2>2. writer'[p] = "failed"
      BY <1>g, <1>4 DEF Logging!Told
    <2> QED BY <1>2, <2>1, <2>2 DEF ReadSoFar, NotHad
  <1> QED BY <1>a, <1>b, <1>c, <1>d, <1>e, <1>f, <1>g DEF Logging!Request

\* The moves of a request: what it writes, and that it waits until that was read.
LEMMA RequestGoes ==
    ASSUME LogsInv, NEW p \in Logging!Pods, Logging!Request(p)
    PROVE  \/ /\ pipe' = pipe /\ shown' = shown /\ exit' = exit
              /\ \/ writer[p] = "opening" /\ writer'[p] \in {"refused", "reading"}
                 \/ writer[p] = "reading" /\ writer'[p] \in {"reading", "writing", "returned"}
                 \/ /\ writer[p] = "written" /\ ~From(pipe["stdout"], p)
                    /\ writer'[p] \in {"writing", "reading"}
                 \/ writer[p] = "told" /\ ~From(pipe["stderr"], p) /\ writer'[p] = "failed"
           \/ /\ writer[p] = "reading" /\ writer'[p] = "returned" /\ pipe' = pipe /\ exit' = exit
              /\ shown' = [shown EXCEPT !["stderr"] = Append(@, Msg(p, line[p] + 1, 0))]
              /\ expired \/ pods[p].log[line[p] + 1] = "broken"
           \/ /\ writer[p] = "writing" /\ writer'[p] = "written" /\ Logging!parallel
              /\ shown' = shown /\ exit' = exit /\ pipe["stdout"] = <<>>
              /\ pipe' = [pipe EXCEPT !["stdout"] = <<Msg(p, line[p], pieces[p])>>]
              /\ line' = line /\ pieces' = pieces
           \/ /\ writer[p] = "writing" /\ writer'[p] \in {"writing", "reading"} /\ ~Logging!parallel
              /\ pipe' = pipe /\ exit' = exit
              /\ \/ ~broken /\ shown' = [shown EXCEPT !["stdout"] = Append(@, Msg(p, line[p], pieces[p]))]
                 \/ broken /\ shown' = shown
                 \/ broken /\ shown' = [shown EXCEPT !["stderr"] = Append(@, Msg(p, line[p], pieces[p]))]
              /\ line'[p] = line[p] /\ pieces'[p] = pieces[p] - 1
           \/ /\ writer[p] = "refused" /\ writer'[p] = "told" /\ Logging!parallel
              /\ shown' = shown /\ exit' = exit /\ pipe["stderr"] = <<>>
              /\ pipe' = [pipe EXCEPT !["stderr"] = <<Msg(p, line[p], pieces[p])>>]
           \/ /\ writer[p] = "refused" /\ writer'[p] = "failed" /\ ~Logging!parallel
              /\ pipe' = pipe /\ exit' = "failed"
              /\ shown' = [shown EXCEPT !["stderr"] = Append(@, Msg(p, line[p], pieces[p]))]
  <1>1. Logging!Message(p) = Msg(p, line[p], pieces[p])
    BY MessagesAre DEF LogsInv
  <1>2. /\ writer \in [Logging!Pods -> Writing] /\ pieces \in [Logging!Pods -> Nat]
        /\ shown \in [Logging!Channels -> Seq(Messages)]
    BY DEF LogsInv, LogTypes
  <1>3. Logging!ParseError(p) = Msg(p, line[p] + 1, 0)
    BY DEF Logging!ParseError, Msg
  <1>a. CASE Logging!Open(p)
    <2>1. pipe' = pipe /\ shown' = shown /\ exit' = exit /\ writer[p] = "opening"
      BY <1>a DEF Logging!Open
    <2>2. writer'[p] \in {"refused", "reading"}
      BY <1>a, <1>2 DEF Logging!Open
    <2> QED BY <2>1, <2>2
  <1>b. CASE Logging!ReadLine(p)
    <2> DEFINE kind == pods[p].log[line[p] + 1]
    <2>1. pipe' = pipe /\ exit' = exit /\ writer[p] = "reading"
      BY <1>b DEF Logging!ReadLine
    <2>2. /\ writer'[p] \in {"reading", "writing", "returned"}
          /\ kind = "broken" => writer'[p] = "returned"
      BY <1>b, <1>2 DEF Logging!ReadLine, Logging!Log, Logging!Skipped, Logging!Unreadable
    <2>3. kind # "broken" => shown' = shown
      BY <1>b DEF Logging!ReadLine, Logging!Log
    <2>4. kind = "broken" => shown' = [shown EXCEPT !["stderr"] = Append(@, Msg(p, line[p] + 1, 0))]
      BY <1>b, <1>3 DEF Logging!ReadLine, Logging!Log
    <2> QED BY <2>1, <2>2, <2>3, <2>4
  <1>c. CASE Logging!EndOfLog(p) \/ Logging!CutOff(p)
    <2>1. pipe' = pipe /\ exit' = exit /\ writer[p] = "reading"
      BY <1>c DEF Logging!EndOfLog, Logging!CutOff
    <2>2. writer'[p] = "returned"
      BY <1>c, <1>2 DEF Logging!EndOfLog, Logging!CutOff
    <2>3. \/ shown' = shown
          \/ expired /\ shown' = [shown EXCEPT !["stderr"] = Append(@, Msg(p, line[p] + 1, 0))]
      BY <1>c, <1>3 DEF Logging!EndOfLog, Logging!CutOff
    <2> QED BY <2>1, <2>2, <2>3
  <1>d. CASE Logging!WriteToPipe(p)
    <2>1. /\ writer[p] = "writing" /\ Logging!parallel
          /\ shown' = shown /\ exit' = exit /\ pipe["stdout"] = <<>>
          /\ pipe' = [pipe EXCEPT !["stdout"] = <<Msg(p, line[p], pieces[p])>>]
          /\ line' = line /\ pieces' = pieces
      BY <1>d, <1>1 DEF Logging!WriteToPipe
    <2>2. writer'[p] = "written"
      BY <1>d, <1>2 DEF Logging!WriteToPipe
    <2> QED BY <2>1, <2>2
  <1>e. CASE Logging!PipeRead(p)
    <2>1. pipe' = pipe /\ shown' = shown /\ exit' = exit /\ writer[p] = "written"
      BY <1>e DEF Logging!PipeRead
    <2>2. writer'[p] \in {"writing", "reading"}
      BY <1>e, <1>2 DEF Logging!PipeRead
    <2>3. ~From(pipe["stdout"], p)
      BY <1>e DEF Logging!PipeRead, From, Set
    <2> QED BY <2>1, <2>2, <2>3
  <1>f. CASE Logging!WriteOut(p)
    <2>1. /\ writer[p] = "writing" /\ ~Logging!parallel
          /\ pipe' = pipe /\ exit' = exit /\ line' = line
      BY <1>f DEF Logging!WriteOut
    <2>2. writer'[p] \in {"writing", "reading"} /\ pieces'[p] = pieces[p] - 1
      BY <1>f, <1>2 DEF Logging!WriteOut
    <2>3. ~broken => shown' = [shown EXCEPT !["stdout"] = Append(@, Msg(p, line[p], pieces[p]))]
      BY <1>f, <1>1 DEF Logging!WriteOut
    <2>4. broken => \/ shown' = [shown EXCEPT !["stderr"] = shown["stderr"]]
                    \/ shown' = [shown EXCEPT !["stderr"] = Append(@, Msg(p, line[p], pieces[p]))]
      BY <1>f, <1>1 DEF Logging!WriteOut
    <2>5. [shown EXCEPT !["stderr"] = shown["stderr"]] = shown
      BY <1>2
    <2> QED BY <2>1, <2>2, <2>3, <2>4, <2>5
  <1>g. CASE Logging!Refused(p)
    <2>1. writer[p] = "refused"
      BY <1>g DEF Logging!Refused
    <2>2. CASE Logging!parallel
      <3>1. /\ pipe["stderr"] = <<>> /\ shown' = shown /\ exit' = exit
            /\ pipe' = [pipe EXCEPT !["stderr"] = <<Msg(p, line[p], pieces[p])>>]
        BY <1>g, <1>1, <2>2 DEF Logging!Refused
      <3>2. writer'[p] = "told"
        BY <1>g, <1>2, <2>2 DEF Logging!Refused
      <3> QED BY <2>1, <2>2, <3>1, <3>2
    <2>3. CASE ~Logging!parallel
      <3>1. /\ shown' = [shown EXCEPT !["stderr"] = Append(@, Msg(p, line[p], pieces[p]))]
            /\ pipe' = pipe /\ exit' = "failed"
        BY <1>g, <1>1, <2>3 DEF Logging!Refused
      <3>2. writer'[p] = "failed"
        BY <1>g, <1>2, <2>3 DEF Logging!Refused
      <3> QED BY <2>1, <2>3, <3>1, <3>2
    <2> QED BY <2>2, <2>3
  <1>h. CASE Logging!Told(p)
    <2>1. pipe' = pipe /\ shown' = shown /\ exit' = exit /\ writer[p] = "told"
      BY <1>h DEF Logging!Told
    <2>2. writer'[p] = "failed"
      BY <1>h, <1>2 DEF Logging!Told
    <2>3. ~From(pipe["stderr"], p)
      BY <1>h DEF Logging!Told, From, Set
    <2> QED BY <2>1, <2>2, <2>3
  <1> QED BY <1>a, <1>b, <1>c, <1>d, <1>e, <1>f, <1>g, <1>h DEF Logging!Request

LEMMA RequestTypes ==
    ASSUME LogsInv, NEW p \in Logging!Pods, Logging!Request(p)
    PROVE  LogTypes'
  <1> DEFINE m == Msg(p, line[p], pieces[p])
             n == Msg(p, line[p] + 1, 0)
  <1>1. LogTypes /\ m \in Messages /\ n \in Messages
    <2>1. LogTypes /\ line[p] + 1 \in Nat /\ p \in Nat
      BY LogsTyped DEF LogsInv
    <2> QED BY <2>1, MessagesAre DEF Messages, Msg
  <1>2. <<m>> \in Seq(Messages) /\ Len(<<m>>) <= 1
    BY <1>1
  <1>3. \A s \in Seq(Messages), x \in Messages : Append(s, x) \in Seq(Messages)
    OBVIOUS
  <1> HIDE DEF m, n
  <1>4. /\ shown \in [Logging!Channels -> Seq(Messages)]
        /\ pipe \in [Logging!Channels -> Seq(Messages)] /\ \A c \in Logging!Channels : Len(pipe[c]) <= 1
        /\ exit \in {"ok", "failed"}
    BY <1>1 DEF LogTypes
  <1>5. /\ shown' \in [Logging!Channels -> Seq(Messages)]
        /\ pipe' \in [Logging!Channels -> Seq(Messages)] /\ \A c \in Logging!Channels : Len(pipe'[c]) <= 1
        /\ exit' \in {"ok", "failed"}
    <2>1. CASE pipe' = pipe /\ shown' = shown /\ exit' = exit
      BY <1>4, <2>1
    <2>2. ASSUME shown' = shown, exit' = exit,
                 NEW c \in Logging!Channels, pipe' = [pipe EXCEPT ![c] = <<m>>]
          PROVE  /\ shown' \in [Logging!Channels -> Seq(Messages)]
                 /\ pipe' \in [Logging!Channels -> Seq(Messages)] /\ \A d \in Logging!Channels : Len(pipe'[d]) <= 1
                 /\ exit' \in {"ok", "failed"}
      <3> HIDE DEF Messages
      <3> QED BY <1>2, <1>4, <2>2
    <2>3. ASSUME pipe' = pipe, exit' \in {exit, "failed"}, NEW x \in Messages,
                 NEW c \in Logging!Channels, shown' = [shown EXCEPT ![c] = Append(@, x)]
          PROVE  /\ shown' \in [Logging!Channels -> Seq(Messages)]
                 /\ pipe' \in [Logging!Channels -> Seq(Messages)] /\ \A d \in Logging!Channels : Len(pipe'[d]) <= 1
                 /\ exit' \in {"ok", "failed"}
      <3>1. Append(shown[c], x) \in Seq(Messages)
        BY <1>3, <1>4
      <3> QED BY <3>1, <1>4, <2>3
    <2>4. "stdout" \in Logging!Channels /\ "stderr" \in Logging!Channels
      BY DEF Logging!Channels
    <2> QED BY <1>1, <2>1, <2>2, <2>3, <2>4, RequestGoes DEF m, n
  <1>6. /\ follow' = follow /\ pods' = pods /\ copier' = copier /\ held' = held /\ closed' = closed
        /\ broken' = broken /\ expired' = expired /\ awaits' = awaits
        /\ writer' \in [Logging!Pods -> Writing]
        /\ line' \in [Logging!Pods -> Nat] /\ pieces' \in [Logging!Pods -> Nat]
    BY RequestTouches
  <1>7. Logging!Pods' = Logging!Pods /\ Logging!Channels' = Logging!Channels
    BY <1>6 DEF Logging!Pods, Logging!Channels
  <1> QED BY <1>1, <1>5, <1>6, <1>7 DEF LogTypes

LEMMA RequestPhases ==
    ASSUME LogsInv, NEW p \in Logging!Pods, Logging!Request(p)
    PROVE  Phases'
  <1>1. /\ awaits # "ended"
        /\ follow' = follow /\ pods' = pods /\ copier' = copier /\ held' = held /\ closed' = closed
        /\ broken' = broken /\ awaits' = awaits
    BY RequestTouches
  <1>2. Phases
    BY DEF LogsInv
  <1>3. writer[p] \notin Gone
    BY RequestGoes DEF Gone
  <1>4. ~closed
    BY <1>2, <1>3 DEF Phases
  <1> QED BY <1>1, <1>2, <1>4 DEF Phases, Logging!Channels

LEMMA RequestOneByOne ==
    ASSUME LogsInv, NEW p \in Logging!Pods, Logging!Request(p)
    PROVE  OneByOne'
  <1>1. /\ awaits # "ended" /\ follow' = follow /\ pods' = pods /\ copier' = copier /\ awaits' = awaits
        /\ \A q \in Logging!Pods : q # p => writer'[q] = writer[q]
    BY RequestTouches
  <1>2. OneByOne /\ PodRead /\ LogTypes
    BY DEF LogsInv
  <1>3. Logging!Pods' = Logging!Pods /\ Logging!Channels' = Logging!Channels
        /\ (Logging!parallel' <=> Logging!parallel)
    BY <1>1 DEF Logging!Pods, Logging!Channels, Logging!parallel
  <1> SUFFICES ASSUME ~Logging!parallel
               PROVE  OneByOne'
    BY <1>3 DEF OneByOne
  <1>4. pipe' = pipe
    BY RequestGoes
  <1>5. writer[p] \notin {"waiting", "failed", "returned", "told", "written"}
    BY <1>2, RequestGoes DEF OneByOne
  <1>6. writer'[p] \notin {"waiting", "told", "written"}
    BY <1>5, RequestGoes
  <1>7. \/ exit' = exit /\ writer'[p] # "failed"
        \/ exit' = "failed" /\ writer'[p] = "failed"
    BY <1>5, RequestGoes
  <1>9. ASSUME NEW q \in Logging!Pods, NEW r \in Logging!Pods, q < r, writer'[r] # "waiting"
        PROVE  writer'[q] \in Gone
    <2>1. writer[r] # "waiting"
      BY <1>1, <1>5, <1>9
    <2>2. writer[q] \in Gone
      BY <1>2, <1>9, <2>1 DEF OneByOne
    <2> QED BY <1>1, <1>5, <2>2 DEF Gone
  <1>10. pods # <<>> => (exit' = "failed" <=> \E q \in Logging!Pods : writer'[q] = "failed")
    <2>1. pods # <<>> => (exit = "failed" <=> \E q \in Logging!Pods : writer[q] = "failed")
      BY <1>2 DEF OneByOne
    <2> QED BY <1>1, <1>5, <1>7, <2>1
  <1>11. \A c \in Logging!Channels : copier[c] = "copying" /\ pipe[c] = <<>>
    BY <1>2 DEF OneByOne
  <1>12. \A q \in Logging!Pods : writer'[q] \notin {"told", "written"}
    <2>1. \A q \in Logging!Pods : writer[q] \notin {"told", "written"}
      BY <1>2 DEF OneByOne
    <2> QED BY <1>1, <1>6, <2>1
  <1> QED BY <1>1, <1>3, <1>4, <1>9, <1>10, <1>11, <1>12 DEF OneByOne

\* What a request writes to stderr, and what it leaves there.
LEMMA RequestTells ==
    ASSUME LogsInv, NEW p \in Logging!Pods, Logging!Request(p)
    PROVE  \/ shown'["stderr"] = shown["stderr"]
           \/ \E m \in Messages :
                 /\ m.pod = p /\ shown'["stderr"] = Append(shown["stderr"], m)
                 /\ Set(shown'["stderr"]) = Set(shown["stderr"]) \cup {m}
                 /\ \/ m.line = 0 /\ writer[p] = "refused" /\ ~Logging!parallel
                    \/ m.line # 0 /\ writer[p] # "refused" /\ Justified(m)
  <1> DEFINE n == Msg(p, line[p] + 1, 0)
             m == Msg(p, line[p], pieces[p])
  <1>1. LogTypes /\ PodRead
    BY DEF LogsInv
  <1>2. /\ shown \in [Logging!Channels -> Seq(Messages)] /\ "stdout" \in Logging!Channels
        /\ "stderr" \in Logging!Channels /\ shown["stderr"] \in Seq(Messages)
        /\ line[p] \in Nat /\ pieces[p] \in Nat /\ p \in Nat
    BY <1>1, LogsTyped DEF LogTypes
  <1>3. ReadSoFar(pods[p], writer[p], line[p], pieces[p], expired)
    BY <1>1 DEF PodRead
  <1>4. /\ n \in Messages /\ n.pod = p /\ n.line = line[p] + 1 /\ n.piece = 0 /\ n.line # 0
        /\ m \in Messages /\ m.pod = p /\ m.line = line[p] /\ m.piece = pieces[p]
    BY <1>2 DEF Messages, Msg
  <1> HIDE DEF n, m, Messages
  <1>5. ASSUME NEW x \in Messages, shown' = [shown EXCEPT !["stderr"] = Append(@, x)]
        PROVE  /\ shown'["stderr"] = Append(shown["stderr"], x)
               /\ Set(shown'["stderr"]) = Set(shown["stderr"]) \cup {x}
    <2>1. shown'["stderr"] = Append(shown["stderr"], x)
      BY <1>2, <1>5
    <2> QED BY <1>2, <1>5, <2>1, Sets
  <1>6. \/ shown'["stderr"] = shown["stderr"]
        \/ /\ shown' = [shown EXCEPT !["stderr"] = Append(@, n)] /\ writer[p] = "reading"
           /\ expired \/ pods[p].log[line[p] + 1] = "broken"
        \/ /\ shown' = [shown EXCEPT !["stderr"] = Append(@, m)]
           /\ \/ writer[p] = "writing" /\ broken /\ ~Logging!parallel
              \/ writer[p] = "refused" /\ ~Logging!parallel
    <2>1. "stdout" # "stderr"
      OBVIOUS
    <2> QED BY <1>2, <2>1, RequestGoes DEF n, m
  <1>7. CASE /\ shown' = [shown EXCEPT !["stderr"] = Append(@, n)] /\ writer[p] = "reading"
             /\ expired \/ pods[p].log[line[p] + 1] = "broken"
    <2>1. Justified(n)
      BY <1>4, <1>7 DEF Justified
    <2> QED BY <1>4, <1>5, <1>7, <2>1
  <1>8. CASE /\ shown' = [shown EXCEPT !["stderr"] = Append(@, m)]
             /\ writer[p] = "writing" /\ broken /\ ~Logging!parallel
    <2>1. line[p] # 0 /\ pieces[p] # 0
      BY <1>3, <1>8, WritesAre DEF ReadSoFar
    <2>2. Justified(m)
      BY <1>4, <1>8, <2>1 DEF Justified
    <2> QED BY <1>4, <1>5, <1>8, <2>1, <2>2
  <1>9. CASE /\ shown' = [shown EXCEPT !["stderr"] = Append(@, m)]
             /\ writer[p] = "refused" /\ ~Logging!parallel
    <2>1. line[p] = 0
      BY <1>3, <1>9 DEF ReadSoFar, NotHad
    <2> QED BY <1>4, <1>5, <1>9, <2>1
  <1> QED BY <1>6, <1>7, <1>8, <1>9

LEMMA RequestRefusals ==
    ASSUME LogsInv, NEW p \in Logging!Pods, Logging!Request(p)
    PROVE  Refusals'
  <1> DEFINE m == Msg(p, line[p], pieces[p])
             told(w) == w \in {"told", "failed"}
  <1>1. /\ pods' = pods /\ held' = held
        /\ \A q \in Logging!Pods : q # p => writer'[q] = writer[q]
    BY RequestTouches
  <1>2. Refusals /\ PodRead /\ LogTypes
    BY DEF LogsInv
  <1>3. Logging!Pods' = Logging!Pods
    BY <1>1 DEF Logging!Pods
  <1>5. m \in Messages /\ m.pod = p
    BY <1>2, MessagesAre DEF Msg
  <1>6. /\ "stdout" \in Logging!Channels /\ "stderr" \in Logging!Channels
        /\ pipe \in [Logging!Channels -> Seq(Messages)]
    BY <1>2, LogsTyped DEF LogTypes
  <1> HIDE DEF m
  <1>a. CASE writer[p] = "refused"
    <2>2. told(writer'[p])
      BY <1>a, RequestGoes
    <2>3. Told' = Told \cup {p}
      <3>1. CASE Logging!parallel
        <4>1. /\ shown' = shown /\ pipe["stderr"] = <<>> /\ pipe' = [pipe EXCEPT !["stderr"] = <<m>>]
          BY <1>a, <3>1, RequestGoes DEF m
        <4>2. Set(pipe["stderr"]) = {} /\ Set(pipe'["stderr"]) = {m}
          BY <1>6, <4>1, Sets
        <4> QED BY <1>1, <1>5, <4>1, <4>2 DEF Told
      <3>2. CASE ~Logging!parallel
        <4>1. pipe' = pipe /\ shown' = [shown EXCEPT !["stderr"] = Append(@, m)]
          BY <1>a, <3>2, RequestGoes DEF m
        <4>2. ReadSoFar(pods[p], writer[p], line[p], pieces[p], expired)
          BY <1>2 DEF PodRead
        <4>3. m.line = 0
          BY <1>a, <4>2 DEF ReadSoFar, NotHad, m, Msg
        <4>4. shown'["stderr"] = Append(shown["stderr"], m) /\ shown["stderr"] \in Seq(Messages)
          BY <1>2, <1>6, <4>1 DEF LogTypes
        <4>5. Set(shown'["stderr"]) = Set(shown["stderr"]) \cup {m}
          BY <1>5, <4>4, Sets
        <4>6. Notice(Set(shown'["stderr"])) = Notice(Set(shown["stderr"])) \cup {m}
          BY <4>3, <4>5 DEF Notice
        <4> QED BY <1>1, <1>5, <4>1, <4>6 DEF Told
      <3> QED BY <3>1, <3>2
    <2>4. {q \in Logging!Pods : told(writer'[q])} = {q \in Logging!Pods : told(writer[q])} \cup {p}
      BY <1>1, <2>2
    <2> QED BY <1>1, <1>2, <1>3, <2>3, <2>4 DEF Refusals
  <1>b. CASE writer[p] # "refused"
    <2>1. Told' = Told
      <3>1. pipe'["stderr"] = pipe["stderr"]
        BY <1>b, <1>6, RequestGoes
      <3>2. Notice(Set(shown'["stderr"])) = Notice(Set(shown["stderr"]))
        BY <1>b, RequestTells DEF Notice
      <3> QED BY <1>1, <3>1, <3>2 DEF Told
    <2>2. told(writer'[p]) <=> told(writer[p])
      BY <1>b, RequestGoes
    <2>3. {q \in Logging!Pods : told(writer'[q])} = {q \in Logging!Pods : told(writer[q])}
      BY <1>1, <2>2
    <2> QED BY <1>1, <1>2, <1>3, <2>1, <2>3 DEF Refusals
  <1> QED BY <1>a, <1>b

LEMMA RequestComplains ==
    ASSUME LogsInv, NEW p \in Logging!Pods, Logging!Request(p)
    PROVE  Complaints'
  <1>1. LogTypes /\ PodRead /\ Complaints
    BY DEF LogsInv
  <1>2. /\ follow' = follow /\ pods' = pods /\ broken' = broken /\ expired' = expired
        /\ \A q \in Logging!Pods : q # p => line'[q] = line[q]
    BY RequestTouches
  <1>3. Logging!Pods' = Logging!Pods /\ (Logging!parallel' <=> Logging!parallel)
    BY <1>2 DEF Logging!Pods, Logging!parallel
  <1>4. /\ \A m \in Set(shown'["stderr"]) : Justified(m)
        /\ Set(shown["stderr"]) \subseteq Set(shown'["stderr"])
    BY <1>1, RequestTells DEF Complaints, Justified
  <1>5. \A m : Justified(m)' <=> Justified(m)
    BY <1>2, <1>3 DEF Justified
  <1>6. ASSUME line'[p] # 0, pods[p].log[line'[p]] = "broken"
        PROVE  Msg(p, line'[p], 0) \in Set(shown'["stderr"])
    <2>1. CASE line'[p] = line[p]
      BY <1>1, <1>4, <1>6, <2>1 DEF Complaints
    <2>2. CASE line'[p] # line[p]
      <3>1. Logging!ReadLine(p)
        BY <2>2 DEF Logging!Request, Logging!Open, Logging!EndOfLog, Logging!CutOff, Logging!WriteToPipe,
                    Logging!PipeRead, Logging!WriteOut, Logging!Refused, Logging!Told
      <3>2. /\ line \in [Logging!Pods -> Nat] /\ shown \in [Logging!Channels -> Seq(Messages)]
            /\ shown["stderr"] \in Seq(Messages) /\ "stderr" \in Logging!Channels /\ p \in Nat
        BY <1>1, LogsTyped DEF LogTypes
      <3>3. line'[p] = line[p] + 1 /\ Msg(p, line'[p], 0) \in Messages
        BY <3>1, <3>2 DEF Logging!ReadLine, Msg, Messages
      <3>4. Logging!ParseError(p) = Msg(p, line'[p], 0)
        BY <3>3 DEF Logging!ParseError, Msg
      <3>5. shown' = [shown EXCEPT !["stderr"] = Append(@, Msg(p, line'[p], 0))]
        BY <1>6, <3>1, <3>3, <3>4 DEF Logging!ReadLine, Logging!Log
      <3>6. shown'["stderr"] = Append(shown["stderr"], Msg(p, line'[p], 0))
        BY <3>2, <3>5
      <3> QED BY <3>2, <3>3, <3>6, Sets
    <2> QED BY <2>1, <2>2
  <1>7. ASSUME NEW q \in Logging!Pods, line'[q] # 0, pods[q].log[line'[q]] = "broken"
        PROVE  Msg(q, line'[q], 0) \in Set(shown'["stderr"])
    <2>1. CASE q # p
      BY <1>1, <1>2, <1>4, <1>7, <2>1 DEF Complaints
    <2> QED BY <1>6, <1>7, <2>1
  <1> QED BY <1>2, <1>3, <1>4, <1>5, <1>7 DEF Complaints

----------------------------------------------------------------------------
(* What has been passed on, and what comes next.                           *)

\* The write at hand is one of an entry.
LEMMA AtAnEntry ==
    ASSUME LogTypes, NEW p \in Logging!Pods,
           ReadSoFar(pods[p], writer[p], line[p], pieces[p], expired), writer[p] \in {"writing", "written"}
    PROVE  Msg(p, line[p], pieces[p]) \in EntriesIn(pods, p) /\ pieces[p] # 0
  <1> DEFINE log == pods[p].log
  <1>1. /\ Clear(log, line[p]) /\ line[p] # 0 /\ line[p] <= Len(log)
        /\ pieces[p] \in 1 .. Logging!Writes(log[line[p]])
    BY DEF ReadSoFar
  <1>2. line[p] \in 1 .. Len(log)
    BY <1>1, LogsTyped
  <1>3. pieces[p] \in {1, 2} /\ pieces[p] <= Logging!Writes(log[line[p]])
    BY <1>1, WritesAre
  <1>4. pods \in Seq(Logging!Pod) /\ p \in DOMAIN pods
    BY LogsTyped
  <1> QED BY <1>1, <1>2, <1>3, <1>4, EntriesAre

\* It comes next when those before it have been passed on, ...
LEMMA ComesNext ==
    ASSUME NEW ps, NEW p \in DOMAIN ps, NEW i, NEW k, NEW S,
           PassedOn(ps, p, i, k, S), Msg(p, i, k) \in EntriesIn(ps, p)
    PROVE  IsNext(Msg(p, i, k), S, ps)
  <1>1. Msg(p, i, k).pod = p /\ Msg(p, i, k).line = i /\ Msg(p, i, k).piece = k
    BY DEF Msg
  <1> QED BY <1>1 DEF IsNext, PassedOn, Passed, Logging!Before

\* ... and when it has been passed on too, those are passed on that come before the
\* write after it, and of the other pods as many as before.
LEMMA PassedNext ==
    ASSUME NEW ps \in Seq(Logging!Pod), NEW p \in DOMAIN ps, NEW i \in Nat, NEW k \in Nat, NEW S,
           PassedOn(ps, p, i, k, S)
    PROVE  PassedOn(ps, p, i, k - 1, S \cup {Msg(p, i, k)})
  <1> SUFFICES ASSUME NEW e \in EntriesIn(ps, p)
               PROVE  Passed(e, i, k - 1) <=> e \in S \cup {Msg(p, i, k)}
    BY DEF PassedOn
  <1>1. e = Msg(p, e.line, e.piece) /\ e.line \in Nat /\ e.piece \in Nat
    BY EntriesAre
  <1>2. e = Msg(p, i, k) <=> e.line = i /\ e.piece = k
    BY <1>1 DEF Msg
  <1>3. Passed(e, i, k) <=> e \in S
    BY DEF PassedOn
  <1>4. Passed(e, i, k - 1) <=> Passed(e, i, k) \/ (e.line = i /\ e.piece = k)
    BY <1>1 DEF Passed
  <1> QED BY <1>2, <1>3, <1>4

LEMMA PassedOthers ==
    ASSUME NEW ps \in Seq(Logging!Pod), NEW q \in DOMAIN ps, NEW i, NEW k, NEW S, NEW m,
           PassedOn(ps, q, i, k, S), m.pod # q
    PROVE  PassedOn(ps, q, i, k, S \cup {m})
  <1>1. \A e \in EntriesIn(ps, q) : e # m
    BY EntriesAre
  <1> QED BY <1>1 DEF PassedOn

\* What has been passed on when a line begins is what has been when the one before it
\* was done with.
LEMMA PassedLine ==
    ASSUME NEW ps \in Seq(Logging!Pod), NEW p \in DOMAIN ps, NEW i \in Nat, NEW S,
           PassedOn(ps, p, i, 0, S)
    PROVE  PassedOn(ps, p, i + 1, Logging!Writes(ps[p].log[i + 1]), S)
  <1> DEFINE k == Logging!Writes(ps[p].log[i + 1])
  <1> SUFFICES ASSUME NEW e \in EntriesIn(ps, p)
               PROVE  Passed(e, i + 1, k) <=> e \in S
    BY DEF PassedOn
  <1>1. e.line \in Nat /\ e.piece \in {1, 2} /\ e.piece <= Logging!Writes(ps[p].log[e.line])
    BY EntriesAre
  <1>2. k \in Nat
    BY WritesAre
  <1>3. ~(e.line = i + 1 /\ e.piece > k)
    BY <1>1, <1>2
  <1>4. Passed(e, i, 0) <=> Passed(e, i + 1, k)
    BY <1>1, <1>2, <1>3 DEF Passed
  <1> QED BY <1>4 DEF PassedOn

\* Of the pipes, a request changes nothing that concerns the others.
LEMMA RequestFrom ==
    ASSUME LogsInv, NEW p \in Logging!Pods, Logging!Request(p), NEW q \in Logging!Pods, q # p
    PROVE  From(pipe'["stdout"], q) <=> From(pipe["stdout"], q)
  <1> DEFINE m == Msg(p, line[p], pieces[p])
  <1>1. m.pod = p
    BY DEF Msg
  <1>2. "stdout" \in Logging!Channels /\ pipe \in [Logging!Channels -> Seq(Messages)]
    BY LogsTyped DEF LogsInv, LogTypes
  <1> HIDE DEF m
  <1>3. CASE pipe'["stdout"] = pipe["stdout"]
    BY <1>3
  <1>4. CASE pipe["stdout"] = <<>> /\ pipe'["stdout"] = <<m>>
    BY <1>1, <1>4, Sets DEF From
  <1> QED BY <1>2, <1>3, <1>4, RequestGoes DEF m

LEMMA RequestHands ==
    ASSUME LogsInv, NEW p \in Logging!Pods, Logging!Request(p)
    PROVE  Handed'
  <1> DEFINE m == Msg(p, line[p], pieces[p])
             S == Set(shown["stdout"]) \cup Set(held["stdout"])
             T == Set(shown'["stdout"]) \cup Set(held["stdout"])
             L(q) == Left(writer[q], pieces[q], From(pipe["stdout"], q))
             M(q) == Left(writer'[q], pieces'[q], From(pipe'["stdout"], q))
  <1>1. LogTypes /\ PodRead /\ Handed /\ Phases /\ OneByOne
    BY DEF LogsInv
  <1>2. /\ follow' = follow /\ pods' = pods /\ copier' = copier /\ held' = held /\ broken' = broken
        /\ \A q \in Logging!Pods : q # p => writer'[q] = writer[q] /\ line'[q] = line[q] /\ pieces'[q] = pieces[q]
    BY RequestTouches
  <1>3. (Logging!parallel' <=> Logging!parallel) /\ Logging!Pods' = Logging!Pods /\ (Flowing' <=> Flowing)
    BY <1>2 DEF Logging!parallel, Logging!Pods, Flowing
  <1> SUFFICES ASSUME Flowing, NEW q \in Logging!Pods
               PROVE  PassedOn(pods, q, line'[q], M(q), T)
    BY <1>2, <1>3 DEF Handed
  <1>4. \A r \in Logging!Pods : PassedOn(pods, r, line[r], L(r), S)
    BY <1>1 DEF Handed
  <1>5. /\ pods \in Seq(Logging!Pod) /\ p \in DOMAIN pods /\ q \in DOMAIN pods
        /\ line[p] \in Nat /\ pieces[p] \in Nat /\ m \in Messages
        /\ "stdout" \in Logging!Channels
        /\ shown["stdout"] \in Seq(Messages) /\ held["stdout"] \in Seq(Messages)
    BY <1>1, LogsTyped, MessagesAre
  <1>6. ReadSoFar(pods[p], writer[p], line[p], pieces[p], expired)
    BY <1>1 DEF PodRead
  <1>7. /\ shown \in [Logging!Channels -> Seq(Messages)] /\ pipe \in [Logging!Channels -> Seq(Messages)]
        /\ writer \in [Logging!Pods -> Writing]
        /\ line \in [Logging!Pods -> Nat] /\ pieces \in [Logging!Pods -> Nat]
    BY <1>1 DEF LogTypes
  <1>8. q # p => M(q) = L(q)
    BY <1>2, RequestFrom DEF Left
  <1> HIDE DEF m, S, T, L, M
  <1>a. CASE Logging!Open(p) \/ Logging!EndOfLog(p) \/ Logging!CutOff(p) \/ Logging!Refused(p) \/ Logging!Told(p)
    <2>1. line' = line /\ pieces' = pieces
      BY <1>a DEF Logging!Open, Logging!EndOfLog, Logging!CutOff, Logging!Refused, Logging!Told
    <2>2. writer[p] \in {"opening", "reading", "refused", "told"}
      BY <1>a DEF Logging!Open, Logging!EndOfLog, Logging!CutOff, Logging!Refused, Logging!Told
    <2>3. shown'["stdout"] = shown["stdout"] /\ writer'[p] # "written"
      BY <1>5, <1>7, <2>2, RequestGoes
    <2>4. L(p) = pieces[p] /\ M(p) = pieces[p]
      BY <2>1, <2>2, <2>3 DEF L, M, Left
    <2> QED BY <1>2, <1>4, <1>8, <2>1, <2>3, <2>4 DEF S, T
  <1>b. CASE Logging!ReadLine(p)
    <2>1. writer[p] = "reading" /\ shown'["stdout"] = shown["stdout"]
      BY <1>b, <1>5, <1>7 DEF Logging!ReadLine
    <2>2. line'[p] = line[p] + 1 /\ pieces'[p] = Logging!Writes(pods[p].log[line[p] + 1])
      BY <1>b, <1>7 DEF Logging!ReadLine, Logging!Log
    <2>3. writer'[p] # "written" /\ pieces[p] = 0
      BY <1>6, <2>1, RequestGoes DEF ReadSoFar
    <2>4. L(p) = 0 /\ M(p) = pieces'[p]
      BY <2>1, <2>3 DEF L, M, Left
    <2>5. PassedOn(pods, p, line'[p], M(p), S)
      BY <1>4, <1>5, <2>2, <2>4, PassedLine
    <2> QED BY <1>2, <1>4, <1>8, <2>1, <2>5 DEF S, T
  <1>c. CASE Logging!WriteToPipe(p)
    <2>1. writer[p] = "writing" /\ Logging!parallel
      BY <1>c DEF Logging!WriteToPipe
    <2>2. /\ writer'[p] = "written" /\ shown' = shown /\ line' = line /\ pieces' = pieces
          /\ pipe' = [pipe EXCEPT !["stdout"] = <<m>>]
      BY <2>1, RequestGoes DEF m
    <2>3. From(pipe'["stdout"], p)
      <3>1. pipe'["stdout"] = <<m>> /\ m.pod = p
        BY <1>5, <1>7, <2>2 DEF m, Msg
      <3>2. Set(<<m>>) = {m}
        BY Sets
      <3> QED BY <3>1, <3>2 DEF From
    <2>4. L(p) = pieces[p] /\ M(p) = pieces[p]
      BY <2>1, <2>2, <2>3 DEF L, M, Left
    <2> QED BY <1>2, <1>4, <1>8, <2>2, <2>4 DEF S, T
  <1>d. CASE Logging!PipeRead(p)
    <2>1. writer[p] = "written" /\ line' = line /\ pieces'[p] = pieces[p] - 1
      BY <1>d, <1>7 DEF Logging!PipeRead
    <2>2. shown' = shown /\ ~From(pipe["stdout"], p) /\ writer'[p] # "written"
      BY <2>1, RequestGoes
    <2>3. L(p) = pieces[p] - 1 /\ M(p) = pieces[p] - 1
      BY <2>1, <2>2 DEF L, M, Left
    <2> QED BY <1>2, <1>4, <1>8, <2>1, <2>2, <2>3 DEF S, T
  <1>e. CASE Logging!WriteOut(p)
    <2>1. writer[p] = "writing" /\ ~Logging!parallel
      BY <1>e DEF Logging!WriteOut
    <2>2. ~broken
      BY <2>1 DEF Flowing
    <2>3. /\ writer'[p] # "written" /\ line'[p] = line[p] /\ pieces'[p] = pieces[p] - 1
          /\ shown' = [shown EXCEPT !["stdout"] = Append(@, m)]
      BY <2>1, <2>2, RequestGoes DEF m
    <2>4. shown'["stdout"] = Append(shown["stdout"], m)
      BY <1>5, <1>7, <2>3
    <2>5. T = S \cup {m}
      BY <1>5, <2>4, Sets DEF S, T
    <2>6. L(p) = pieces[p] /\ M(p) = pieces[p] - 1
      BY <2>1, <2>3 DEF L, M, Left
    <2>7. PassedOn(pods, p, line'[p], M(p), T)
      <3>1. PassedOn(pods, p, line[p], pieces[p], S)
        BY <1>4, <1>5, <2>6 DEF Logging!Pods
      <3>2. PassedOn(pods, p, line[p], pieces[p] - 1, S \cup {m})
        BY <1>5, <3>1, PassedNext DEF m
      <3> QED BY <2>3, <2>5, <2>6, <3>2
    <2>8. q # p => PassedOn(pods, q, line'[q], M(q), T)
      <3>1. m.pod = p
        BY DEF m, Msg
      <3> QED BY <1>2, <1>4, <1>5, <1>8, <2>5, <3>1, PassedOthers
    <2> QED BY <2>7, <2>8
  <1> QED BY <1>a, <1>b, <1>c, <1>d, <1>e DEF Logging!Request

LEMMA RequestShows ==
    ASSUME LogsInv, NEW p \in Logging!Pods, Logging!Request(p)
    PROVE  Ordered(shown'["stdout"], pods') /\ Copied'
  <1> DEFINE m == Msg(p, line[p], pieces[p])
  <1>1. LogTypes /\ PodRead /\ Handed /\ Phases /\ OneByOne /\ Copied /\ Ordered(shown["stdout"], pods)
    BY DEF LogsInv
  <1>2. /\ pods' = pods /\ held' = held
        /\ \A q \in Logging!Pods : q # p => writer'[q] = writer[q] /\ line'[q] = line[q] /\ pieces'[q] = pieces[q]
    BY RequestTouches
  <1>3. Logging!Pods' = Logging!Pods
    BY <1>2 DEF Logging!Pods
  <1>4. /\ "stdout" \in Logging!Channels /\ "stderr" \in Logging!Channels
        /\ shown \in [Logging!Channels -> Seq(Messages)] /\ pipe \in [Logging!Channels -> Seq(Messages)]
        /\ pods \in Seq(Logging!Pod) /\ p \in DOMAIN pods
        /\ shown["stdout"] \in Seq(Messages) /\ m \in Messages /\ m.pod = p
    BY <1>1, LogsTyped, MessagesAre DEF LogTypes, Msg
  <1>5. /\ \A n \in Set(held["stdout"]) : IsNext(n, Set(shown["stdout"]), pods)
        /\ \A n \in Set(pipe["stdout"]) :
              n.pod \in Logging!Pods /\ writer[n.pod] = "written" /\ n = Msg(n.pod, line[n.pod], pieces[n.pod])
        /\ \A n \in Set(pipe["stderr"]) : n.pod \in Logging!Pods /\ writer[n.pod] = "told" /\ n.line = 0
        /\ \A n \in Set(held["stderr"]) : n.line = 0
    BY <1>1 DEF Copied
  <1> HIDE DEF m
  <1>6. /\ Ordered(shown'["stdout"], pods)
        /\ \A n \in Set(held["stdout"]) : IsNext(n, Set(shown'["stdout"]), pods)
    <2>1. CASE shown'["stdout"] = shown["stdout"]
      BY <1>1, <1>5, <2>1
    <2>2. CASE shown'["stdout"] # shown["stdout"]
      <3>1. /\ writer[p] = "writing" /\ ~Logging!parallel /\ ~broken
            /\ shown' = [shown EXCEPT !["stdout"] = Append(@, m)]
        BY <1>4, <2>2, RequestGoes DEF m
      <3>2. shown'["stdout"] = Append(shown["stdout"], m)
        BY <1>4, <3>1
      <3>3. copier["stdout"] = "copying" /\ held["stdout"] = <<>>
        BY <1>1, <1>4, <3>1 DEF OneByOne, Phases
      <3>4. Set(held["stdout"]) = {}
        BY <3>3, Sets
      <3>5. PassedOn(pods, p, line[p], pieces[p], Set(shown["stdout"]))
        <4>1. Left(writer[p], pieces[p], From(pipe["stdout"], p)) = pieces[p]
          BY <3>1 DEF Left
        <4>2. Flowing
          BY <3>1, <3>3 DEF Flowing
        <4>3. Set(shown["stdout"]) \cup Set(held["stdout"]) = Set(shown["stdout"])
          BY <3>4
        <4> QED BY <1>1, <4>1, <4>2, <4>3 DEF Handed
      <3>6. m \in EntriesIn(pods, p)
        BY <1>1, <3>1, AtAnEntry DEF m, PodRead
      <3>7. IsNext(m, Set(shown["stdout"]), pods)
        BY <1>4, <3>5, <3>6, ComesNext DEF m
      <3>8. Ordered(Append(shown["stdout"], m), pods)
        BY <1>1, <1>4, <3>7, ShowNext
      <3> QED BY <3>2, <3>4, <3>8
    <2> QED BY <2>1, <2>2
  <1>7. ASSUME NEW n \in Set(pipe'["stdout"])
        PROVE  n.pod \in Logging!Pods /\ writer'[n.pod] = "written" /\ n = Msg(n.pod, line'[n.pod], pieces'[n.pod])
    <2>1. CASE pipe'["stdout"] = pipe["stdout"]
      <3>1. n.pod \in Logging!Pods /\ writer[n.pod] = "written" /\ n = Msg(n.pod, line[n.pod], pieces[n.pod])
        BY <1>5, <2>1
      <3>2. From(pipe["stdout"], n.pod)
        BY <2>1 DEF From
      <3>3. n.pod # p
        BY <1>4, <2>1, <3>1, <3>2, RequestGoes
      <3> QED BY <1>2, <3>1, <3>3
    <2>2. CASE pipe'["stdout"] # pipe["stdout"]
      <3>1. /\ writer'[p] = "written" /\ line' = line /\ pieces' = pieces
            /\ pipe' = [pipe EXCEPT !["stdout"] = <<m>>]
        BY <1>4, <2>2, RequestGoes DEF m
      <3>2. n = m
        BY <1>4, <3>1, Sets
      <3> QED BY <1>4, <3>1, <3>2 DEF m
    <2> QED BY <2>1, <2>2
  <1>8. ASSUME NEW n \in Set(pipe'["stderr"])
        PROVE  n.pod \in Logging!Pods /\ writer'[n.pod] = "told" /\ n.line = 0
    <2>1. CASE pipe'["stderr"] = pipe["stderr"]
      <3>1. n.pod \in Logging!Pods /\ writer[n.pod] = "told" /\ n.line = 0
        BY <1>5, <2>1
      <3>2. From(pipe["stderr"], n.pod)
        BY <2>1 DEF From
      <3>3. n.pod # p
        BY <1>4, <2>1, <3>1, <3>2, RequestGoes
      <3> QED BY <1>2, <3>1, <3>3
    <2>2. CASE pipe'["stderr"] # pipe["stderr"]
      <3>1. writer[p] = "refused" /\ writer'[p] = "told" /\ pipe' = [pipe EXCEPT !["stderr"] = <<m>>]
        BY <1>4, <2>2, RequestGoes DEF m
      <3>2. n = m
        BY <1>4, <3>1, Sets
      <3>3. ReadSoFar(pods[p], writer[p], line[p], pieces[p], expired)
        BY <1>1 DEF PodRead
      <3>4. m.line = 0
        BY <3>1, <3>3 DEF ReadSoFar, NotHad, m, Msg
      <3> QED BY <1>4, <3>1, <3>2, <3>4
    <2> QED BY <2>1, <2>2
  <1> QED BY <1>2, <1>3, <1>5, <1>6, <1>7, <1>8 DEF Copied

LEMMA RequestKeeps ==
    ASSUME LogsInv, NEW p \in Logging!Pods, Logging!Request(p)
    PROVE  LogsInv'
  BY RequestTypes, RequestReads, RequestHands, RequestShows, RequestRefusals, RequestComplains, RequestPhases,
     RequestOneByOne
  DEF LogsInv

----------------------------------------------------------------------------
(* The pods one after another, and the copiers.                            *)

LEMMA NextPodKeeps ==
    ASSUME LogsInv, NEW p \in Logging!Pods, Logging!NextPod(p)
    PROVE  LogsInv'
  <1>1. /\ LogTypes /\ PodRead /\ Handed /\ Copied /\ Refusals /\ Complaints /\ Phases /\ OneByOne
        /\ Ordered(shown["stdout"], pods)
    BY DEF LogsInv
  <1>2. /\ follow' = follow /\ pods' = pods /\ line' = line /\ pieces' = pieces /\ pipe' = pipe
        /\ copier' = copier /\ held' = held /\ closed' = closed /\ shown' = shown /\ broken' = broken
        /\ expired' = expired /\ exit' = exit
        /\ ~Logging!parallel /\ awaits # "ended" /\ writer[p] \in Gone
    BY DEF Logging!NextPod, Logging!Over, Gone
  <1>3. /\ Logging!Pods' = Logging!Pods /\ Logging!Channels' = Logging!Channels
        /\ (Logging!parallel' <=> Logging!parallel) /\ (Flowing' <=> Flowing)
    BY <1>2 DEF Logging!Pods, Logging!Channels, Logging!parallel, Flowing
  <1>4. \A q, r \in Logging!Pods : q < r /\ writer[r] # "waiting" => writer[q] \in Gone
    BY <1>1, <1>2 DEF OneByOne
  <1>5. Logging!Pods = 1 .. Len(pods) /\ Len(pods) \in Nat
        /\ "stdout" \in Logging!Channels /\ "stderr" \in Logging!Channels
    BY <1>1, LogsTyped
  <1>6. \A c \in Logging!Channels : pipe[c] = <<>>
    BY <1>1, <1>2 DEF OneByOne
  <1>a. CASE p = Len(pods)
    <2>1. awaits' = "ended" /\ writer' = writer
      BY <1>a DEF Logging!NextPod
    <2>2. \A q \in Logging!Pods : writer[q] \in Gone
      <3>1. writer[p] # "waiting"
        BY <1>2 DEF Gone
      <3> QED BY <1>2, <1>4, <1>5, <1>a, <3>1
    <2>3. /\ LogTypes' /\ Ordered(shown["stdout"], pods)' /\ PodRead' /\ Handed' /\ Copied' /\ Refusals'
          /\ Complaints'
      BY <1>1, <1>2, <1>3, <2>1 DEF LogTypes, PodRead, Handed, Copied, Refusals, Told, Complaints, Justified
    <2>4. Phases' /\ OneByOne'
      BY <1>1, <1>2, <1>3, <2>1, <2>2 DEF Phases, OneByOne
    <2> QED BY <2>3, <2>4 DEF LogsInv
  <1>b. CASE p # Len(pods)
    <2>1. writer[p + 1] = "waiting" /\ writer' = [writer EXCEPT ![p + 1] = "opening"] /\ awaits' = awaits
      BY <1>b DEF Logging!NextPod
    <2>2. p + 1 \in Logging!Pods /\ p \in Nat
      BY <1>5, <1>b
    <2>3. writer \in [Logging!Pods -> Writing]
      BY <1>1 DEF LogTypes
    <2>4. writer' \in [Logging!Pods -> Writing] /\ writer'[p + 1] = "opening"
          /\ \A q \in Logging!Pods : q # p + 1 => writer'[q] = writer[q]
      BY <2>1, <2>2, <2>3 DEF Writing
    <2>5. LogTypes' /\ Ordered(shown["stdout"], pods)'
      BY <1>1, <1>2, <1>3, <2>1, <2>4 DEF LogTypes
    <2>6. PodRead'
      <3> SUFFICES ASSUME NEW q \in Logging!Pods
                   PROVE  ReadSoFar(pods[q], writer'[q], line[q], pieces[q], expired)
        BY <1>2, <1>3 DEF PodRead
      <3>1. ReadSoFar(pods[q], writer[q], line[q], pieces[q], expired)
        BY <1>1 DEF PodRead
      <3>2. CASE q = p + 1
        BY <2>1, <2>4, <3>1, <3>2 DEF ReadSoFar, NotHad
      <3> QED BY <2>4, <3>1, <3>2
    <2>7. Handed'
      <3>1. \A q \in Logging!Pods : \A b \in BOOLEAN : Left(writer'[q], pieces[q], b) = Left(writer[q], pieces[q], b)
        BY <2>1, <2>4 DEF Left
      <3>2. \A q \in Logging!Pods : From(pipe["stdout"], q) \in BOOLEAN
        BY DEF From
      <3> QED BY <1>1, <1>2, <1>3, <3>1, <3>2 DEF Handed
    <2>8. Copied'
      <3>1. Set(pipe["stdout"]) = {} /\ Set(pipe["stderr"]) = {}
        BY <1>5, <1>6, Sets
      <3> QED BY <1>1, <1>2, <3>1 DEF Copied
    <2>9. Refusals' /\ Complaints'
      <3>1. Told' = Told
        BY <1>2 DEF Told
      <3>2. Refusals'
        BY <1>1, <1>2, <1>3, <2>1, <2>4, <3>1 DEF Refusals
      <3>3. Complaints'
        BY <1>1, <1>2, <1>3 DEF Complaints, Justified
      <3> QED BY <3>2, <3>3
    <2>10. Phases'
      <3>1. ~closed
        BY <1>1, <1>2 DEF Phases
      <3> QED BY <1>1, <1>2, <1>3, <2>1, <3>1 DEF Phases
    <2>11. OneByOne'
      <3>1. ASSUME NEW q \in Logging!Pods, NEW r \in Logging!Pods, q < r, writer'[r] # "waiting"
            PROVE  writer'[q] \in Gone
        <4>1. writer[q] \in Gone
          <5>1. CASE r = p + 1
            <6>1. q = p \/ q < p
              BY <1>5, <2>2, <3>1, <5>1
            <6>2. writer[p] # "waiting"
              BY <1>2 DEF Gone
            <6> QED BY <1>2, <1>4, <6>1, <6>2
          <5>2. CASE r # p + 1
            BY <1>4, <2>4, <3>1, <5>2
          <5> QED BY <5>1, <5>2
        <4>2. q # p + 1
          BY <2>1, <4>1 DEF Gone
        <4> QED BY <2>4, <4>1, <4>2
      <3>2. \A q \in Logging!Pods : writer'[q] = "failed" <=> writer[q] = "failed"
        BY <2>1, <2>4
      <3>3. \A q \in Logging!Pods : writer'[q] \notin {"told", "written"}
        BY <1>1, <1>2, <2>4 DEF OneByOne
      <3> QED BY <1>1, <1>2, <1>3, <2>1, <3>1, <3>2, <3>3 DEF OneByOne
    <2> QED BY <2>5, <2>6, <2>7, <2>8, <2>9, <2>10, <2>11 DEF LogsInv
  <1> QED BY <1>a, <1>b

\* A copier reads what is in its pipe: of stdout, the entry that comes next.
LEMMA ReadKeeps ==
    ASSUME LogsInv, NEW c \in Logging!Channels, Logging!Read(c)
    PROVE  LogsInv'
  <1> DEFINE m == pipe[c][1]
  <1>1. /\ LogTypes /\ PodRead /\ Handed /\ Copied /\ Refusals /\ Complaints /\ Phases /\ OneByOne
        /\ Ordered(shown["stdout"], pods)
    BY DEF LogsInv
  <1>2. /\ follow' = follow /\ pods' = pods /\ line' = line /\ writer' = writer /\ pieces' = pieces
        /\ closed' = closed /\ shown' = shown /\ broken' = broken
        /\ expired' = expired /\ awaits' = awaits /\ exit' = exit
        /\ Logging!parallel /\ awaits # "ended" /\ copier[c] = "copying" /\ pipe[c] # <<>>
    BY DEF Logging!Read
  <1>3. /\ held' = [held EXCEPT ![c] = pipe[c]] /\ pipe' = [pipe EXCEPT ![c] = <<>>]
        /\ copier' = [copier EXCEPT ![c] = "showing"]
    BY DEF Logging!Read
  <1>4. /\ Logging!Pods' = Logging!Pods /\ Logging!Channels' = Logging!Channels
        /\ (Logging!parallel' <=> Logging!parallel)
    BY <1>2 DEF Logging!Pods, Logging!Channels, Logging!parallel
  <1>5. /\ held \in [Logging!Channels -> Seq(Messages)] /\ pipe \in [Logging!Channels -> Seq(Messages)]
        /\ copier \in [Logging!Channels -> {"copying", "showing", "finished", "failed"}]
        /\ \A d \in Logging!Channels : Len(held[d]) <= 1 /\ Len(pipe[d]) <= 1
        /\ "stdout" \in Logging!Channels /\ "stderr" \in Logging!Channels
    BY <1>1, LogsTyped DEF LogTypes
  <1>6. /\ held'[c] = pipe[c] /\ pipe'[c] = <<>> /\ copier'[c] = "showing"
        /\ \A d \in Logging!Channels : d # c => held'[d] = held[d] /\ pipe'[d] = pipe[d] /\ copier'[d] = copier[d]
    BY <1>3, <1>5
  <1>7. /\ pipe[c] \in Seq(Messages) /\ Len(pipe[c]) <= 1
        /\ m \in Messages /\ Set(pipe[c]) = {m}
    BY <1>2, <1>5, AtMostOne
  <1>8. held[c] = <<>> /\ Set(held[c]) = {} /\ Set(pipe'[c]) = {} /\ Set(held'[c]) = {m}
    <2>1. held[c] = <<>>
      BY <1>1, <1>2 DEF Phases
    <2> QED BY <1>6, <1>7, <2>1, Sets
  <1>9. LogTypes'
    <2>1. <<>> \in Seq(Messages) /\ Len(<<>>) <= 1
      OBVIOUS
    <2>2. held' \in [Logging!Channels -> Seq(Messages)] /\ pipe' \in [Logging!Channels -> Seq(Messages)]
      BY <1>3, <1>5, <2>1
    <2>3. \A d \in Logging!Channels : Len(held'[d]) <= 1 /\ Len(pipe'[d]) <= 1
      BY <1>5, <1>6, <2>1
    <2>4. copier' \in [Logging!Channels -> {"copying", "showing", "finished", "failed"}]
      BY <1>3, <1>5
    <2> QED BY <1>1, <1>2, <1>4, <2>2, <2>3, <2>4 DEF LogTypes
  <1>10. Ordered(shown["stdout"], pods)' /\ PodRead' /\ OneByOne' /\ Complaints'
    BY <1>1, <1>2, <1>4 DEF PodRead, OneByOne, Complaints, Justified
  <1>11. Phases'
    <2>1. ASSUME NEW d \in Logging!Channels
          PROVE  /\ held'[d] # <<>> <=> copier'[d] = "showing"
                 /\ copier'[d] = "finished" => closed /\ pipe'[d] = <<>>
                 /\ copier'[d] = "failed" => copier[d] = "failed"
                 /\ copier[d] \in {"finished", "failed"} => copier'[d] = copier[d]
      <3>1. CASE d = c
        BY <1>2, <1>6, <3>1
      <3>2. CASE d # c
        BY <1>1, <1>6, <3>2 DEF Phases
      <3> QED BY <3>1, <3>2
    <2> QED BY <1>1, <1>2, <1>4, <1>5, <2>1 DEF Phases
  <1>a. CASE c = "stdout"
    <2> DEFINE q == m.pod
    <2>1. q \in Logging!Pods /\ writer[q] = "written" /\ m = Msg(q, line[q], pieces[q])
      BY <1>1, <1>7, <1>a DEF Copied
    <2>2. /\ pods \in Seq(Logging!Pod) /\ Logging!Pods = DOMAIN pods
          /\ line[q] \in Nat /\ pieces[q] \in Nat
      BY <1>1, <2>1, LogsTyped
    <2>3. Flowing /\ (Flowing' <=> Flowing)
      <3>1. Flowing
        BY <1>2, <1>a DEF Flowing
      <3> QED BY <3>1, <1>2, <1>4, <1>6, <1>a DEF Flowing
    <2>4. \A r \in Logging!Pods : From(pipe["stdout"], r) <=> r = q
      BY <1>7, <1>a DEF From
    <2>5. \A r \in Logging!Pods : ~From(pipe'["stdout"], r)
      BY <1>8, <1>a DEF From
    <2>6. Set(shown["stdout"]) \cup Set(held["stdout"]) = Set(shown["stdout"])
      BY <1>8, <1>a
    <2>7. Set(shown["stdout"]) \cup Set(held'["stdout"]) = Set(shown["stdout"]) \cup {m}
      BY <1>8, <1>a
    <2> HIDE DEF m, q
    <2>8. \A r \in Logging!Pods :
             PassedOn(pods, r, line[r], Left(writer[r], pieces[r], r = q), Set(shown["stdout"]))
      <3> SUFFICES ASSUME NEW r \in Logging!Pods
                   PROVE  PassedOn(pods, r, line[r], Left(writer[r], pieces[r], r = q), Set(shown["stdout"]))
        OBVIOUS
      <3>1. Left(writer[r], pieces[r], r = q) = Left(writer[r], pieces[r], From(pipe["stdout"], r))
        BY <2>4 DEF Left
      <3> QED BY <1>1, <2>3, <2>6, <3>1 DEF Handed
    <2>9. PassedOn(pods, q, line[q], pieces[q], Set(shown["stdout"]))
      <3>1. Left(writer[q], pieces[q], q = q) = pieces[q]
        BY DEF Left
      <3> QED BY <2>1, <2>8, <3>1
    <2>10. Handed'
      <3> SUFFICES ASSUME NEW r \in Logging!Pods
                   PROVE  PassedOn(pods, r, line[r], Left(writer[r], pieces[r], From(pipe'["stdout"], r)),
                                   Set(shown["stdout"]) \cup Set(held'["stdout"]))
        BY <1>2, <1>4 DEF Handed
      <3>1. CASE r = q
        <4>1. Left(writer[r], pieces[r], From(pipe'["stdout"], r)) = pieces[q] - 1
          BY <2>1, <2>5, <3>1 DEF Left
        <4>2. PassedOn(pods, q, line[q], pieces[q] - 1, Set(shown["stdout"]) \cup {m})
          BY <2>1, <2>2, <2>9, PassedNext
        <4> QED BY <2>7, <3>1, <4>1, <4>2
      <3>2. CASE r # q
        <4>1. Left(writer[r], pieces[r], From(pipe'["stdout"], r)) = Left(writer[r], pieces[r], r = q)
          BY <2>5, <3>2 DEF Left
        <4>2. m.pod # r
          BY <3>2 DEF q
        <4>3. PassedOn(pods, r, line[r], Left(writer[r], pieces[r], r = q), Set(shown["stdout"]) \cup {m})
          BY <2>2, <2>8, <4>2, PassedOthers
        <4> QED BY <2>7, <4>1, <4>3
      <3> QED BY <3>1, <3>2
    <2>11. Copied'
      <3>1. m \in EntriesIn(pods, q)
        BY <1>1, <2>1, AtAnEntry DEF PodRead
      <3>2. IsNext(m, Set(shown["stdout"]), pods)
        BY <2>1, <2>2, <2>9, <3>1, ComesNext
      <3>3. /\ pipe'["stderr"] = pipe["stderr"] /\ held'["stderr"] = held["stderr"]
            /\ Set(held'["stdout"]) = {m} /\ Set(pipe'["stdout"]) = {}
        BY <1>5, <1>6, <1>8, <1>a
      <3> QED BY <1>1, <1>2, <1>4, <3>2, <3>3 DEF Copied
    <2>12. Refusals'
      <3>1. Told' = Told
        BY <1>2, <1>5, <1>6, <1>a DEF Told
      <3> QED BY <1>1, <1>2, <1>4, <3>1 DEF Refusals
    <2> QED BY <1>9, <1>10, <1>11, <2>10, <2>11, <2>12 DEF LogsInv
  <1>b. CASE c = "stderr"
    <2>1. pipe'["stdout"] = pipe["stdout"] /\ held'["stdout"] = held["stdout"] /\ copier'["stdout"] = copier["stdout"]
      BY <1>5, <1>6, <1>b
    <2>2. Handed'
      <3>1. Flowing' <=> Flowing
        BY <1>2, <1>4, <2>1 DEF Flowing
      <3> QED BY <1>1, <1>2, <1>4, <2>1, <3>1 DEF Handed
    <2>3. Copied'
      <3>1. m.line = 0
        BY <1>1, <1>7, <1>b DEF Copied
      <3> QED BY <1>1, <1>2, <1>4, <1>8, <1>b, <2>1, <3>1 DEF Copied
    <2>4. Refusals'
      <3>1. Told' = Told
        BY <1>2, <1>7, <1>8, <1>b DEF Told
      <3> QED BY <1>1, <1>2, <1>4, <3>1 DEF Refusals
    <2> QED BY <1>9, <1>10, <1>11, <2>2, <2>3, <2>4 DEF LogsInv
  <1> QED BY <1>a, <1>b DEF Logging!Channels

\* A copier shows what it holds, or finds that stdout has failed.
LEMMA ShowKeeps ==
    ASSUME LogsInv, NEW c \in Logging!Channels, Logging!Show(c)
    PROVE  LogsInv'
  <1> DEFINE m == held[c][1]
  <1>1. /\ LogTypes /\ PodRead /\ Handed /\ Copied /\ Refusals /\ Complaints /\ Phases /\ OneByOne
        /\ Ordered(shown["stdout"], pods)
    BY DEF LogsInv
  <1>2. /\ follow' = follow /\ pods' = pods /\ line' = line /\ writer' = writer /\ pieces' = pieces
        /\ pipe' = pipe /\ closed' = closed /\ broken' = broken
        /\ expired' = expired /\ awaits' = awaits /\ exit' = exit
        /\ awaits # "ended" /\ copier[c] = "showing"
    BY DEF Logging!Show
  <1>3. /\ Logging!Pods' = Logging!Pods /\ Logging!Channels' = Logging!Channels
        /\ (Logging!parallel' <=> Logging!parallel)
    BY <1>2 DEF Logging!Pods, Logging!Channels, Logging!parallel
  <1>4. Logging!parallel
    BY <1>1, <1>2 DEF OneByOne
  <1>5. /\ held \in [Logging!Channels -> Seq(Messages)] /\ shown \in [Logging!Channels -> Seq(Messages)]
        /\ copier \in [Logging!Channels -> {"copying", "showing", "finished", "failed"}]
        /\ \A d \in Logging!Channels : Len(held[d]) <= 1
        /\ "stdout" \in Logging!Channels /\ "stderr" \in Logging!Channels
    BY <1>1, LogsTyped DEF LogTypes
  <1>6. held[c] # <<>>
    BY <1>1, <1>2 DEF Phases
  <1>7. /\ shown[c] \in Seq(Messages) /\ m \in Messages /\ Set(held[c]) = {m}
        /\ shown[c] \o held[c] = Append(shown[c], m)
    BY <1>5, <1>6, AtMostOne
  <1>8. held' = [held EXCEPT ![c] = <<>>]
    BY DEF Logging!Show
  <1>9. held'[c] = <<>> /\ Set(held'[c]) = {} /\ \A d \in Logging!Channels : d # c => held'[d] = held[d]
    BY <1>5, <1>8, Sets
  <1>10. held' \in [Logging!Channels -> Seq(Messages)] /\ \A d \in Logging!Channels : Len(held'[d]) <= 1
    <2>1. <<>> \in Seq(Messages) /\ Len(<<>>) <= 1
      OBVIOUS
    <2> QED BY <1>5, <1>8, <2>1
  <1>11. PodRead' /\ OneByOne'
    BY <1>1, <1>2, <1>3, <1>4 DEF PodRead, OneByOne
  <1> HIDE DEF m
  <1>a. CASE broken /\ c = "stdout"
    <2>1. shown' = shown /\ copier' = [copier EXCEPT ![c] = "failed"]
      BY <1>a DEF Logging!Show
    <2>2. /\ copier' \in [Logging!Channels -> {"copying", "showing", "finished", "failed"}]
          /\ copier'[c] = "failed" /\ \A d \in Logging!Channels : d # c => copier'[d] = copier[d]
      BY <1>5, <2>1
    <2>3. LogTypes' /\ Ordered(shown["stdout"], pods)'
      BY <1>1, <1>2, <1>3, <1>10, <2>1, <2>2 DEF LogTypes
    <2>4. Handed'
      BY <1>a, <2>2 DEF Handed, Flowing
    <2>5. Copied' /\ Complaints'
      <3>1. held'["stderr"] = held["stderr"]
        BY <1>5, <1>9, <1>a
      <3> QED BY <1>1, <1>2, <1>3, <1>9, <1>a, <2>1, <3>1 DEF Copied, Complaints, Justified
    <2>6. Refusals'
      <3>1. Told' = Told
        BY <1>2, <1>5, <1>9, <1>a, <2>1 DEF Told
      <3> QED BY <1>1, <1>2, <1>3, <3>1 DEF Refusals
    <2>7. Phases'
      <3>1. ASSUME NEW d \in Logging!Channels
            PROVE  /\ held'[d] # <<>> <=> copier'[d] = "showing"
                   /\ copier'[d] = "finished" => closed /\ pipe[d] = <<>>
        <4>1. CASE d = c
          BY <1>9, <2>2, <4>1
        <4>2. CASE d # c
          BY <1>1, <1>9, <2>2, <4>2 DEF Phases
        <4> QED BY <4>1, <4>2
      <3> QED BY <1>1, <1>2, <1>3, <1>5, <1>a, <2>2, <3>1 DEF Phases
    <2> QED BY <1>11, <2>3, <2>4, <2>5, <2>6, <2>7 DEF LogsInv
  <1>b. CASE ~(broken /\ c = "stdout")
    <2>1. shown' = [shown EXCEPT ![c] = Append(@, m)] /\ copier' = [copier EXCEPT ![c] = "copying"]
      BY <1>5, <1>7, <1>b DEF Logging!Show
    <2>2. /\ copier' \in [Logging!Channels -> {"copying", "showing", "finished", "failed"}]
          /\ copier'[c] = "copying" /\ \A d \in Logging!Channels : d # c => copier'[d] = copier[d]
      BY <1>5, <2>1
    <2>3. Append(shown[c], m) \in Seq(Messages)
      BY <1>7
    <2>4. /\ shown' \in [Logging!Channels -> Seq(Messages)]
          /\ shown'[c] = Append(shown[c], m) /\ \A d \in Logging!Channels : d # c => shown'[d] = shown[d]
      BY <1>5, <2>1, <2>3
    <2>5. Set(shown'[c]) = Set(shown[c]) \cup {m}
      BY <1>7, <2>4, Sets
    <2>6. LogTypes'
      BY <1>1, <1>2, <1>3, <1>10, <2>2, <2>4 DEF LogTypes
    <2>7. Ordered(shown'["stdout"], pods)
      <3>1. CASE c = "stdout"
        <4>1. IsNext(m, Set(shown["stdout"]), pods)
          BY <1>1, <1>7, <3>1 DEF Copied
        <4> QED BY <1>1, <1>7, <2>4, <3>1, <4>1, ShowNext
      <3>2. CASE c # "stdout"
        BY <1>1, <1>5, <2>4, <3>2
      <3> QED BY <3>1, <3>2
    <2>8. Handed'
      <3>1. Set(shown'["stdout"]) \cup Set(held'["stdout"]) = Set(shown["stdout"]) \cup Set(held["stdout"])
        <4>1. CASE c = "stdout"
          BY <1>7, <1>9, <2>5, <4>1
        <4>2. CASE c # "stdout"
          BY <1>5, <1>9, <2>4, <4>2
        <4> QED BY <4>1, <4>2
      <3>2. copier'["stdout"] # "failed" => copier["stdout"] # "failed"
        BY <1>2, <1>5, <2>2
      <3>3. Flowing' => Flowing
        BY <1>2, <1>3, <3>2 DEF Flowing
      <3> QED BY <1>1, <1>2, <1>3, <3>1, <3>3 DEF Handed
    <2>9. Copied'
      <3>1. \A n \in Set(held'["stdout"]) : IsNext(n, Set(shown'["stdout"]), pods)
        <4>1. CASE c = "stdout"
          BY <1>9, <4>1
        <4>2. CASE c # "stdout"
          BY <1>1, <1>5, <1>9, <2>4, <4>2 DEF Copied
        <4> QED BY <4>1, <4>2
      <3>2. Set(held'["stderr"]) \subseteq Set(held["stderr"])
        BY <1>5, <1>9
      <3> QED BY <1>1, <1>2, <1>3, <3>1, <3>2 DEF Copied
    <2>12. Complaints'
      <3>1. Set(shown'["stderr"]) \in {Set(shown["stderr"]), Set(shown["stderr"]) \cup {m}}
        BY <1>5, <2>4, <2>5
      <3>2. c = "stderr" => m.line = 0
        BY <1>1, <1>7 DEF Copied
      <3>3. Set(shown'["stderr"]) # Set(shown["stderr"]) => c = "stderr"
        BY <1>5, <2>4
      <3>4. \A n \in Set(shown'["stderr"]) : Justified(n)
        BY <1>1, <3>1, <3>2, <3>3 DEF Complaints, Justified
      <3> QED BY <1>1, <1>2, <1>3, <3>1, <3>4 DEF Complaints, Justified
    <2>10. Refusals'
      <3>1. Told' = Told
        <4>1. CASE c = "stderr"
          <5>1. m.line = 0
            BY <1>1, <1>7, <4>1 DEF Copied
          <5>2. Notice(Set(shown'["stderr"])) = Notice(Set(shown["stderr"])) \cup {m}
            BY <2>5, <4>1, <5>1 DEF Notice
          <5> QED BY <1>2, <1>7, <1>9, <4>1, <5>2 DEF Told
        <4>2. CASE c # "stderr"
          BY <1>2, <1>5, <1>9, <2>4, <4>2 DEF Told
        <4> QED BY <4>1, <4>2
      <3> QED BY <1>1, <1>2, <1>3, <3>1 DEF Refusals
    <2>11. Phases'
      <3>1. ASSUME NEW d \in Logging!Channels
            PROVE  /\ held'[d] # <<>> <=> copier'[d] = "showing"
                   /\ copier'[d] = "finished" => closed /\ pipe[d] = <<>>
                   /\ copier'[d] = "failed" => copier[d] = "failed"
                   /\ copier[d] \in {"finished", "failed"} => copier'[d] = copier[d]
        <4>1. CASE d = c
          BY <1>2, <1>9, <2>2, <4>1
        <4>2. CASE d # c
          BY <1>1, <1>9, <2>2, <4>2 DEF Phases
        <4> QED BY <4>1, <4>2
      <3> QED BY <1>1, <1>2, <1>3, <1>5, <3>1 DEF Phases
    <2> QED BY <1>2, <1>11, <2>6, <2>7, <2>8, <2>9, <2>10, <2>11, <2>12 DEF LogsInv
  <1> QED BY <1>a, <1>b

LEMMA CloseKeeps ==
    ASSUME LogsInv, Logging!Close
    PROVE  LogsInv'
  <1>1. /\ LogTypes /\ PodRead /\ Handed /\ Copied /\ Refusals /\ Complaints /\ Phases /\ OneByOne
        /\ Ordered(shown["stdout"], pods)
    BY DEF LogsInv
  <1>2. /\ follow' = follow /\ pods' = pods /\ line' = line /\ writer' = writer /\ pieces' = pieces
        /\ pipe' = pipe /\ copier' = copier /\ held' = held /\ shown' = shown /\ broken' = broken
        /\ expired' = expired /\ awaits' = awaits /\ exit' = exit
        /\ Logging!parallel /\ closed' = TRUE /\ \A p \in Logging!Pods : writer[p] \in Gone
    BY DEF Logging!Close, Logging!Over, Gone
  <1>3. /\ LogTypes' /\ PodRead' /\ Handed' /\ Copied' /\ Refusals' /\ Complaints' /\ OneByOne'
        /\ Ordered(shown["stdout"], pods)'
    BY <1>1, <1>2 DEF LogTypes, PodRead, Handed, Copied, Refusals, Told, Complaints, Justified, OneByOne, Flowing,
                      Logging!Pods, Logging!Channels, Logging!parallel
  <1>4. Phases'
    BY <1>1, <1>2 DEF Phases, Logging!Pods, Logging!Channels, Logging!parallel
  <1> QED BY <1>3, <1>4 DEF LogsInv

LEMMA EndOfPipeKeeps ==
    ASSUME LogsInv, NEW c \in Logging!Channels, Logging!EndOfPipe(c)
    PROVE  LogsInv'
  <1>1. /\ LogTypes /\ PodRead /\ Handed /\ Copied /\ Refusals /\ Complaints /\ Phases /\ OneByOne
        /\ Ordered(shown["stdout"], pods)
    BY DEF LogsInv
  <1>2. /\ follow' = follow /\ pods' = pods /\ line' = line /\ writer' = writer /\ pieces' = pieces
        /\ pipe' = pipe /\ held' = held /\ closed' = closed /\ shown' = shown /\ broken' = broken
        /\ expired' = expired /\ awaits' = awaits /\ exit' = exit
        /\ closed /\ awaits # "ended" /\ copier[c] = "copying" /\ pipe[c] = <<>>
    BY DEF Logging!EndOfPipe
  <1>3. copier' = [copier EXCEPT ![c] = "finished"]
    BY DEF Logging!EndOfPipe
  <1>4. /\ Logging!Pods' = Logging!Pods /\ Logging!Channels' = Logging!Channels
        /\ (Logging!parallel' <=> Logging!parallel)
    BY <1>2 DEF Logging!Pods, Logging!Channels, Logging!parallel
  <1>5. /\ copier \in [Logging!Channels -> {"copying", "showing", "finished", "failed"}]
        /\ "stdout" \in Logging!Channels /\ "stderr" \in Logging!Channels
    BY <1>1, LogsTyped DEF LogTypes
  <1>6. /\ copier' \in [Logging!Channels -> {"copying", "showing", "finished", "failed"}]
        /\ copier'[c] = "finished" /\ \A d \in Logging!Channels : d # c => copier'[d] = copier[d]
    BY <1>3, <1>5
  <1>7. Logging!parallel
    BY <1>1, <1>2 DEF Phases
  <1>8. /\ LogTypes' /\ PodRead' /\ Copied' /\ Refusals' /\ Complaints' /\ OneByOne'
        /\ Ordered(shown["stdout"], pods)'
    BY <1>1, <1>2, <1>4, <1>6, <1>7
    DEF LogTypes, PodRead, Copied, Refusals, Told, Complaints, Justified, OneByOne
  <1>9. Handed'
    <2>1. copier'["stdout"] # "failed" => copier["stdout"] # "failed"
      BY <1>2, <1>5, <1>6
    <2>2. Flowing' => Flowing
      BY <1>2, <1>4, <2>1 DEF Flowing
    <2> QED BY <1>1, <1>2, <1>4, <2>2 DEF Handed
  <1>10. Phases'
    <2>1. ASSUME NEW d \in Logging!Channels
          PROVE  /\ held[d] # <<>> <=> copier'[d] = "showing"
                 /\ copier'[d] = "finished" => closed /\ pipe[d] = <<>>
                 /\ copier'[d] = "failed" => copier[d] = "failed"
                 /\ copier[d] \in {"finished", "failed"} => copier'[d] = copier[d]
      <3>1. CASE d = c
        BY <1>1, <1>2, <1>6, <3>1 DEF Phases
      <3>2. CASE d # c
        BY <1>1, <1>6, <3>2 DEF Phases
      <3> QED BY <3>1, <3>2
    <2> QED BY <1>1, <1>2, <1>4, <1>5, <2>1 DEF Phases
  <1> QED BY <1>8, <1>9, <1>10 DEF LogsInv

LEMMA ReceiveKeeps ==
    ASSUME LogsInv, NEW c \in Logging!Channels, Logging!Receive(c)
    PROVE  LogsInv'
  <1>1. /\ LogTypes /\ PodRead /\ Handed /\ Copied /\ Refusals /\ Complaints /\ Phases /\ OneByOne
        /\ Ordered(shown["stdout"], pods)
    BY DEF LogsInv
  <1>2. /\ follow' = follow /\ pods' = pods /\ line' = line /\ writer' = writer /\ pieces' = pieces
        /\ pipe' = pipe /\ copier' = copier /\ held' = held /\ closed' = closed /\ shown' = shown
        /\ broken' = broken /\ expired' = expired
        /\ Logging!parallel /\ awaits = c /\ copier[c] \in {"finished", "failed"}
    BY DEF Logging!Receive
  <1>3. awaits' = IF c = "stdout" THEN "stderr" ELSE "ended"
    BY DEF Logging!Receive
  <1>4. exit' \in {exit, "failed"}
    BY DEF Logging!Receive
  <1>5. /\ Logging!Pods' = Logging!Pods /\ Logging!Channels' = Logging!Channels
        /\ (Logging!parallel' <=> Logging!parallel)
        /\ "stdout" \in Logging!Channels /\ "stderr" \in Logging!Channels
    BY <1>1, <1>2, LogsTyped DEF Logging!Pods, Logging!Channels, Logging!parallel
  <1>6. LogTypes'
    BY <1>1, <1>2, <1>3, <1>4, <1>5 DEF LogTypes
  <1>7. /\ PodRead' /\ Handed' /\ Copied' /\ Refusals' /\ Complaints' /\ OneByOne'
        /\ Ordered(shown["stdout"], pods)'
    BY <1>1, <1>2, <1>5 DEF PodRead, Handed, Copied, Refusals, Told, Complaints, Justified, OneByOne, Flowing
  <1>8. Phases'
    <2>1. c = "stdout" \/ c = "stderr"
      BY DEF Logging!Channels
    <2>2. CASE c = "stdout"
      BY <1>1, <1>2, <1>3, <1>5, <2>2 DEF Phases
    <2>3. CASE c = "stderr"
      BY <1>1, <1>2, <1>3, <1>5, <2>3 DEF Phases
    <2> QED BY <2>1, <2>2, <2>3
  <1> QED BY <1>6, <1>7, <1>8 DEF LogsInv

LEMMA BreakKeeps ==
    ASSUME LogsInv, Logging!Break
    PROVE  LogsInv'
  <1>1. /\ LogTypes /\ PodRead /\ Handed /\ Copied /\ Refusals /\ Complaints /\ Phases /\ OneByOne
        /\ Ordered(shown["stdout"], pods)
    BY DEF LogsInv
  <1>2. /\ follow' = follow /\ pods' = pods /\ line' = line /\ writer' = writer /\ pieces' = pieces
        /\ pipe' = pipe /\ copier' = copier /\ held' = held /\ closed' = closed /\ shown' = shown
        /\ expired' = expired /\ awaits' = awaits /\ exit' = exit /\ ~broken /\ broken' = TRUE
    BY DEF Logging!Break
  <1>3. /\ LogTypes' /\ PodRead' /\ Copied' /\ Refusals' /\ Complaints' /\ Phases' /\ OneByOne'
        /\ Ordered(shown["stdout"], pods)'
    BY <1>1, <1>2 DEF LogTypes, PodRead, Copied, Refusals, Told, Complaints, Justified, Phases, OneByOne,
                      Logging!Pods, Logging!Channels, Logging!parallel
  <1>4. Handed'
    <2>1. Flowing' => Flowing
      BY <1>2 DEF Flowing
    <2> QED BY <1>1, <1>2, <2>1 DEF Handed, Logging!Pods
  <1> QED BY <1>3, <1>4 DEF LogsInv

LEMMA ExpireKeeps ==
    ASSUME LogsInv, Logging!Expire
    PROVE  LogsInv'
  <1>1. /\ LogTypes /\ PodRead /\ Handed /\ Copied /\ Refusals /\ Complaints /\ Phases /\ OneByOne
        /\ Ordered(shown["stdout"], pods)
    BY DEF LogsInv
  <1>2. /\ follow' = follow /\ pods' = pods /\ line' = line /\ writer' = writer /\ pieces' = pieces
        /\ pipe' = pipe /\ copier' = copier /\ held' = held /\ closed' = closed /\ shown' = shown
        /\ broken' = broken /\ awaits' = awaits /\ exit' = exit /\ ~expired /\ expired' = TRUE
    BY DEF Logging!Expire
  <1>3. /\ LogTypes' /\ Handed' /\ Copied' /\ Refusals' /\ Complaints' /\ Phases' /\ OneByOne'
        /\ Ordered(shown["stdout"], pods)'
    BY <1>1, <1>2 DEF LogTypes, Handed, Flowing, Copied, Refusals, Told, Complaints, Justified, Phases, OneByOne,
                      Logging!Pods, Logging!Channels, Logging!parallel
  <1>4. PodRead'
    BY <1>1, <1>2 DEF PodRead, ReadSoFar, Logging!Pods
  <1> QED BY <1>3, <1>4 DEF LogsInv

LEMMA LogsNext == LogsInv /\ Logging!Next => LogsInv'
  <1> SUFFICES ASSUME LogsInv, Logging!Next PROVE LogsInv'
    OBVIOUS
  <1>1. CASE Logging!Break
    BY <1>1, BreakKeeps
  <1>2. CASE Logging!Expire
    BY <1>2, ExpireKeeps
  <1>3. CASE Logging!Close
    BY <1>3, CloseKeeps
  <1>4. ASSUME NEW c \in Logging!Channels,
               Logging!Read(c) \/ Logging!Show(c) \/ Logging!EndOfPipe(c) \/ Logging!Receive(c)
        PROVE  LogsInv'
    BY <1>4, ReadKeeps, ShowKeeps, EndOfPipeKeeps, ReceiveKeeps
  <1>5. ASSUME NEW p \in Logging!Pods, Logging!PodStep(p)
        PROVE  LogsInv'
    BY <1>5, RequestKeeps, NextPodKeeps DEF Logging!PodStep
  <1> QED BY <1>1, <1>2, <1>3, <1>4, <1>5 DEF Logging!Next, Logging!Copiers

LEMMA LogsUnchanged == LogsInv /\ UNCHANGED logging => LogsInv'
  <1> SUFFICES ASSUME LogsInv, UNCHANGED logging PROVE LogsInv'
    OBVIOUS
  <1>1. /\ follow' = follow /\ pods' = pods /\ line' = line /\ writer' = writer /\ pieces' = pieces
        /\ pipe' = pipe /\ copier' = copier /\ held' = held /\ closed' = closed /\ shown' = shown
        /\ broken' = broken /\ expired' = expired /\ awaits' = awaits /\ exit' = exit
    BY DEF logging
  <1> QED BY <1>1 DEF LogsInv, LogTypes, PodRead, Handed, Flowing, Copied, Refusals, Told, Complaints, Justified,
                      Phases, OneByOne,
                      Logging!Pods, Logging!Channels, Logging!parallel

----------------------------------------------------------------------------
(* What it comes to.                                                       *)

LEMMA LogsTypeOK == LogsInv => Logging!TypeOK
  <1> SUFFICES ASSUME LogsInv PROVE Logging!TypeOK
    OBVIOUS
  <1>1. LogTypes /\ PodRead
    BY DEF LogsInv
  <1>2. ASSUME NEW p \in Logging!Pods
        PROVE  line[p] \in 0 .. Len(pods[p].log) /\ pieces[p] \in 0 .. 2
    <2>1. ReadSoFar(pods[p], writer[p], line[p], pieces[p], expired)
      BY <1>1 DEF PodRead
    <2>2. line[p] \in Nat /\ pieces[p] \in Nat /\ Len(pods[p].log) \in Nat
      BY <1>1, LogsTyped
    <2>3. Logging!Writes(pods[p].log[line[p]]) \in 0 .. 2
      BY WritesAre
    <2>4. line[p] <= Len(pods[p].log) /\ pieces[p] <= 2
      BY <2>1, <2>2, <2>3 DEF ReadSoFar
    <2> QED BY <2>2, <2>4
  <1>3. /\ follow \in BOOLEAN /\ broken \in BOOLEAN /\ expired \in BOOLEAN /\ closed \in BOOLEAN
        /\ writer \in [Logging!Pods -> {"waiting", "opening", "reading", "writing", "written",
                                        "refused", "told", "failed", "returned"}]
        /\ awaits \in Logging!Channels \cup {"ended"} /\ exit \in {"ok", "failed"}
    BY <1>1 DEF LogTypes, Writing
  <1>4. \A c \in Logging!Channels :
           /\ Len(pipe[c]) <= 1 /\ Len(held[c]) <= 1
           /\ copier[c] \in {"copying", "showing", "finished", "failed"}
    BY <1>1 DEF LogTypes
  <1> QED BY <1>2, <1>3, <1>4 DEF Logging!TypeOK

LEMMA LogsEntries == \A p \in Logging!Pods : Logging!Entries(p) = EntriesIn(pods, p)
  BY DEF Logging!Entries, EntriesIn, Logging!Readable, Clear, Logging!Log

\* When the command ends, every pod's request has returned and nothing is on its way.
LEMMA LogsEnded ==
    ASSUME LogsInv, awaits = "ended"
    PROVE  /\ \A p \in Logging!Pods : writer[p] \in Gone
           /\ \A c \in Logging!Channels : copier[c] # "failed" => Set(pipe[c]) = {} /\ Set(held[c]) = {}
           /\ copier["stderr"] # "failed"
  <1>1. LogTypes /\ Phases /\ OneByOne
    BY DEF LogsInv
  <1>2. "stdout" \in Logging!Channels /\ "stderr" \in Logging!Channels
    BY <1>1, LogsTyped
  <1>3. copier["stderr"] # "failed"
    BY <1>1 DEF Phases
  <1>4. CASE Logging!parallel
    <2>1. copier["stdout"] \in {"finished", "failed"} /\ copier["stderr"] = "finished"
      BY <1>1, <1>4 DEF Phases
    <2>2. \A p \in Logging!Pods : writer[p] \in Gone
      BY <1>1, <1>2, <2>1 DEF Phases
    <2>3. ASSUME NEW c \in Logging!Channels, copier[c] # "failed"
          PROVE  Set(pipe[c]) = {} /\ Set(held[c]) = {}
      <3>1. copier[c] = "finished"
        BY <2>1, <2>3 DEF Logging!Channels
      <3>2. pipe[c] = <<>> /\ held[c] = <<>>
        BY <1>1, <3>1 DEF Phases
      <3> QED BY <3>2, Sets
    <2> QED BY <1>3, <2>2, <2>3
  <1>5. CASE ~Logging!parallel
    <2>1. \A p \in Logging!Pods : writer[p] \in Gone
      BY <1>1, <1>5 DEF OneByOne
    <2>2. \A c \in Logging!Channels : pipe[c] = <<>> /\ held[c] = <<>>
      BY <1>1, <1>5 DEF OneByOne, Phases
    <2> QED BY <1>3, <2>1, <2>2, Sets
  <1> QED BY <1>4, <1>5

LEMMA LogsEntriesShown == LogsInv => Logging!EntriesShown
  <1> SUFFICES ASSUME LogsInv PROVE Logging!EntriesShown
    OBVIOUS
  <1> DEFINE out == shown["stdout"]
  <1>1. LogTypes /\ PodRead /\ Handed /\ Phases /\ Ordered(out, pods)
    BY DEF LogsInv
  <1>2. Logging!Pods = DOMAIN pods /\ pods \in Seq(Logging!Pod) /\ "stdout" \in Logging!Channels
    BY <1>1, LogsTyped
  <1>3. Logging!InOrder
    <2> SUFFICES ASSUME NEW i \in DOMAIN out
                 PROVE  /\ out[i].pod \in Logging!Pods /\ out[i] \in Logging!Entries(out[i].pod)
                        /\ \A e \in Logging!Entries(out[i].pod) :
                              Logging!Before(e, out[i]) <=> \E j \in 1 .. i - 1 : out[j] = e
      BY DEF Logging!InOrder
    <2>1. IsNext(out[i], {out[j] : j \in 1 .. i - 1}, pods)
      BY <1>1 DEF Ordered
    <2>2. out[i].pod \in Logging!Pods /\ out[i] \in EntriesIn(pods, out[i].pod)
      BY <1>2, <2>1 DEF IsNext
    <2>3. \A e \in EntriesIn(pods, out[i].pod) :
             Logging!Before(e, out[i]) <=> \E j \in 1 .. i - 1 : out[j] = e
      BY <2>1 DEF IsNext
    <2> QED BY <2>2, <2>3, LogsEntries
  <1>4. ASSUME awaits = "ended", ~broken, ~expired, NEW p \in Logging!Pods, ~pods[p].refused,
               NEW e \in EntriesIn(pods, p)
        PROVE  e \in Set(out)
    <2>1. writer[p] = "returned"
      <3>1. ReadSoFar(pods[p], writer[p], line[p], pieces[p], expired)
        BY <1>1 DEF PodRead
      <3> QED BY <1>4, <3>1, LogsEnded DEF ReadSoFar, NotHad, Gone
    <2>2. copier["stdout"] # "failed"
      BY <1>1, <1>4 DEF Phases
    <2>3. Set(held["stdout"]) = {}
      BY <1>2, <1>4, <2>2, LogsEnded
    <2>4. Left(writer[p], pieces[p], From(pipe["stdout"], p)) = 0
      <3>1. ReadSoFar(pods[p], writer[p], line[p], pieces[p], expired)
        BY <1>1 DEF PodRead
      <3> QED BY <2>1, <3>1 DEF Left, ReadSoFar
    <2>5. Passed(e, line[p], 0) <=> e \in Set(out)
      <3>1. Flowing
        BY <1>4, <2>2 DEF Flowing
      <3> QED BY <1>1, <2>3, <2>4, <3>1 DEF Handed, PassedOn
    <2>6. e.line \in 1 .. Len(pods[p].log) /\ e.piece \in {1, 2} /\ Clear(pods[p].log, e.line)
      BY <1>2, EntriesAre
    <2>7. line[p] = Len(pods[p].log) \/ ~Clear(pods[p].log, line[p])
      <3>1. ReadSoFar(pods[p], writer[p], line[p], pieces[p], expired)
        BY <1>1 DEF PodRead
      <3> QED BY <1>4, <2>1, <3>1 DEF ReadSoFar
    <2>8. line[p] \in Nat /\ Len(pods[p].log) \in Nat
      BY <1>1, LogsTyped
    <2>9. e.line <= line[p]
      <3> SUFFICES ASSUME line[p] < e.line
                   PROVE  FALSE
        BY <2>6, <2>8
      <3>1. line[p] # Len(pods[p].log)
        BY <2>6, <2>8
      <3>2. e.line \in Nat /\ line[p] <= e.line
        BY <2>6, <2>8
      <3>3. Clear(pods[p].log, line[p])
        BY <2>6, <2>8, <3>2, ClearIs
      <3> QED BY <2>7, <3>1, <3>3
    <2> QED BY <2>5, <2>6, <2>8, <2>9 DEF Passed
  <1>5. \A p \in Logging!Pods :
           awaits = "ended" /\ ~broken /\ ~expired /\ ~pods[p].refused =>
              Logging!Entries(p) \subseteq Logging!ToSet(out)
    BY <1>4, LogsEntries DEF Set
  <1> QED BY <1>3, <1>5 DEF Logging!EntriesShown

LEMMA LogsRefusalsTold == LogsInv => Logging!RefusalsTold
  <1> DEFINE had == {p \in Logging!Pods : writer[p] = "returned"}
             told == {m.pod : m \in {m \in Logging!ToSet(shown["stderr"]) : m.line = 0}}
  <1> SUFFICES ASSUME LogsInv, awaits = "ended", pods # <<>>
               PROVE  /\ told = Logging!Pods \ had
                      /\ \A p \in told : pods[p].refused \/ expired
                      /\ \A p \in had : ~pods[p].refused
                      /\ ~Logging!parallel => (exit = "failed" <=> told # {})
    BY DEF Logging!RefusalsTold
  <1>1. LogTypes /\ PodRead /\ Refusals /\ OneByOne
    BY DEF LogsInv
  <1>2. \A p \in Logging!Pods : writer[p] \in Gone
    BY LogsEnded
  <1>3. Set(pipe["stderr"]) = {} /\ Set(held["stderr"]) = {}
    BY <1>1, LogsTyped, LogsEnded
  <1>4. Told = told
    BY <1>3 DEF Told, Notice, Set
  <1>5. told = {p \in Logging!Pods : writer[p] = "failed"}
    BY <1>1, <1>2, <1>4 DEF Refusals, Gone
  <1>6. \A p \in Logging!Pods : /\ writer[p] = "failed" => pods[p].refused \/ expired
                                /\ writer[p] = "returned" => ~pods[p].refused
    BY <1>1 DEF PodRead, ReadSoFar, NotHad
  <1>7. ~Logging!parallel => (exit = "failed" <=> \E p \in Logging!Pods : writer[p] = "failed")
    BY <1>1 DEF OneByOne
  <1> HIDE DEF told
  <1>8. told = Logging!Pods \ had
    BY <1>2, <1>5 DEF Gone
  <1> QED BY <1>5, <1>6, <1>7, <1>8

LEMMA LogsOthersTold == LogsInv => Logging!OthersTold
  <1> SUFFICES ASSUME LogsInv PROVE Logging!OthersTold
    OBVIOUS
  <1>1. LogTypes /\ PodRead /\ Complaints
    BY DEF LogsInv
  <1>2. \A m \in Logging!ToSet(shown["stderr"]) : m.line # 0 =>
           \/ m.piece = 0 /\ (expired \/ Logging!Log(m.pod)[m.line] = "broken")
           \/ m.piece # 0 /\ broken /\ ~Logging!parallel
    BY <1>1 DEF Complaints, Justified, Set, Logging!Log
  <1>3. ASSUME NEW p \in Logging!Pods, NEW i \in DOMAIN pods[p].log,
               awaits = "ended", ~expired, ~pods[p].refused,
               Clear(pods[p].log, i - 1), pods[p].log[i] = "broken"
        PROVE  Msg(p, i, 0) \in Set(shown["stderr"])
    <2> DEFINE log == pods[p].log
    <2>1. log \in Seq(Logging!Kinds) /\ Len(log) \in Nat /\ line[p] \in Nat /\ i \in 1 .. Len(log)
      BY <1>1, <1>3, LogsTyped
    <2>2. ReadSoFar(pods[p], writer[p], line[p], pieces[p], expired)
      BY <1>1 DEF PodRead
    <2>3. writer[p] = "returned"
      BY <1>3, <2>2, LogsEnded DEF ReadSoFar, NotHad, Gone
    <2>4. line[p] = Len(log) \/ ~Clear(log, line[p])
      BY <1>3, <2>2, <2>3 DEF ReadSoFar
    <2>5. ~(line[p] < i)
      <3> SUFFICES ASSUME line[p] < i PROVE FALSE
        OBVIOUS
      <3>1. i - 1 \in Nat /\ line[p] <= i - 1 /\ line[p] # Len(log)
        BY <2>1
      <3>2. Clear(log, line[p])
        BY <1>3, <2>1, <3>1, ClearIs
      <3> QED BY <2>4, <3>1, <3>2
    <2>6. ~(line[p] > i)
      <3> SUFFICES ASSUME line[p] > i PROVE FALSE
        OBVIOUS
      <3>1. line[p] - 1 \in Nat /\ i <= line[p] - 1 /\ line[p] # 0
        BY <2>1
      <3>2. Clear(log, line[p] - 1)
        BY <2>2, <3>1 DEF ReadSoFar
      <3> QED BY <1>3, <2>1, <3>1, <3>2 DEF Clear, Logging!Unreadable
    <2>7. line[p] = i /\ i # 0
      BY <2>1, <2>5, <2>6
    <2> QED BY <1>1, <1>3, <2>7 DEF Complaints
  <1>4. \A p \in Logging!Pods : \A i \in DOMAIN Logging!Log(p) :
           /\ awaits = "ended" /\ ~expired /\ ~pods[p].refused
           /\ Logging!Readable(p, i - 1) /\ Logging!Log(p)[i] = "broken"
           => [pod |-> p, line |-> i, piece |-> 0] \in Logging!ToSet(shown["stderr"])
    BY <1>3 DEF Clear, Msg, Set, Logging!Log, Logging!Readable
  <1> QED BY <1>2, <1>4 DEF Logging!OthersTold

----------------------------------------------------------------------------
(* What the invariants come to.                                            *)

LEMMA BuildInMemory == BuildInv /\ inMemory => dirs = found
  BY Zenon DEF BuildInv

LEMMA BuildOnDisk ==
    ASSUME BuildInv, ~inMemory
    PROVE  /\ \A d \in Building!Dirs : d # plan[at] /\ ~(crossed /\ d = plan[1]) => dirs[d] = found[d]
           /\ ~(crossed /\ plan[at] = plan[1]) => DirAtWork(dirs[plan[at]], found[plan[at]])
  BY Zenon DEF BuildInv, OnDisk

LEMMA BuildFileKept == BuildInv => Building!UserFileKept
  <1> SUFFICES ASSUME BuildInv, NEW d \in Building!Dirs, found[d].file = "user", ~(crossed /\ d = plan[1])
               PROVE  "user" \in {dirs[d].file, dirs[d].saved}
    BY DEF Building!UserFileKept
  <1>1. CASE inMemory
    BY <1>1, BuildInMemory
  <1>2. CASE ~inMemory
    <2>1. CASE d # plan[at]
      <3>1. dirs[d] = found[d]
        BY <1>2, <2>1, BuildOnDisk
      <3> QED BY <3>1
    <2>2. CASE d = plan[at]
      <3>1. DirAtWork(dirs[d], found[d])
        BY <1>2, <2>2, BuildOnDisk
      <3>2. worker \in {"start", "locking", "saving", "writing", "unlocking", "failing", "recording", "waiting",
                        "building", "cleaning", "reporting"}
        BY Zenon DEF BuildInv, Building!TypeOK
      <3>3. dirs[d] \in {found[d], Kept(found[d]), Filled(found[d])}
        BY <3>1, <3>2 DEF DirAtWork, Untouched, Generating
      <3> QED BY <3>3 DEF Kept, Filled
    <2> QED BY <2>1, <2>2
  <1> QED BY <1>1, <1>2

LEMMA BuildLeavesNoTrace == BuildInv => Building!LeavesNoTrace
  <1>0. SUFFICES ASSUME BuildInv, main = "ended" /\ seen = "", ~inMemory
                 PROVE  dirs = found
    BY BuildInMemory DEF Building!LeavesNoTrace
  <1>1. worker = "reporting" /\ ~crossed
    BY <1>0, Zenon DEF BuildInv
  <1>2. dirs[plan[at]] = found[plan[at]]
    <2>1. DirAtWork(dirs[plan[at]], found[plan[at]])
      BY <1>0, <1>1, BuildOnDisk, Zenon
    <2>2. worker \in Untouched
      BY <1>1, Zenon DEF Untouched
    <2> QED BY <2>1, <2>2, Zenon DEF DirAtWork
  <1>3. \A d \in Building!Dirs : dirs[d] = found[d]
    BY <1>0, <1>1, <1>2, BuildOnDisk, Zenon
  <1>4. /\ dirs \in [Building!Dirs -> [file : Building!Files, saved : Building!Files]]
        /\ found \in [Building!Dirs -> [file : Building!Files, saved : Building!Files]]
    BY <1>0, Zenon DEF BuildInv, Building!TypeOK
  <1> QED BY <1>3, <1>4

LEMMA BuildCancelRestores == BuildInv => Building!CancelRestores
  <1> SUFFICES ASSUME BuildInv, seen \notin {"", "unset"}, ~crossed, at = 1 \/ plan[at] # plan[1]
               PROVE  dirs[plan[1]] = found[plan[1]]
    BY Zenon DEF Building!CancelRestores, Building!dir
  <1>1. CASE inMemory
    BY <1>1, BuildInMemory
  <1>2. CASE ~inMemory /\ at = 1
    BY <1>2, Zenon DEF BuildInv, OnDisk
  <1>3. CASE ~inMemory /\ plan[1] # plan[at]
    <2>1. plan[1] \in Building!Dirs
      BY BuildPlaced DEF Placed
    <2> QED BY <1>3, <2>1, BuildOnDisk, Zenon
  <1> QED BY <1>1, <1>2, <1>3

LEMMA WatchGuarantees == WatchInv => Watching!EventsPrinted /\ Watching!NoSendAfterClose
  <1> SUFFICES ASSUME WatchInv
               PROVE  Watching!EventsPrinted /\ Watching!NoSendAfterClose
    OBVIOUS
  <1>1. Watching!NoSendAfterClose
    BY DEF WatchInv, Stopping, Watching!NoSendAfterClose
  <1>2. ASSUME printer = "ended", ~error
        PROVE  \E w \in ended : Watching!AllTaken(w)
    <2>1. result = "closed" /\ \A w \in Watches : forwarder[w] = "returned"
      BY <1>2 DEF WatchInv, Stopping
    <2>2. \A w \in Watches : Forwarding(w)
      BY DEF WatchInv
    <2>3. done
      BY <2>1, <2>2, WatchesAssumed DEF Forwarding
    <2> QED BY <1>2, <2>3 DEF WatchInv, Stopping
  <1> QED BY <1>1, <1>2 DEF WatchInv, Watching!EventsPrinted

----------------------------------------------------------------------------
(* One command is started; the others stay empty.                          *)

CommandInv ==
    /\ command \in {"build", "logs", "watch", "trigger"}
    /\ command = "build" => BuildInv
    /\ command = "logs" => LogsInv
    /\ command = "watch" => WatchInv
    /\ command = "trigger" => TriggerInv

LEMMA InitCommandInv == Init => CommandInv
  BY BuildInit, LogsInit, WatchInit, TriggerInit DEF Init, CommandInv

LEMMA NextCommandInv == CommandInv /\ [Next]_vars => CommandInv'
  <1> SUFFICES ASSUME CommandInv, [Next]_vars
               PROVE  CommandInv'
    OBVIOUS
  <1>1. CASE In("build", Building!Next /\ OnlyBuilding)
    <2>1. command = "build" /\ command' = command /\ Building!Next
      BY <1>1 DEF In
    <2>2. BuildInv'
      BY <2>1, BuildNext DEF CommandInv
    <2> QED BY <2>1, <2>2 DEF CommandInv
  <1>2. CASE In("logs", Logging!Next /\ OnlyLogging)
    <2>1. command = "logs" /\ command' = command /\ Logging!Next
      BY <1>2 DEF In
    <2>2. LogsInv'
      BY <2>1, LogsNext DEF CommandInv
    <2> QED BY <2>1, <2>2 DEF CommandInv
  <1>3. CASE In("watch", Watching!Next /\ OnlyWatching)
    <2>1. command = "watch" /\ command' = command /\ Watching!Next
      BY <1>3 DEF In
    <2>2. WatchInv'
      BY <2>1, WatchNext DEF CommandInv
    <2> QED BY <2>1, <2>2 DEF CommandInv
  <1>4. CASE In("trigger", Triggering!Next /\ OnlyTriggering)
    <2>1. command = "trigger" /\ command' = command /\ Triggering!Next
      BY <1>4 DEF In
    <2>2. TriggerInv'
      BY <2>1, TriggerNext DEF CommandInv
    <2> QED BY <2>1, <2>2 DEF CommandInv
  <1>5. CASE UNCHANGED vars
    <2>1. command' = command /\ UNCHANGED building /\ UNCHANGED logging
          /\ UNCHANGED watching /\ UNCHANGED triggering
      BY <1>5 DEF vars
    <2>2. BuildInv => BuildInv'
      BY <2>1, BuildUnchanged
    <2>3. LogsInv => LogsInv'
      BY <2>1, LogsUnchanged
    <2>4. WatchInv => WatchInv'
      BY <2>1, WatchUnchanged
    <2>5. TriggerInv => TriggerInv'
      BY <2>1, TriggerUnchanged
    <2> QED BY <2>1, <2>2, <2>3, <2>4, <2>5 DEF CommandInv
  <1> QED BY <1>1, <1>2, <1>3, <1>4, <1>5 DEF Next

LEMMA CommandInvAlways == Spec => []CommandInv
  BY InitCommandInv, NextCommandInv, PTL DEF Spec

\* Whatever order the goroutine, the command and its user go in, for every plan of
\* builds and wherever the deadlines and the failures strike: a kustomization.yaml
\* of the user's is never lost, and the directories are left as they were found
\* (build.go:430-474, 802-810).
THEOREM DirectoryIsRestored == Spec => []DirectoryRestored
  <1>1. CommandInv => TypeOK
    <2>1. BuildInv => Building!TypeOK
      BY Zenon DEF BuildInv
    <2>2. WatchInv => Watching!TypeOK
      BY DEF WatchInv
    <2>3. TriggerInv => Triggering!TypeOK
      BY DEF TriggerInv
    <2> QED BY <2>1, <2>2, <2>3, LogsTypeOK DEF CommandInv, TypeOK
  <1>2. CommandInv => DirectoryRestored
    BY <1>1, BuildFileKept, BuildLeavesNoTrace, BuildCancelRestores DEF CommandInv, DirectoryRestored
  <1> QED BY <1>2, CommandInvAlways, PTL

\* For any number of pods, whatever their logs hold, however their requests and the
\* two copiers take turns and whenever the deadline passes: every pod's entries are
\* shown in their order and once, and all of them unless stdout failed or the deadline
\* passed; the pods that refused their log, and those that were asked for it after
\* the deadline, are told of on stderr, each of them, and make the command fail where
\* the pods are read one after another; and nothing else is written to stderr than of
\* lines that were no JSON or could not be written (logs.go:212-321).
THEOREM LogsAreAllShown == Spec => []LogsAreShown
  <1>1. CommandInv => LogsAreShown
    BY LogsEntriesShown, LogsRefusalsTold, LogsOthersTold DEF CommandInv, LogsAreShown
  <1> QED BY <1>1, CommandInvAlways, PTL

\* For any set of watches and however they end: the events of each name are printed in
\* their order and once, those of one that ended by itself completely, and nobody
\* sends to the merged channel after it was closed (get.go:404-446).
THEOREM EventsAreAllPrinted == Spec => []EventsPrinted
  <1>1. CommandInv => EventsPrinted
    BY WatchGuarantees DEF CommandInv, EventsPrinted
  <1> QED BY <1>1, CommandInvAlways, PTL

\* For every number of retries and whatever is lost on the way: success means that the
\* receiver was triggered by the attempt that was answered, and failure with fitting
\* credentials that every attempt was made (trigger_receiver.go).
THEOREM TriggeredTrulyAlways == Spec => []TriggeredTruly
  <1>1. CommandInv => TriggeredTruly
    BY DEF CommandInv, TriggerInv, TriggeredTruly
  <1> QED BY <1>1, CommandInvAlways, PTL
=============================================================================

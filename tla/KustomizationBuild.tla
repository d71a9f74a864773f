------------------------- MODULE KustomizationBuild -------------------------
(***************************************************************************)
(* How `flux build kustomization` and `flux diff kustomization` share a    *)
(* directory with their user: a goroutine writes a kustomization.yaml into *)
(* it, builds and cleans up, while the command waits for it or for an      *)
(* interrupt, upon which it cleans up too and leaves.                      *)
(***************************************************************************)
EXTENDS Naturals, Sequences

CONSTANT Plans \* sequences of directories, see plan

VARIABLES
    plan,     \* the directories in the order they are built: that of the command, then
              \* those of the Kustomizations found below it, each with its own builder
    inMemory, \* --in-memory-build: what is written stays in memory
    found,    \* directory -> what the user has there
    dirs,     \* directory -> its kustomization.yaml, and the copy saved of it
    lock,     \* holder of the first builder's mutex
    at,       \* the builder that is at work
    action,   \* builder -> its action field
    made,     \* what Generate returned to it
    worker,   \* where the goroutine is
    main,     \* where the command is
    signalled, failed,
    seen,     \* the action that Cancel cleaned up after, "" before it
    crossed   \* history: Cancel cleaned up where another builder was about to write
vars == <<plan, inMemory, found, dirs, lock, at, action, made, worker, main, signalled, failed, seen, crossed>>

Dirs == UNION {{p[i] : i \in DOMAIN p} : p \in Plans}
Files == {"none", "user", "generated"}
Actions == {"unset", "unchanged", "created", "updated"}
dir == plan[at]

TypeOK ==
    /\ plan \in Plans /\ at \in DOMAIN plan /\ inMemory \in BOOLEAN
    /\ found \in [Dirs -> [file : Files, saved : Files]] /\ dirs \in [Dirs -> [file : Files, saved : Files]]
    /\ lock \in {"free", "worker"} /\ action \in [DOMAIN plan -> Actions]
    /\ made \in Actions /\ seen \in Actions \cup {""}
    /\ worker \in {"start", "locking", "saving", "writing", "unlocking", "failing", "recording", "waiting",
                   "building", "cleaning", "reporting"}
    /\ main \in {"waiting", "cancelling", "leaving", "ended"}
    /\ signalled \in BOOLEAN /\ failed \in BOOLEAN /\ crossed \in BOOLEAN
    /\ lock = "worker" <=> at = 1 /\ worker \in {"saving", "writing", "unlocking", "failing", "building"}

Init ==
    /\ plan \in Plans /\ inMemory \in BOOLEAN
    /\ \E has \in [Dirs -> {"none", "user"}] : found = [d \in Dirs |-> [file |-> has[d], saved |-> "none"]]
    /\ dirs = found /\ lock = "free" /\ at = 1 /\ action = [i \in DOMAIN plan |-> "unset"]
    /\ made = "unset" /\ worker = "start" /\ main = "waiting"
    /\ signalled = FALSE /\ failed = FALSE /\ seen = "" /\ crossed = FALSE

----------------------------------------------------------------------------
(* The file system.                                                        *)

\* CleanDirectory of the library: what may be left of a directory. Whether a saved
\* copy is restored when no action is given is not said by this repository.
CleanDirectory(d, a) ==
    CASE a = "created" -> {[d EXCEPT !.file = "none"]}
      [] a = "updated" /\ d.saved # "none" -> {[file |-> d.saved, saved |-> "none"]}
      [] a \in {"unset", "unchanged"} /\ d.saved # "none" -> {d, [file |-> d.saved, saved |-> "none"]}
      [] OTHER -> {d}

\* Mutant of Cleanup: the backend removes what was generated and restores nothing.
RemoveGenerated(path, a) ==
    dirs' = IF inMemory THEN dirs ELSE [dirs EXCEPT ![path].file = "none"]

\* Cleanup of either backend.
Cleanup(path, a) ==
    IF inMemory THEN dirs' = dirs
    ELSE \E d \in CleanDirectory(dirs[path], a) : dirs' = [dirs EXCEPT ![path] = d]

----------------------------------------------------------------------------
(* The goroutine, one builder after another.                               *)

\* build: the Kustomization is fetched, or read from its file.
Resolve ==
    /\ worker = "start"
    /\ \/ worker' = "locking" /\ UNCHANGED failed
       \/ worker' = "reporting" /\ failed' = TRUE
    /\ UNCHANGED <<dirs, lock, at, action, made, main, seen>>

\* Only the first builder's mutex is shared with the command.
Acquire == IF at = 1 THEN lock = "free" /\ lock' = "worker" ELSE lock' = lock
Release == lock' = IF at = 1 THEN "free" ELSE lock

\* generate
Lock ==
    /\ worker = "locking" /\ Acquire /\ worker' = "saving"
    /\ UNCHANGED <<dirs, at, action, made, main, failed, seen>>

\* WithSaveOriginalKustomization of the library; a directory without a
\* kustomization.yaml gets one.
Save ==
    /\ worker = "saving"
    /\ \/ /\ ~inMemory
          /\ made' = IF dirs[dir].file = "none" THEN "created" ELSE "updated"
          /\ dirs' = [dirs EXCEPT ![dir].saved = dirs[dir].file]
          /\ worker' = "writing" /\ UNCHANGED failed
       \/ /\ inMemory
          /\ made' = "updated" /\ worker' = "unlocking" /\ UNCHANGED <<dirs, failed>>
       \/ /\ made' = "unchanged" /\ worker' = "failing" /\ failed' = TRUE /\ UNCHANGED dirs
    /\ UNCHANGED <<lock, at, action, main, seen>>

\* WriteFile of the library; it may leave a file behind when it fails.
Write ==
    /\ worker = "writing"
    /\ \/ /\ dirs' = [dirs EXCEPT ![dir].file = "generated"]
          /\ worker' = "unlocking" /\ UNCHANGED failed
       \/ /\ dirs' \in {dirs, [dirs EXCEPT ![dir].file = "generated"]}
          /\ worker' = "failing" /\ failed' = TRUE
    /\ UNCHANGED <<lock, at, action, made, main, seen>>

Generated ==
    /\ worker = "unlocking" /\ Release /\ worker' = "recording"
    /\ UNCHANGED <<dirs, at, action, made, main, failed, seen>>

\* Mutant of GenerateFailed: the mutex is given back on success only.
FailLocked ==
    /\ worker = "failing" /\ Cleanup(dir, made)
    /\ worker' = "reporting"
    /\ UNCHANGED <<lock, at, action, made, main, failed, seen>>

\* The error path of build: clean up by the action that came with the error.
GenerateFailed ==
    /\ worker = "failing" /\ Release /\ Cleanup(dir, made)
    /\ worker' = "reporting"
    /\ UNCHANGED <<at, action, made, main, failed, seen>>

\* b.action is set after the mutex has been given back.
Record ==
    /\ worker = "recording"
    /\ action' = [action EXCEPT ![at] = made]
    /\ worker' = "waiting"
    /\ UNCHANGED <<dirs, lock, at, made, main, failed, seen>>

\* do
StartBuild ==
    /\ worker = "waiting" /\ Acquire /\ worker' = "building"
    /\ UNCHANGED <<dirs, at, action, made, main, failed, seen>>

EndBuild ==
    /\ worker = "building" /\ Release /\ worker' = "cleaning"
    /\ failed' \in BOOLEAN
    /\ UNCHANGED <<dirs, at, action, made, main, seen>>

\* Mutant of Clean: directories are cleaned when all is built, not before what is below.
CleanLast ==
    /\ worker = "cleaning"
    /\ IF failed \/ at = Len(plan)
       THEN worker' = "reporting" /\ at' = at /\ Cleanup(dir, action[at])
       ELSE worker' = "start" /\ at' = at + 1 /\ dirs' = dirs
    /\ UNCHANGED <<lock, action, made, main, failed, seen>>

\* The deferred clean-up, without the mutex; then the next Kustomization is built.
Clean ==
    /\ worker = "cleaning" /\ Cleanup(dir, action[at])
    /\ IF failed \/ at = Len(plan)
       THEN worker' = "reporting" /\ at' = at
       ELSE worker' = "start" /\ at' = at + 1
    /\ UNCHANGED <<lock, action, made, main, failed, seen>>

\* errChan has no buffer: the command must be there to take the result.
Report ==
    /\ worker = "reporting" /\ main = "waiting" /\ main' = "ended"
    /\ UNCHANGED <<dirs, lock, at, action, made, worker, failed, seen>>

\* The goroutine goes on until the process is gone.
Worker ==
    /\ main # "ended"
    /\ \/ Resolve \/ Lock \/ Save \/ Write \/ Generated \/ GenerateFailed
       \/ Record \/ StartBuild \/ EndBuild \/ Clean \/ Report
    /\ UNCHANGED <<plan, inMemory, found, signalled, crossed>>

----------------------------------------------------------------------------
(* The command.                                                            *)

Interrupt ==
    /\ main = "waiting" /\ ~signalled /\ signalled' = TRUE
    /\ UNCHANGED <<plan, inMemory, found, dirs, lock, at, action, made, worker, main, failed, seen, crossed>>

TakeSignal ==
    /\ main = "waiting" /\ signalled /\ main' = "cancelling"
    /\ UNCHANGED <<plan, inMemory, found, dirs, lock, at, action, made, worker, signalled, failed, seen, crossed>>

\* Another builder, whose mutex Cancel does not take, is about to write to the
\* directory that Cancel cleans up.
Crossing == worker = "writing" /\ dir = plan[1]

\* Mutant of Cancel: the action is not handed to the library.
CancelUnset ==
    /\ main = "cancelling" /\ lock = "free"
    /\ Cleanup(plan[1], "unset") /\ crossed' = Crossing
    /\ seen' = action[1] /\ main' = "leaving"
    /\ UNCHANGED <<plan, inMemory, found, lock, at, action, made, worker, signalled, failed>>

\* Cancel
Cancel ==
    /\ main = "cancelling" /\ lock = "free"
    /\ Cleanup(plan[1], action[1]) /\ crossed' = Crossing
    /\ seen' = action[1] /\ main' = "leaving"
    /\ UNCHANGED <<plan, inMemory, found, lock, at, action, made, worker, signalled, failed>>

Leave ==
    /\ main = "leaving" /\ main' = "ended"
    /\ UNCHANGED <<plan, inMemory, found, dirs, lock, at, action, made, worker, signalled, failed, seen, crossed>>

Main == TakeSignal \/ Cancel \/ Leave

Next == Worker \/ Main \/ Interrupt

----------------------------------------------------------------------------
(* What is said of it.                                                     *)

\* A kustomization.yaml the user wrote is in its place or saved beside it, at any
\* moment, so also when the process is killed; although several Kustomizations may
\* be built in one directory, and Cancel may clean up while one is (build.go:430).
\* It may be lost only where Cancel and another builder have crossed.
UserFileKept ==
    \A d \in Dirs : found[d].file = "user" =>
        "user" \in {dirs[d].file, dirs[d].saved} \/ (crossed /\ d = plan[1])

\* A command that was not interrupted leaves every directory as it found it, whether
\* or not it succeeded; one that builds in memory does so always (build.go:460-474).
LeavesNoTrace ==
    (main = "ended" /\ seen = "") \/ inMemory => dirs = found

\* So does one that was interrupted, for its own directory, if the action had been
\* recorded when Cancel looked and no other builder works there or has crossed with
\* it. (Cancel's comment promises it without these conditions, build.go:802.)
CancelRestores ==
    main = "ended" /\ seen \notin {"", "unset"} /\ ~crossed /\ (at = 1 \/ dir # plan[1]) =>
        dirs[plan[1]] = found[plan[1]]

\* The command ends: it waits for the mutex or for the result, and never for both
\* in an order in which each waits for the other (build_kustomization.go:155-187).
Ends == <>(main = "ended")
=============================================================================

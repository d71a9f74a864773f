------------------------------- MODULE PodLogs -------------------------------
(***************************************************************************)
(* `flux logs`: the logs of the controllers' pods, one after another, or   *)
(* all at once when they are followed.  Then one goroutine per pod writes  *)
(* into a pipe, two others copy the pipes to stdout and stderr, and one    *)
(* closes them.                                                            *)
(***************************************************************************)
EXTENDS Naturals, Sequences, SequencesExt

CONSTANT Clusters \* sequences of deployments, each a sequence of pods

\* What a line of a log is: a JSON entry that the flags ask for or leave out, one
\* longer than the writer's buffer, one that is not JSON, one that only starts like
\* it, one that is too long for the scanner.
Kinds == {"entry", "unwanted", "long", "text", "broken", "oversized"}
Pod == [running : BOOLEAN, refused : BOOLEAN, log : Seq(Kinds)]

VARIABLES
    follow, \* --follow
    pods,   \* the pods whose logs are asked for
    line,   \* pod -> lines read of its log
    writer, \* pod -> where logRequest is
    pieces, \* pod -> writes to come for the entry at hand
    pipe,   \* channel -> what is being written to it: a message, or nothing
    copier, \* channel -> where asyncCopy is
    held,   \* channel -> what it has read and not shown
    closed, \* both pipes are closed
    shown,  \* channel -> what it shows
    broken, \* stdout fails
    expired,\* the command's deadline has passed
    awaits, \* whose result the command waits for: "stdout", then "stderr", "ended" after both
    exit
vars == <<follow, pods, line, writer, pieces, pipe, copier, held, closed, shown, broken, expired, awaits, exit>>

Channels == {"stdout", "stderr"}
Pods == DOMAIN pods
parallel == follow /\ Len(pods) > 1

\* Those one of which the sorting of a deployment's pods puts first.
Preferred(ps) == {p \in ToSet(ps) : p.running \/ \A q \in ToSet(ps) : ~q.running}

\* What getPods may return: of each deployment that has any, one pod, preferably a
\* running one, in the order of the deployments.
GetPods(deployments) ==
    {ret \in UNION {[1 .. n -> UNION {ToSet(ps) : ps \in ToSet(deployments)}] : n \in 0 .. Len(deployments)} :
        \E of \in [DOMAIN ret -> DOMAIN deployments] :
            /\ \A i, j \in DOMAIN ret : i < j => of[i] < of[j]
            /\ {of[i] : i \in DOMAIN ret} = {k \in DOMAIN deployments : deployments[k] # <<>>}
            /\ \A i \in DOMAIN ret : ret[i] \in Preferred(deployments[of[i]])}

TypeOK ==
    /\ follow \in BOOLEAN /\ broken \in BOOLEAN /\ expired \in BOOLEAN /\ closed \in BOOLEAN
    /\ \A p \in Pods : line[p] \in 0 .. Len(pods[p].log) /\ pieces[p] \in 0 .. 2
    /\ writer \in [Pods -> {"waiting", "opening", "reading", "writing", "written", "refused", "told", "failed", "returned"}]
    /\ \A c \in Channels :
          /\ Len(pipe[c]) <= 1 /\ Len(held[c]) <= 1
          /\ copier[c] \in {"copying", "showing", "finished", "failed"}
    /\ awaits \in Channels \cup {"ended"} /\ exit \in {"ok", "failed"}

Init ==
    /\ follow \in BOOLEAN /\ \E c \in Clusters : pods \in GetPods(c)
    /\ line = [p \in Pods |-> 0] /\ pieces = [p \in Pods |-> 0]
    /\ writer = [p \in Pods |-> IF parallel \/ p = 1 THEN "opening" ELSE "waiting"]
    /\ pipe = [c \in Channels |-> <<>>] /\ copier = [c \in Channels |-> "copying"]
    /\ held = [c \in Channels |-> <<>>]
    /\ closed = FALSE /\ shown = [c \in Channels |-> <<>>] /\ broken = FALSE /\ expired = FALSE
    /\ awaits = (IF pods = <<>> THEN "ended" ELSE "stdout")
    /\ exit = (IF pods = <<>> THEN "failed" ELSE "ok")

----------------------------------------------------------------------------
(* logRequest.                                                             *)

\* Not read: a line that is not JSON. Not shown: an entry that the flags leave out.
Skipped == {"text", "unwanted"}
\* The lines that end a pod's output.
Unreadable == {"broken", "oversized"}
Writes(kind) == CASE kind = "entry" -> 1 [] kind = "long" -> 2 [] OTHER -> 0
Log(p) == pods[p].log

\* What is written: to stdout the pieces of an entry, counted down; to stderr of
\* line 0 that the log could not be had, of piece 0 that a line could not be parsed,
\* of another piece that it could not be written.
Message(p) == [pod |-> p, line |-> line[p], piece |-> pieces[p]]
ParseError(p) == [pod |-> p, line |-> line[p] + 1, piece |-> 0]

\* The writes of the entries of a log, up to a line that cannot be read, and their
\* order.
Readable(p, i) == \A j \in 1 .. i : Log(p)[j] \notin Unreadable
Entries(p) ==
    {e \in [pod : {p}, line : DOMAIN Log(p), piece : {1, 2}] :
        Readable(p, e.line) /\ e.piece <= Writes(Log(p)[e.line])}
Before(m, n) == m.line < n.line \/ (m.line = n.line /\ m.piece > n.piece)

\* Request.Stream, which fails when the pod refuses and once the deadline has passed;
\* without it nothing of the pod is shown but a message.
Open(p) ==
    /\ writer[p] = "opening"
    /\ writer' = [writer EXCEPT ![p] = IF pods[p].refused \/ expired THEN "refused" ELSE "reading"]
    /\ UNCHANGED <<line, pieces, pipe, exit, shown>>

\* The next line. One that starts like JSON and is not ends the pod's output with a
\* message (which no pipe carries), one too long for the scanner without any.
ReadLine(p) ==
    /\ writer[p] = "reading" /\ line[p] < Len(Log(p))
    /\ line' = [line EXCEPT ![p] = @ + 1]
    /\ LET kind == Log(p)[line[p] + 1] IN
       /\ pieces' = [pieces EXCEPT ![p] = Writes(kind)]
       /\ writer' = [writer EXCEPT ![p] = CASE kind \in Skipped -> "reading"
                                            [] kind \in Unreadable -> "returned"
                                            [] OTHER -> "writing"]
       /\ shown' = IF kind = "broken" THEN [shown EXCEPT !["stderr"] = Append(@, ParseError(p))] ELSE shown
    /\ UNCHANGED <<pipe, exit>>

\* The log ends or, when followed, the pod goes.
EndOfLog(p) ==
    /\ writer[p] = "reading" /\ line[p] = Len(Log(p))
    /\ writer' = [writer EXCEPT ![p] = "returned"]
    /\ UNCHANGED <<line, pieces, pipe, exit, shown>>

\* The deadline cuts the log off, maybe in the middle of a line, which the scanner
\* returns as far as it came and which is then no JSON.
CutOff(p) ==
    /\ writer[p] = "reading" /\ expired /\ line[p] < Len(Log(p))
    /\ writer' = [writer EXCEPT ![p] = "returned"]
    /\ \/ shown' = shown
       \/ /\ Log(p)[line[p] + 1] # "text"
          /\ shown' = [shown EXCEPT !["stderr"] = Append(@, ParseError(p))]
    /\ UNCHANGED <<line, pieces, pipe, exit>>

\* An entry longer than the buffer takes several writes. To a pipe a write
\* lasts until what it wrote has been read, and others wait for their turn.
WriteToPipe(p) ==
    /\ parallel /\ writer[p] = "writing" /\ pipe["stdout"] = <<>>
    /\ pipe' = [pipe EXCEPT !["stdout"] = <<Message(p)>>]
    /\ writer' = [writer EXCEPT ![p] = "written"]
    /\ UNCHANGED <<line, pieces, exit, shown>>

PipeRead(p) ==
    /\ writer[p] = "written" /\ ~\E m \in ToSet(pipe["stdout"]) : m.pod = p
    /\ pieces' = [pieces EXCEPT ![p] = @ - 1]
    /\ writer' = [writer EXCEPT ![p] = IF pieces[p] > 1 THEN "writing" ELSE "reading"]
    /\ UNCHANGED <<line, pipe, exit, shown>>

\* podLogs: straight to stdout. An error of the Flush after an entry is not looked at,
\* but stays in the pod's buffer and is told of at the next entry, as is one in
\* the middle of a long entry.
WriteOut(p) ==
    /\ ~parallel /\ writer[p] = "writing"
    /\ LET m == Message(p)
           unwritten == \E e \in Entries(p) : Before(e, m) /\ e \notin ToSet(shown["stdout"])
           told == pieces[p] = Writes(Log(p)[line[p]]) /\ (unwritten \/ pieces[p] = 2)
       IN shown' = IF ~broken THEN [shown EXCEPT !["stdout"] = Append(@, m)]
                   ELSE [shown EXCEPT !["stderr"] = IF told THEN Append(@, m) ELSE @]
    /\ pieces' = [pieces EXCEPT ![p] = @ - 1]
    /\ writer' = [writer EXCEPT ![p] = IF pieces[p] > 1 THEN "writing" ELSE "reading"]
    /\ UNCHANGED <<line, pipe, exit>>

\* "failed getting logs", into the other pipe, or straight to stderr. Only when
\* the pods are read one after another does the command fail too.
Refused(p) ==
    /\ writer[p] = "refused"
    /\ IF parallel
       THEN /\ pipe["stderr"] = <<>> /\ pipe' = [pipe EXCEPT !["stderr"] = <<Message(p)>>]
            /\ writer' = [writer EXCEPT ![p] = "told"]
            /\ UNCHANGED <<exit, shown>>
       ELSE /\ shown' = [shown EXCEPT !["stderr"] = Append(@, Message(p))]
            /\ exit' = "failed" /\ writer' = [writer EXCEPT ![p] = "failed"]
            /\ UNCHANGED pipe
    /\ UNCHANGED <<line, pieces>>

\* wg.Done
Told(p) ==
    /\ writer[p] = "told" /\ ~\E m \in ToSet(pipe["stderr"]) : m.pod = p
    /\ writer' = [writer EXCEPT ![p] = "failed"]
    /\ UNCHANGED <<line, pieces, pipe, exit, shown>>

Request(p) ==
    /\ awaits # "ended"
    /\ \/ Open(p) \/ ReadLine(p) \/ EndOfLog(p) \/ CutOff(p) \/ WriteToPipe(p) \/ PipeRead(p)
       \/ WriteOut(p) \/ Refused(p) \/ Told(p)
    /\ UNCHANGED <<follow, pods, copier, held, closed, broken, expired, awaits>>

----------------------------------------------------------------------------
(* parallelPodLogs and podLogs.                                            *)

\* The request has returned: with an error, or without.
Over(p) == writer[p] \in {"failed", "returned"}

\* podLogs: the next pod, and the end.
NextPod(p) ==
    /\ ~parallel /\ awaits # "ended" /\ Over(p)
    /\ IF p = Len(pods) THEN awaits' = "ended" /\ writer' = writer
       ELSE writer[p + 1] = "waiting" /\ writer' = [writer EXCEPT ![p + 1] = "opening"] /\ awaits' = awaits
    /\ UNCHANGED <<follow, pods, line, pieces, pipe, copier, held, closed, shown, broken, expired, exit>>

\* asyncCopy: what is read, which lets the writer go on, is then shown; an error of
\* stdout ends the copying.
Read(c) ==
    /\ parallel /\ awaits # "ended" /\ copier[c] = "copying" /\ pipe[c] # <<>>
    /\ held' = [held EXCEPT ![c] = pipe[c]] /\ pipe' = [pipe EXCEPT ![c] = <<>>]
    /\ copier' = [copier EXCEPT ![c] = "showing"]
    /\ UNCHANGED <<follow, pods, line, writer, pieces, closed, shown, broken, expired, awaits, exit>>

Show(c) ==
    /\ awaits # "ended" /\ copier[c] = "showing"
    /\ held' = [held EXCEPT ![c] = <<>>]
    /\ IF broken /\ c = "stdout"
       THEN copier' = [copier EXCEPT ![c] = "failed"] /\ UNCHANGED shown
       ELSE copier' = [copier EXCEPT ![c] = "copying"] /\ shown' = [shown EXCEPT ![c] = @ \o held[c]]
    /\ UNCHANGED <<follow, pods, line, writer, pieces, pipe, closed, broken, expired, awaits, exit>>

\* Mutant of Close: the pipes are closed as soon as one pod's log has ended.
CloseEarly ==
    /\ parallel /\ ~closed /\ \E p \in Pods : Over(p)
    /\ closed' = TRUE
    /\ UNCHANGED <<follow, pods, line, writer, pieces, pipe, copier, held, shown, broken, expired, awaits, exit>>

\* The goroutine that waits for all the writers.
Close ==
    /\ parallel /\ ~closed /\ \A p \in Pods : Over(p)
    /\ closed' = TRUE
    /\ UNCHANGED <<follow, pods, line, writer, pieces, pipe, copier, held, shown, broken, expired, awaits, exit>>

EndOfPipe(c) ==
    /\ closed /\ awaits # "ended" /\ copier[c] = "copying" /\ pipe[c] = <<>>
    /\ copier' = [copier EXCEPT ![c] = "finished"]
    /\ UNCHANGED <<follow, pods, line, writer, pieces, pipe, held, closed, shown, broken, expired, awaits, exit>>

\* Mutant of Receive: the command does not wait for stderr.
ReceiveStdout(c) ==
    /\ parallel /\ awaits = c /\ copier[c] \in {"finished", "failed"}
    /\ awaits' = "ended"
    /\ exit' = IF copier[c] = "failed" THEN "failed" ELSE exit
    /\ UNCHANGED <<follow, pods, line, writer, pieces, pipe, copier, held, closed, shown, broken, expired>>

\* The command takes stdout's result, then stderr's.
Receive(c) ==
    /\ parallel /\ awaits = c /\ copier[c] \in {"finished", "failed"}
    /\ awaits' = IF c = "stdout" THEN "stderr" ELSE "ended"
    /\ exit' = IF copier[c] = "failed" THEN "failed" ELSE exit
    /\ UNCHANGED <<follow, pods, line, writer, pieces, pipe, copier, held, closed, shown, broken, expired>>

Break ==
    /\ awaits # "ended" /\ ~broken /\ broken' = TRUE
    /\ UNCHANGED <<follow, pods, line, writer, pieces, pipe, copier, held, closed, shown, expired, awaits, exit>>

Expire ==
    /\ awaits # "ended" /\ ~expired /\ expired' = TRUE
    /\ UNCHANGED <<follow, pods, line, writer, pieces, pipe, copier, held, closed, shown, broken, awaits, exit>>

PodStep(p) == Request(p) \/ NextPod(p)
Copiers == \E c \in Channels : Read(c) \/ Show(c) \/ EndOfPipe(c) \/ Receive(c)
Next == Break \/ Expire \/ Close \/ Copiers \/ \E p \in Pods : PodStep(p)

----------------------------------------------------------------------------
(* What is said of it.                                                     *)

\* Whatever the pods and the copying goroutines do, the entries of a pod are shown
\* in their order and once: with each of them exactly those before it have been.
\* When the command ends, all of them are, unless stdout failed or the deadline cut
\* a log off (logs.go:212-308).
InOrder ==
    LET out == shown["stdout"] IN
    \A i \in DOMAIN out :
        /\ out[i].pod \in Pods /\ out[i] \in Entries(out[i].pod)
        /\ \A e \in Entries(out[i].pod) : Before(e, out[i]) <=> \E j \in 1 .. i - 1 : out[j] = e

EntriesShown ==
    /\ InOrder
    /\ \A p \in Pods :
          awaits = "ended" /\ ~broken /\ ~expired /\ ~pods[p].refused =>
              Entries(p) \subseteq ToSet(shown["stdout"])

\* The pods whose log could not be had, those that refuse it and after the deadline
\* maybe others, are told of on stderr, each of them, before the command ends;
\* read one after another they also make the command fail. (In parallel they do
\* not: logs.go:221, :259.)
RefusalsTold ==
    awaits = "ended" /\ pods # <<>> =>
        LET had == {p \in Pods : writer[p] = "returned"}
            told == {m.pod : m \in {m \in ToSet(shown["stderr"]) : m.line = 0}}
        IN /\ told = Pods \ had
           /\ \A p \in told : pods[p].refused \/ expired
           /\ \A p \in had : ~pods[p].refused
           /\ ~parallel => (exit = "failed" <=> told # {})

\* What else is written to stderr is of the lines that are no JSON, of one that the
\* deadline cut off, or of those that a failing stdout did not take; and when the
\* command ends no line that was no JSON has ended a pod's output without a word
\* (logs.go:299-301, :319-321).
OthersTold ==
    /\ \A m \in ToSet(shown["stderr"]) : m.line # 0 =>
          \/ m.piece = 0 /\ (expired \/ Log(m.pod)[m.line] = "broken")
          \/ m.piece # 0 /\ broken /\ ~parallel
    /\ \A p \in Pods : \A i \in DOMAIN Log(p) :
          /\ awaits = "ended" /\ ~expired /\ ~pods[p].refused
          /\ Readable(p, i - 1) /\ Log(p)[i] = "broken"
          => [pod |-> p, line |-> i, piece |-> 0] \in ToSet(shown["stderr"])

\* The command ends, unless stdout fails while pods are read in parallel: then the
\* writers wait for a reader that is gone.
LogsEnd == <>(awaits = "ended" \/ (broken /\ parallel))
=============================================================================

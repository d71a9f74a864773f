----------------------------- MODULE MergedWatch -----------------------------
(***************************************************************************)
(* `flux get <kind> <name> <name>... --watch`: one watch per name, merged  *)
(* into one that the command reads until its deadline.                     *)
(***************************************************************************)
EXTENDS Naturals, Sequences, SequencesExt

CONSTANTS
    Watches,  \* one per name
    MaxEvents \* bound: events that one of them has

VARIABLES
    events,    \* watch -> how many events it will have
    received,  \* watch -> how many of them have been received from it
    ended,     \* watches that the server has closed
    stopped,   \* watches that have been stopped
    forwarder, \* watch -> where its goroutine is
    done,      \* the channel done is closed
    result,    \* the channel result: "open" or "closed"
    printer,   \* where watchUntil is
    taken,     \* the events the command has taken, to print them
    error      \* an event could not be printed, or the deadline has passed
vars == <<events, received, ended, stopped, forwarder, done, result, printer, taken, error>>

TypeOK ==
    /\ events \in [Watches -> 0 .. MaxEvents] /\ \A w \in Watches : received[w] \in 0 .. events[w]
    /\ ended \subseteq Watches /\ stopped \in {{}, Watches} /\ done = (stopped # {})
    /\ forwarder \in [Watches -> {"receiving", "sending", "stopping", "returned"}]
    /\ result \in {"open", "closed"} /\ error \in BOOLEAN
    /\ printer \in {"receiving", "printing", "stopping", "ended"}

Init ==
    /\ events \in [Watches -> 0 .. MaxEvents]
    /\ received = [w \in Watches |-> 0] /\ ended = {} /\ stopped = {}
    /\ forwarder = [w \in Watches |-> "receiving"]
    /\ done = FALSE /\ result = "open" /\ printer = "receiving" /\ taken = <<>> /\ error = FALSE

\* The server closes a watch, at its own timeout or when the connection is lost.
ServerCloses(w) ==
    /\ w \notin ended /\ ended' = ended \cup {w}
    /\ UNCHANGED <<events, received, stopped, forwarder, done, result, printer, taken, error>>

\* The next event of a watch, also of one that was stopped with the event on its way.
ReceiveEvent(w) ==
    /\ forwarder[w] = "receiving" /\ received[w] < events[w]
    /\ received' = [received EXCEPT ![w] = @ + 1]
    /\ forwarder' = [forwarder EXCEPT ![w] = "sending"]
    /\ UNCHANGED <<events, ended, stopped, done, result, printer, taken, error>>

Closed(w) ==
    /\ forwarder[w] = "receiving"
    /\ w \in stopped \/ (w \in ended /\ received[w] = events[w])
    /\ forwarder' = [forwarder EXCEPT ![w] = "stopping"]
    /\ UNCHANGED <<events, received, ended, stopped, done, result, printer, taken, error>>

\* The select in the goroutine: the event is taken, ...
Forward(w) ==
    /\ forwarder[w] = "sending" /\ printer = "receiving"
    /\ forwarder' = [forwarder EXCEPT ![w] = "receiving"]
    /\ printer' = "printing" /\ taken' = Append(taken, <<w, received[w]>>)
    /\ UNCHANGED <<events, received, ended, stopped, done, result, error>>

\* Mutant of GiveUp: an event is dropped while the command is printing another.
DropWhenBusy(w) ==
    /\ forwarder[w] = "sending" /\ (done \/ printer = "printing")
    /\ forwarder' = [forwarder EXCEPT ![w] = IF done THEN "stopping" ELSE "receiving"]
    /\ UNCHANGED <<events, received, ended, stopped, done, result, printer, taken, error>>

\* Mutant of GiveUp: the goroutine sends without looking at done.
NeverGiveUp(w) == FALSE /\ forwarder[w] = "sending" /\ UNCHANGED vars

\* ... or everything has been stopped.
GiveUp(w) ==
    /\ forwarder[w] = "sending" /\ done
    /\ forwarder' = [forwarder EXCEPT ![w] = "stopping"]
    /\ UNCHANGED <<events, received, ended, stopped, done, result, printer, taken, error>>

\* mergedWatch.Stop, once.
Stop == done' = TRUE /\ stopped' = IF done THEN stopped ELSE Watches

\* The deferred Stop of a goroutine: the end of one watch is that of all.
StopAll(w) ==
    /\ forwarder[w] = "stopping" /\ Stop
    /\ forwarder' = [forwarder EXCEPT ![w] = "returned"]
    /\ UNCHANGED <<events, received, ended, result, printer, taken, error>>

\* Mutant of CloseResult: the first goroutine that returns closes the channel.
CloseByFirst ==
    /\ result = "open" /\ \E w \in Watches : forwarder[w] = "returned"
    /\ result' = "closed"
    /\ UNCHANGED <<events, received, ended, stopped, forwarder, done, printer, taken, error>>

\* The goroutine that waits for the others.
CloseResult ==
    /\ result = "open" /\ \A w \in Watches : forwarder[w] = "returned"
    /\ result' = "closed"
    /\ UNCHANGED <<events, received, ended, stopped, forwarder, done, printer, taken, error>>

\* UntilWithoutRetry: an event is printed, or that fails.
PrintRow ==
    /\ printer = "printing"
    /\ \/ printer' = "receiving" /\ UNCHANGED error
       \/ printer' = "stopping" /\ error' = TRUE
    /\ UNCHANGED <<events, received, ended, stopped, forwarder, done, result, taken>>

Deadline ==
    /\ printer = "receiving" /\ printer' = "stopping" /\ error' = TRUE
    /\ UNCHANGED <<events, received, ended, stopped, forwarder, done, result, taken>>

ResultClosed ==
    /\ printer = "receiving" /\ result = "closed" /\ printer' = "stopping"
    /\ UNCHANGED <<events, received, ended, stopped, forwarder, done, result, taken, error>>

\* The deferred Stop of UntilWithoutRetry.
Return ==
    /\ printer = "stopping" /\ Stop /\ printer' = "ended"
    /\ UNCHANGED <<events, received, ended, forwarder, result, taken, error>>

Goroutine(w) == ReceiveEvent(w) \/ Closed(w) \/ Forward(w) \/ GiveUp(w) \/ StopAll(w)
Command == PrintRow \/ ResultClosed \/ Return \/ CloseResult

Next == Deadline \/ Command \/ \E w \in Watches : ServerCloses(w) \/ Goroutine(w)

----------------------------------------------------------------------------
(* What is said of it.                                                     *)

\* The events of a name are printed in their order, each once: with each of them
\* exactly those before it have been. If the watching ends by itself, some name's
\* watch was closed and all its events have been printed: what the merging drops
\* belongs to the others (get.go:404-446).
InOrder ==
    \A i \in DOMAIN taken : \A w \in Watches : taken[i][1] = w =>
        /\ taken[i][2] \in 1 .. events[w]
        /\ \A n \in 1 .. events[w] : n < taken[i][2] <=> \E j \in 1 .. i - 1 : taken[j] = <<w, n>>

AllTaken(w) == \A n \in 1 .. events[w] : <<w, n>> \in ToSet(taken)

EventsPrinted ==
    /\ InOrder
    /\ printer = "ended" /\ ~error => \E w \in ended : AllTaken(w)

\* The channel is closed when nobody can send to it any more: a send would panic.
NoSendAfterClose == result = "closed" => \A w \in Watches : forwarder[w] = "returned"

\* Once a watch is closed the command ends; once it has ended no goroutine is left.
WatchEnds ==
    /\ \A w \in Watches : (w \in ended) ~> (printer = "ended")
    /\ (printer = "ended") ~> (result = "closed" /\ \A w \in Watches : forwarder[w] = "returned")
=============================================================================

------------------------- MODULE ConcurrentCommands -------------------------
(***************************************************************************)
(* The commands that run goroutines of their own, or that others answer to *)
(* while they wait.  One of them is started; the variables of the others   *)
(* stay empty.                                                             *)
(***************************************************************************)
EXTENDS Integers, Sequences

CONSTANTS
    Plans, Clusters, Watches, MaxEvents, Invocations, Retries,
    MaxPods \* bound: pods that a cluster has

VARIABLES
    command,
    \* flux build kustomization, flux diff kustomization
    plan, inMemory, found, dirs, lock, at, action, made, worker, main, signalled, failed, seen, crossed,
    \* flux logs
    follow, pods, line, writer, pieces, pipe, copier, held, closed, shown, broken, expired, awaits, exit,
    \* flux get --watch
    events, received, ended, stopped, forwarder, done, result, printer, taken, error,
    \* flux trigger receiver
    invocation, retries, step, attempt, network, answer, registered, overdue, triggered, unanswered, outcome

Building == INSTANCE KustomizationBuild
Logging == INSTANCE PodLogs
Watching == INSTANCE MergedWatch
Triggering == INSTANCE TriggerReceiver

\* A plan begins with the command's own directory; a cluster has deployments, each
\* with its pods; get --watch has one watch per name, at least one.  The token of
\* a Receiver comes from its secret, in which it must not be empty; one of type
\* generic-oidc has no secret but an audience.
ASSUME ConcurrentAssumption ==
    /\ \A p \in Plans : p \in Seq(Building!Dirs) /\ p # <<>>
    /\ Clusters \subseteq Seq(Seq(Logging!Pod))
    /\ Watches # {} /\ MaxEvents \in Nat
    /\ Retries \subseteq Int
    /\ \A f \in Invocations :
          /\ f.receiver.type \in {"generic", "generic-hmac", Triggering!OIDC}
          /\ f.receiver.type # Triggering!OIDC => f.receiver.token # ""
          /\ f.receiver.type = Triggering!OIDC => f.receiver.audience # ""

building == <<plan, inMemory, found, dirs, lock, at, action, made, worker, main, signalled, failed, seen, crossed>>
logging == <<follow, pods, line, writer, pieces, pipe, copier, held, closed, shown, broken, expired, awaits, exit>>
watching == <<events, received, ended, stopped, forwarder, done, result, printer, taken, error>>
triggering == <<invocation, retries, step, attempt, network, answer, registered, overdue, triggered, unanswered, outcome>>
vars == <<command, building, logging, watching, triggering>>

NotBuilding ==
    /\ plan = <<>> /\ inMemory = FALSE /\ found = <<>> /\ dirs = <<>> /\ lock = "" /\ at = 0 /\ action = <<>>
    /\ made = "" /\ worker = "" /\ main = "" /\ signalled = FALSE /\ failed = FALSE /\ seen = ""
    /\ crossed = FALSE
NotLogging ==
    /\ follow = FALSE /\ pods = <<>> /\ line = <<>> /\ writer = <<>> /\ pieces = <<>> /\ pipe = <<>>
    /\ copier = <<>> /\ held = <<>> /\ closed = FALSE /\ shown = <<>> /\ broken = FALSE /\ expired = FALSE
    /\ awaits = "" /\ exit = ""
NotWatching ==
    /\ events = <<>> /\ received = <<>> /\ ended = {} /\ stopped = {} /\ forwarder = <<>> /\ done = FALSE
    /\ result = "" /\ printer = "" /\ taken = <<>> /\ error = FALSE
NotTriggering ==
    /\ invocation = <<>> /\ retries = 0 /\ step = "" /\ attempt = 0 /\ network = {} /\ answer = ""
    /\ registered = FALSE /\ overdue = FALSE /\ triggered = {} /\ unanswered = {} /\ outcome = ""

Init ==
    \/ command = "build" /\ Building!Init /\ NotLogging /\ NotWatching /\ NotTriggering
    \/ command = "logs" /\ NotBuilding /\ Logging!Init /\ NotWatching /\ NotTriggering
    \/ command = "watch" /\ NotBuilding /\ NotLogging /\ Watching!Init /\ NotTriggering
    \/ command = "trigger" /\ NotBuilding /\ NotLogging /\ NotWatching /\ Triggering!Init

In(c, A) == command = c /\ A /\ UNCHANGED command
OnlyBuilding == UNCHANGED <<logging, watching, triggering>>
OnlyLogging == UNCHANGED <<building, watching, triggering>>
OnlyWatching == UNCHANGED <<building, logging, triggering>>
OnlyTriggering == UNCHANGED <<building, logging, watching>>

Next ==
    \/ In("build", Building!Next /\ OnlyBuilding)
    \/ In("logs", Logging!Next /\ OnlyLogging)
    \/ In("watch", Watching!Next /\ OnlyWatching)
    \/ In("trigger", Triggering!Next /\ OnlyTriggering)

\* Every goroutine is scheduled, a mutex is given back, and a log that is followed
\* or a webhook that does not answer ends by the deadline; a user's interrupt and
\* the deadline of the watch, which end those commands at once, are not relied on.
Fairness ==
    /\ WF_vars(In("build", Building!Worker /\ OnlyBuilding))
    /\ WF_vars(In("build", Building!Main /\ OnlyBuilding))
    /\ WF_vars(In("logs", Logging!Close /\ OnlyLogging))
    /\ WF_vars(In("logs", Logging!Copiers /\ OnlyLogging))
    /\ \A i \in 1 .. MaxPods : WF_vars(In("logs", i \in DOMAIN pods /\ Logging!PodStep(i) /\ OnlyLogging))
    /\ WF_vars(In("watch", Watching!Command /\ OnlyWatching))
    /\ \A w \in Watches : WF_vars(In("watch", Watching!Goroutine(w) /\ OnlyWatching))
    /\ WF_vars(In("trigger", Triggering!Command /\ OnlyTriggering))
    /\ WF_vars(In("trigger", Triggering!DeadlinePasses /\ OnlyTriggering))

Spec == Init /\ [][Next]_vars /\ Fairness

----------------------------------------------------------------------------

\* The guarantees of each command are stated in its module.
TypeOK ==
    /\ command = "build" => Building!TypeOK
    /\ command = "logs" => Logging!TypeOK
    /\ command = "watch" => Watching!TypeOK
    /\ command = "trigger" => Triggering!TypeOK

\* Whatever order the goroutine and the command go in, a file of the user's is
\* there or saved beside its place, and a build that was not interrupted, or
\* whose Cancel has seen the action, leaves its directory as it was (build.go).
DirectoryRestored ==
    /\ TypeOK
    /\ command = "build" =>
          Building!UserFileKept /\ Building!LeavesNoTrace /\ Building!CancelRestores

\* Every entry of the pods' logs is shown once and in order, every pod whose log
\* could not be had is told of, before the deadline and after it, and nothing but
\* that and the lines that could not be read or written (logs.go).
LogsAreShown ==
    command = "logs" => Logging!EntriesShown /\ Logging!RefusalsTold /\ Logging!OthersTold

\* The events of the watches merged into one are printed once and in order, and
\* none is sent to the channel after it was closed (get.go).
EventsPrinted == command = "watch" => Watching!EventsPrinted /\ Watching!NoSendAfterClose

\* `flux trigger receiver` tells truly whether the receiver was triggered, sends
\* again what was not answered and nothing else, and does not fail as long as there
\* is an attempt left (trigger_receiver.go).
TriggeredTruly ==
    command = "trigger" =>
        Triggering!Triggered /\ Triggering!TriesHard /\ Triggering!OnlyWithCredentials

\* The commands end, and leave no goroutine waiting (liveness).
CommandsEnd ==
    /\ command = "build" => Building!Ends
    /\ command = "logs" => Logging!LogsEnd
    /\ command = "watch" => Watching!WatchEnds
    /\ command = "trigger" => Triggering!TriggerEnds
=============================================================================

--------------------------- MODULE TriggerReceiver ---------------------------
(***************************************************************************)
(* `flux trigger receiver`: one webhook is called until it has answered,   *)
(* over a network that loses requests and answers, at a receiver that may  *)
(* not be registered yet, be overloaded, or not accept the credentials.    *)
(*                                                                         *)
(* The path of the webhook is the token it is salted with, a signature the *)
(* token it is made with, a bearer token the audience it was issued for.   *)
(***************************************************************************)
EXTENDS Integers

CONSTANTS
    Invocations, \* flags and environment of the command, and the Receiver it is meant for
    Retries      \* values of --retries, which may be negative

VARIABLES
    invocation, \* [type, token, provider, oidcToken, audience, env, receiver]
    retries,    \* --retries
    step,       \* "resolve", "send", "wait", "pause" or "ended"
    attempt,    \* the number of the attempt, the first is 0
    network,    \* attempts whose requests have not been handled yet
    answer,     \* what the receiver has answered to the attempt, or "none"
    registered, \* the path of the webhook is known to notification-controller
    overdue,    \* the deadline of the command has passed
    triggered,  \* history: attempts that have triggered the receiver
    unanswered, \* history: attempts that ended without an answer, or with a busy one
    outcome     \* "running", "ok" or "err"
vars == <<invocation, retries, step, attempt, network, answer, registered, overdue,
          triggered, unanswered, outcome>>

----------------------------------------------------------------------------
(* The flags.                                                              *)

OIDC == "generic-oidc"
DefaultAudience == "notification-controller"

\* validateTriggerReceiverArgs
Valid(f) ==
    /\ f.type \in {"generic", "generic-hmac", OIDC}
    /\ f.type # OIDC => /\ f.token # ""
                        /\ f.provider = "" /\ f.oidcToken = "" /\ f.audience = ""
    /\ f.type = OIDC => /\ f.token = ""
                        /\ f.provider = "" \/ f.oidcToken = ""
                        /\ f.provider \in {"", "github", "forgejo"}
                        /\ f.audience # "" => f.provider # ""

\* resolveOIDCToken; "" when there is none.
OIDCToken(f) ==
    CASE f.provider # "" -> IF f.audience = "" THEN DefaultAudience ELSE f.audience
      [] f.provider = "" /\ f.oidcToken # "" -> f.oidcToken
      [] OTHER -> f.env

Request(f) ==
    [path |-> IF f.type = OIDC THEN "" ELSE f.token,
     signature |-> IF f.type = "generic-hmac" THEN f.token ELSE "",
     bearer |-> IF f.type = OIDC THEN OIDCToken(f) ELSE ""]

\* The webhook handler of notification-controller.
Known(r, request) == registered /\ request.path = IF r.type = OIDC THEN "" ELSE r.token
Accepted(r, request) ==
    /\ r.type = "generic-hmac" => request.signature = r.token
    /\ r.type = OIDC => request.bearer = r.audience

----------------------------------------------------------------------------

Init ==
    /\ invocation \in Invocations /\ retries \in Retries
    /\ step = "resolve" /\ attempt = 0 /\ network = {} /\ answer = "none"
    /\ registered \in BOOLEAN /\ overdue = FALSE
    /\ triggered = {} /\ unanswered = {} /\ outcome = "running"

Exit(result) == step' = "ended" /\ outcome' = result

\* The flags are validated and the token is fetched before anything is sent.
Resolve ==
    /\ step = "resolve"
    /\ \/ /\ Valid(invocation) /\ (invocation.type = OIDC => OIDCToken(invocation) # "")
          /\ step' = "send" /\ UNCHANGED outcome
       \/ /\ ~Valid(invocation) \/ (invocation.type = OIDC /\ OIDCToken(invocation) = "")
          /\ Exit("err")
    /\ UNCHANGED <<invocation, retries, attempt, network, answer, registered, overdue,
                   triggered, unanswered>>

\* The provider of the token does not answer, or not with one.
FetchFails ==
    /\ step = "resolve" /\ Valid(invocation) /\ invocation.provider # ""
    /\ Exit("err")
    /\ UNCHANGED <<invocation, retries, attempt, network, answer, registered, overdue,
                   triggered, unanswered>>

\* Mutant of LastAttempt: the first attempt counts as a retry.
LastAttemptTooEarly == attempt + 1 >= retries

LastAttempt == attempt >= retries

\* An attempt has failed for a reason that may pass.
Retryable ==
    /\ IF LastAttempt THEN Exit("err") ELSE step' = "pause" /\ UNCHANGED outcome
    /\ unanswered' = unanswered \cup {attempt}

\* After the deadline nothing is sent any more.
Send ==
    /\ step = "send"
    /\ IF overdue
         THEN Retryable /\ UNCHANGED network
         ELSE step' = "wait" /\ network' = network \cup {attempt} /\ UNCHANGED <<outcome, unanswered>>
    /\ answer' = "none"
    /\ UNCHANGED <<invocation, retries, attempt, registered, overdue, triggered>>

\* Mutant of RetryableAnswers: the path may be registered later, but is not waited for.
RetryableAnswersOnly5xx == {"busy"}

\* isRetryableStatus: "busy" stands for 408, 429 and 5xx.
RetryableAnswers == {"notFound", "busy"}

Receive ==
    /\ step = "wait" /\ answer # "none"
    /\ CASE answer = "ok" -> Exit("ok") /\ UNCHANGED unanswered
         [] answer \in RetryableAnswers -> Retryable
         [] OTHER -> Exit("err") /\ UNCHANGED unanswered
    /\ UNCHANGED <<invocation, retries, attempt, network, answer, registered, overdue, triggered>>

\* The connection breaks, or the deadline ends the request; an answer that is on
\* its way is lost.
ConnectionBreaks ==
    /\ step = "wait"
    /\ Retryable
    /\ UNCHANGED <<invocation, retries, attempt, network, answer, registered, overdue, triggered>>

\* The delay between two attempts, unless the deadline comes first; when both are
\* over either may be taken.
NextAttempt ==
    /\ step = "pause"
    /\ step' = "send" /\ attempt' = attempt + 1
    /\ UNCHANGED <<invocation, retries, network, answer, registered, overdue, triggered,
                   unanswered, outcome>>

GiveUp ==
    /\ step = "pause" /\ overdue
    /\ Exit("err")
    /\ UNCHANGED <<invocation, retries, attempt, network, answer, registered, overdue,
                   triggered, unanswered>>

----------------------------------------------------------------------------
(* The clock, the network and notification-controller, external.           *)

DeadlinePasses ==
    /\ ~overdue /\ outcome = "running"
    /\ overdue' = TRUE
    /\ UNCHANGED <<invocation, retries, step, attempt, network, answer, registered,
                   triggered, unanswered, outcome>>

\* A request is handled, also one that the command does not wait for any more; a
\* receiver that answers it is busy may have done a part of its work.
Handle(a) ==
    /\ a \in network
    /\ network' = network \ {a}
    /\ LET r == invocation.receiver
           request == Request(invocation)
       IN \E status \in IF ~Known(r, request) THEN {"notFound"}
                        ELSE IF ~Accepted(r, request) THEN {"refused"} ELSE {"ok", "busy"} :
             /\ answer' = IF step = "wait" /\ a = attempt THEN status ELSE answer
             /\ \/ status \in {"ok", "busy"} /\ triggered' = triggered \cup {a}
                \/ status # "ok" /\ UNCHANGED triggered
    /\ UNCHANGED <<invocation, retries, step, attempt, registered, overdue, unanswered, outcome>>

Lose(a) ==
    /\ a \in network
    /\ network' = network \ {a}
    /\ UNCHANGED <<invocation, retries, step, attempt, answer, registered, overdue,
                   triggered, unanswered, outcome>>

Register ==
    /\ registered' = ~registered
    /\ UNCHANGED <<invocation, retries, step, attempt, network, answer, overdue,
                   triggered, unanswered, outcome>>

Command == Resolve \/ Send \/ Receive \/ NextAttempt \/ GiveUp \/ (overdue /\ ConnectionBreaks)

Next ==
    \/ Command \/ FetchFails \/ ConnectionBreaks \/ DeadlinePasses \/ Register
    \/ \E a \in network : Handle(a) \/ Lose(a)

----------------------------------------------------------------------------

\* There is always one attempt.
Attempts == {0} \cup (0 .. retries)

TypeOK ==
    /\ invocation \in Invocations /\ retries \in Retries /\ attempt \in Attempts
    /\ step \in {"resolve", "send", "wait", "pause", "ended"}
    /\ answer \in {"none", "ok", "busy", "notFound", "refused"}
    /\ network \subseteq 0 .. attempt /\ registered \in BOOLEAN /\ overdue \in BOOLEAN
    /\ outcome \in {"running", "ok", "err"} /\ (step = "ended") = (outcome # "running")

\* The credentials are those of the receiver.
Fits ==
    LET r == invocation.receiver IN
    /\ invocation.type = r.type
    /\ r.type # OIDC => invocation.token = r.token
    /\ r.type = OIDC => OIDCToken(invocation) = r.audience

\* Success means that the receiver was triggered by the attempt that was answered,
\* and more than once only for answers that were lost or told it was busy.
Triggered ==
    /\ outcome = "ok" => attempt \in triggered
    /\ \A a \in triggered : a < attempt => a \in unanswered

\* A command with the right credentials fails only when all its attempts went
\* wrong, or the deadline or the provider of the token ended it.
TriesHard ==
    outcome = "err" /\ Valid(invocation) /\ Fits /\ invocation.provider = "" =>
        overdue \/ Attempts \subseteq unanswered

\* A receiver is not triggered with credentials that are not its own.
OnlyWithCredentials ==
    triggered # {} => \/ Fits
                      \/ invocation.receiver.type = "generic" /\ invocation.token = invocation.receiver.token

TriggerEnds == <>(outcome # "running")
=============================================================================

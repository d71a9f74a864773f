--------------------------- MODULE RequestService ---------------------------
(***************************************************************************)
(* What `flux reconcile` promises, without annotations, generations,       *)
(* conditions and polls: requests are numbered as they are made, the       *)
(* newest served one only grows, and a client nobody interfered with is    *)
(* told of success only when its request has been served.                  *)
(***************************************************************************)
EXTENDS Naturals

CONSTANT Clients

VARIABLES
    newest, \* the last request made
    served, \* the newest request that a finished reconciliation knew of
    asked,  \* client -> its request, 0 for none
    stage,  \* client -> "idle", "got" (about to ask), "polling" or "ok"
    clean   \* the clients that nobody interfered with
vars == <<newest, served, asked, stage, clean>>

Init ==
    /\ newest = 0 /\ served = 0 /\ clean = {}
    /\ asked = [c \in Clients |-> 0] /\ stage = [c \in Clients |-> "idle"]

Begin(c) ==
    /\ stage[c] = "idle"
    /\ stage' = [stage EXCEPT ![c] = "got"] /\ asked' = [asked EXCEPT ![c] = 0]
    /\ clean' \in {clean \cup {c}, clean \ {c}}
    /\ UNCHANGED <<newest, served>>

\* Requests are never shared: each gets the next number.
Ask(c) ==
    /\ stage[c] = "got"
    /\ newest' = newest + 1
    /\ stage' = [stage EXCEPT ![c] = "polling"] /\ asked' = [asked EXCEPT ![c] = newest + 1]
    /\ clean' \subseteq clean
    /\ UNCHANGED served

\* Success; there is nothing to ask of an object without a reconciler.
Answer(c) ==
    /\ stage[c] = "polling" \/ (stage[c] = "idle" /\ asked[c] = 0)
    /\ c \in clean => served >= asked[c]
    /\ stage' = [stage EXCEPT ![c] = "ok"]
    /\ UNCHANGED <<newest, served, asked, clean>>

\* The client fails, or is started again.
Reset(c) ==
    /\ stage' = [stage EXCEPT ![c] = "idle"] /\ asked' = [asked EXCEPT ![c] = 0]
    /\ clean' = clean \ {c}
    /\ UNCHANGED <<newest, served>>

Serve ==
    /\ served' \in served .. newest
    /\ UNCHANGED <<newest, asked, stage, clean>>

Interfere ==
    /\ clean' \subseteq clean
    /\ UNCHANGED <<newest, served, asked, stage>>

Next == Serve \/ Interfere \/ \E c \in Clients : Begin(c) \/ Ask(c) \/ Answer(c) \/ Reset(c)

Spec == Init /\ [][Next]_vars
=============================================================================

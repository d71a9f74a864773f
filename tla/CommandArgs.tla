---------------------------- MODULE CommandArgs ----------------------------
(***************************************************************************)
(* Operators the modules of the commands' arguments share.                 *)
(*                                                                         *)
(* Flags are records, unset ones "", FALSE or <<>>.  A text that is taken  *)
(* apart is the sequence of its parts: <<".", "deploy">> is ./deploy, and  *)
(* <<<<"Deployment">>, <<"app", "prod">>>> is Deployment/app.prod.         *)
(***************************************************************************)
EXTENDS Naturals, Sequences, SequencesExt, FiniteSets, TLC

Nothing == <<>>

\* The field k of a spec that is there only when the flag v is set.
Given(k, v) == IF v = "" THEN Nothing ELSE k :> v
GivenSeq(k, v) == IF v = <<>> THEN Nothing ELSE k :> v

\* Results: an error, or what is exported, and what is applied and awaited.
Refused == [ok |-> FALSE]
Outcome(exported, secret, applied, ready, artifact) ==
    [ok |-> TRUE, exported |-> exported, secret |-> secret, applied |-> applied,
     ready |-> ready, artifact |-> artifact]
Checked(refused, outcome) == IF refused THEN Refused ELSE outcome
Plain(spec, ready, artifact) == Outcome(spec, Nothing, spec, ready, artifact)

----------------------------------------------------------------------------
(* Arguments that several commands share.                                  *)

\* parseLabels: key=value with one equals sign, a qualified name and a value.
LabelValid(l) == Len(l) = 2 /\ l[1] # ""
LabelsValid(labels) == \A i \in DOMAIN labels : LabelValid(labels[i])
ParseLabels(labels) ==
    [k \in {labels[i][1] : i \in DOMAIN labels} |->
        Last(SelectSeq(labels, LAMBDA l : l[1] = k))[2]]

\* kind/name; the kind is empty when there is not one slash.
ParseObjectKindName(input) ==
    IF Len(input) = 2 THEN [kind |-> input[1], name |-> input[2]]
                      ELSE [kind |-> Nothing, name |-> Last(input)]

\* kind/name.namespace: the namespace is what follows the last dot.
ParseObjectKindNameNamespace(input) ==
    LET r == ParseObjectKindName(input) IN
    IF Len(r.name) > 1 THEN [kind |-> r.kind, name |-> Front(r.name), namespace |-> Last(r.name)]
                       ELSE [kind |-> r.kind, name |-> r.name, namespace |-> ""]
=============================================================================

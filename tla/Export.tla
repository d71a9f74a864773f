------------------------------- MODULE Export -------------------------------
(***************************************************************************)
(* `flux export`: objects as manifests, and with --with-credentials the    *)
(* secrets they refer to.                                                  *)
(*                                                                         *)
(* A cluster has objects, a sequence of [name, fields], and secrets, the   *)
(* names of those that can be read.  An object's fields are a function:    *)
(* what is not set is not in its domain.                                   *)
(***************************************************************************)
EXTENDS Naturals, Sequences, SequencesExt, FiniteSets, TLC, Get

Names(cluster) == {o.name : o \in ToSet(cluster.objects)}
Stored(cluster, name) == (CHOOSE o \in ToSet(cluster.objects) : o.name = name).fields

\* Get decodes an object into the one it is given: what the object does not have
\* is left as it was.
Decode(buffer, fields) == fields @@ buffer

\* Mutant of ResetObject: the fields of the object before stay.
KeepObject(buffer) == buffer

\* resetObject: the zero value.
ResetObject(buffer) == <<>>

Document(kind, name, fields) == [kind |-> kind, name |-> name, fields |-> fields]

\* The secret of an object, if it has one that was not printed yet: its document,
\* or an error.
PrintSecret(cluster, acc, fields, f) ==
    IF ~f.credentials \/ "secretRef" \notin DOMAIN fields THEN acc
    ELSE IF fields["secretRef"] \in acc.printed THEN acc
    ELSE IF fields["secretRef"] \notin cluster.secrets THEN [acc EXCEPT !.failed = @ + 1]
    ELSE [acc EXCEPT !.printed = @ \cup {fields["secretRef"]},
                     !.out = Append(@, Document("Secret", fields["secretRef"], <<>>))]

Start == [buffer |-> <<>>, out |-> <<>>, printed |-> {}, failed |-> 0]

\* exportNames with run's function: a failure is reported, and the next name tried.
ExportNames(cluster, f, names) ==
    LET step(acc, n) ==
            LET fields == Decode(ResetObject(acc.buffer), Stored(cluster, n))
            IN IF n \notin Names(cluster)
               THEN [acc EXCEPT !.failed = @ + 1, !.buffer = ResetObject(@)]
               ELSE PrintSecret(cluster, [acc EXCEPT !.buffer = fields,
                                  !.out = Append(@, Document("Object", n, fields))], fields, f)
    IN FoldLeft(step, Start, names)

\* --all: the first error ends the command.
ExportEvery(cluster, f) ==
    LET step(acc, o) ==
            IF acc.failed > 0 THEN acc
            ELSE PrintSecret(cluster, [acc EXCEPT !.out = Append(@, Document("Object", o.name, o.fields))],
                             o.fields, f)
    IN FoldLeft(step, Start, cluster.objects)

\* exportCommand.run and exportWithSecretCommand.run
ExportCommand(cluster, f) ==
    LET r == IF f.all THEN ExportEvery(cluster, f) ELSE ExportNames(cluster, f, UniqueNames(f.names))
        refused == IF f.all THEN cluster.objects = <<>> ELSE f.names = <<>>
    IN IF refused THEN [ok |-> FALSE, out |-> <<>>] ELSE [ok |-> r.failed = 0, out |-> r.out]

----------------------------------------------------------------------------
(* What is said of an export.                                              *)

Wanted(cluster, f) == IF f.all THEN Names(cluster) ELSE ToSet(f.names)
SecretOf(cluster, n) ==
    {Stored(cluster, n)[k] : k \in {"secretRef"} \cap DOMAIN Stored(cluster, n)}

\* Each document is an object that was asked for, as it is stored, or the secret
\* of one, and none is printed twice; names are exported whatever happens to
\* others, and success means that everything is there.
ExportIsTrue(cluster, f, r) ==
    LET wanted == Wanted(cluster, f) \cap Names(cluster)
        objects == {Document("Object", n, Stored(cluster, n)) : n \in wanted}
        secrets == {Document("Secret", s, <<>>) :
                      s \in IF f.credentials THEN UNION {SecretOf(cluster, n) : n \in wanted} ELSE {}}
    IN /\ IsInjective(r.out)
       /\ ToSet(r.out) \subseteq objects \cup secrets
       /\ ~f.all => objects \subseteq ToSet(r.out)
       /\ r.ok => ToSet(r.out) = objects \cup secrets /\ Wanted(cluster, f) \subseteq Names(cluster)
       /\ \A s \in secrets \cap ToSet(r.out) : s.name \in cluster.secrets
=============================================================================

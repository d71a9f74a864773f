------------------------------- MODULE Events -------------------------------
(***************************************************************************)
(* `flux events`: the events of Flux's objects, or of one object and of    *)
(* those it refers to.                                                     *)
(*                                                                         *)
(* objects maps <<kind, namespace, name>> to the references of the object, *)
(* a reference being [kind, namespace, name] with an empty namespace when  *)
(* it names none; events is the sequence in which the API server lists     *)
(* them, an event having the key of its object, a type and its times.      *)
(***************************************************************************)
EXTENDS Naturals, Sequences, SequencesExt, FiniteSets

CurrentNamespace == "flux"

\* fluxKindMap: kinds without references, with one in a field of the spec, whose
\* kind may be fixed and whose namespace may be looked at, and HelmRelease.
FluxKindMap ==
    [Kustomization |-> [refs |-> "field", kind |-> "", cross |-> TRUE],
     HelmRelease |-> [refs |-> "helm", kind |-> "", cross |-> FALSE],
     Alert |-> [refs |-> "field", kind |-> "Provider", cross |-> FALSE],
     ImagePolicy |-> [refs |-> "field", kind |-> "ImageRepository", cross |-> TRUE],
     Provider |-> [refs |-> "none", kind |-> "", cross |-> FALSE],
     ImageRepository |-> [refs |-> "none", kind |-> "", cross |-> FALSE],
     GitRepository |-> [refs |-> "none", kind |-> "", cross |-> FALSE],
     HelmRepository |-> [refs |-> "none", kind |-> "", cross |-> FALSE],
     HelmChart |-> [refs |-> "field", kind |-> "", cross |-> TRUE]]

HasKind(kind) == kind \in DOMAIN FluxKindMap

Key(ref, namespace) ==
    <<ref.kind, IF ref.namespace = "" THEN namespace ELSE ref.namespace, ref.name>>

\* getHelmReleaseRefs: the chart it refers to, or the source of its template and
\* the chart the controller generates.
GetHelmReleaseRefs(hr, namespace) ==
    (IF hr.chartRef # <<>> THEN <<Key(hr.chartRef[1], namespace)>> ELSE <<>>)
    \o (IF hr.template = <<>> THEN <<>>
        ELSE [i \in DOMAIN hr.source |-> Key(hr.source[i], namespace)]
             \o <<Key(hr.template[1], namespace)>>)

\* Mutant of RefNamespace: references stay in the namespace.
RefNamespaceHere(info, ref) == CurrentNamespace

RefNamespace(info, ref) ==
    IF info.cross /\ ref.namespace # "" THEN ref.namespace ELSE CurrentNamespace

\* getObjectRef: the keys an object refers to; an error is {} instead of a sequence
\* in a set.
GetObjectRef(objects, kind, name) ==
    LET info == FluxKindMap[kind]
        key == <<kind, CurrentNamespace, name>>
        o == objects[key]
        refKind == IF info.kind = "" THEN o.ref.kind ELSE info.kind
    IN IF info.refs = "none" THEN {<<>>}
       ELSE IF key \notin DOMAIN objects THEN {}
       ELSE IF info.refs = "helm" THEN {GetHelmReleaseRefs(o, CurrentNamespace)}
       ELSE {<< <<refKind, RefNamespace(info, o.ref), o.ref.name>> >>}

\* The time an event is sorted by: what is not set is 0.
EventTime(e) == IF e.series # 0 THEN e.series ELSE IF e.last # 0 THEN e.last ELSE e.time

IgnoreEvent(e, types) == ~HasKind(e.object[1]) \/ (types # {} /\ e.type \notin types)

\* kind and name of --for; no name asks for the whole kind.
Selected(events, f) ==
    SelectSeq(events, LAMBDA e :
        /\ f.allNamespaces \/ e.object[2] = CurrentNamespace
        /\ f.kind # "" => e.object[1] = f.kind
        /\ f.name # "" => e.object[3] = f.name)

OfObject(events, key) == SelectSeq(events, LAMBDA e : e.object = key)

\* getRows: one List for the selection and one for each reference, sorted.
GetRows(events, f, refs) ==
    LET listed == Selected(events, f)
                  \o FlattenSeq([i \in DOMAIN refs |-> OfObject(events, refs[i])])
        sorted == SortSeq(listed, LAMBDA a, b : EventTime(a) < EventTime(b))
    IN SelectSeq(sorted, LAMBDA e : ~IgnoreEvent(e, f.types))

\* eventsCmdRun: the rows, and whether they show their namespaces.
ListEvents(objects, events, f) ==
    LET refs == IF f.name = "" THEN {<<>>} ELSE GetObjectRef(objects, f.kind, f.name)
        keys == CHOOSE r \in refs : TRUE
        elsewhere == \E i \in DOMAIN keys : keys[i][2] # CurrentNamespace
    IN IF f.kind # "" /\ ~HasKind(f.kind) THEN [ok |-> FALSE]
       ELSE IF refs = {} THEN [ok |-> FALSE]
       ELSE [ok |-> TRUE, rows |-> GetRows(events, f, keys),
             showNamespace |-> f.allNamespaces \/ elsewhere]

----------------------------------------------------------------------------
(* What is said of the rows.                                               *)

\* The objects that a Flux object names in its spec, whatever the command knows
\* of its kind: the namespace is the object's unless the reference has one.
RefersTo(objects, key) ==
    LET o == objects[key]
        refs == IF key[1] = "HelmRelease"
                THEN ToSet(o.chartRef) \cup ToSet(o.source) \cup ToSet(o.template)
                ELSE IF "ref" \in DOMAIN o THEN {o.ref} ELSE {}
    IN {Key(r, key[2]) : r \in refs}

\* The events of the objects asked for and, for one object, of what it refers to.
Expected(objects, events, f) ==
    LET key == <<f.kind, CurrentNamespace, f.name>>
        wanted(e) ==
            \/ /\ f.allNamespaces \/ e.object[2] = CurrentNamespace
               /\ f.kind \in {"", e.object[1]} /\ f.name \in {"", e.object[3]}
            \/ f.name # "" /\ key \in DOMAIN objects /\ e.object \in RefersTo(objects, key)
    IN {e \in ToSet(events) : wanted(e) /\ HasKind(e.object[1])
                              /\ (f.types = {} \/ e.type \in f.types)}

\* The rows are those events, each once and in their order in time, and no row of
\* another namespace is shown without it.
EventsAreTrue(objects, events, f, r) ==
    /\ ToSet(r.rows) = Expected(objects, events, f)
    /\ IsInjective(r.rows)
    /\ \A i, j \in DOMAIN r.rows : i < j => EventTime(r.rows[i]) <= EventTime(r.rows[j])
    /\ r.showNamespace \/ \A i \in DOMAIN r.rows : r.rows[i].object[2] = CurrentNamespace
=============================================================================

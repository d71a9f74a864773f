------------------------------- MODULE Trace -------------------------------
(***************************************************************************)
(* `flux trace`: from an object up its owners to the Kustomization or      *)
(* HelmRelease that manages it, and from there to the sources.             *)
(*                                                                         *)
(* A cluster maps the keys of its objects, <<kind, namespace, name>>, to   *)
(* records: managers (group -> key, from the labels), owners (kinds and    *)
(* names, in order), ready ("True", "False" or "none") and, by the kind,   *)
(* references.  What is not in its domain does not exist.                  *)
(***************************************************************************)
EXTENDS Naturals, Sequences, SequencesExt, FiniteSets, TLC

NotManaged == <<>>

\* isManagedByFlux: the labels of the object, the namespace possibly missing.
IsManagedByFlux(o, group) == IF group \in DOMAIN o.managers THEN o.managers[group] ELSE NotManaged

OwnerKey(key, ref) == <<ref.kind, key[2], ref.name>>

\* Mutant of Decides: an owner that is no manager ends the search.
DecidesAtOnce(cluster, key, ref, group) == TRUE

\* The first owner that is missing, managed or owned itself decides.
Decides(cluster, key, ref, group) ==
    LET k == OwnerKey(key, ref) IN
    \/ k \notin DOMAIN cluster
    \/ IsManagedByFlux(cluster[k], group) # NotManaged
    \/ cluster[k].owners # <<>>

RECURSIVE IsOwnerManagedByFlux(_, _, _)
IsOwnerManagedByFlux(cluster, key, group) ==
    LET owners == cluster[key].owners
        own == IsManagedByFlux(cluster[key], group)
        deciding == {i \in DOMAIN owners : Decides(cluster, key, owners[i], group)}
        owner == OwnerKey(key, owners[CHOOSE i \in deciding : \A j \in deciding : i <= j])
    IN IF own # NotManaged THEN own
       ELSE IF deciding = {} \/ owner \notin DOMAIN cluster THEN NotManaged
       ELSE IsOwnerManagedByFlux(cluster, owner, group)

----------------------------------------------------------------------------
(* Reports: the sections in the order they are printed, or an error.       *)

Failed == [ok |-> FALSE, sections |-> <<>>]
Report(sections) == [ok |-> TRUE, sections |-> sections]

\* What a section says of its object; only some kinds tell a failure.
TellsFailure == {"GitRepository", "OCIRepository", "ExternalArtifact"}
Section(cluster, key) ==
    [object |-> key,
     status |-> CASE cluster[key].ready = "none" -> "Unknown"
                  [] cluster[key].ready = "False" /\ key[1] \in TellsFailure -> "failed"
                  [] OTHER -> "reconciled"]

\* A reference is resolved in the namespace of its owner unless it names one.
Resolve(ref, namespace) ==
    <<ref.kind, IF ref.namespace = "" THEN namespace ELSE ref.namespace, ref.name>>

\* A source that cannot be shown: it is missing, or an artifact of nothing.
Unusable(cluster, key) ==
    \/ key \notin DOMAIN cluster
    \/ key[1] = "ExternalArtifact" /\ ~cluster[key].hasSource

TraceKustomization(cluster, key) ==
    LET ks == cluster[key]
        source == Resolve(ks.sourceRef, key[2])
        shown == source[1] \in {"GitRepository", "OCIRepository", "ExternalArtifact"}
    IN IF key \notin DOMAIN cluster THEN Failed
       ELSE IF ~shown THEN Report(<<Section(cluster, key)>>)
       ELSE IF Unusable(cluster, source) THEN Failed
       ELSE Report(<<Section(cluster, key), Section(cluster, source)>>)

\* What a HelmRelease is made from: the source of its chart template, which may
\* be one the controller has generated, or else the one its chart reference names.
HelmSource(hr, namespace) ==
    LET refs == IF hr.chart # <<>> THEN hr.chart ELSE hr.chartRef
        kinds == IF hr.chart # <<>> THEN {"GitRepository", "HelmRepository", "OCIRepository"}
                                    ELSE {"OCIRepository", "ExternalArtifact"}
    IN SelectSeq([i \in DOMAIN refs |-> Resolve(refs[i], namespace)], LAMBDA k : k[1] \in kinds)

\* The HelmChart comes from the status, its form namespace/name permitting.
TraceHelm(cluster, key) ==
    LET hr == cluster[key]
        charts == IF hr.helmChart # <<>> THEN <<<<"HelmChart", hr.helmChart[1], hr.helmChart[2]>>>> ELSE <<>>
        objects == charts \o HelmSource(hr, key[2])
    IN IF key \notin DOMAIN cluster THEN Failed
       ELSE IF \E i \in DOMAIN objects : Unusable(cluster, objects[i]) THEN Failed
       ELSE Report(<<Section(cluster, key)>>
                   \o [i \in DOMAIN objects |-> Section(cluster, objects[i])])

\* traceObject: a Kustomization is looked for before a HelmRelease.
TraceObject(cluster, key) ==
    LET ks == IsOwnerManagedByFlux(cluster, key, "kustomize")
        hr == IsOwnerManagedByFlux(cluster, key, "helm")
    IN IF ks # NotManaged THEN TraceKustomization(cluster, ks)
       ELSE IF hr # NotManaged THEN TraceHelm(cluster, hr)
       ELSE Failed

\* traceObjects: a failure of one object is printed and the next one traced.
TraceObjects(cluster, keys) == [i \in DOMAIN keys |-> TraceObject(cluster, keys[i])]

----------------------------------------------------------------------------
(* What is said of a trace.                                                *)

\* The object and its owners, owners of owners and so on.
RECURSIVE Lineage(_, _)
Lineage(cluster, keys) ==
    LET owners == {OwnerKey(k, r) : <<k, r>> \in
                     {<<k, r>> \in keys \X UNION {ToSet(cluster[k].owners) : k \in keys} :
                        r \in ToSet(cluster[k].owners)}} \cap DOMAIN cluster
    IN IF owners \subseteq keys THEN keys ELSE Lineage(cluster, keys \cup owners)

Managed(cluster, k, group) == IsManagedByFlux(cluster[k], group) # NotManaged

\* Every object of the lineage exists and has one owner at most.
Linear(cluster, key) ==
    \A k \in Lineage(cluster, {key}) :
        /\ Len(cluster[k].owners) <= 1
        /\ \A i \in DOMAIN cluster[k].owners : OwnerKey(k, cluster[k].owners[i]) \in DOMAIN cluster

\* The object of a lineage without forks that has a manager and is the nearest: all
\* the others that have one are among its owners, owners of owners and so on.
Nearest(cluster, key, group) ==
    LET managed == {k \in Lineage(cluster, {key}) : Managed(cluster, k, group)}
    IN {k \in managed : managed \subseteq Lineage(cluster, {k})}

\* The owners that may have a say where a lineage forks: those listed in front of
\* one are there, have no manager and no owner.
HaveASay(cluster, key, group) ==
    LET owner(i) == OwnerKey(key, cluster[key].owners[i]) IN
    {owner(i) : i \in {i \in DOMAIN cluster[key].owners : \A j \in 1..(i - 1) :
        /\ owner(j) \in DOMAIN cluster
        /\ ~Managed(cluster, owner(j), group) /\ cluster[owner(j)].owners = <<>>}}

\* The object and the owners that have a say, up to those with a manager.
RECURSIVE Asked(_, _, _)
Asked(cluster, keys, group) ==
    LET more == UNION {HaveASay(cluster, k, group) :
                         k \in {k \in keys : ~Managed(cluster, k, group)}} \cap DOMAIN cluster
    IN IF more \subseteq keys THEN keys ELSE Asked(cluster, keys \cup more, group)

ManagersOf(cluster, keys, group) ==
    {IsManagedByFlux(cluster[k], group) : k \in keys} \ {NotManaged}

\* All the owners exist, and nothing owns them.
OwnersAtTheTop(cluster, key) ==
    \A i \in DOMAIN cluster[key].owners :
        LET k == OwnerKey(key, cluster[key].owners[i])
        IN k \in DOMAIN cluster /\ cluster[k].owners = <<>>

\* The manager that is found is that of the nearest object that has one.  Where
\* owners fork it is that of the line the first owner with a say is on, the only one
\* asked; and the manager of an owner at the top is never missed.
FindsManager(cluster, key, group) ==
    LET found == {IsOwnerManagedByFlux(cluster, key, group)} \ {NotManaged}
        all == Lineage(cluster, {key})
    IN /\ found = ManagersOf(cluster, Asked(cluster, {key}, group), group)
       /\ Linear(cluster, key) => found = ManagersOf(cluster, Nearest(cluster, key, group), group)
       /\ OwnersAtTheTop(cluster, key) /\ found = {} => ManagersOf(cluster, all, group) = {}

\* A report starts at the Kustomization that was found, else at the HelmRelease, and
\* names objects that exist.
ReportIsReal(cluster, key, r) ==
    LET ks == ManagersOf(cluster, Asked(cluster, {key}, "kustomize"), "kustomize")
        hr == ManagersOf(cluster, Asked(cluster, {key}, "helm"), "helm")
    IN /\ \A i \in DOMAIN r.sections : r.sections[i].object \in DOMAIN cluster
       /\ {r.sections[1].object} = IF ks # {} THEN ks ELSE hr
=============================================================================

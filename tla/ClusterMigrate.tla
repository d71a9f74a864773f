--------------------------- MODULE ClusterMigrate ---------------------------
(***************************************************************************)
(* `flux migrate` on a cluster: for every Flux CRD the custom resources    *)
(* are written again, so that the API server stores them in the storage    *)
(* version of the CRD, and the other versions are then dropped from        *)
(* status.storedVersions.  Dropping a version in which a resource is still *)
(* stored would let a later upgrade of the CRD remove it and make the      *)
(* resource unreadable.                                                    *)
(*                                                                         *)
(* Users create, change and delete resources and an upgrade of Flux moves  *)
(* the storage version on while the command, which may be killed and run   *)
(* again, is at work.  The API server stores what is written to it in the  *)
(* storage version the CRD has at that moment.                             *)
(***************************************************************************)
EXTENDS MigrationPromise, TLC

Versions == 1..MaxVersion

VARIABLES
    todo,      \* the CRDs left
    read,      \* the CRD as it was read
    items,     \* the listed resources left to be patched
    attempts   \* attempts at the resources of the CRD so far

command == <<step, todo, read, items, attempts, upgraded>>
vars == <<crd, resource, command>>

Init ==
    /\ crd = [c \in Crds |-> [storage |-> 1, stored |-> {1}]]
    /\ resource \in [Crds -> [Resources -> {0, 1}]]
    /\ step = "list" /\ todo = <<>> /\ items = {} /\ attempts = 0
    /\ read = [storage |-> 1, stored |-> {1}]
    /\ upgraded = {}

----------------------------------------------------------------------------
(* The command.                                                            *)

Crd == Head(todo)

\* Run lists the CRDs; a cluster without Flux has none.
ListCrds ==
    /\ step = "list"
    /\ todo' = CrdOrder
    /\ upgraded' = {}
    /\ step' = IF CrdOrder = <<>> THEN "ok" ELSE "get"
    /\ UNCHANGED <<crd, resource, read, items, attempts>>

\* migrateCRD reads the CRD again; the version, the storedVersions and the
\* resource version of its update come from this copy.
GetCrd ==
    /\ step = "get"
    /\ read' = crd[Crd]
    /\ attempts' = 0
    /\ step' = "cr"
    /\ UNCHANGED <<crd, resource, todo, items, upgraded>>

\* migrateCR lists the resources.
ListResources ==
    /\ step = "cr"
    /\ items' = {r \in Resources : resource[Crd][r] # 0}
    /\ attempts' = attempts + 1
    /\ step' = IF items' = {} THEN "status" ELSE "patch"
    /\ UNCHANGED <<crd, resource, todo, read, upgraded>>

\* Mutant of Migrated: only resources whose managed fields name another version
\* are written.
MigratedNot(c, r) == resource[c][r]

\* The version a resource is stored in after it was patched: a patch of the
\* managed fields, or an empty one.  One that is gone stays gone.
Migrated(c, r) == IF resource[c][r] = 0 THEN 0 ELSE crd[c].storage

Patch ==
    /\ step = "patch"
    /\ \E r \in items :
          /\ resource' = [resource EXCEPT ![Crd][r] = Migrated(Crd, r)]
          /\ items' = items \ {r}
    /\ step' = IF items' = {} THEN "status" ELSE "patch"
    /\ UNCHANGED <<crd, todo, read, attempts, upgraded>>

MoreAttempts == attempts < MaxAttempts

\* The resource was written since it was listed: all of them are listed again.
Conflict ==
    /\ step = "patch"
    /\ step' = IF MoreAttempts THEN "cr" ELSE "err"
    /\ items' = {}
    /\ UNCHANGED <<crd, resource, todo, read, attempts, upgraded>>

\* Mutant of OtherVersions: a CRD is done when its storage version is listed.
OtherVersionsMissing(c) == c.storage \notin c.stored

OtherVersions(c) == c.stored # {c.storage}

\* Mutant of Unchanged: the update is sent without a resource version.
UnchangedAlways(c) == TRUE

\* The resource version of the CRD is still the one that was read.
Unchanged(c) == crd[c] = read

\* The other versions are dropped from the status, if there are any.  A CRD
\* that was changed since it was read makes the update fail.
UpdateStatus ==
    /\ step = "status"
    /\ OtherVersions(read) => Unchanged(Crd)
    /\ crd' = IF OtherVersions(read) THEN [crd EXCEPT ![Crd].stored = {read.storage}] ELSE crd
    /\ todo' = Tail(todo)
    /\ step' = IF todo' = <<>> THEN "ok" ELSE "get"
    /\ UNCHANGED <<resource, read, items, attempts, upgraded>>

\* A call fails, or the command is killed.
Fails ==
    /\ step \notin {"ok", "err"}
    /\ step' = "err" /\ items' = {} /\ todo' = <<>>
    /\ UNCHANGED <<crd, resource, read, attempts, upgraded>>

\* The command is run again.
Again ==
    /\ step \in {"ok", "err"}
    /\ step' = "list" /\ items' = {} /\ todo' = <<>> /\ attempts' = 0
    /\ UNCHANGED <<crd, resource, read, upgraded>>

----------------------------------------------------------------------------
(* The API server and its other clients, external.                         *)

Write(c, r) ==
    /\ resource' = [resource EXCEPT ![c][r] = crd[c].storage]
    /\ UNCHANGED <<crd, command>>

Delete(c, r) ==
    /\ resource[c][r] # 0
    /\ resource' = [resource EXCEPT ![c][r] = 0]
    /\ UNCHANGED <<crd, command>>

\* A new version of the CRD is applied: its storage version moves on and is
\* added to storedVersions.
Upgrade(c) ==
    /\ crd[c].storage < MaxVersion
    /\ LET new == crd[c].storage + 1
       IN  crd' = [crd EXCEPT ![c] = [storage |-> new, stored |-> @.stored \cup {new}]]
    /\ upgraded' = upgraded \cup {c}
    /\ UNCHANGED <<resource, step, todo, read, items, attempts>>

Next ==
    \/ ListCrds \/ GetCrd \/ ListResources \/ Patch \/ Conflict \/ UpdateStatus
    \/ Fails \/ Again
    \/ \E c \in Crds : \/ Upgrade(c)
                       \/ \E r \in Resources : Write(c, r) \/ Delete(c, r)

Spec == Init /\ [][Next]_vars

----------------------------------------------------------------------------
(* Properties.                                                             *)

CrdType == [storage : Versions, stored : SUBSET Versions]

\* Type invariant; the retries of a CRD are counted from its own first attempt.
TypeOK ==
    /\ crd \in [Crds -> CrdType] /\ read \in CrdType
    /\ resource \in [Crds -> [Resources -> 0..MaxVersion]]
    /\ step \in {"list", "get", "cr", "patch", "status", "ok", "err"}
    /\ todo \in Seq(Crds) /\ items \subseteq Resources
    /\ attempts \in 0..MaxAttempts
    /\ upgraded \subseteq Crds

\* Two CRDs, and resources that are interchangeable (for TLC).
TwoCrds == <<"gitrepositories", "kustomizations">>
Symmetry == Permutations(Resources)
=============================================================================

-------------------------------- MODULE Tree --------------------------------
(***************************************************************************)
(* `flux tree`: the inventory of a Kustomization, with the inventories of  *)
(* the Kustomizations and the objects of the HelmReleases in it.           *)
(*                                                                         *)
(* A cluster maps keys <<kind, name>> to records.  A Kustomization has an  *)
(* inventory and may be applied to a remote cluster; of a HelmRelease the  *)
(* stored release is "none", "gone", "broken" or "there".  A tree is the   *)
(* sequence of its lines, each with its depth.                             *)
(***************************************************************************)
EXTENDS Naturals, Sequences, SequencesExt, FiniteSets

FluxKinds == {"Kustomization", "HelmRelease", "GitRepository"}
IsFlux(key) == key[1] \in FluxKinds

Line(depth, key) == [depth |-> depth, key |-> key]
Error == [ok |-> FALSE, lines |-> <<>>]
Lines(s) == [ok |-> TRUE, lines |-> s]

\* Definitions that a release's hooks have installed, found by their labels, are
\* added to those of its manifest.
CRDsOf(hr) ==
    IF ~hr.handlesCRDs THEN <<>>
    ELSE SelectSeq(hr.labelledCRDs, LAMBDA k : k \notin ToSet(hr.manifest))

\* getHelmReleaseInventory: a release that is remote, or not stored, has none.
GetHelmReleaseInventory(cluster, key) ==
    IF key \notin DOMAIN cluster THEN Error
    ELSE LET hr == cluster[key] IN
         IF hr.remote \/ hr.stored \in {"none", "gone"} THEN Lines(<<>>)
         ELSE IF hr.stored = "broken" THEN Error
         ELSE Lines(hr.manifest \o CRDsOf(hr))

\* The command's deadline ends a recursion that does not end by itself: Deadline
\* is a bound on the depth it reaches.
Deadline == 6

\* Mutant of Expands: the inventory of any Kustomization is looked up.
ExpandsAll(item, key) == key[1] = "Kustomization"

\* A Kustomization that the one above applies here, not to a remote cluster.
Expands(item, key) == key[1] = "Kustomization" /\ ~item.remote

\* treeKustomization: the lines below a Kustomization, or the first error.
RECURSIVE TreeKustomization(_, _, _, _)
TreeKustomization(cluster, self, compact, depth) ==
    LET item == cluster[self]
        shown(key) == ~compact \/ IsFlux(key)
        below(key) ==
            IF key[1] = "HelmRelease"
            THEN LET r == GetHelmReleaseInventory(cluster, key)
                     kept == SelectSeq(r.lines, shown)
                 IN IF r.ok THEN Lines([i \in DOMAIN kept |-> Line(depth + 1, kept[i])]) ELSE Error
            ELSE IF Expands(item, key)
            THEN IF key \notin DOMAIN cluster \/ depth = Deadline THEN Error
                 ELSE TreeKustomization(cluster, key, compact, depth + 1)
            ELSE Lines(<<>>)
        add(acc, key) ==
            IF ~acc.ok \/ ~shown(key) \/ key = self THEN acc
            ELSE LET b == below(key) IN
                 IF b.ok THEN Lines(acc.lines \o <<Line(depth, key)>> \o b.lines) ELSE Error
    IN FoldLeft(add, Lines(<<>>), item.inventory)

\* treeKsCmdRun
TreeKs(cluster, key, compact) ==
    IF key \notin DOMAIN cluster THEN Error
    ELSE LET t == TreeKustomization(cluster, key, compact, 1) IN
         IF t.ok THEN Lines(<<Line(0, key)>> \o t.lines) ELSE Error

\* treeArtifactGeneratorCmdRun: the artifacts of a generator's inventory.
TreeGenerator(key, inventory) ==
    Lines(<<Line(0, key)>> \o [i \in DOMAIN inventory |-> Line(1, <<"ExternalArtifact", inventory[i]>>)])

----------------------------------------------------------------------------
(* What is said of a tree.                                                 *)

\* The other Kustomizations that one applies here.
AppliedHere(cluster, k) ==
    IF k \notin DOMAIN cluster \/ cluster[k].remote THEN {}
    ELSE {x \in ToSet(cluster[k].inventory) \ {k} : x[1] = "Kustomization"}

\* The Kustomizations of keys, and those they apply here, one through another.
RECURSIVE LookedUp(_, _)
LookedUp(cluster, keys) ==
    LET next == keys \cup UNION {AppliedHere(cluster, k) : k \in keys}
    IN IF next = keys THEN keys ELSE LookedUp(cluster, next)

\* Every Kustomization that is looked up is there and is not applied by one it
\* applies itself, and what is stored of the releases can be read.
Sound(cluster, root) ==
    LET reached == LookedUp(cluster, {root}) IN
    /\ reached \subseteq DOMAIN cluster
    /\ \A k \in reached :
          /\ k \notin LookedUp(cluster, AppliedHere(cluster, k))
          /\ \A r \in ToSet(cluster[k].inventory) :
                r[1] = "HelmRelease" => GetHelmReleaseInventory(cluster, r).ok

Parent(t, i) == CHOOSE j \in 1..(i - 1) :
    /\ t.lines[j].depth = t.lines[i].depth - 1
    /\ \A k \in (j + 1)..(i - 1) : t.lines[k].depth >= t.lines[i].depth

Children(t, i) ==
    LET below == SelectSeq([j \in DOMAIN t.lines |-> j],
                           LAMBDA j : /\ j > i /\ t.lines[j].depth = t.lines[i].depth + 1
                                      /\ Parent(t, j) = i)
    IN [j \in DOMAIN below |-> t.lines[below[j]].key]

\* What belongs below a line.  Below a Kustomization it is the inventory without
\* itself, below a release what is stored of it here; below what a release has
\* installed, or a remote Kustomization applies, it is nothing - but for a release
\* a remote Kustomization applies, which is looked up here although it is there.
Belongs(cluster, t, i) ==
    LET key == t.lines[i].key
        above == t.lines[Parent(t, i)].key
    IN IF i = 1 THEN SelectSeq(cluster[key].inventory, LAMBDA k : k # key)
       ELSE IF above[1] # "Kustomization" THEN <<>>
       ELSE IF key[1] = "HelmRelease" THEN GetHelmReleaseInventory(cluster, key).lines
       ELSE IF key[1] = "Kustomization" /\ ~cluster[above].remote
       THEN SelectSeq(cluster[key].inventory, LAMBDA k : k # key)
       ELSE <<>>

\* Below every line is what belongs there and nothing else, in its order.
EveryLineIsTrue(cluster, key, t) ==
    /\ t.lines[1] = Line(0, key)
    /\ \A i \in DOMAIN t.lines : Children(t, i) = Belongs(cluster, t, i)

\* The compact tree is the whole one without what is not Flux's.
CompactIsPart(whole, compact) ==
    /\ compact.ok = whole.ok
    /\ compact.lines = SelectSeq(whole.lines, LAMBDA l : IsFlux(l.key))
=============================================================================

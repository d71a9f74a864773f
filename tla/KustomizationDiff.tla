-------------------------- MODULE KustomizationDiff --------------------------
(***************************************************************************)
(* internal/build: what `flux build kustomization` and `flux diff          *)
(* kustomization` work out, the masks on encrypted secrets included.       *)
(*                                                                         *)
(* repo maps names of Kustomizations to what their directory builds to:    *)
(* objects in order, each with a key and data.  Of a secret, strings is    *)
(* its stringData, docker says that it holds a JSON document, and secret   *)
(* is "encrypted" if it carries the metadata of SOPS, else "plain".        *)
(* The cluster maps keys to live objects, whose secrets have data only.    *)
(*                                                                         *)
(* A value of a secret is a text: the words in it that matter, in front of *)
(* them "base64" once for each time it is encoded.                         *)
(***************************************************************************)
EXTENDS Naturals, Sequences, SequencesExt, FiniteSets, TLC

Mask == "**SOPS**"
Enc == "ENC["   \* stands for what SOPS has encrypted

Encode(text) == <<"base64">> \o text
IsBase64(text) == text # <<>> /\ text[1] = "base64"
Decode(text) == IF IsBase64(text) THEN Tail(text) ELSE <<>>
Holds(text, word) == ~IsBase64(text) /\ word \in ToSet(text)

IsKustomization(key) == key[1] = "Kustomization"

----------------------------------------------------------------------------
(* Build.                                                                  *)

\* The mask, as it is or in a JSON document.
MaskOf(o) == IF o.docker THEN <<"json", Mask>> ELSE <<Mask>>

Hide(map, keys, mask) == [k \in keys |-> mask] @@ map
EncryptedOnceDecoded(text) == Holds(Decode(text), Enc)
EncryptedAsItIs(text) == Holds(text, Enc)

\* maskBase64EncryptedSopsData and maskSopsDataInStringDataSecret: only what is
\* encrypted is masked, in both maps with the encoded mask.
MaskEncrypted(o) ==
    [o EXCEPT !.data = Hide(@, {k \in DOMAIN @ : EncryptedOnceDecoded(@[k])}, Encode(<<Mask>>)),
              !.strings = Hide(@, {k \in DOMAIN @ : EncryptedAsItIs(@[k])}, Encode(<<Mask>>))]

\* Mutant of MaskSopsData: a value is masked only if it looks encrypted itself.
MaskEncryptedValues(o) == IF o.secret = "no" THEN o ELSE MaskEncrypted(o)

\* maskSopsData: all values of a secret with the metadata of SOPS are masked.
MaskSopsData(o) ==
    CASE o.secret = "no" -> o
      [] o.secret = "encrypted" ->
            [o EXCEPT !.data = Hide(@, DOMAIN @, Encode(MaskOf(o))),
                      !.strings = Hide(@, DOMAIN @, MaskOf(o))]
      [] o.secret = "plain" -> MaskEncrypted(o)

\* Data without that metadata that are not base64 cannot be masked.
CorruptInput(o) == o.secret = "plain" /\ \E k \in DOMAIN o.data : ~IsBase64(o.data[k])

Failure == [ok |-> FALSE, objects |-> <<>>]

\* build: the objects of one directory; the Kustomization is on the cluster or
\* handed over, and its directory builds.
BuildOne(repo, name) ==
    IF name \notin DOMAIN repo \/ \E o \in ToSet(repo[name].objects) : CorruptInput(o) THEN Failure
    ELSE [ok |-> TRUE,
          objects |-> [i \in DOMAIN repo[name].objects |-> MaskSopsData(repo[name].objects[i])]]

\* kustomizationsEqual
SameKustomization(key, name) == key[2] = name

\* kustomizationPath: a local path is given for the Kustomization's source.
HasLocalPath(repo, key) == key[2] \in DOMAIN repo

\* How often a Kustomization may occur below itself: a bound, as Kustomizations
\* that apply one another are built for ever.
Depth == 3

\* Build with --recursive: the objects, then those of each Kustomization in them.
RECURSIVE Build(_, _, _)
Build(repo, name, depth) ==
    LET own == BuildOne(repo, name)
        add(acc, o) ==
            IF ~acc.ok \/ ~IsKustomization(o.key) \/ SameKustomization(o.key, name) THEN acc
            ELSE IF ~HasLocalPath(repo, o.key) \/ depth = 0 THEN Failure
            ELSE LET sub == Build(repo, o.key[2], depth - 1)
                 IN [ok |-> sub.ok, objects |-> acc.objects \o sub.objects]
    IN FoldLeft(add, own, own.objects)

----------------------------------------------------------------------------
(* Diff.                                                                   *)

\* normalize, external: stringData are encoded and take the place of data.
Normalized(o) ==
    IF o.secret = "no" THEN o
    ELSE [o EXCEPT !.data = [k \in DOMAIN o.strings |-> Encode(o.strings[k])] @@ @, !.strings = <<>>]

\* The dry-run of one object, external: what applying it would do.
Change(cluster, o) ==
    IF o.fails THEN "failed"
    ELSE IF o.excluded THEN "skipped"
    ELSE IF o.key \notin DOMAIN cluster THEN "created"
    ELSE IF cluster[o.key].data = o.data THEN "unchanged" ELSE "configured"

\* diffSopsSecret, applySopsDiff: when a value, once decoded, holds the mask, only
\* the keys count.
DiffSopsSecret(cluster, o, action) ==
    IF /\ o.secret # "no" /\ action = "configured"
       /\ \E k \in DOMAIN o.data : Holds(Decode(o.data[k]), Mask)
    THEN IF DOMAIN cluster[o.key].data = DOMAIN o.data THEN "unchanged" ELSE "configured"
    ELSE action

ActionOn(cluster, o) ==
    LET n == Normalized(o) IN DiffSopsSecret(cluster, n, Change(cluster, n))

Report(what, key) == [what |-> what, key |-> key]
Nothing == [lines |-> <<>>, changed |-> FALSE, failed |-> FALSE]

\* What is in the inventory and not in the build: skipped unless the object is
\* this Kustomization's to prune; an object that is gone already counts as deleted.
StaleLine(cluster, key, name) ==
    IF key \in DOMAIN cluster /\ (cluster[key].owner # name \/ cluster[key].keep)
    THEN Report("skipped", key) ELSE Report("deleted", key)

\* Mutant of Prunes: stale objects are looked for although a dry-run failed.
PrunesAnyway(k, failed) == k.prune

Prunes(k, failed) == k.prune /\ ~failed

DiffInventory(inventory, objects) ==
    SetToSeq(inventory \ {objects[i].key : i \in DOMAIN objects})

\* diff; with --recursive a Kustomization that is on the cluster is descended to.
RECURSIVE Diff(_, _, _, _, _)
Diff(repo, cluster, name, recursive, depth) ==
    LET own == BuildOne(repo, name)
        k == repo[name]
        descends(o, action) ==
            recursive /\ IsKustomization(o.key) /\ action # "created" /\ ~SameKustomization(o.key, name)
        nested(o) ==
            IF o.remote THEN [Nothing EXCEPT !.lines = <<Report("skipped", o.key)>>]
            ELSE IF ~HasLocalPath(repo, o.key) \/ depth = 0 THEN [Nothing EXCEPT !.failed = TRUE]
            ELSE LET sub == Diff(repo, cluster, o.key[2], recursive, depth - 1) IN
                 [sub EXCEPT !.lines = IF sub.changed THEN <<Report("changed", o.key)>> \o @ ELSE <<>>]
        add(acc, o) ==
            LET action == ActionOn(cluster, o)
                below == IF descends(o, action) THEN nested(o) ELSE Nothing
            IN IF action = "failed" THEN [acc EXCEPT !.failed = TRUE]
               ELSE [lines |-> acc.lines
                        \o (IF action = "unchanged" THEN <<>>
                            ELSE <<Report(IF action = "configured" THEN "drifted" ELSE action, o.key)>>)
                        \o below.lines,
                     changed |-> acc.changed \/ action \in {"created", "configured"} \/ below.changed,
                     failed |-> acc.failed \/ below.failed]
        built == FoldLeft(add, Nothing, own.objects)
        stale == [i \in DOMAIN DiffInventory(k.inventory, own.objects) |->
                    StaleLine(cluster, DiffInventory(k.inventory, own.objects)[i], name)]
        deletes == \E i \in DOMAIN stale : stale[i].what = "deleted"
    IN IF ~own.ok THEN [Nothing EXCEPT !.failed = TRUE]
       ELSE IF ~Prunes(k, built.failed) THEN built
       ELSE [built EXCEPT !.lines = @ \o stale, !.changed = @ \/ deletes]

\* diffKsCmdRun's exit status for a diff that ends.
ExitStatus(r) == IF r.failed THEN 2 ELSE IF r.changed THEN 1 ELSE 0

----------------------------------------------------------------------------
(* What is said of them.                                                   *)

\* What the Kustomization applies, and with --recursive what those it applies do.
RECURSIVE Reach(_, _)
Reach(repo, names) ==
    LET next == names \cup {o.key[2] : o \in {o \in UNION {ToSet(repo[n].objects) : n \in names} :
                                                IsKustomization(o.key) /\ o.key[2] \in DOMAIN repo}}
    IN IF next = names THEN names ELSE Reach(repo, next)

\* o is printed for x: all that is encrypted is gone from both maps, a secret with
\* the metadata of SOPS shows nothing but masks - in data encoded once, so that what
\* expects base64 or JSON can read them - and the rest is as it is in the files.
PrintedFor(o, x) ==
    /\ o.key = x.key /\ DOMAIN o.data = DOMAIN x.data /\ DOMAIN o.strings = DOMAIN x.strings
    /\ \A k \in DOMAIN o.data :
          CASE x.secret = "no" -> o.data[k] = x.data[k]
            [] x.secret = "encrypted" -> Decode(o.data[k]) = MaskOf(x)
            [] x.secret = "plain" ->
                  IF EncryptedOnceDecoded(x.data[k]) THEN Decode(o.data[k]) = <<Mask>>
                                                     ELSE o.data[k] = x.data[k]
    /\ \A k \in DOMAIN o.strings :
          CASE x.secret = "encrypted" -> o.strings[k] = MaskOf(x)
            [] x.secret = "plain" ->
                  IF EncryptedAsItIs(x.strings[k]) THEN Decode(o.strings[k]) = <<Mask>>
                                                   ELSE o.strings[k] = x.strings[k]

\* Each object of the directory is printed, in order, unless it holds data that are
\* not base64; a recursive build that ends holds the objects of every Kustomization
\* it reaches and nothing else.
BuildIsTrue(repo, name, one, r) ==
    LET objects == repo[name].objects
        reached == UNION {ToSet(repo[n].objects) : n \in Reach(repo, {name})}
    IN /\ one.ok <=> \A i \in DOMAIN objects : ~CorruptInput(objects[i])
       /\ one.ok => /\ Len(one.objects) = Len(objects)
                    /\ \A i \in DOMAIN objects : PrintedFor(one.objects[i], objects[i])
       /\ r.ok => /\ \A i \in DOMAIN r.objects : \E x \in reached : PrintedFor(r.objects[i], x)
                  /\ {r.objects[i].key : i \in DOMAIN r.objects} = {x.key : x \in reached}

\* Values that nobody compares: all of a secret once a mask is found in its data.
KeysOnly(o) ==
    \/ o.secret = "encrypted"
    \/ o.secret = "plain" /\ \E k \in DOMAIN o.data \ DOMAIN o.strings : EncryptedOnceDecoded(o.data[k])

\* The live object has other keys, or another value where values are compared.  What
\* is encrypted in stringData without the metadata of SOPS counts as another value:
\* its mask is encoded once more than where masks are looked for.
Drifted(cluster, o) ==
    LET live == cluster[o.key].data
        wanted == Normalized(o).data
    IN /\ o.key \in DOMAIN cluster /\ ~o.excluded
       /\ \/ DOMAIN live # DOMAIN wanted
          \/ ~KeysOnly(o) /\ \E k \in DOMAIN wanted :
                \/ o.secret = "plain" /\ k \in DOMAIN o.strings /\ EncryptedAsItIs(o.strings[k])
                \/ live[k] # wanted[k]

\* A diff reports as created what is not there, as drifted what differs, and as
\* deleted only what the files no longer hold and is not another's; one with errors
\* reports nothing as deleted. Exit status 0 says that nothing of this would happen.
\* With --recursive all that is said of the Kustomization itself is still said.
DiffIsTrue(repo, cluster, name, flat, recursive) ==
    LET reported(r, what) == {l.key : l \in {l \in ToSet(r.lines) : l.what = what}}
        toDo(r) == UNION {reported(r, what) : what \in {"created", "drifted", "deleted"}}
        objects == ToSet(repo[name].objects)
    IN /\ \A o \in objects :
             ~o.fails => /\ o.key \in reported(flat, "created") <=> o.key \notin DOMAIN cluster /\ ~o.excluded
                         /\ o.key \in reported(flat, "drifted") <=> Drifted(cluster, o)
       /\ reported(flat, "deleted") \cap {o.key : o \in objects} = {}
       /\ \A key \in reported(flat, "deleted") \cap DOMAIN cluster :
             cluster[key].owner = name /\ ~cluster[key].keep
       /\ flat.failed => reported(flat, "deleted") = {}
       /\ \A r \in {flat, recursive} : ~r.failed => (ExitStatus(r) = 0 <=> toDo(r) = {})
       /\ ~recursive.failed => ToSet(flat.lines) \subseteq ToSet(recursive.lines)
=============================================================================

------------------------------ MODULE Artifacts ------------------------------
(***************************************************************************)
(* The content of an artifact: `flux build artifact` and `flux push        *)
(* artifact` archive a directory, with --resolve-symlinks a copy of it in  *)
(* which every link is replaced by what it points to.                      *)
(*                                                                         *)
(* fs maps directories to their entries, sequences of [name, link, is, to]:*)
(* is tells what the entry is once links are followed ("dir", "file",      *)
(* "other" or, for a link to nothing, "broken"), to the directory or the   *)
(* content.  An archive is a set of paths, each with a content.  The path  *)
(* given to the commands is that of a directory.                           *)
(***************************************************************************)
EXTENDS Naturals, Sequences, SequencesExt, FiniteSets

\* composeIgnorePaths; a pattern is the name of a file or a directory.
ComposeIgnorePaths(flags) == flags.ignorePaths \o flags.addIgnorePaths

\* Mutant of Leave: a directory is visited once for all.
LeaveForGood(visited, d) == visited

\* The deferred delete: only the directories above are cycles.
Leave(visited, d) == visited \ {d}

\* copyDir.  visited are the directories that are being copied; an error ends all.
RECURSIVE CopyDir(_, _, _, _)
CopyDir(fs, d, path, visited) ==
    IF d \in visited THEN [ok |-> TRUE, files |-> {}, visited |-> visited]
    ELSE LET copied == FoldLeft(
                LAMBDA acc, e :
                    CASE ~acc.ok \/ e.is = "other" -> acc
                      [] acc.ok /\ e.is = "broken" -> [acc EXCEPT !.ok = FALSE]
                      [] acc.ok /\ e.is = "file" ->
                            [acc EXCEPT !.files = @ \cup {<<Append(path, e.name), e.to>>}]
                      [] acc.ok /\ e.is = "dir" ->
                            LET below == CopyDir(fs, e.to, Append(path, e.name), acc.visited)
                            IN [below EXCEPT !.files = @ \cup acc.files],
                [ok |-> TRUE, files |-> {}, visited |-> visited \cup {d}], fs[d])
         IN [copied EXCEPT !.visited = Leave(@, d)]

\* A walk from a directory along names: the entry it ends at, and the directories
\* it has gone through; none when there is no such path.
Entry(fs, d, name) == {e \in ToSet(fs[d]) : e.name = name}
Walk(fs, d, path) ==
    FoldLeft(LAMBDA acc, name :
                IF acc.at = {} \/ (CHOOSE e \in acc.at : TRUE).is # "dir" THEN [acc EXCEPT !.at = {}]
                ELSE LET dir == (CHOOSE e \in acc.at : TRUE).to
                     IN [at |-> Entry(fs, dir, name), dirs |-> Append(acc.dirs, dir),
                         links |-> acc.links \/ \E e \in Entry(fs, dir, name) : e.link],
             [at |-> {[name |-> "", link |-> FALSE, is |-> "dir", to |-> d]}, dirs |-> <<>>, links |-> FALSE],
             path)

Names(fs) == {e.name : e \in UNION {ToSet(fs[d]) : d \in DOMAIN fs}}
Paths(fs) == UNION {[1 .. n -> Names(fs)] : n \in 1 .. Cardinality(DOMAIN fs)}

\* The client's Build: regular files that are not ignored; links are passed over.
Archived(fs, d) ==
    {<<p, (CHOOSE e \in Walk(fs, d, p).at : TRUE).to>> :
        p \in {q \in Paths(fs) : LET w == Walk(fs, d, q) IN
                                 ~w.links /\ \E e \in w.at : e.is = "file"}}
NotIgnored(files, patterns) == {f \in files : ToSet(f[1]) \cap ToSet(patterns) = {}}

\* buildArtifactCmdRun and the same steps of pushArtifactCmdRun.
BuildArtifact(fs, d, flags) ==
    LET resolved == IF flags.resolveSymlinks THEN CopyDir(fs, d, <<>>, {})
                    ELSE [ok |-> TRUE, files |-> Archived(fs, d)]
    IN IF ~resolved.ok THEN [ok |-> FALSE, files |-> {}]
       ELSE [ok |-> TRUE, files |-> NotIgnored(resolved.files, ComposeIgnorePaths(flags))]

----------------------------------------------------------------------------

\* A path that goes through no directory twice.
Simple(fs, d, path) ==
    LET dirs == Walk(fs, d, path).dirs
    IN \A i, j \in DOMAIN dirs : i # j => dirs[i] # dirs[j]

Ends(fs, d, path, is) == \E e \in Walk(fs, d, path).at : e.is = is

\* Resolved: what is there under any path that does not go in circles, however many
\* links lead to it; refused only for a link to nothing.
ResolvedIsComplete(fs, d, flags, built) ==
    flags.resolveSymlinks =>
        /\ built.ok = ~\E p \in Paths(fs) : Simple(fs, d, p) /\ Ends(fs, d, p, "broken")
        /\ built.ok => {f[1] : f \in built.files} =
                {p \in Paths(fs) : /\ Simple(fs, d, p) /\ Ends(fs, d, p, "file")
                                   /\ ToSet(p) \cap ToSet(flags.ignorePaths \o flags.addIgnorePaths) = {}}
        /\ \A f \in built.files : \E e \in Walk(fs, d, f[1]).at : e.to = f[2]

\* Resolving links adds to an artifact and changes nothing of it.
ResolvingAdds(fs, d, flags, built) ==
    built.ok => BuildArtifact(fs, d, [flags EXCEPT !.resolveSymlinks = FALSE]).files \subseteq built.files

ArtifactIsTrue(fs, d, flags, built) ==
    ResolvedIsComplete(fs, d, flags, built) /\ ResolvingAdds(fs, d, flags, built)
=============================================================================

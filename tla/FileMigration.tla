---------------------------- MODULE FileMigration ----------------------------
(***************************************************************************)
(* `flux migrate -f`: the manifests of a directory are brought to the API  *)
(* versions of a Flux release, line by line and without parsing them.      *)
(*                                                                         *)
(* A line has its leading spaces (lead), the column its key starts in      *)
(* (col, beyond lead after the dash of a list item), a key and its value;  *)
(* opens says that the value starts a quoted text that does not end on the *)
(* line, closes that the line has the quote that ends one.  Lines without  *)
(* a key have "text", "blank", "comment" (or template) or "---" for it.    *)
(***************************************************************************)
EXTENDS Naturals, Sequences, SequencesExt, FiniteSets, FiniteSetsExt, TLC

\* latestAPIVersions, for kinds whose version differs between releases, one that
\* does not, and one that the oldest release does not have.
Flux26 == [GitRepository |-> "v1", Alert |-> "v1beta3", Provider |-> "v1beta3", ImagePolicy |-> "v1beta2"]
Flux27 == [Flux26 EXCEPT !.ImagePolicy = "v1"] @@ [ArtifactGenerator |-> "v1beta1"]
Flux210 == [Flux27 EXCEPT !.Alert = "v1", !.Provider = "v1"]
LatestAPIVersions == ("2.10" :> Flux210) @@ ("2.9" :> Flux27) @@ ("2.8" :> Flux27) @@ ("2.7" :> Flux27) @@ ("2.6" :> Flux26)

\* removedSpecFields
RemovedSpecFields(kind, version) ==
    CASE kind = "Alert" /\ version = "v1" -> {"summary"}
      [] kind = "Provider" /\ version = "v1" -> {"interval", "proxy"}
      [] OTHER -> {}

----------------------------------------------------------------------------
(* Detection.                                                              *)

Skippable(l) == l.key \in {"blank", "comment"}
First(set, otherwise) == IF set = {} THEN otherwise ELSE Min(set)

\* yamlValueEnd: the line after a field's value, which holds a quoted text to its
\* end, and then everything indented deeper.
YamlValueEnd(lines, at, indent) ==
    LET quoted == IF lines[at].opens
                  THEN First({i \in at + 1 .. Len(lines) : lines[i].closes}, at) ELSE at
        stop == First({i \in quoted + 1 .. Len(lines) : lines[i].key # "blank" /\ lines[i].lead <= indent},
                      Len(lines) + 1)
    IN Max({quoted + 1} \cup {i + 1 : i \in {i \in quoted + 1 .. stop - 1 : lines[i].key # "blank"}})

\* The spec key of the object whose apiVersion is on a line, or 0.
SpecLine(lines, at, indent) ==
    LET stop == First({i \in at + 1 .. Len(lines) :
                         \/ lines[i].key = "---"
                         \/ ~Skippable(lines[i]) /\ lines[i].lead < indent
                         \/ ~Skippable(lines[i]) /\ lines[i].lead = indent /\ lines[i].key = "spec"}, 0)
    IN IF stop # 0 /\ lines[stop].key = "spec" /\ lines[stop].lead = indent THEN stop ELSE 0

\* The lines of the given fields among the direct children of spec, from line i on.
RECURSIVE FieldLines(_, _, _, _, _)
FieldLines(lines, i, indent, child, fields) ==
    IF i > Len(lines) \/ lines[i].key = "---" THEN {}
    ELSE IF Skippable(lines[i]) THEN FieldLines(lines, i + 1, indent, child, fields)
    ELSE IF lines[i].lead <= indent THEN {}
    ELSE LET column == IF child = 0 THEN lines[i].lead ELSE child
             end == YamlValueEnd(lines, i, column)
         IN IF lines[i].lead = column /\ lines[i].key \in fields
            THEN (i .. end - 1) \cup FieldLines(lines, end, indent, column, fields)
            ELSE FieldLines(lines, i + 1, indent, column, fields)

\* Mutant of FindRemovedSpecFields: a field is taken to be one line long.
FirstLinesOnly(lines, at, indent, fields) ==
    LET spec == SpecLine(lines, at, indent)
    IN {i \in IF spec = 0 THEN {} ELSE FieldLines(lines, spec + 1, indent, 0, fields) : lines[i].key \in fields}

FindRemovedSpecFields(lines, at, indent, fields) ==
    LET spec == SpecLine(lines, at, indent)
    IN IF spec = 0 THEN {} ELSE FieldLines(lines, spec + 1, indent, 0, fields)

\* Fields are removed only from objects that are not text within another.
TopLevel(l) == l.col = 0 \/ l.col > l.lead

\* detectFileUpgrades
DetectUpgrades(lines, latest) ==
    {[line |-> i, version |-> latest[lines[i + 1].value],
      removed |-> IF TopLevel(lines[i])
                  THEN FindRemovedSpecFields(lines, i, lines[i].col,
                           RemovedSpecFields(lines[i + 1].value, latest[lines[i + 1].value]))
                  ELSE {}] :
       i \in {i \in 1 .. Len(lines) - 1 :
                /\ lines[i].key = "apiVersion" /\ lines[i + 1].key = "kind"
                /\ lines[i + 1].value \in DOMAIN latest
                /\ latest[lines[i + 1].value] # lines[i].value}}

----------------------------------------------------------------------------
(* Migration.                                                              *)

\* migrateFile
MigrateFile(lines, upgrades) ==
    LET removed == UNION {u.removed : u \in upgrades}
        line(i) == IF \E u \in upgrades : u.line = i
                   THEN [lines[i] EXCEPT !.value = (CHOOSE u \in upgrades : u.line = i).version]
                   ELSE lines[i]
        kept == SelectSeq([i \in DOMAIN lines |-> i], LAMBDA i : i \notin removed)
    IN [k \in DOMAIN kept |-> line(kept[k])]

\* listFiles: the path is a directory, or one file, the first, that has to be a
\* regular one with a known extension.
Listed(files, flags) ==
    {i \in DOMAIN files : files[i].matches /\ files[i].regular /\ (flags.single => i = 1)}

\* Run.  unreadable and unwritable are the numbers of files that cannot be read, or
\* opened to be written, 0 for none: nothing is written when one cannot be read;
\* the files before the one that cannot be written are migrated, those after it left.
Run(files, flags) ==
    LET listed == Listed(files, flags)
        latest == LatestAPIVersions[flags.version]
        upgrades(i) == DetectUpgrades(files[i].lines, latest)
        upgraded == {i \in listed : upgrades(i) # {}}
        fails == flags.unwritable \in upgraded
        written == {i \in upgraded : fails => i < flags.unwritable}
    IN IF \/ flags.version \notin DOMAIN LatestAPIVersions
          \/ flags.single /\ listed = {}
          \/ flags.unreadable \in listed
       THEN [ok |-> FALSE, files |-> files]
       ELSE IF flags.dryRun \/ ~flags.confirmed
       THEN [ok |-> flags.dryRun \/ upgraded = {}, files |-> files]
       ELSE [ok |-> ~fails,
             files |-> [i \in DOMAIN files |->
                          IF i \in written THEN [files[i] EXCEPT !.lines = MigrateFile(@, upgrades(i))]
                          ELSE files[i]]]

----------------------------------------------------------------------------
(* What is said of it: manifests are written from objects, and the lines   *)
(* that are left are those of the objects with their fields removed.       *)

Line(lead, col, key, value) ==
    [lead |-> lead, col |-> col, key |-> key, value |-> value, opens |-> FALSE, closes |-> FALSE]
Plain(col, key, value) == Line(col, col, key, value)

\* A field has a value of one line, a list or map below it, or a quoted text of
\* several lines, whose indentation does not matter.
FieldText(col, field) ==
    CASE field.value = "scalar" -> <<Plain(col, field.name, "x")>>
      [] field.value = "nested" -> <<Plain(col, field.name, ""), Plain(col + 2, "summary", "x"),
                                     Plain(0, "blank", ""), Plain(col + 2, "comment", "")>>
      [] field.value = "quoted" -> <<[Plain(col, field.name, "x") EXCEPT !.opens = TRUE],
                                     [Plain(1, "text", "") EXCEPT !.closes = TRUE]>>

\* An object at the top of a document, in a list, or in the text of a config map.
ObjectText(o) ==
    LET col == CASE o.place = "document" -> 0 [] o.place = "list" -> 2 [] o.place = "text" -> 4
        lead == IF o.place = "list" THEN 0 ELSE col
        before == IF o.place = "text" THEN <<Plain(0, "data", ""), Plain(2, "summary", "")>> ELSE <<>>
    IN before \o <<Line(lead, col, "apiVersion", o.version), Plain(col, "kind", o.kind),
                   Plain(col, "metadata", ""), Plain(col + 2, "summary", "x")>>
              \o (IF o.fields = <<>> THEN <<>> ELSE <<Plain(0, "comment", ""), Plain(col, "spec", "")>>)
              \o FlattenSeq([i \in DOMAIN o.fields |-> FieldText(col + 2, o.fields[i])])
              \o (IF o.place = "list" THEN <<>> ELSE <<Plain(0, "---", "")>>)

FileText(objects) == FlattenSeq([i \in DOMAIN objects |-> ObjectText(objects[i])])

\* The object as the release has it.
MigratedText(o, latest) ==
    IF o.kind \notin DOMAIN latest \/ latest[o.kind] = o.version THEN ObjectText(o)
    ELSE LET gone == IF o.place = "text" THEN {} ELSE RemovedSpecFields(o.kind, latest[o.kind])
             kept(f) == f.name \notin gone
             spec == SelectSeq(ObjectText(o), LAMBDA l : l.key = "spec")
             new == ObjectText([o EXCEPT !.version = latest[o.kind], !.fields = SelectSeq(@, kept)])
         \* a spec that has lost all its fields is still there
         IN IF o.fields # <<>> /\ SelectSeq(o.fields, kept) = <<>>
            THEN SubSeq(new, 1, IF o.place = "list" THEN Len(new) ELSE Len(new) - 1)
                 \o <<Plain(0, "comment", "")>> \o spec
                 \o (IF o.place = "list" THEN <<>> ELSE <<Plain(0, "---", "")>>)
            ELSE new

Migrated(objects, latest) == FlattenSeq([i \in DOMAIN objects |-> MigratedText(objects[i], latest)])

\* Each file is as it was or wholly migrated, the lines of no other object and no
\* other field touched; success without --dry-run means that all are migrated and
\* that to run the command again changes nothing; a file that could not be read or
\* written is found by the next run, together with those after it.
MigrationIsTrue(files, flags, r) ==
    LET latest == LatestAPIVersions[flags.version]
        done(i) == [files[i] EXCEPT !.lines = Migrated(files[i].objects, latest)]
        listed == Listed(files, flags)
        again == Run(r.files, [flags EXCEPT !.unreadable = 0, !.unwritable = 0])
    IN flags.version \in DOMAIN LatestAPIVersions =>
        /\ \A i \in DOMAIN files :
              r.files[i] = files[i] \/ (i \in listed /\ ~flags.dryRun /\ r.files[i] = done(i))
        /\ r.ok /\ ~flags.dryRun =>
              (\A i \in listed : r.files[i] = done(i)) /\ again = r
        /\ ~r.ok /\ flags.confirmed /\ ~flags.dryRun /\ again.ok =>
              \A i \in listed : again.files[i] = done(i)
=============================================================================

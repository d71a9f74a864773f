------------------------------ MODULE Commands ------------------------------
(***************************************************************************)
(* The commands that are functions of what they are given: a command line  *)
(* is read, the answer worked out.  What takes several steps, or meets     *)
(* others at work, is in modules of its own.                               *)
(***************************************************************************)
EXTENDS CreateCommands

Args == INSTANCE ResourceArgs
Tracing == INSTANCE Trace
Trees == INSTANCE Tree
Getting == INSTANCE Get
Exporting == INSTANCE Export
Listing == INSTANCE Events
Building == INSTANCE KustomizationDiff
Migrating == INSTANCE FileMigration
Archiving == INSTANCE Artifacts

CONSTANTS
    CreateInputs,  \* `flux create` command -> the flags it is given
    CommandLines,  \* lines that may hold TYPE/NAME arguments
    TracedObjects, \* clusters, each with the objects that are traced
    TreeClusters,  \* clusters, each with the Kustomization at the root
    GetCommands,   \* clusters, each with the flags of `flux get`
    ExportCommands, EventCommands, \* and those of `flux export` and `flux events`
    Repositories,  \* directories of Kustomizations, and the cluster they are for
    Manifests,     \* files of manifests, with the flags of `flux migrate -f`
    Directories    \* directories with links in them, and the flags of `flux build artifact`

VARIABLES asked, done, answer
vars == <<asked, done, answer>>

Init ==
    /\ done = FALSE /\ answer = Nothing
    /\ \/ \E c \in DOMAIN CreateInputs : \E f \in CreateInputs[c] :
             asked = [about |-> "create", command |-> c, flags |-> f]
       \/ \E l \in CommandLines : asked = [about |-> "line", args |-> l]
       \/ \E t \in TracedObjects :
             asked = [about |-> "trace", cluster |-> t.cluster, objects |-> t.objects]
       \/ \E t \in TreeClusters :
             asked = [about |-> "tree", cluster |-> t.cluster, root |-> t.root]
       \/ \E g \in GetCommands :
             asked = [about |-> "get", cluster |-> g.cluster, flags |-> g.flags]
       \/ \E x \in ExportCommands :
             asked = [about |-> "export", cluster |-> x.cluster, flags |-> x.flags]
       \/ \E e \in EventCommands :
             asked = [about |-> "events", objects |-> e.objects, events |-> e.events, flags |-> e.flags]
       \/ \E r \in Repositories :
             asked = [about |-> "build", repo |-> r.repo, cluster |-> r.cluster, name |-> r.name]
       \/ \E m \in Manifests : asked = [about |-> "migrate", files |-> m.files, flags |-> m.flags]
       \/ \E d \in Directories : asked = [about |-> "artifact", fs |-> d.fs, flags |-> d.flags]

RunCreate ==
    /\ ~done /\ asked.about = "create"
    /\ done' = TRUE
    /\ answer' = Create(asked.command, asked.flags)
    /\ UNCHANGED asked

NormalizeLine ==
    /\ ~done /\ asked.about = "line"
    /\ done' = TRUE
    /\ answer' = Args!NormalizeResourceArgs(asked.args)
    /\ UNCHANGED asked

RunTrace ==
    /\ ~done /\ asked.about = "trace"
    /\ done' = TRUE
    /\ answer' = Tracing!TraceObjects(asked.cluster, asked.objects)
    /\ UNCHANGED asked

\* The tree without, and with, --compact.
RunTree ==
    /\ ~done /\ asked.about = "tree"
    /\ done' = TRUE
    /\ answer' = [whole |-> Trees!TreeKs(asked.cluster, asked.root, FALSE),
                  compact |-> Trees!TreeKs(asked.cluster, asked.root, TRUE)]
    /\ UNCHANGED asked

\* The tables of one kind after another, and that of `get all`.
RunGet ==
    /\ ~done /\ asked.about = "get"
    /\ done' = TRUE
    /\ answer' = [kinds |-> [k \in ToSet(Getting!Kinds) |->
                                Getting!Run(asked.cluster, k, asked.flags, FALSE)],
                  all |-> Getting!GetAll(asked.cluster, asked.flags)]
    /\ UNCHANGED asked

RunExport ==
    /\ ~done /\ asked.about = "export"
    /\ done' = TRUE
    /\ answer' = Exporting!ExportCommand(asked.cluster, asked.flags)
    /\ UNCHANGED asked

RunEvents ==
    /\ ~done /\ asked.about = "events"
    /\ done' = TRUE
    /\ answer' = Listing!ListEvents(asked.objects, asked.events, asked.flags)
    /\ UNCHANGED asked

\* `flux build kustomization` and `flux diff kustomization`, each without and with
\* --recursive.
RunBuild ==
    /\ ~done /\ asked.about = "build"
    /\ done' = TRUE
    /\ answer' = [one |-> Building!BuildOne(asked.repo, asked.name),
                  build |-> Building!Build(asked.repo, asked.name, Building!Depth),
                  flat |-> Building!Diff(asked.repo, asked.cluster, asked.name, FALSE, Building!Depth),
                  diff |-> Building!Diff(asked.repo, asked.cluster, asked.name, TRUE, Building!Depth)]
    /\ UNCHANGED asked

RunMigrate ==
    /\ ~done /\ asked.about = "migrate"
    /\ done' = TRUE
    /\ answer' = Migrating!Run(asked.files, asked.flags)
    /\ UNCHANGED asked

RunBuildArtifact ==
    /\ ~done /\ asked.about = "artifact"
    /\ done' = TRUE
    /\ answer' = Archiving!BuildArtifact(asked.fs, "root", asked.flags)
    /\ UNCHANGED asked

Next ==
    \/ RunCreate \/ NormalizeLine \/ RunTrace \/ RunTree
    \/ RunGet \/ RunExport \/ RunEvents \/ RunBuild \/ RunMigrate
    \/ RunBuildArtifact

Spec == Init /\ [][Next]_vars

Answered(about) == done /\ asked.about = about
Created == Answered("create") /\ answer.ok

\* A flag that an accepted `flux create` was given has a say in what is
\* exported or applied, unless another flag leaves it without meaning.
FlagsHonoured ==
    Created => \A x \in DOMAIN asked.flags \ Idle(asked.command, asked.flags) :
                  asked.flags[x] = Flags[asked.command][x] \/ Tells(asked.command, asked.flags, x)

\* The credentials given to `flux create source` are in a secret the source
\* refers to, and never take the place of the secret the user has named.
CredentialsReachSource == Created => SecretUsed(asked.flags, answer)

\* What `flux create` exports or applies is what its flags ask for (create_*.go).
CreateIsTrue == FlagsHonoured /\ CredentialsReachSource

\* A rewritten line runs the sub-command of its type on the names it gives, in
\* their order: no flag's value is taken for a name, no name for a value.
RewrittenMeansTheSame ==
    Answered("line") /\ answer.ok =>
        \/ answer.args = asked.args \/ ~Args!FlagsKnownInTime(asked.args)
        \/ Args!MeansWhatItSays(asked.args, answer.args)

\* `flux trace` names the manager of the object, or else of the nearest of its owners
\* that has one - where owners fork, of those the first owner with a say leads to -
\* a Kustomization rather than a HelmRelease, and shows sources that are there.
TraceIsTrue ==
    Answered("trace") =>
        \A i \in DOMAIN asked.objects :
            /\ Tracing!FindsManager(asked.cluster, asked.objects[i], "kustomize")
            /\ Tracing!FindsManager(asked.cluster, asked.objects[i], "helm")
            /\ answer[i].ok => Tracing!ReportIsReal(asked.cluster, asked.objects[i], answer[i])

\* The tree of a Kustomization has below every line what that object has applied, as
\* far as it is looked up here, in --compact the part that is Flux's.  It is printed
\* unless something on the way is missing, broken or applied by what it applies.
TreeIsTrue ==
    Answered("tree") =>
        /\ answer.whole.ok <=> Trees!Sound(asked.cluster, asked.root)
        /\ answer.whole.ok => Trees!EveryLineIsTrue(asked.cluster, asked.root, answer.whole)
        /\ Trees!CompactIsPart(answer.whole, answer.compact)

\* The relations between objects that `flux trace` and `flux tree` work out are the
\* ones the labels, owners and inventories record (trace.go, tree_kustomization.go).
RelationsAreTrue == TraceIsTrue /\ TreeIsTrue

\* `flux get` shows exactly what it is asked for, in the order of the names, and
\* its exit code tells whether all of it was there.
TablesAreTrue ==
    Answered("get") =>
        /\ \A k \in DOMAIN answer.kinds :
              Getting!TableIsTrue(asked.cluster, k, asked.flags, answer.kinds[k])
        /\ Getting!AllIsTrue(asked.cluster, asked.flags, answer.all)

\* `flux export` prints what is stored, nothing of one object in another, no
\* secret twice, and fails when something it was asked for is not in its output.
ExportIsTrue ==
    Answered("export") => Exporting!ExportIsTrue(asked.cluster, asked.flags, answer)

\* `flux events` shows the events of what it is asked for and of what that refers
\* to, each once, in their order, with the namespace where it matters.
EventsAreTrue ==
    Answered("events") /\ answer.ok =>
        Listing!EventsAreTrue(asked.objects, asked.events, asked.flags, answer)

\* What is listed of the cluster is what is there and was asked for (get.go,
\* export.go, events.go).
ListedTruly == TablesAreTrue /\ ExportIsTrue /\ EventsAreTrue

\* `flux build kustomization` prints the objects of the directories, all of them, with
\* masks in place of what is encrypted and everything else as it is.
BuildIsTrue ==
    Answered("build") => Building!BuildIsTrue(asked.repo, asked.name, answer.one, answer.build)

\* `flux diff kustomization` reports what applying would do, as far as values are not
\* behind masks, and its exit status says whether it would do anything.
DiffIsTrue ==
    Answered("build") /\ answer.one.ok =>
        Building!DiffIsTrue(asked.repo, asked.cluster, asked.name, answer.flat, answer.diff)

\* An artifact that links are resolved for holds all that they lead to, once for each
\* path, and goes in no circles.
ArchiveIsTrue ==
    Answered("artifact") => Archiving!ArtifactIsTrue(asked.fs, "root", asked.flags, answer)

\* The commands that read directories agree with what the controllers would have of
\* them (build.go, diff.go, build_artifact.go).
ManifestsAreTrue == BuildIsTrue /\ DiffIsTrue /\ ArchiveIsTrue

\* `flux migrate -f` changes apiVersion and removes what the new version does not
\* have, all of it and nothing else, and can be run again after a failure.
MigrationIsTrue ==
    Answered("migrate") => Migrating!MigrationIsTrue(asked.files, asked.flags, answer)
=============================================================================

---------------------------- MODULE ResourceArgs ----------------------------
(***************************************************************************)
(* TYPE/NAME arguments as kubectl has them: the line is rewritten into the *)
(* words of the sub-command before cobra reads it.                         *)
(*                                                                         *)
(* An argument is a flag, the terminator "--" or a word.  A word TYPE/NAME *)
(* has a typ and a name, any other only a typ; suffix says whether the typ *)
(* ends in a group and version, and whether they are those of the kind.    *)
(***************************************************************************)
EXTENDS Naturals, Sequences, SequencesExt

Flag(name) == [is |-> "flag", name |-> name]
Dash == [is |-> "dash"]
Word(typ) == [is |-> "word", typ |-> typ, name |-> "", suffix |-> "none"]
Resource(typ, name) == [Word(typ) EXCEPT !.name = name]
Qualified(typ, name, suffix) == [Resource(typ, name) EXCEPT !.suffix = suffix]

----------------------------------------------------------------------------
(* The commands and their flags.                                           *)

\* Kinds with one word, with two words, and one that only some verbs handle.
HelmRelease == [names |-> {"hr", "helmrelease", "helmreleases"},
                paths |-> [get |-> <<"helmreleases">>, reconcile |-> <<"helmrelease">>]]
GitRepository == [names |-> {"gitrepo", "gitrepository", "gitrepositories"},
                  paths |-> [get |-> <<"source", "git">>, reconcile |-> <<"source", "git">>]]
Alert == [names |-> {"alert", "alerts"}, paths |-> [get |-> <<"alerts">>]]

ResourceTypes == {HelmRelease, GitRepository, Alert}

\* A verb of the table, a group or a sub-command, each by its words.
Commands ==
    {<<>>, <<"get">>, <<"reconcile">>, <<"check">>, <<"get", "source">>, <<"reconcile", "source">>}
    \cup {<<v>> \o t.paths[v] : <<v, t>> \in
            {<<v, t>> \in {"get", "reconcile"} \X ResourceTypes : v \in DOMAIN t.paths}}

\* Flags are inherited: --verbose and -n are the root's, --all is a verb's,
\* --with-source and --chart a sub-command's.  The last of each takes a value.
FlagLevel == [verbose |-> 0, n |-> 0, all |-> 1, withSource |-> 2, chart |-> 2]
Known(command, flag) == FlagLevel[flag] <= Len(command)
TakesNoValue(flag) == flag \in {"verbose", "all", "withSource"}

\* Flag values are skipped as cobra does: what is unknown takes a value.
SkipsNext(command, a) ==
    a.is = "flag" /\ ~(Known(command, a.name) /\ TakesNoValue(a.name))

\* nextPositional: the first argument that is no flag and no flag's value, or
\* the terminator; 0 when there is neither.
NextPositional(command, args) ==
    LET step(acc, i) ==
            IF acc.found # 0 THEN acc
            ELSE IF acc.skip THEN [acc EXCEPT !.skip = FALSE]
            ELSE IF args[i].is = "flag" THEN [acc EXCEPT !.skip = SkipsNext(command, args[i])]
            ELSE [acc EXCEPT !.found = i]
    IN FoldLeftDomain(step, [skip |-> FALSE, found |-> 0], args).found

\* Mutant of OperandIndices: every word of the rest is an operand.
AllWords(command, args) == SelectSeq([i \in DOMAIN args |-> i], LAMBDA i : args[i].is = "word")

\* operandIndices, as pflag parses the arguments of a command: what is known is
\* read by its definition, an unknown flag takes the word that follows it.  A line
\* that ends where a value should be does not parse and has none.
OperandIndices(command, args) ==
    LET step(acc, i) ==
            IF acc.rest THEN [acc EXCEPT !.found = Append(@, i)]
            ELSE IF acc.skip THEN [acc EXCEPT !.skip = FALSE]
            ELSE IF args[i].is = "dash" THEN [acc EXCEPT !.rest = TRUE]
            ELSE IF args[i].is = "word" THEN [acc EXCEPT !.found = Append(@, i)]
            ELSE IF ~Known(command, args[i].name)
            THEN [acc EXCEPT !.skip = i < Len(args) /\ args[i + 1].is = "word"]
            ELSE IF TakesNoValue(args[i].name) THEN acc
            ELSE IF i = Len(args) THEN [acc EXCEPT !.found = <<>>]
            ELSE [acc EXCEPT !.skip = TRUE]
    IN FoldLeftDomain(step, [skip |-> FALSE, rest |-> FALSE, found |-> <<>>], args).found

\* cobra's Find, external: a word that names a sub-command is taken out and the
\* search goes on below it, three levels at most.  The command, and the arguments
\* left for it.
Descend(found, level) ==
    LET i == NextPositional(found.command, found.args)
        a == found.args[i]
        below == Append(found.command, a.typ)
    IN IF i # 0 /\ a.is = "word" /\ a.name = "" /\ a.suffix = "none" /\ below \in Commands
       THEN [command |-> below, args |-> RemoveAt(found.args, i)]
       ELSE found

Find(args) == FoldLeft(Descend, [command |-> <<>>, args |-> args], <<1, 2, 3>>)

\* What a command is run with.
Reading(args) ==
    LET f == Find(args)
        operands == OperandIndices(f.command, f.args)
    IN [command |-> f.command,
        operands |-> [i \in DOMAIN operands |-> f.args[operands[i]]]]

----------------------------------------------------------------------------
(* The rewriting.                                                          *)

\* lookupResourceType and resolveResourceType: {} for a typ that is none.
LookupResourceType(typ) == {t \in ResourceTypes : typ \in t.names}
BadSuffix(a) == LookupResourceType(a.typ) # {} /\ a.suffix = "unknown"

\* parseResourceArg, validateName
ParsesAsResource(a) == a.is = "word" /\ a.name # ""
InvalidName(a) == a.name = "-all"

IsResourceVerb(command) ==
    Len(command) = 1 /\ \E t \in ResourceTypes : command[1] \in DOMAIN t.paths

\* An operand after a first TYPE/NAME of type t that makes the line an error.
RefusedOperand(a, t) ==
    \/ ~ParsesAsResource(a)
    \/ BadSuffix(a) \/ LookupResourceType(a.typ) # {t} \/ InvalidName(a)

Same(args) == [ok |-> TRUE, args |-> args]
Rejected == [ok |-> FALSE]

NormalizeResourceArgs(args) ==
    LET found == Find(args)
        v == NextPositional(<<>>, args)
        after == SubSeq(args, v + 1, Len(args))
        i == NextPositional(found.command, after)
        first == after[i]
        types == LookupResourceType(first.typ)
        type == CHOOSE t \in types : TRUE
        verb == found.command[1]
        hasName == ParsesAsResource(first)
        path == type.paths[verb]
        rest == SubSeq(after, i + 1, Len(after))
        operands == ToSet(OperandIndices(found.command \o path, rest))
        names == [j \in DOMAIN rest |->
                    IF hasName /\ j \in operands THEN Word(rest[j].name) ELSE rest[j]]
    IN IF ~IsResourceVerb(found.command) \/ v = 0 THEN Same(args)
       ELSE IF args[v].is = "dash" \/ i = 0 THEN Same(args)
       ELSE IF first.is = "dash" \/ types = {} THEN Same(args)
       ELSE IF \/ BadSuffix(first)
               \/ hasName /\ InvalidName(first)
               \/ verb \notin DOMAIN type.paths
            THEN Rejected
       ELSE IF hasName /\ \E j \in operands : RefusedOperand(rest[j], type) THEN Rejected
       ELSE Same(SubSeq(args, 1, v) \o SubSeq(after, 1, i - 1)
                 \o [j \in DOMAIN path |-> Word(path[j])]
                 \o (IF hasName THEN <<Word(first.name)>> ELSE <<>>)
                 \o names)

----------------------------------------------------------------------------
(* What is said of a line that is rewritten.                               *)

\* The flags of a line that the verb does not know in front of its type: cobra
\* takes the next word for their value, whatever they are.
FlagsKnownInTime(args) ==
    LET verb == Find(args).command IN
    \A i \in DOMAIN args :
        args[i].is = "flag" /\ ~Known(verb, args[i].name)
            => \E j \in 1..(i - 1) :
                  args[j].is = "word" /\ LookupResourceType(args[j].typ) # {}

\* The line runs the sub-command of its type on the names it gives, in order.
MeansWhatItSays(args, out) ==
    LET found == Find(args)
        first == found.args[NextPositional(found.command, found.args)]
        type == CHOOSE t \in ResourceTypes : first.typ \in t.names
        command == found.command \o type.paths[found.command[1]]
        given == OperandIndices(command, found.args)
        read == Reading(out)
    IN /\ read.command = command
       /\ IF ParsesAsResource(first)
          THEN read.operands = [i \in DOMAIN given |-> Word(found.args[given[i]].name)]
          ELSE read.operands = [i \in 1..(Len(given) - 1) |-> found.args[given[i + 1]]]
=============================================================================

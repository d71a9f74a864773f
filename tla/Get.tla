-------------------------------- MODULE Get --------------------------------
(***************************************************************************)
(* `flux get`: the objects of one kind, of several names or of all kinds,  *)
(* with their status, and the exit code.                                   *)
(*                                                                         *)
(* A cluster maps kinds to [served, fails, items]: a kind whose definition *)
(* is not installed is not served, a List of it may fail, and its objects  *)
(* come in the order of namespaces and names.                              *)
(***************************************************************************)
EXTENDS Naturals, Sequences, SequencesExt, FiniteSets

\* In the order `get all` prints them.
Kinds == <<"HelmRepository", "Kustomization", "Alert">>
Static == {"Alert"}     \* notification objects without a status of their own

CurrentNamespace == "flux"

\* Mutant of UniqueNames: as they were given.
AllNames(names) == names

\* Each name once, where it occurs first.
UniqueNames(names) ==
    FoldLeft(LAMBDA acc, n : IF n \in ToSet(acc) THEN acc ELSE Append(acc, n), <<>>, names)

\* statusAndMessage and the kinds' summariseItem.  The condition is "none" when
\* the controller has not set it.
Status(kind, o) ==
    IF kind \in Static \/ o.oci THEN "True" ELSE IF o.ready = "none" THEN "False" ELSE o.ready

\* statusMatches, readyStatusMatches: the condition as it is stored.
StatusSelectorMatches(kind, o, status) ==
    IF kind \in Static THEN status = "True" ELSE o.ready # "none" /\ o.ready = status

\* A selector is <<>>, type=status, type!=status or malformed.
Malformed(f) == f.selector # <<>> /\ f.selector[1] \notin {"=", "!="}
Filter(kind, f, o) ==
    CASE f.selector = <<>> -> TRUE
      [] f.selector # <<>> /\ f.selector[1] = "=" -> StatusSelectorMatches(kind, o, f.selector[2])
      [] f.selector # <<>> /\ f.selector[1] = "!=" -> ~StatusSelectorMatches(kind, o, f.selector[2])

\* What the API server lists: in the namespace, with the labels, of the name.
InScope(f, o) == (f.allNamespaces \/ o.namespace = CurrentNamespace) /\ (f.labels => o.labelled)
List(cluster, kind, f, names) ==
    SelectSeq(cluster[kind].items, LAMBDA o : InScope(f, o) /\ (names = {} \/ o.name \in names))

\* One List per name, in the order of the names.
ListByNames(cluster, kind, f, names) ==
    FlattenSeq([i \in DOMAIN names |-> List(cluster, kind, f, {names[i]})])

MissingOf(items, names) == {n \in ToSet(names) : \A i \in DOMAIN items : items[i].name # n}

GetRowsToPrint(kind, f, items) ==
    LET kept == SelectSeq(items, LAMBDA o : Filter(kind, f, o))
    IN [i \in DOMAIN kept |->
          [kind |-> kind, namespace |-> kept[i].namespace, name |-> kept[i].name,
           status |-> Status(kind, kept[i])]]

\* getCommand.run.  all: it is one of the kinds of `get all`, which records the
\* names it finds.
Run(cluster, kind, f, all) ==
    LET names == UniqueNames(f.names)
        several == Len(names) > 1
        items == IF several THEN ListByNames(cluster, kind, f, names)
                            ELSE List(cluster, kind, f, ToSet(names))
        missing == MissingOf(items, names)
        rows == GetRowsToPrint(kind, f, items)
        result(r, ok) == [rows |-> r, ok |-> ok,
                          found |-> IF several THEN ToSet(names) \ missing ELSE {}]
        failed == [rows |-> <<>>, ok |-> FALSE, found |-> {}]
    IN IF ~cluster[kind].served THEN [failed EXCEPT !.ok = all]
       ELSE IF cluster[kind].fails THEN failed
       ELSE IF items = <<>> THEN result(<<>>, IF several THEN all ELSE names = <<>> /\ all)
       ELSE IF Malformed(f) THEN result(<<>>, FALSE)
       ELSE result(rows, missing = {} \/ all)

\* The kinds of `get all`: an error of one is logged, and the names that no kind
\* has found fail the command.
GetAll(cluster, f) ==
    LET names == UniqueNames(f.names)
        step(acc, kind) ==
            LET r == Run(cluster, kind, f, TRUE)
            IN [rows |-> acc.rows \o r.rows, found |-> acc.found \cup r.found,
                ok |-> acc.ok /\ r.ok]
        all == FoldLeft(step, [rows |-> <<>>, found |-> {}, ok |-> TRUE], Kinds)
    IN [rows |-> all.rows, ok |-> Len(names) < 2 \/ ToSet(names) \subseteq all.found]

----------------------------------------------------------------------------
(* What is said of a table.                                                *)

Asked(f, o) == InScope(f, o) /\ (f.names = <<>> \/ o.name \in ToSet(f.names))
Row(kind, o) == [kind |-> kind, namespace |-> o.namespace, name |-> o.name, status |-> Status(kind, o)]
Objects(cluster, kind) == {o \in ToSet(cluster[kind].items) : cluster[kind].served /\ ~cluster[kind].fails}

\* The rows are those asked for, each once; with names, in their order.
RowsOf(cluster, kinds, f, rows) ==
    /\ ToSet(rows) = UNION {{Row(k, o) : o \in {o \in Objects(cluster, k) : Asked(f, o) /\ Filter(k, f, o)}} :
                              k \in kinds}
    /\ IsInjective(rows)
InOrderOfNames(names, rows) ==
    \A i, j \in DOMAIN rows : i < j =>
        \E a, b \in DOMAIN names : a <= b /\ names[a] = rows[i].name /\ names[b] = rows[j].name

\* Every name is that of an object of one of the kinds.
AllThere(cluster, kinds, f) ==
    \A n \in ToSet(f.names) : \E k \in kinds : \E o \in Objects(cluster, k) : o.name = n /\ InScope(f, o)

\* A table that succeeds is the one asked for, and a command that does not says
\* why: a name is missing, there is nothing, a List fails or the selector is bad.
TableIsTrue(cluster, kind, f, r) ==
    /\ r.rows # <<>> => RowsOf(cluster, {kind}, f, r.rows) /\ (f.names # <<>> => InOrderOfNames(f.names, r.rows))
    /\ r.ok => RowsOf(cluster, {kind}, f, r.rows)
    /\ r.ok <=> /\ cluster[kind].served /\ ~cluster[kind].fails /\ AllThere(cluster, {kind}, f)
                /\ \E o \in Objects(cluster, kind) : Asked(f, o)
                /\ ~Malformed(f)

\* `get all` shows every object asked for of every kind that can be listed, and
\* of several names tells those that none of them has.
AllIsTrue(cluster, f, r) ==
    /\ ~Malformed(f) => RowsOf(cluster, ToSet(Kinds), f, r.rows)
    /\ Cardinality(ToSet(f.names)) > 1 => (r.ok <=> AllThere(cluster, ToSet(Kinds), f))
=============================================================================

--------------------------- MODULE PluginManager ---------------------------
(***************************************************************************)
(* `flux plugin install`, `update` and `uninstall`: the binary flux-<name> *)
(* and the receipt flux-<name>.yaml of each plugin in the plugin           *)
(* directory, written one after the other and in place, by commands that   *)
(* may run at the same time, fail at any call or be killed.  The catalog   *)
(* publishes new versions meanwhile and users place binaries by hand.      *)
(*                                                                         *)
(* The manifests are those of a catalog whose `bin` is flux-<name> and     *)
(* which has a binary for the platform in every version.                   *)
(***************************************************************************)
EXTENDS Naturals, FiniteSets, TLC

CONSTANTS
    Plugins,     \* names of plugins
    Procs,       \* the processes that run a command
    MaxVersion   \* bound: versions the catalog publishes

ASSUME PluginAssumption == MaxVersion \in Nat \ {0}

Versions == 1..MaxVersion

\* What a file holds: a version of the plugin, something placed by hand, or
\* the bytes of a download that is not what the catalog lists.
Manual == 0
Corrupt == MaxVersion + 1

VARIABLES
    latest,     \* the newest published version of each plugin
    bin,        \* name -> binary
    receipt,    \* name -> receipt
    proc,       \* process -> its command
    spoiled,    \* history: names a command left half way, or two of them met at
    reported,   \* history: name -> version last reported installed, 0 for none
    manual      \* history: names with a binary properly placed by hand

files == <<bin, receipt>>
history == <<spoiled, reported, manual>>
vars == <<latest, files, proc, history>>

NoFile == [exists |-> FALSE, version |-> 0, whole |-> FALSE]
NoReceipt == [exists |-> FALSE, version |-> 0]

\* A file that was truncated and not written again parses as a receipt without
\* a version (ReadReceipt).
EmptyReceipt == [exists |-> TRUE, version |-> 0]

Idle == [pc |-> "idle", cmd |-> "none", todo |-> {}, name |-> "", version |-> 0,
         alone |-> TRUE]

Init ==
    /\ latest = [n \in Plugins |-> 1]
    /\ bin = [n \in Plugins |-> NoFile]
    /\ receipt = [n \in Plugins |-> NoReceipt]
    /\ proc = [p \in Procs |-> Idle]
    /\ spoiled = {} /\ manual = {}
    /\ reported = [n \in Plugins |-> 0]

----------------------------------------------------------------------------
(* The steps of a command.                                                 *)

At(p, label) == proc[p].pc = label

\* The process has decided to change the files of n.
Busy(q, n) == proc[q].name = n /\ proc[q].pc # "idle"

\* The process has changed one of the files of n and not yet the other.
HalfWay(q, n) == Busy(q, n) /\ proc[q].pc \in {"copy", "receipt", "unreceipt"}

\* The next name of an update, or the end of the command.
Proceed(p) ==
    LET todo == proc[p].todo IN
    proc' = [proc EXCEPT ![p] =
                IF todo = {} THEN Idle
                ELSE [Idle EXCEPT !.pc = "check", !.cmd = "update", !.todo = todo]]

\* plugin install: the manifest is fetched and the version, the latest by
\* default, is looked up in it.
Install(p, n, v) ==
    /\ At(p, "idle")
    /\ v \in 1..latest[n]
    /\ proc' = [proc EXCEPT ![p] = [Idle EXCEPT !.pc = "download", !.cmd = "install",
                                                !.name = n, !.version = v]]
    /\ UNCHANGED <<latest, files, history>>

\* plugin update: of one of the plugins Discover finds, or of all of them.
Update(p) ==
    LET found == {n \in Plugins : bin[n].exists} IN
    /\ At(p, "idle")
    /\ \E names \in {found} \cup {{n} : n \in found} :
          /\ names # {}
          /\ proc' = [proc EXCEPT ![p] = [Idle EXCEPT !.pc = "check", !.cmd = "update",
                                                      !.todo = names]]
    /\ UNCHANGED <<latest, files, history>>

\* Mutants of CheckUpdate: a plugin without a receipt is updated too; and the
\* receipt is compared with the oldest version.
CheckUpdateAll(n) ==
    IF receipt[n].version = latest[n] THEN "uptodate" ELSE "install"

CheckUpdateOldest(n) ==
    IF ~receipt[n].exists THEN "manual"
    ELSE IF receipt[n].version = 1 THEN "uptodate" ELSE "install"

\* CheckUpdate: what to do about a plugin.
CheckUpdate(n) ==
    IF ~receipt[n].exists THEN "manual"
    ELSE IF receipt[n].version = latest[n] THEN "uptodate" ELSE "install"

\* One plugin of an update is checked; when the catalog cannot be read, nothing
\* is done about it.
Check(p) ==
    /\ At(p, "check")
    /\ \E n \in proc[p].todo :
          LET rest == [proc[p] EXCEPT !.todo = @ \ {n}] IN
          \/ /\ CheckUpdate(n) = "install"
             /\ proc' = [proc EXCEPT ![p] = [rest EXCEPT !.pc = "download", !.name = n,
                                                         !.version = latest[n]]]
          \/ proc' = [proc EXCEPT ![p] = IF rest.todo = {} THEN Idle ELSE rest]
    /\ UNCHANGED <<latest, files, history>>

\* Mutant of Verified: the checksum is not compared.
VerifiedAlways(got, v) == TRUE

Verified(got, v) == got = v

\* The first change of a file of n by p: whoever is half way there meets it.
Enter(p, n, label) ==
    LET others == {q \in Procs \ {p} : HalfWay(q, n)} IN
    proc' = [q \in Procs |->
                IF q = p THEN [proc[p] EXCEPT !.pc = label, !.name = n, !.alone = others = {}]
                ELSE IF q \in others THEN [proc[q] EXCEPT !.alone = FALSE] ELSE proc[q]]

\* The archive was downloaded, perhaps not as it should be; its checksum agrees,
\* and the binary is created or truncated.
Create(p) ==
    LET n == proc[p].name IN
    /\ At(p, "download")
    /\ \E got \in {proc[p].version, Corrupt} :
          /\ Verified(got, proc[p].version)
          /\ bin' = [bin EXCEPT ![n] = [exists |-> TRUE, version |-> got, whole |-> FALSE]]
    /\ Enter(p, n, "copy")
    /\ manual' = manual \ {n}
    /\ spoiled' = IF \E q \in Procs \ {p} : HalfWay(q, n) THEN spoiled \cup {n} ELSE spoiled
    /\ UNCHANGED <<latest, receipt, reported>>

\* The binary is copied.  Bytes of two writers, or a file another command has
\* removed meanwhile, do not make a whole binary.
Copy(p) ==
    LET n == proc[p].name IN
    /\ At(p, "copy")
    /\ bin' = [bin EXCEPT ![n].whole =
                  /\ bin[n].exists /\ bin[n].version \in {proc[p].version, Corrupt}
                  /\ \A q \in Procs \ {p} : ~(Busy(q, n) /\ At(q, "copy"))]
    /\ proc' = [proc EXCEPT ![p].pc = "receipt"]
    /\ UNCHANGED <<latest, receipt, history>>

\* The receipt is written, and the plugin reported as installed.
WriteReceipt(p) ==
    LET n == proc[p].name IN
    /\ At(p, "receipt")
    /\ receipt' = [receipt EXCEPT ![n] = [exists |-> TRUE, version |-> proc[p].version]]
    /\ reported' = [reported EXCEPT ![n] = proc[p].version]
    /\ spoiled' = IF proc[p].alone THEN spoiled \ {n} ELSE spoiled
    /\ Proceed(p)
    /\ UNCHANGED <<latest, bin, manual>>

\* plugin uninstall: the binary is removed, unless there is none.
Uninstall(p, n) ==
    /\ At(p, "idle") /\ bin[n].exists
    /\ bin' = [bin EXCEPT ![n] = NoFile]
    /\ Enter(p, n, "unreceipt")
    /\ manual' = manual \ {n}
    /\ spoiled' = IF \E q \in Procs \ {p} : HalfWay(q, n) THEN spoiled \cup {n} ELSE spoiled
    /\ UNCHANGED <<latest, receipt, reported>>

\* Mutant of Unreceipted: the receipt is forgotten.
UnreceiptedNot(n) == receipt[n]

Unreceipted(n) == NoReceipt

RemoveReceipt(p) ==
    LET n == proc[p].name IN
    /\ At(p, "unreceipt")
    /\ receipt' = [receipt EXCEPT ![n] = Unreceipted(n)]
    /\ reported' = [reported EXCEPT ![n] = 0]
    /\ spoiled' = IF proc[p].alone THEN spoiled \ {n} ELSE spoiled
    /\ Proceed(p)
    /\ UNCHANGED <<latest, bin, manual>>

\* A failure half way leaves the files of the name as they are.
Touched(p) == {n \in Plugins : HalfWay(p, n)}

\* A call fails (for a checksum that does not agree there is no other way): an
\* update goes on with the next name, the other commands end.  A receipt that
\* was being written may be left empty.
Fails(p) ==
    LET n == proc[p].name IN
    /\ proc[p].pc \notin {"idle", "check"}
    /\ \/ UNCHANGED receipt
       \/ At(p, "receipt") /\ receipt' = [receipt EXCEPT ![n] = EmptyReceipt]
    /\ spoiled' = spoiled \cup Touched(p)
    /\ Proceed(p)
    /\ UNCHANGED <<latest, bin, reported, manual>>

\* The process is killed.
Killed(p) ==
    LET n == proc[p].name IN
    /\ ~At(p, "idle")
    /\ \/ UNCHANGED receipt
       \/ At(p, "receipt") /\ receipt' = [receipt EXCEPT ![n] = EmptyReceipt]
    /\ spoiled' = spoiled \cup Touched(p)
    /\ proc' = [proc EXCEPT ![p] = Idle]
    /\ UNCHANGED <<latest, bin, reported, manual>>

----------------------------------------------------------------------------
(* The catalog and the users, external.                                    *)

Publish(n) ==
    /\ latest[n] < MaxVersion
    /\ latest' = [latest EXCEPT ![n] = @ + 1]
    /\ UNCHANGED <<files, proc, history>>

\* A binary is placed by hand.  That is proper where no plugin of that name is
\* installed and no command is about to change it.
UserPlaces(n) ==
    LET proper == ~bin[n].exists /\ n \notin spoiled /\ \A q \in Procs : ~Busy(q, n) IN
    /\ bin' = [bin EXCEPT ![n] = [exists |-> TRUE, version |-> Manual, whole |-> TRUE]]
    /\ manual' = IF proper THEN manual \cup {n} ELSE manual
    /\ spoiled' = IF proper \/ n \in manual THEN spoiled ELSE spoiled \cup {n}
    /\ proc' = [q \in Procs |-> IF HalfWay(q, n) THEN [proc[q] EXCEPT !.alone = FALSE] ELSE proc[q]]
    /\ UNCHANGED <<latest, receipt, reported>>

Next ==
    \/ \E p \in Procs :
          \/ \E n \in Plugins : Uninstall(p, n) \/ \E v \in Versions : Install(p, n, v)
          \/ Update(p) \/ Check(p) \/ Create(p) \/ Copy(p)
          \/ WriteReceipt(p) \/ RemoveReceipt(p) \/ Fails(p) \/ Killed(p)
    \/ \E n \in Plugins : Publish(n) \/ UserPlaces(n)

Spec == Init /\ [][Next]_vars

----------------------------------------------------------------------------
(* Properties.                                                             *)

Labels == {"idle", "check", "download", "copy", "receipt", "unreceipt"}

\* Type invariant; a command that has nothing left to do has ended.
TypeOK ==
    /\ latest \in [Plugins -> Versions]
    /\ bin \in [Plugins -> [exists : BOOLEAN, version : 0..(MaxVersion + 1), whole : BOOLEAN]]
    /\ receipt \in [Plugins -> [exists : BOOLEAN, version : 0..MaxVersion]]
    /\ proc \in [Procs -> [pc : Labels, cmd : {"none", "install", "update"},
                           todo : SUBSET Plugins, name : Plugins \cup {""},
                           version : 0..MaxVersion, alone : BOOLEAN]]
    /\ \A p \in Procs : /\ At(p, "check") => proc[p].todo # {}
                        /\ At(p, "idle") => proc[p] = Idle
    /\ spoiled \subseteq Plugins /\ manual \subseteq Plugins
    /\ reported \in [Plugins -> 0..MaxVersion]

\* What the commands have reported last about a name is what is there: the whole
\* binary of that version with its receipt, or neither of them (or a binary
\* placed by hand).  This holds whenever nobody is at it, of every name whose
\* last command was not stopped half way and did not meet another one there;
\* and installing again repairs a name of which it did not hold.
AsReported ==
    \A n \in Plugins \ spoiled : (\A q \in Procs : ~HalfWay(q, n)) =>
        IF reported[n] = 0
          THEN receipt[n] = NoReceipt /\ (bin[n].exists => n \in manual)
          ELSE /\ receipt[n] = [exists |-> TRUE, version |-> reported[n]]
               /\ bin[n] = [exists |-> TRUE, version |-> reported[n], whole |-> TRUE]

\* "Manually installed plugins (no receipt) [...] are skipped by `flux plugin
\* update`": a binary that was properly placed by hand, perhaps where a plugin
\* was uninstalled before, is not overwritten by an update, not even by one that
\* was running while it was placed.
ManualKept ==
    [][\A n \in manual : \A p \in Procs :
          At(p, "download") /\ proc[p].name = n /\ proc[p].cmd = "update" => bin'[n] = bin[n]]_vars

\* A plugin that update calls up to date is: its binary is the whole newest
\* version, unless a command was stopped half way before.
UpToDateIsNewest ==
    \A n \in Plugins \ spoiled :
        /\ \A q \in Procs : ~HalfWay(q, n)
        /\ CheckUpdate(n) = "uptodate"
        => bin[n].whole /\ bin[n].version = latest[n]

\* What is reported and what is taken for up to date is true of the files there,
\* in every well-typed state of the plugin directory (plugin/install.go, update.go).
InstalledIsTrue == TypeOK /\ AsReported /\ UpToDateIsNewest

\* Plugins and processes are interchangeable (for TLC).
Symmetry == Permutations(Procs) \cup Permutations(Plugins)
=============================================================================

---------------------------- MODULE JunitHandoff ----------------------------
(***************************************************************************)
(* How a report gets from the Buck test runner to the executor.  A runner  *)
(* finds its declared directory empty, runs nextest, and puts junit.xml    *)
(* into the directory (publish_junit of adapter/src/nextest_v2.rs); the    *)
(* executor opens the directory and reads what it finds there              *)
(* (inspect_and_read of executor/src/report.rs).  One system call is one   *)
(* step.  Nothing keeps two runners from being given one directory, and    *)
(* the executor may look at it at any time.                                *)
(***************************************************************************)
EXTENDS Naturals

CONSTANTS
    Runners,    \* the runner processes given this directory
    Pids,       \* process ids; runners of two pid namespaces may share one
    None        \* no report

ASSUME HandoffAssumption == None \notin Runners

VARIABLES
    pid,        \* each runner's process id
    pc,         \* the call each runner makes next
    file,       \* how much of its report is in its file
    temps,      \* the temporaries in the directory
    place,      \* the place of each rename in their order, or 0
    latest,     \* the place of the rename that junit.xml shows, or 0
    stable,     \* the place up to which renames are on the disk
    window,     \* who was about to rename when the last one did
    exported,   \* runners whose publish_junit returned Ok
    failed,     \* runners that refused the directory, or whose publish failed
    look,       \* how far the executor's inspection is
    shown,      \* the runner whose file the inspection has open
    begun       \* the runners that had returned Ok when it began

runnerVars == <<file, temps, place, latest, stable, window, exported, failed>>
lookVars == <<look, shown, begun>>
vars == <<pid, pc, runnerVars, lookVars>>

\* A temporary's name, ".junit.xml.<pid>.tmp", and whose file it is.
TempOf(r) == [pid |-> pid[r], owner |-> r]
SameName(t, u) == t.pid = u.pid
Named(r) == {t \in temps : SameName(t, TempOf(r))}

\* "partial" and "written" are in memory only, "synced" is on the disk too.
Contents == {"none", "partial", "written", "synced"}

\* read_dir of the directory returns no entry.
Empty == temps = {} /\ latest = 0

Init ==
    /\ pid \in [Runners -> Pids]
    /\ pc = [r \in Runners |-> "start"]
    /\ file = [r \in Runners |-> "none"]
    /\ temps = {}
    /\ place = [r \in Runners |-> 0]
    /\ latest = 0 /\ stable = 0
    /\ window = {}
    /\ exported = {} /\ failed = {}
    /\ look = "waiting" /\ shown = None /\ begun = {}

\* Runner r makes its next call.
Step(r, from, to) ==
    /\ pc[r] = from
    /\ pc' = [pc EXCEPT ![r] = to]
    /\ UNCHANGED <<pid, lookVars>>

\* ... which changes nothing in the directory.
Call(r, from, to) == Step(r, from, to) /\ UNCHANGED runnerVars

\* ... and returns an error; what there is stays.
Fail(r, from) ==
    /\ Step(r, from, "done")
    /\ failed' = failed \cup {r}
    /\ UNCHANGED <<file, temps, place, latest, stable, window, exported>>

-----------------------------------------------------------------------------
(* The runner before nextest.                                              *)

\* empty_declared_directory finds the directory empty, or refuses it.
Admit(r) == Call(r, "start", "reading") /\ Empty
RefuseFull(r) == Fail(r, "start") /\ ~Empty

-----------------------------------------------------------------------------
(* publish_junit, after nextest has ended.                                 *)

\* The report and the directory are looked at; the report is read and validated.
Read(r) == Call(r, "reading", "listing")

\* The report is absent or malformed, or a call fails.
ReadFails(r) == Fail(r, "reading")

\* read_dir
List(r) == Call(r, "listing", "creating") /\ Empty
ListFails(r) == Fail(r, "listing")

\* The temporary is created, exclusively ...
CreateTemp(r) ==
    /\ Step(r, "creating", "writing")
    /\ Named(r) = {}
    /\ temps' = temps \cup {TempOf(r)}
    /\ file' = [file EXCEPT ![r] = "partial"]
    /\ UNCHANGED <<place, latest, stable, window, exported, failed>>

\* ... or its name is in use, or the call fails in another way.
CreateFails(r) == Fail(r, "creating")

\* set_permissions and write_all
Write(r) ==
    /\ Step(r, "writing", "syncing")
    /\ file' = [file EXCEPT ![r] = "written"]
    /\ UNCHANGED <<temps, place, latest, stable, window, exported, failed>>

\* Mutant: the temporary is not synced.
SyncSkipped(r) == Call(r, "syncing", "checking")

Sync(r) ==
    /\ Step(r, "syncing", "checking")
    /\ file' = [file EXCEPT ![r] = "synced"]
    /\ UNCHANGED <<temps, place, latest, stable, window, exported, failed>>

\* An error of these leaves the temporary in the directory.
WriteFails(r) == \E from \in {"writing", "syncing"} : Fail(r, from)

\* Mutant: rename is left to find out what is there.
CheckSkipped(r) == Call(r, "checking", "renaming")

\* symlink_metadata of junit.xml finds nothing.
Check(r) == Call(r, "checking", "renaming") /\ latest = 0

\* It finds a file: the temporary is removed, or that fails, and an error follows.
Occupied(r) ==
    /\ Step(r, "checking", "done")
    /\ latest # 0
    /\ failed' = failed \cup {r}
    /\ temps' \in {temps, temps \ Named(r)}
    /\ UNCHANGED <<file, place, latest, stable, window, exported>>

\* junit.xml is now the file found under the temporary's name.
Place(r) ==
    /\ Step(r, "renaming", "syncing_dir")
    /\ \E t \in Named(r) : place' = [place EXCEPT ![t.owner] = latest + 1]
    /\ latest' = latest + 1
    /\ window' = {q \in Runners \ {r} : pc[q] = "renaming"}
    /\ UNCHANGED <<file, stable, exported, failed>>

\* Mutant: a copy in place of the rename.
CopyOver(r) == Place(r) /\ UNCHANGED temps

\* rename, which replaces what is there.
Rename(r) == Place(r) /\ temps' = temps \ Named(r)

\* The temporary stays.
RenameFails(r) == Fail(r, "renaming")

\* fsync of the directory puts every rename so far on the disk: Ok.
SyncDir(r) ==
    /\ Step(r, "syncing_dir", "done")
    /\ stable' = latest
    /\ exported' = exported \cup {r}
    /\ UNCHANGED <<file, temps, place, latest, window, failed>>

\* It fails: an error, and the report stays in place.
SyncDirFails(r) == Fail(r, "syncing_dir")

-----------------------------------------------------------------------------
(* inspect_and_read.                                                       *)

Looking == look \in {"waiting", "opening", "reading"}

Inspect(from, to) ==
    /\ look = from
    /\ look' = to
    /\ UNCHANGED <<pid, pc, runnerVars>>

\* The directory is opened, and has exactly one entry, junit.xml, or has not.
ListDeclared ==
    /\ Inspect("waiting", IF temps = {} /\ latest # 0 THEN "opening" ELSE "refused")
    /\ begun' = exported
    /\ UNCHANGED shown

\* junit.xml is opened by its name.  fstat finds a regular file, which may be
\* larger than 64 MiB: publish_junit knows no limit.
OpenReport ==
    \E r \in Runners, to \in {"reading", "oversized"} :
        /\ place[r] = latest
        /\ Inspect("opening", to)
        /\ shown' = r
        /\ UNCHANGED begun

\* The bytes behind the descriptor are read and validated.
ReadReport ==
    /\ Inspect("reading", IF file[shown] = "partial" THEN "refused" ELSE "accepted")
    /\ UNCHANGED <<shown, begun>>

\* A call fails.
InspectFails == Looking /\ Inspect(look, "error") /\ UNCHANGED <<shown, begun>>

-----------------------------------------------------------------------------
(* Crashes.                                                                *)

\* A runner is killed, for instance when Buck's timeout is over.
Kill(r) == \E from \in {pc[r]} \ {"done", "dead"} : Call(r, from, "dead")

\* The machine crashes, and the executor with it: renames that were not synced
\* may be lost, the later ones first, and so may bytes and temporaries.
Crash ==
    /\ pc' = [r \in Runners |-> IF pc[r] = "start" THEN "start" ELSE "dead"]
    /\ latest' \in stable..latest
    /\ stable' = latest'
    /\ place' = [r \in Runners |-> IF place[r] <= latest' THEN place[r] ELSE 0]
    /\ file' \in [Runners -> Contents]
    /\ \A r \in Runners : file'[r] = file[r] \/ (file[r] = "written" /\ file'[r] = "partial")
    /\ temps' \in SUBSET temps
    /\ look' = IF Looking THEN "error" ELSE look
    /\ UNCHANGED <<pid, window, exported, failed, shown, begun>>

Runner(r) ==
    \/ Admit(r) \/ RefuseFull(r)
    \/ Read(r) \/ ReadFails(r) \/ List(r) \/ ListFails(r)
    \/ CreateTemp(r) \/ CreateFails(r) \/ Write(r) \/ Sync(r) \/ WriteFails(r)
    \/ Check(r) \/ Occupied(r) \/ Rename(r) \/ RenameFails(r)
    \/ SyncDir(r) \/ SyncDirFails(r)
    \/ Kill(r)

Next ==
    \/ Crash
    \/ ListDeclared \/ OpenReport \/ ReadReport \/ InspectFails
    \/ \E r \in Runners : Runner(r)

Spec == Init /\ [][Next]_vars

-----------------------------------------------------------------------------
(* Correctness.                                                            *)

Calls == {"start", "reading", "listing", "creating", "writing", "syncing", "checking",
          "renaming", "syncing_dir", "done", "dead"}

\* Every variable holds a value of its type.
TypeOK ==
    /\ pid \in [Runners -> Pids]
    /\ pc \in [Runners -> Calls]
    /\ file \in [Runners -> Contents]
    /\ temps \subseteq [pid : Pids, owner : Runners]
    /\ place \in [Runners -> Nat]
    /\ latest \in Nat /\ stable \in 0..latest
    /\ window \subseteq Runners
    /\ exported \subseteq Runners
    /\ failed \subseteq Runners
    /\ look \in {"waiting", "opening", "reading", "accepted", "refused", "oversized", "error"}
    /\ shown \in Runners \cup {None}
    /\ begun \subseteq exported

\* A runner that returned Ok, in a directory where no other runner had begun to
\* publish, has handed its report over: an inspection that begins after that
\* accepts this very report, unless it is larger than the executor takes.
OkIsHandedOver ==
    \A r \in begun : (\A q \in Runners \ {r} : file[q] = "none") =>
        /\ look # "refused"
        /\ look \in {"accepted", "oversized"} => shown = r

\* The rename of publish_junit replaces what it finds.  What that can destroy is
\* bounded by the look right before it: a report in place is replaced only by a
\* runner that had passed its look when this report was put there.
ReplacedOnlyInWindow ==
    [][\A r \in Runners :
        latest # 0 /\ latest' > latest /\ place'[r] = latest' => r \in window]_vars

\* The file at a place in the order of renames; a torn one is no report.
Whole == latest # 0 => \E r \in Runners : place[r] = latest /\ file[r] \in {"written", "synced"}
Reports == INSTANCE AtomicReplace
    WITH Exporters <- Runners, latest <- IF Whole THEN latest ELSE latest + 1

\* The directory keeps the promise of AtomicReplace: junit.xml is a whole report
\* at any time and after any crash, and Ok is for good, up to a later report.
KeepsPromise == Reports!RSpec

-----------------------------------------------------------------------------
(* The inductive invariant behind these properties.                        *)

Holding == {"writing", "syncing", "checking", "renaming"}

\* A temporary is its owner's, who has begun to write; and while a runner holds
\* one, no other file has its name.
TempInv ==
    /\ \A t \in temps : t = TempOf(t.owner) /\ file[t.owner] # "none"
    /\ \A r \in Runners, t \in temps : pc[r] \in Holding /\ SameName(t, TempOf(r)) => t.owner = r

\* Each place up to the latest is one runner's, and its file was synced first.
PlaceInv ==
    /\ \A r \in Runners : place[r] <= latest
    /\ \A r \in Runners : place[r] # 0 => file[r] = "synced"
    /\ \A r, q \in Runners : place[r] = place[q] /\ place[r] # 0 => r = q
    /\ \A i \in 1..latest : \E r \in Runners : place[r] = i

\* What a runner has established before each of its calls.
CallInv ==
    \A r \in Runners :
        /\ pc[r] \notin {"done", "dead"} => r \notin exported \cup failed
        /\ pc[r] \in {"start", "reading", "listing", "creating"} => file[r] = "none"
        /\ pc[r] \in {"start", "reading", "listing", "creating"} \cup Holding => place[r] = 0
        /\ pc[r] \in Holding => TempOf(r) \in temps
        /\ pc[r] \in {"checking", "renaming"} => file[r] = "synced"
        /\ pc[r] = "renaming" /\ latest # 0 => r \in window
        /\ pc[r] = "syncing_dir" => place[r] # 0 /\ TempOf(r) \notin temps

\* Ok is returned only for what is on the disk, with no temporary left.
ExportedInv == \A r \in exported : place[r] \in 1..stable /\ TempOf(r) \notin temps

\* Where the inspection stands when the reports it began after are alone.
LookInv ==
    \A r \in begun : (\A q \in Runners \ {r} : file[q] = "none") =>
        /\ look \notin {"waiting", "refused"}
        /\ look \in {"reading", "accepted", "oversized"} => shown = r

HandoffInv == TypeOK /\ TempInv /\ PlaceInv /\ CallInv /\ ExportedInv /\ LookInv
=============================================================================

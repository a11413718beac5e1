---------------------------- MODULE ReportExport ----------------------------
(***************************************************************************)
(* export_report of adapter/src/export.rs, one system call per step, by    *)
(* adapters that were given the same destination: a temporary beside it is *)
(* written, synced and renamed over it, whatever it holds.  An adapter     *)
(* exports once.  Every call may fail, an adapter may be killed and the    *)
(* machine may crash between any two calls.                                *)
(***************************************************************************)
EXTENDS Naturals

CONSTANTS
    Exporters,  \* the adapter processes given this destination
    Pids,       \* process ids; adapters of two pid namespaces may share one
    Attempts    \* how many names create_temporary tries: 128

ASSUME ExportAssumption == Attempts \in Nat \ {0}

VARIABLES
    pid,        \* each adapter's process id
    pc,         \* the call each adapter makes next
    attempt,    \* the attempt its temporary's name carries, and TEMP_COUNTER
    file,       \* how much of its report is in its file
    temps,      \* the temporaries beside the destination
    place,      \* the place of each rename in their order, or 0
    latest,     \* the place of the rename the destination shows, or 0
    stable,     \* the place up to which renames are on the disk
    exported,   \* adapters whose export_report returned Ok
    failed,     \* adapters it returned an error to
    unremoved   \* temporaries whose removal failed

vars == <<pid, pc, attempt, file, temps, place, latest, stable, exported, failed, unremoved>>
destination == <<place, latest, stable>>
answers == <<exported, failed, unremoved>>

\* A temporary's name, ".nextest-report-<pid>-<counter>-<attempt>", where the
\* counter of a first export is the attempt, and whose file it is.
TempOf(e) == [pid |-> pid[e], attempt |-> attempt[e], owner |-> e]
SameName(t, u) == t.pid = u.pid /\ t.attempt = u.attempt
Taken(e) == \E t \in temps : SameName(t, TempOf(e))

\* "partial" and "written" are in memory only, "synced" is on the disk too.
Contents == {"none", "partial", "written", "synced"}

Init ==
    /\ pid \in [Exporters -> Pids]
    /\ pc = [e \in Exporters |-> "reading"]
    /\ attempt = [e \in Exporters |-> 0]
    /\ file = [e \in Exporters |-> "none"]
    /\ temps = {}
    /\ place = [e \in Exporters |-> 0]
    /\ latest = 0 /\ stable = 0
    /\ exported = {} /\ failed = {} /\ unremoved = {}

\* Adapter e makes its next call.
Step(e, from, to) == pc[e] = from /\ pc' = [pc EXCEPT ![e] = to] /\ UNCHANGED pid

\* ... which does not answer, and concerns no file but its own.
Call(e, from, to) == Step(e, from, to) /\ UNCHANGED <<temps, destination, answers>>

\* export_report returns an error before there is a temporary.
Fail(e, from) ==
    /\ Step(e, from, "done")
    /\ failed' = failed \cup {e}
    /\ UNCHANGED <<attempt, file, temps, destination, exported, unremoved>>

-----------------------------------------------------------------------------
(* Before the temporary.                                                   *)

\* read_source, validate_report_xml and open_destination_parent.
Read(e) == Call(e, "reading", "creating") /\ UNCHANGED <<attempt, file>>

ReadFails(e) == Fail(e, "reading")

\* Mutant: without O_EXCL a temporary that is there is truncated.
CreateShared(e) ==
    /\ Step(e, "creating", "writing")
    /\ \/ temps' = temps \cup {TempOf(e)} /\ file' = [file EXCEPT ![e] = "partial"]
       \/ \E t \in temps : /\ SameName(t, TempOf(e))
                           /\ file' = [file EXCEPT ![t.owner] = "partial"]
                           /\ temps' = temps
    /\ UNCHANGED <<attempt, destination, answers>>

\* create_temporary
CreateTemp(e) ==
    /\ Step(e, "creating", "writing")
    /\ ~Taken(e)
    /\ temps' = temps \cup {TempOf(e)}
    /\ file' = [file EXCEPT ![e] = "partial"]
    /\ UNCHANGED <<attempt, destination, answers>>

\* The name is taken, and there is another one to try.
TryNext(e) ==
    /\ Call(e, "creating", "creating")
    /\ Taken(e)
    /\ attempt[e] + 1 < Attempts
    /\ attempt' = [attempt EXCEPT ![e] = @ + 1]
    /\ UNCHANGED file

\* It is taken and was the last, or the call fails in another way.
CreateFails(e) == Fail(e, "creating")

-----------------------------------------------------------------------------
(* The temporary and its rename.                                           *)

Write(e) ==
    /\ Call(e, "writing", "syncing")
    /\ file' = [file EXCEPT ![e] = "written"]
    /\ UNCHANGED attempt

\* Mutant: the temporary is not synced.
SyncSkipped(e) == Call(e, "syncing", "checking") /\ UNCHANGED <<attempt, file>>

Sync(e) ==
    /\ Call(e, "syncing", "checking")
    /\ file' = [file EXCEPT ![e] = "synced"]
    /\ UNCHANGED attempt

\* validate_destination
Check(e) == Call(e, "checking", "renaming") /\ UNCHANGED <<attempt, file>>

\* Any of these calls fails, or the rename does: the temporary is dropped.
Error(e) ==
    \E from \in {"writing", "syncing", "checking", "renaming"} :
        Call(e, from, "dropping") /\ UNCHANGED <<attempt, file>>

\* The temporary's name goes, whatever is found under it.
Remove(e) == temps' = {t \in temps : ~SameName(t, TempOf(e))}

\* The file found under the temporary's name replaces the destination.
Rename(e) ==
    /\ Step(e, "renaming", "syncing_dir")
    /\ \E t \in temps :
        /\ SameName(t, TempOf(e))
        /\ place' = [place EXCEPT ![t.owner] = latest + 1]
    /\ latest' = latest + 1
    /\ Remove(e)
    /\ UNCHANGED <<attempt, file, stable, answers>>

\* Mutant: the temporary is disarmed on every path.
DropDisarmed(e) == Fail(e, "dropping")

\* Temporary::drop, which does not look at the result.
Drop(e) ==
    /\ Step(e, "dropping", "done")
    /\ failed' = failed \cup {e}
    /\ \/ Remove(e) /\ UNCHANGED unremoved
       \/ unremoved' = unremoved \cup {TempOf(e)} /\ UNCHANGED temps
    /\ UNCHANGED <<attempt, file, destination, exported>>

\* Mutant: Ok without waiting for the directory.
SyncDirSkipped(e) ==
    /\ Step(e, "syncing_dir", "done")
    /\ exported' = exported \cup {e}
    /\ UNCHANGED <<attempt, file, temps, destination, failed, unremoved>>

\* fsync of the directory puts every rename so far on the disk: Ok.
SyncDir(e) ==
    /\ Step(e, "syncing_dir", "done")
    /\ stable' = latest
    /\ exported' = exported \cup {e}
    /\ UNCHANGED <<attempt, file, temps, place, latest, failed, unremoved>>

\* It fails: an error, and the report stays in place.
SyncDirFails(e) == Fail(e, "syncing_dir")

-----------------------------------------------------------------------------
(* Crashes.                                                                *)

\* An adapter is killed.
Kill(e) ==
    /\ pc[e] \notin {"done", "dead"}
    /\ pc' = [pc EXCEPT ![e] = "dead"]
    /\ UNCHANGED <<pid, attempt, file, temps, destination, answers>>

\* The machine crashes: renames that were not synced may be lost, the later
\* ones first, and so may bytes and temporaries.  Adapters that have not begun
\* can start after it.
Crash ==
    /\ pc' = [e \in Exporters |-> IF pc[e] = "reading" THEN "reading" ELSE "dead"]
    /\ latest' \in stable..latest
    /\ stable' = latest'
    /\ place' = [e \in Exporters |-> IF place[e] <= latest' THEN place[e] ELSE 0]
    /\ file' \in [Exporters -> Contents]
    /\ \A e \in Exporters : file'[e] = file[e] \/ (file[e] = "written" /\ file'[e] = "partial")
    /\ temps' \in SUBSET temps
    /\ UNCHANGED <<pid, attempt, answers>>

Next ==
    \/ Crash
    \/ \E e \in Exporters :
        \/ Read(e) \/ ReadFails(e)
        \/ CreateTemp(e) \/ TryNext(e) \/ CreateFails(e)
        \/ Write(e) \/ Sync(e) \/ Check(e) \/ Rename(e) \/ Error(e) \/ Drop(e)
        \/ SyncDir(e) \/ SyncDirFails(e)
        \/ Kill(e)

Spec == Init /\ [][Next]_vars

-----------------------------------------------------------------------------
(* Correctness.                                                            *)

Holding == {"writing", "syncing", "checking", "renaming", "dropping"}
Calls == Holding \cup {"reading", "creating", "syncing_dir", "done", "dead"}
Temps == [pid : Pids, attempt : 0..(Attempts - 1), owner : Exporters]

\* Every variable holds a value of its type.
TypeOK ==
    /\ pid \in [Exporters -> Pids]
    /\ pc \in [Exporters -> Calls]
    /\ attempt \in [Exporters -> 0..(Attempts - 1)]
    /\ file \in [Exporters -> Contents]
    /\ temps \subseteq Temps
    /\ place \in [Exporters -> Nat]
    /\ latest \in Nat /\ stable \in 0..latest
    /\ exported \subseteq Exporters
    /\ failed \subseteq Exporters
    /\ unremoved \subseteq Temps

\* Whoever opens the destination, at any time and after any crash, finds the
\* file that was there before or a whole report of one of the adapters.
VisibleIsComplete ==
    latest # 0 =>
        \E e \in Exporters : place[e] = latest /\ file[e] \in {"written", "synced"}

\* After an Ok the destination never goes back behind that report: it shows
\* this one or one that was renamed later, even after a crash of the machine.
ExportedStays == \A e \in exported : place[e] \in 1..latest

\* The rename and the removal find the temporary by name: it is the adapter's
\* own, also where process ids collide.
TempIsOwn ==
    \A e \in Exporters, t \in temps :
        pc[e] \in Holding /\ SameName(t, TempOf(e)) => t.owner = e

\* A temporary beside the destination is one being written, one left by an
\* adapter that died, or one that could not be removed.
TempsAreExplained ==
    \A t \in temps :
        \/ pc[t.owner] = "dead"
        \/ pc[t.owner] \in Holding /\ t = TempOf(t.owner)
        \/ t \in unremoved

Promise == INSTANCE AtomicReplace

\* The calls of export_report keep the promise of AtomicReplace.
KeepsPromise == Promise!RSpec

-----------------------------------------------------------------------------
(* The inductive invariant behind these properties.                        *)

\* Each place up to the latest is one adapter's, and its file was synced first.
PlaceInv ==
    /\ \A e \in Exporters : place[e] <= latest
    /\ \A e \in Exporters : place[e] # 0 => file[e] = "synced"
    /\ \A e, f \in Exporters : place[e] = place[f] /\ place[e] # 0 => e = f
    /\ \A i \in 1..latest : \E e \in Exporters : place[e] = i

\* Ok is returned only for what is on the disk.
ExportedInv == \A e \in exported : place[e] \in 1..stable

\* What an adapter has established before each of its calls.
CallInv ==
    \A e \in Exporters :
        /\ pc[e] \notin {"done", "dead"} => e \notin exported \cup failed
        /\ pc[e] \in {"reading", "creating"} \cup Holding => place[e] = 0
        /\ pc[e] \in Holding => TempOf(e) \in temps
        /\ pc[e] \in {"checking", "renaming"} => file[e] = "synced"
        /\ pc[e] = "syncing_dir" => place[e] # 0

IInv ==
    /\ TypeOK
    /\ PlaceInv
    /\ ExportedInv
    /\ CallInv
    /\ TempIsOwn
    /\ TempsAreExplained
=============================================================================

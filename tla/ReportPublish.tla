--------------------------- MODULE ReportPublish ---------------------------
(***************************************************************************)
(* DestinationDir of executor/src/report.rs, one system call per step:     *)
(* opening the destination, and publish with its temporary, its two ways   *)
(* to commit without replacing, and its clean-up.  Several executors may   *)
(* have been given one directory; each of them publishes one report at a   *)
(* time, since the session holds its state lock over publish.  Every call  *)
(* may fail, an executor may be killed and the machine may crash between   *)
(* any two calls.                                                          *)
(***************************************************************************)
EXTENDS Naturals, FiniteSets

CONSTANTS
    Executors,  \* the executor processes given this directory
    Names,      \* report filenames
    Pids,       \* process ids; executors of two pid namespaces may share one
    None        \* no report, no name

ASSUME PublishAssumption == None \notin Executors \cup Names

VARIABLES
    pid,        \* each executor's process id
    norename,   \* the filesystem refuses RENAME_NOREPLACE (ENOSYS or EINVAL)
    pc,         \* the call each executor makes next
    name,       \* the filename it is publishing
    counter,    \* its TEMP_COUNTER, after the last fetch_add
    file,       \* how much of its temporary's bytes are in the file
    temps,      \* the temporaries in the directory
    final,      \* the directory: whose report each filename holds
    data,       \* how much of the bytes is in the file each filename holds
    stable,     \* what of final is on the disk whatever happens
    exported,   \* publish returned Ok: pairs <<executor, name>>
    failed,     \* publish returned an error
    unremoved   \* temporaries whose removal failed

vars == <<pid, norename, pc, name, counter, file, temps, final, data, stable,
          exported, failed, unremoved>>

\* A temporary's name, ".<filename>.tmp-<pid>-<counter>", and whose file it is.
TempOf(e) == [name |-> name[e], pid |-> pid[e], counter |-> counter[e], owner |-> e]
SameName(t, u) == t.name = u.name /\ t.pid = u.pid /\ t.counter = u.counter

\* "partial" and "written" are in memory only, "synced" is on the disk too.
Contents == {"none", "partial", "written", "synced"}

Answered(e, n) == <<e, n>> \in exported \cup failed

Init ==
    /\ pid \in [Executors -> Pids]
    /\ norename \in BOOLEAN
    /\ pc = [e \in Executors |-> "closed"]
    /\ name = [e \in Executors |-> None]
    /\ counter = [e \in Executors |-> 0]
    /\ file = [e \in Executors |-> "none"]
    /\ temps = {}
    /\ final = [n \in Names |-> None]
    /\ data = [n \in Names |-> "none"]
    /\ stable = [n \in Names |-> None]
    /\ exported = {}
    /\ failed = {}
    /\ unremoved = {}

dirVars == <<temps, final, data, stable>>
answers == <<exported, failed>>

\* Executor e makes its next call.
Step(e, from, to) ==
    /\ pc[e] = from
    /\ pc' = [pc EXCEPT ![e] = to]
    /\ UNCHANGED <<pid, norename>>

\* A call of publish that concerns the temporary only.
Call(e, from, to) ==
    Step(e, from, to) /\ UNCHANGED <<name, counter, temps, final, data, stable, answers, unremoved>>

-----------------------------------------------------------------------------
(* Opening the destination.                                                *)

Empty == temps = {} /\ \A n \in Names : final[n] = None

\* DestinationDir::open finds the directory empty ...
Open(e) == Empty /\ Call(e, "closed", "idle") /\ UNCHANGED file

\* ... or refuses it or its path, or a call on the way to it fails.
OpenFails(e) == Call(e, "closed", "refused") /\ UNCHANGED file

-----------------------------------------------------------------------------
(* publish.                                                                *)

\* publish(n) has passed its checks, counted its temporary, and opens it.
OpenTemp(e, n, to) ==
    /\ Step(e, "idle", to)
    /\ ~Answered(e, n)
    /\ name' = [name EXCEPT ![e] = n]
    /\ counter' = [counter EXCEPT ![e] = @ + 1]
    /\ UNCHANGED <<final, data, stable, exported, unremoved>>

\* Mutant: without O_EXCL the file found under the name is truncated.
CreateShared(e, n) ==
    /\ OpenTemp(e, n, "writing")
    /\ \/ temps' = temps \cup {TempOf(e)'} /\ file' = [file EXCEPT ![e] = "partial"]
       \/ \E t \in temps : /\ SameName(t, TempOf(e)')
                           /\ file' = [file EXCEPT ![t.owner] = "partial"]
                           /\ temps' = temps
    /\ UNCHANGED failed

\* The temporary is created, exclusively.
CreateTemp(e, n) ==
    /\ OpenTemp(e, n, "writing")
    /\ \A t \in temps : ~SameName(t, TempOf(e)')
    /\ temps' = temps \cup {TempOf(e)'}
    /\ file' = [file EXCEPT ![e] = "partial"]
    /\ UNCHANGED failed

\* The name is in use or longer than the filesystem's NAME_MAX, or the call
\* fails in another way; so do publish's own checks of filename and bytes.
CreateFails(e, n) ==
    /\ OpenTemp(e, n, "idle")
    /\ failed' = failed \cup {<<e, n>>}
    /\ UNCHANGED <<temps, file>>

\* The loop of write_fd, and fsync of the temporary.
Write(e) == Call(e, "writing", "syncing") /\ file' = [file EXCEPT ![e] = "written"]

\* Mutant: the temporary is not synced.
SyncSkipped(e) == Call(e, "syncing", "committing") /\ UNCHANGED file

Sync(e) == Call(e, "syncing", "committing") /\ file' = [file EXCEPT ![e] = "synced"]

\* write_fd or fsync fails, in the middle of the bytes or after them.
WriteFails(e) == \E from \in {"writing", "syncing"} : Call(e, from, "cleaning") /\ UNCHANGED file

\* The temporary's name goes, whatever is found under it.
Remove(e) == temps' = {t \in temps : ~SameName(t, TempOf(e))}

\* The file found under the temporary's name gets the filename.
Place(e, to) ==
    /\ Step(e, "committing", to)
    /\ \E t \in temps :
        /\ SameName(t, TempOf(e))
        /\ final' = [final EXCEPT ![name[e]] = t.owner]
        /\ data' = [data EXCEPT ![name[e]] = file[t.owner]]
    /\ UNCHANGED <<name, counter, file, stable, answers, unremoved>>

\* Mutant: rename without RENAME_NOREPLACE.
RenameReplacing(e) == Place(e, "syncing_dir") /\ ~norename /\ Remove(e)

\* renameat2 with RENAME_NOREPLACE.
Rename(e) ==
    /\ Place(e, "syncing_dir")
    /\ ~norename
    /\ final[name[e]] = None
    /\ Remove(e)

\* renameat2 is refused, and linkat succeeds: both names exist.
Link(e) ==
    /\ Place(e, "unlinking")
    /\ norename
    /\ final[name[e]] = None
    /\ UNCHANGED temps

\* The filename exists, or the call fails in another way.
CommitFails(e) == Call(e, "committing", "cleaning") /\ UNCHANGED file

\* After linkat the temporary's name is removed ...
Unlink(e) ==
    /\ Step(e, "unlinking", "syncing_dir")
    /\ Remove(e)
    /\ UNCHANGED <<name, counter, file, final, data, stable, answers, unremoved>>

\* ... or is not, an error after the commit; publish then tries once more.
UnlinkFails(e) == Call(e, "unlinking", "cleaning") /\ UNCHANGED file

\* publish returns an error for the report e is working on.
ReturnError(e) ==
    /\ failed' = failed \cup {<<e, name[e]>>}
    /\ UNCHANGED <<name, counter, file, final, data, stable, exported>>

\* Mutant: the error returns without removing the temporary.
CleanSkipped(e) == Step(e, "cleaning", "idle") /\ ReturnError(e) /\ UNCHANGED <<temps, unremoved>>

\* The error paths remove the temporary, ignoring whether that succeeds.
Clean(e) ==
    /\ Step(e, "cleaning", "idle")
    /\ ReturnError(e)
    /\ \/ Remove(e) /\ UNCHANGED unremoved
       \/ unremoved' = unremoved \cup {TempOf(e)} /\ UNCHANGED temps

\* Mutant: Ok without waiting for the directory.
SyncDirSkipped(e) ==
    /\ Step(e, "syncing_dir", "idle")
    /\ exported' = exported \cup {<<e, name[e]>>}
    /\ UNCHANGED <<name, counter, file, dirVars, failed, unremoved>>

\* fsync of the directory puts every entry on the disk: Ok.
SyncDir(e) ==
    /\ Step(e, "syncing_dir", "idle")
    /\ stable' = final
    /\ exported' = exported \cup {<<e, name[e]>>}
    /\ UNCHANGED <<name, counter, file, temps, final, data, failed, unremoved>>

\* It fails: an error, and the report stays where it is.
SyncDirFails(e) ==
    Step(e, "syncing_dir", "idle") /\ ReturnError(e) /\ UNCHANGED <<temps, unremoved>>

-----------------------------------------------------------------------------
(* Crashes.                                                                *)

\* An executor is killed, or exits; the directory stays as it is.
Kill(e) ==
    /\ pc[e] \notin {"closed", "dead"}
    /\ pc' = [pc EXCEPT ![e] = "dead"]
    /\ UNCHANGED <<pid, norename, name, counter, file, dirVars, answers, unremoved>>

\* The machine crashes: each entry that was not synced may be lost, and so may
\* bytes that were not.  Executors not yet started can start after it.
Crash ==
    /\ pc' = [e \in Executors |-> IF pc[e] = "closed" THEN "closed" ELSE "dead"]
    /\ final' \in [Names -> Executors \cup {None}]
    /\ \A n \in Names : final'[n] \in {final[n], stable[n]}
    /\ data' \in [Names -> Contents]
    /\ \A n \in Names : data'[n] = data[n] \/ (data[n] = "written" /\ data'[n] = "partial")
    /\ stable' = final'
    /\ temps' \in SUBSET temps
    /\ UNCHANGED <<pid, norename, name, counter, file, answers, unremoved>>

Next ==
    \/ Crash
    \/ \E e \in Executors :
        \/ Open(e) \/ OpenFails(e) \/ Kill(e)
        \/ \E n \in Names : CreateTemp(e, n) \/ CreateFails(e, n)
        \/ Write(e) \/ Sync(e) \/ WriteFails(e)
        \/ Rename(e) \/ Link(e) \/ CommitFails(e) \/ Unlink(e) \/ UnlinkFails(e)
        \/ Clean(e) \/ SyncDir(e) \/ SyncDirFails(e)

Spec == Init /\ [][Next]_vars

-----------------------------------------------------------------------------
(* Correctness.                                                            *)

Calls == {"closed", "refused", "idle", "writing", "syncing", "committing", "unlinking",
          "syncing_dir", "cleaning", "dead"}
Temps == [name : Names, pid : Pids, counter : Nat, owner : Executors]

\* Every variable holds a value of its type.
TypeOK ==
    /\ pid \in [Executors -> Pids]
    /\ norename \in BOOLEAN
    /\ pc \in [Executors -> Calls]
    /\ name \in [Executors -> Names \cup {None}]
    /\ counter \in [Executors -> Nat]
    /\ file \in [Executors -> Contents]
    /\ temps \subseteq Temps
    /\ final \in [Names -> Executors \cup {None}]
    /\ data \in [Names -> Contents]
    /\ stable \in [Names -> Executors \cup {None}]
    /\ exported \subseteq Executors \X Names
    /\ failed \subseteq Executors \X Names
    /\ unremoved \subseteq Temps

\* Whoever looks at the directory, at any time and after any crash, finds
\* whole reports only: publish syncs the bytes before it commits the name.
VisibleIsComplete ==
    \A n \in Names : final[n] # None => data[n] \in {"written", "synced"}

\* Once publish has returned Ok its report is there, even after a crash of
\* the machine, and it is the executor's own.
ExportedStays ==
    \A e \in Executors, n \in Names : <<e, n>> \in exported => final[n] = e

\* The calls of publish name the temporary by path each time: what they find
\* there is the executor's own file, also where process ids collide.
Working == {"writing", "syncing", "committing", "unlinking", "cleaning"}
TempIsOwn ==
    \A e \in Executors, t \in temps :
        pc[e] \in Working /\ SameName(t, TempOf(e)) => t.owner = e

\* A temporary in the directory is one being written, one left by an executor
\* that died, or one that could not be removed; no error path forgets one.
TempsAreExplained ==
    \A t \in temps :
        \/ pc[t.owner] = "dead"
        \/ pc[t.owner] \in Working /\ t = TempOf(t.owner)
        \/ t \in unremoved

Promise == INSTANCE AtomicPublish WITH files <- final

\* The directory keeps the promise of AtomicPublish: one report per name,
\* never replaced, and lost only in a machine crash before Ok.
KeepsPromise == Promise!PSpec

-----------------------------------------------------------------------------
(* The inductive invariant behind these properties.                        *)

\* A committed report was synced first, and what the disk holds for sure is
\* part of what the directory shows.
FinalInv ==
    \A n \in Names :
        /\ final[n] # None => data[n] = "synced"
        /\ stable[n] \in {None, final[n]}

\* Ok is returned only for what is on the disk.
ExportedInv ==
    \A e \in Executors, n \in Names :
        <<e, n>> \in exported => final[n] = e /\ stable[n] = e

\* What an executor has established before each call of publish.
CallInv ==
    \A e \in Executors :
        /\ pc[e] \in Working \cup {"syncing_dir"}
               => name[e] \in Names /\ ~Answered(e, name[e])
        /\ pc[e] \in Working => TempOf(e) \in temps
        /\ pc[e] = "committing" => file[e] = "synced"
        /\ pc[e] \in {"unlinking", "syncing_dir"} => final[name[e]] = e

IInv ==
    /\ TypeOK
    /\ FinalInv
    /\ ExportedInv
    /\ CallInv
    /\ TempIsOwn
    /\ TempsAreExplained
=============================================================================

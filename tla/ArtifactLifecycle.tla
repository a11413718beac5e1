------------------------- MODULE ArtifactLifecycle -------------------------
(***************************************************************************)
(* One run of the artifact adapter in buck-artifact mode (run_buck_artifact*)
(* and run_child of nextest_buck_artifact.rs).  One signal guard lasts from*)
(* the scratch root to the export; nextest run is supervised in a process  *)
(* group of its own, the only one the adapter knows; whatever way the      *)
(* function returns, a guard's drop removes the scratch root, unless       *)
(* cleanup has run before.                                                 *)
(***************************************************************************)
EXTENDS SignalGuard

Codes == {"passed", "failed", "other"}          \* 0, 100, any other
Nextest(c) == [by |-> "nextest", code |-> c]
BySignal(s) == [by |-> "signal", code |-> s]    \* 128 + s
Infrastructure == [by |-> "adapter", code |-> "infrastructure"]  \* 3
\* An error of the function, status 2, with what its text tells.
Error(c) == [by |-> "adapter", code |-> c]
Causes == {"setup", "interrupted", "lifecycle", "cleanup"}

\* What the adapter can exit with.
Statuses ==
    {Nextest(c) : c \in Codes} \cup {BySignal(s) : s \in Signals}
        \cup {Infrastructure} \cup {Error(c) : c \in Causes}

ASSUME ArtifactAssumption ==
    /\ None \notin Signals \cup Codes
    /\ None \notin Statuses

VARIABLES
    leader,     \* nextest run: "none", "running", "zombie", "reaped"
    code,       \* what it exited with
    others,     \* its group has other processes
    killed,     \* SIGKILL was sent to the group
    pc,         \* where the adapter is
    sent,       \* what run_child has sent: "nothing", "signal", "kill"
    seen,       \* the signal recorded when its loop ended
    doomed,     \* run_child will return an error
    report,     \* nextest's report: "absent", "torn" or "valid"
    dest,       \* the caller's report: "old" or "new"
    scratch,    \* the scratch root: "absent", "present" or "removed"
    result,     \* the status to exit with, once it is known
    exit        \* the status the adapter exited with

group == <<leader, code, others, killed>>
child == <<sent, seen, doomed>>
files == <<report, dest, scratch>>
outcome == <<result, exit>>
vars == <<guardVars, group, pc, child, files, outcome>>

Done == pc \in {"exited", "killed"}
GroupGone == leader \in {"none", "reaped"} /\ ~others

Init ==
    /\ GuardInit
    /\ leader = "none" /\ code = None /\ others = FALSE /\ killed = FALSE
    /\ pc = "start" /\ sent = "nothing" /\ seen = None /\ doomed = FALSE
    /\ report = "absent" /\ dest = "old" /\ scratch = "absent"
    /\ result = None /\ exit = None

Goto(from, to) == pc = from /\ pc' = to

\* The function returns early, and its guards are dropped.
Return(from, status) ==
    /\ Goto(from, "drop")
    /\ result' = status
    /\ UNCHANGED <<files, exit>>

-----------------------------------------------------------------------------
(* Before nextest run.                                                     *)

\* An argument, the artifact, the destination of the report, a baseline or
\* the scratch path is refused ...
Refuse ==
    /\ Goto("start", "exited")
    /\ exit' = Error("setup")
    /\ UNCHANGED <<guardVars, group, child, files, result>>

\* ... or the scratch root was created and cannot be opened: it stays.
RootFails ==
    /\ Goto("start", "exited")
    /\ exit' = Error("setup")
    /\ scratch' = "present"
    /\ UNCHANGED <<guardVars, group, child, report, dest, result>>

MakeRoot ==
    /\ Goto("start", "arm")
    /\ scratch' = "present"
    /\ UNCHANGED <<guardVars, group, child, report, dest, outcome>>

Arm == Goto("arm", "check") /\ Install /\ UNCHANGED <<group, child, files, outcome>>

ArmFails == Return("arm", Error("setup")) /\ UNCHANGED <<guardVars, group, child>>

\* A signal recorded by now is an error; run_child looks for one again.
Interrupted ==
    /\ \E from \in {"check", "dispatch"} : Return(from, Error("interrupted"))
    /\ first # None
    /\ UNCHANGED <<guardVars, group, child>>

Unhindered ==
    /\ Goto("check", "stage")
    /\ first = None
    /\ UNCHANGED <<guardVars, group, child, files, outcome>>

\* Manifest, bundle and metadata.
Stage == Goto("stage", "probe_run") /\ UNCHANGED <<guardVars, group, child, files, outcome>>

StageFails == Return("stage", Error("setup")) /\ UNCHANGED <<guardVars, group, child>>

\* run --help and list --help are run to their end, whatever the guard
\* records, and show every option the adapter needs ...
Probe ==
    /\ Goto("probe_run", "probe_list") \/ Goto("probe_list", "list")
    /\ UNCHANGED <<guardVars, group, child, files, outcome>>

\* ... or one cannot be started, fails, or lacks an option.
ProbeFails ==
    /\ \E from \in {"probe_run", "probe_list"} : Return(from, Error("setup"))
    /\ UNCHANGED <<guardVars, group, child>>

\* nextest list names the binary.
List == Goto("list", "dispatch") /\ UNCHANGED <<guardVars, group, child, files, outcome>>

\* It ends with a status of its own, which the adapter returns.
ListRefused ==
    \E c \in Codes \ {"passed"} :
        Return("list", Nextest(c)) /\ UNCHANGED <<guardVars, group, child>>

ListFails == Return("list", Error("setup")) /\ UNCHANGED <<guardVars, group, child>>

SpawnFails ==
    /\ Return("dispatch", Error("setup"))
    /\ first = None
    /\ UNCHANGED <<guardVars, group, child>>

Spawn ==
    /\ Goto("dispatch", "watch")
    /\ first = None
    /\ leader' = "running"
    /\ UNCHANGED <<guardVars, code, others, killed, child, files, outcome>>

-----------------------------------------------------------------------------
(* run_child: the loop.                                                    *)

Reap == leader = "zombie" /\ leader' = "reaped" /\ UNCHANGED <<code, others, killed>>

\* The leader has ended; the signal recorded by now is the run's.
TryWait ==
    /\ Goto("watch", "drain")
    /\ Reap
    /\ seen' = first
    /\ UNCHANGED <<guardVars, sent, doomed, files, outcome>>

\* The group is killed, if it can be, and the leader waited for.
TryWaitFails ==
    /\ Goto("watch", "wait")
    /\ killed' \in {killed, TRUE}
    /\ doomed' = TRUE
    /\ UNCHANGED <<guardVars, leader, code, others, sent, seen, files, outcome>>

\* The first signal goes to the group.
Forward ==
    /\ Goto("watch", "watch")
    /\ first # None /\ sent = "nothing"
    /\ sent' = "signal"
    /\ UNCHANGED <<guardVars, group, seen, doomed, files, outcome>>

\* Mutant: five seconds later nothing more is sent.
EscalateNot ==
    /\ Goto("watch", "watch")
    /\ sent = "signal"
    /\ sent' = "kill"
    /\ UNCHANGED <<guardVars, group, seen, doomed, files, outcome>>

\* Five seconds later SIGKILL does.
Escalate ==
    /\ Goto("watch", "watch")
    /\ sent = "signal"
    /\ sent' = "kill"
    /\ killed' = TRUE
    /\ UNCHANGED <<guardVars, leader, code, others, seen, doomed, files, outcome>>

\* One of the two cannot be sent: the group is drained before the leader is
\* waited for, and an error follows.
SendFails ==
    /\ Goto("watch", "drain")
    /\ first # None /\ sent # "kill"
    /\ doomed' = TRUE
    /\ UNCHANGED <<guardVars, group, sent, seen, files, outcome>>

-----------------------------------------------------------------------------
(* drain_group, and the return of run_child.                               *)

\* After the drain: the leader is reaped yet, or there is an error, or not.
Drained(from, failed) ==
    /\ doomed' = failed
    /\ \/ leader # "reaped" /\ Goto(from, "wait") /\ UNCHANGED <<files, outcome>>
       \/ leader = "reaped" /\ failed /\ Return(from, Error("lifecycle"))
       \/ leader = "reaped" /\ ~failed /\ Goto(from, "export") /\ UNCHANGED <<files, outcome>>
    /\ UNCHANGED <<guardVars, group, sent, seen>>

\* The group is found gone.
Quiet == \E from \in {"drain", "settle"} : Drained(from, doomed) /\ GroupGone

\* SIGTERM, a probe or SIGKILL fails: the first error is kept.
DrainError ==
    /\ \E from \in {"drain", "settle"} : Goto(from, from)
    /\ doomed' = TRUE
    /\ UNCHANGED <<guardVars, group, sent, seen, files, outcome>>

\* It is not gone after the grace period, or cannot be probed: SIGKILL.
DrainKill ==
    /\ Goto("drain", "settle")
    /\ \/ killed' = TRUE /\ UNCHANGED doomed
       \/ UNCHANGED killed /\ doomed' = TRUE
    /\ UNCHANGED <<guardVars, leader, code, others, sent, seen, files, outcome>>

\* Mutant: a group that survives is not an error.
GiveUpQuietly == Drained("settle", doomed)

\* It is not gone a second later.
GiveUp == Drained("settle", TRUE)

\* child.wait() on the error paths, which may fail too.
WaitLeader ==
    /\ Return("wait", Error("lifecycle"))
    /\ \/ Reap
       \/ UNCHANGED group
    /\ UNCHANGED <<guardVars, child>>

-----------------------------------------------------------------------------
(* After nextest run.                                                      *)

\* The raw status: the signal of the run goes before what nextest returned.
Raw == IF seen = None THEN Nextest(code) ELSE BySignal(seen)
Required == Raw \in {Nextest("passed"), Nextest("failed")}

\* export_report replaces the caller's report.
Export ==
    /\ Goto("export", "stop")
    /\ report = "valid"
    /\ dest' = "new"
    /\ result' = Raw
    /\ UNCHANGED <<guardVars, group, child, report, scratch, exit>>

\* It refuses the report, or fails before or after its rename.
ExportFails ==
    /\ Goto("export", "stop")
    /\ report # "absent"
    /\ dest' \in {"old"} \cup (IF report = "valid" THEN {"new"} ELSE {})
    /\ result' = Infrastructure
    /\ UNCHANGED <<guardVars, group, child, report, scratch, exit>>

\* Mutant: a report is never missed.
ExportOptional ==
    /\ Goto("export", "stop")
    /\ report = "absent"
    /\ result' = Raw
    /\ UNCHANGED <<guardVars, group, child, files, exit>>

\* There is none.
ExportNothing ==
    /\ Goto("export", "stop")
    /\ report = "absent"
    /\ result' = IF Required THEN Infrastructure ELSE Raw
    /\ UNCHANGED <<guardVars, group, child, files, exit>>

\* Mutant: only the signal that run_child saw counts.
StopUnread ==
    /\ Goto("stop", "cleanup")
    /\ Close
    /\ result' = IF seen = None THEN result ELSE BySignal(seen)
    /\ UNCHANGED <<group, child, files, exit>>

\* The guard stops, and a signal recorded until then decides the status.
Stop ==
    /\ Goto("stop", "cleanup")
    /\ Close
    /\ result' = IF first = None THEN result ELSE BySignal(first)
    /\ UNCHANGED <<group, child, files, exit>>

Cleanup ==
    /\ Goto("cleanup", "exited")
    /\ scratch' = "removed"
    /\ exit' = result
    /\ UNCHANGED <<guardVars, group, child, report, dest, result>>

CleanupFails ==
    /\ Goto("cleanup", "exited")
    /\ exit' = Error("cleanup")
    /\ UNCHANGED <<guardVars, group, child, files, result>>

\* The guards' drops: whether scratch could be removed is not looked at.
Drop ==
    /\ Goto("drop", "exited")
    /\ Close
    /\ scratch' \in {"present", "removed"}
    /\ exit' = result
    /\ UNCHANGED <<group, child, report, dest, result>>

-----------------------------------------------------------------------------
(* The processes, and whoever sends signals.                               *)

adapter == <<pc, child, dest, scratch, outcome>>

\* Nextest ends, and may have left a report.
LeaderExits ==
    /\ ~Done
    /\ leader = "running"
    /\ leader' = "zombie"
    /\ code' \in Codes
    /\ report' \in {"absent", "torn", "valid"}
    /\ UNCHANGED <<guardVars, adapter, others, killed>>

\* Other processes join the group, unless it was killed ...
OthersStart ==
    /\ ~Done
    /\ ~others /\ ~killed
    /\ leader = "running"
    /\ others' = TRUE
    /\ UNCHANGED <<guardVars, adapter, leader, code, killed, report>>

\* ... and the last of them ends.
OthersEnd ==
    /\ ~Done
    /\ others
    /\ others' = FALSE
    /\ UNCHANGED <<guardVars, adapter, leader, code, killed, report>>

SignalArrives(s) == ~Done /\ Arrives(s) /\ UNCHANGED <<group, adapter, report>>

SignalRecorded == ~Done /\ Watch /\ UNCHANGED <<group, adapter, report>>

\* SIGKILL, or a termination signal before the guard is installed.
AdapterDies ==
    /\ ~Done
    /\ pc' = "killed"
    /\ UNCHANGED <<guardVars, group, child, files, outcome>>

Environment ==
    \/ LeaderExits \/ OthersStart \/ OthersEnd
    \/ \E s \in Signals : SignalArrives(s)
    \/ SignalRecorded
    \/ AdapterDies

Next ==
    \/ Refuse \/ RootFails \/ MakeRoot \/ Arm \/ ArmFails \/ Unhindered \/ Interrupted
    \/ Stage \/ StageFails \/ Probe \/ ProbeFails \/ List \/ ListRefused \/ ListFails \/ SpawnFails \/ Spawn
    \/ TryWait \/ TryWaitFails \/ Forward \/ Escalate \/ SendFails
    \/ Quiet \/ DrainError \/ DrainKill \/ GiveUp \/ WaitLeader
    \/ Export \/ ExportFails \/ ExportNothing
    \/ Stop \/ Cleanup \/ CleanupFails \/ Drop
    \/ Environment

Spec == Init /\ [][Next]_vars

\* The loop polls for ever, its deadlines pass, a killed process ends, and the
\* waits of the error paths return once the leader has ended.
Fairness ==
    /\ WF_vars(TryWait \/ (leader = "zombie" /\ TryWaitFails))
    /\ WF_vars(Forward \/ (sent = "nothing" /\ SendFails))
    /\ WF_vars(Escalate \/ (sent = "signal" /\ SendFails))
    /\ WF_vars(Quiet \/ DrainKill)
    /\ WF_vars(Quiet \/ GiveUp)
    /\ WF_vars(WaitLeader /\ leader # "running")
    /\ WF_vars(Export \/ ExportFails \/ ExportNothing)
    /\ WF_vars(Stop)
    /\ WF_vars(Cleanup \/ CleanupFails)
    /\ WF_vars(Drop)
    /\ WF_vars(killed /\ LeaderExits)

FairSpec == Spec /\ Fairness

-----------------------------------------------------------------------------
(* Correctness.                                                            *)

BeforeRun == {"start", "arm", "check", "stage", "probe_run", "probe_list", "list", "dispatch"}
Places == BeforeRun \cup {"watch", "drain", "settle", "wait", "export", "stop", "cleanup", "drop",
                          "exited", "killed"}

\* Every variable holds a value of its type.
TypeOK ==
    /\ GuardTypeOK
    /\ leader \in {"none", "running", "zombie", "reaped"}
    /\ code \in Codes \cup {None}
    /\ others \in BOOLEAN /\ killed \in BOOLEAN
    /\ pc \in Places
    /\ sent \in {"nothing", "signal", "kill"}
    /\ seen \in Signals \cup {None}
    /\ doomed \in BOOLEAN
    /\ report \in {"absent", "torn", "valid"}
    /\ dest \in {"old", "new"}
    /\ scratch \in {"absent", "present", "removed"}
    /\ result \in Statuses \cup {None}
    /\ exit \in Statuses \cup {None}

Errors == {Error(c) : c \in Causes}
Dispatched == leader # "none"

\* The caller's report is replaced only when the run's whole process group is
\* gone, so that nothing writes the report while it is copied.
ExportIsQuiet == pc = "export" \/ dest = "new" => Dispatched /\ GroupGone

\* Once nextest run was started, any status but 2 is returned with its group
\* gone and scratch removed, and its success or test failure with its report.
StatusIsWhole ==
    /\ Dispatched /\ exit # None /\ exit \notin Errors => GroupGone /\ scratch = "removed"
    /\ Dispatched /\ exit \in {Nextest("passed"), Nextest("failed")}
           => exit.code = code /\ dest = "new"
    /\ exit = Nextest("passed") => Dispatched

\* A signal recorded before the guard stops, at any time from the start of
\* nextest run, decides the status, unless the lifecycle itself failed.
DispatchedSignalTold ==
    Dispatched /\ first # None /\ exit # None =>
        exit \in {BySignal(first), Error("lifecycle"), Error("cleanup")}

\* After a signal the adapter comes to its end, or it waits for a leader that
\* it could not kill.
InterruptedEnds ==
    pc = "watch" /\ first # None ~> Done \/ (pc = "wait" /\ ~killed /\ leader = "running")

\* docs/baseline-and-manifest.md:95: "a wait, group-quiescence, or secure
\* scratch-cleanup failure overrides to `2` and retains the bounded scratch
\* root".
LifecycleFailureRetains ==
    exit \in {Error("lifecycle"), Error("cleanup")} => scratch = "present"

-----------------------------------------------------------------------------
(* The inductive invariant behind these properties.                        *)

\* How far nextest run is at each place.
LeaderInv ==
    /\ ~Dispatched => ~others
    /\ leader \in {"zombie", "reaped"} => code # None
    /\ pc \in BeforeRun => ~Dispatched /\ ~doomed
    /\ pc = "watch" => leader \in {"running", "zombie"} /\ ~doomed
    /\ pc \in {"drain", "settle"} => Dispatched /\ (leader = "reaped" \/ doomed)
    /\ pc = "wait" => Dispatched
    /\ pc \in {"export", "stop", "cleanup"} => leader = "reaped" /\ GroupGone
    /\ pc = "drop" /\ Dispatched => result = Error("lifecycle")

\* A signal is recorded once, and what the loop saw is that one.
SignalInv ==
    /\ pc \in {"start", "arm"} => handler = "default" /\ first = None
    /\ pc \in BeforeRun => seen = None
    /\ handler = "watching" => first = None
    /\ seen # None => seen = first
    /\ pc = "cleanup" /\ first # None => result = BySignal(first)
    /\ pc \in {"cleanup", "exited"} => handler # "watching"

\* What the result tells at each place.
ResultInv ==
    /\ pc \in {"stop", "cleanup"} =>
        /\ result \in {Nextest(code), Infrastructure} \cup {BySignal(s) : s \in Signals}
        /\ result \in {Nextest("passed"), Nextest("failed")} => dest = "new"
    /\ pc = "drop" => result # None /\ result # Nextest("passed")
    /\ dest = "new" => pc \in {"stop", "cleanup", "exited", "killed"}
    /\ exit # None <=> pc = "exited"
    /\ scratch = "removed" => pc = "exited"

IInv ==
    /\ TypeOK
    /\ LeaderInv
    /\ SignalInv
    /\ ResultInv
    /\ ExportIsQuiet
    /\ StatusIsWhole
    /\ DispatchedSignalTold
=============================================================================

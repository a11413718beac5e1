-------------------------- MODULE RunnerLifecycle --------------------------
(***************************************************************************)
(* One run of the Buck test runner (adapter/src/bin/nextest_buck_test.rs): *)
(* its scratch root, the three nextest commands it supervises in turn      *)
(* (version, list, run), the signals it forwards to the process groups it  *)
(* knows of, and what it publishes, removes and exits with.  The processes *)
(* are modelled by their groups: the leader's, and those its descendants   *)
(* form, which the runner sees only while they hang on the leader's tree.  *)
(***************************************************************************)
EXTENDS SignalGuard, FiniteSets

CONSTANTS
    Root,       \* the process group of the command being supervised
    Groups      \* process groups its descendants form

Codes == {"passed", "failed", "other"}          \* 0, 100, any other
Nextest(c) == [by |-> "nextest", code |-> c]
BySignal(s) == [by |-> "signal", code |-> s]    \* 128 + s
Refused == [by |-> "runner", code |-> "refused"]                \* 2
Infrastructure == [by |-> "runner", code |-> "infrastructure"]  \* 3

\* What the runner can exit with.
Statuses ==
    {Nextest(c) : c \in Codes} \cup {BySignal(s) : s \in Signals} \cup {Refused, Infrastructure}

ASSUME RunnerAssumption ==
    /\ Root \notin Groups
    /\ None \notin Signals \cup Codes
    /\ None \notin Statuses

VARIABLES
    leader,     \* the command's process: "none", "running", "zombie", "reaped"
    code,       \* what it exited with
    live,       \* the process groups that still have a process
    tree,       \* those a walk from the leader along parent links finds
    holders,    \* those with a process that can write to the runner's pipes
    killed,     \* those sent SIGKILL
    pc,         \* where the runner is
    phase,      \* the command: "version", "list" or "run"
    signal,     \* the signal the supervising loop has seen
    escalated,  \* kill_sent
    groups,     \* the process groups the loop knows of
    observed,   \* ... and those any loop has known of
    drainError, \* first_error of the drain, or an error to return after it
    waitFailed, \* try_wait failed, and the command was left alone
    report,     \* nextest's report: "absent", "torn" or "valid"
    declared,   \* junit.xml in the declared directory: "none" or "report"
    scratch,    \* the scratch root: "absent", "present" or "removed"
    result,     \* the status to exit with, once it is known
    retain,     \* retain_scratch
    exit        \* the status the runner exited with

processes == <<leader, code, live, tree, holders, killed>>
loop == <<signal, escalated, groups, observed, drainError, waitFailed>>
files == <<report, declared, scratch>>
outcome == <<result, retain, exit>>
vars == <<guardVars, processes, pc, phase, loop, files, outcome>>

All == Groups \cup {Root}

Done == pc \in {"exited", "killed"}

Init ==
    /\ GuardInit
    /\ leader = "none" /\ code = None
    /\ live = {} /\ tree = {} /\ holders = {} /\ killed = {}
    /\ pc = "start" /\ phase = "version"
    /\ signal = None /\ escalated = FALSE
    /\ groups = {} /\ observed = {} /\ drainError = FALSE /\ waitFailed = FALSE
    /\ report = "absent" /\ declared = "none" /\ scratch = "absent"
    /\ result = None /\ retain = FALSE /\ exit = None

Goto(from, to) == pc = from /\ pc' = to

\* The supervised part ends with an error; keep says whether scratch stays.
Fail(from, keep) ==
    /\ Goto(from, "conclude")
    /\ result' = Refused
    /\ retain' = keep
    /\ UNCHANGED <<phase, exit, files>>

\* ... while the guard is installed, which goes with it.
Abort(from, keep) == Fail(from, keep) /\ Close

\* The walk finds new groups.
Know(found) ==
    /\ groups' = groups \cup found
    /\ observed' = observed \cup found

-----------------------------------------------------------------------------
(* Before the commands.                                                    *)

\* Arguments, manifest or directory are refused; so is a scratch root that
\* could be created but not be made private, and it stays.
Refuse ==
    /\ Goto("start", "exited")
    /\ exit' = Refused
    /\ scratch' \in {"absent", "present"}
    /\ UNCHANGED <<guardVars, processes, phase, loop, report, declared, result, retain>>

MakeRoot ==
    /\ Goto("start", "stage")
    /\ scratch' = "present"
    /\ UNCHANGED <<guardVars, processes, phase, loop, report, declared, outcome>>

\* Directories, metadata and bundle resources are put into it.
Stage == Goto("stage", "install") /\ UNCHANGED <<guardVars, processes, phase, loop, files, outcome>>

StageFails == Fail("stage", FALSE) /\ UNCHANGED <<guardVars, processes, loop>>

-----------------------------------------------------------------------------
(* run_capture and run_supervised.                                         *)

InstallGuard ==
    /\ Goto("install", "spawn")
    /\ Install
    /\ UNCHANGED <<processes, phase, loop, files, outcome>>

InstallFails == Fail("install", FALSE) /\ UNCHANGED <<guardVars, processes, loop>>

\* The command starts as the leader of a group of its own.
Spawn ==
    /\ Goto("spawn", "collect")
    /\ leader' = "running" /\ code' = None
    /\ live' = live \cup {Root}
    /\ tree' = {Root} /\ holders' = {Root}
    /\ killed' = killed \ {Root}
    /\ groups' = {Root} /\ observed' = observed \cup {Root}
    /\ signal' = None /\ escalated' = FALSE /\ drainError' = FALSE
    /\ UNCHANGED <<guardVars, phase, waitFailed, files, outcome>>

SpawnFails == Abort("spawn", FALSE) /\ UNCHANGED <<processes, loop>>

\* collect_process_groups for the first time.
Collect ==
    /\ Goto("collect", "watch")
    /\ Know(tree)
    /\ UNCHANGED <<guardVars, processes, phase, signal, escalated, drainError, waitFailed,
                   files, outcome>>

\* It fails: the leader's group is killed, if it can be, and an error follows.
CollectFails ==
    /\ Goto("collect", "wait")
    /\ killed' \in {killed, killed \cup {Root}}
    /\ drainError' = TRUE
    /\ UNCHANGED <<guardVars, leader, code, live, tree, holders, phase, signal, escalated,
                   groups, observed, waitFailed, files, outcome>>

\* The leader is reaped; other processes of its group may live on.
Reap ==
    /\ leader = "zombie"
    /\ leader' = "reaped"
    /\ tree' = {}
    /\ \/ UNCHANGED <<live, holders>>
       \/ live' = live \ {Root} /\ holders' = holders \ {Root}
    /\ UNCHANGED <<code, killed>>

\* child.wait() after that failure, which may fail too.
WaitLeader ==
    /\ Goto("wait", "drain")
    /\ \/ Reap
       \/ UNCHANGED processes
    /\ UNCHANGED <<guardVars, phase, loop, files, outcome>>

\* The loop finds the leader ended, and looks for a signal a last time.
TryWait ==
    /\ Goto("watch", "drain")
    /\ Reap
    /\ signal' = IF signal = None THEN first ELSE signal
    /\ UNCHANGED <<guardVars, phase, escalated, groups, observed, drainError, waitFailed,
                   files, outcome>>

\* try_wait fails: an error that does not retain scratch.
TryWaitFails ==
    /\ Abort("watch", FALSE)
    /\ waitFailed' = TRUE
    /\ UNCHANGED <<processes, signal, escalated, groups, observed, drainError>>

\* The first signal goes to every group found now or before.
Forward ==
    /\ Goto("watch", "watch")
    /\ first # None /\ signal = None
    /\ signal' = first
    /\ Know(tree)
    /\ UNCHANGED <<guardVars, processes, phase, escalated, drainError, waitFailed, files, outcome>>

\* The walk fails, or one group cannot be signalled.
ForwardFails ==
    /\ Abort("watch", TRUE)
    /\ first # None /\ signal = None
    /\ signal' = first
    /\ \E found \in {{}, tree} : Know(found)
    /\ UNCHANGED <<processes, escalated, drainError, waitFailed>>

\* Mutant: five seconds later the signal is sent again instead of SIGKILL.
EscalateAgain ==
    /\ Goto("watch", "watch")
    /\ signal # None /\ ~escalated
    /\ Know(tree)
    /\ escalated' = TRUE
    /\ UNCHANGED <<guardVars, processes, phase, signal, drainError, waitFailed, files, outcome>>

\* Five seconds later SIGKILL does.
Escalate ==
    /\ Goto("watch", "watch")
    /\ signal # None /\ ~escalated
    /\ Know(tree)
    /\ killed' = killed \cup groups'
    /\ escalated' = TRUE
    /\ UNCHANGED <<guardVars, leader, code, live, tree, holders, phase, signal, drainError,
                   waitFailed, files, outcome>>

EscalateFails ==
    /\ Abort("watch", TRUE)
    /\ signal # None /\ ~escalated
    /\ \E found \in {{}, tree} : Know(found)
    /\ \E reached \in SUBSET groups' : killed' = killed \cup reached
    /\ UNCHANGED <<leader, code, live, tree, holders, signal, escalated, drainError, waitFailed>>

-----------------------------------------------------------------------------
(* drain_process_groups.                                                   *)

\* The runner's own group cannot be found.
DrainFails == Abort("drain", TRUE) /\ UNCHANGED <<processes, loop>>

\* A group cannot be probed or signalled: the first error is kept.
DrainError ==
    /\ Goto("drain", "drain")
    /\ drainError' = TRUE
    /\ UNCHANGED <<guardVars, processes, phase, signal, escalated, groups, observed, waitFailed,
                   files, outcome>>

\* Every group is found gone; it is a failure all the same after an error.
Quiet ==
    /\ pc \in {"drain", "quiesce"}
    /\ groups \cap live = {}
    /\ \/ drainError /\ Abort(pc, TRUE)
       \/ ~drainError /\ pc' = "join" /\ UNCHANGED <<guardVars, phase, files, outcome>>
    /\ UNCHANGED <<processes, loop>>

\* The five seconds of SIGTERM are over: SIGKILL.
DrainKill ==
    /\ Goto("drain", "quiesce")
    /\ \/ killed' = killed \cup groups /\ UNCHANGED drainError
       \/ (\E reached \in SUBSET groups : killed' = killed \cup reached) /\ drainError' = TRUE
    /\ UNCHANGED <<guardVars, leader, code, live, tree, holders, phase, signal, escalated,
                   groups, observed, waitFailed, files, outcome>>

\* Mutant: the second is over and the runner goes on.
GiveUpQuietly ==
    Goto("quiesce", "join") /\ UNCHANGED <<guardVars, processes, phase, loop, files, outcome>>

\* Mutant: the error does not retain scratch.
GiveUpUnretained == Abort("quiesce", FALSE) /\ UNCHANGED <<processes, loop>>

\* Another second is over.
GiveUp == Abort("quiesce", TRUE) /\ UNCHANGED <<processes, loop>>

-----------------------------------------------------------------------------
(* After the command: the readers end when every writer of the pipes has.  *)

Joined == holders = {}

\* Version or list succeeded, and printed what it must.
Proceed ==
    /\ Goto("join", "install")
    /\ Joined
    /\ phase # "run" /\ signal = None /\ code = "passed"
    /\ phase' = IF phase = "version" THEN "list" ELSE "run"
    /\ Close
    /\ UNCHANGED <<processes, loop, files, outcome>>

\* It did not, or was interrupted: an error either way.
BoundaryFails ==
    /\ Abort("join", FALSE)
    /\ Joined
    /\ phase # "run"
    /\ UNCHANGED <<processes, loop>>

\* Mutant: a signal seen when the command has ended is ignored.
FinishUninterrupted ==
    /\ Goto("join", "conclude")
    /\ Joined
    /\ phase = "run"
    /\ result' = IF escalated THEN BySignal(signal) ELSE Nextest(code)
    /\ Close
    /\ UNCHANGED <<processes, phase, loop, files, retain, exit>>

\* Run has ended.
Finish ==
    /\ Goto("join", "conclude")
    /\ Joined
    /\ phase = "run"
    /\ result' = IF signal = None THEN Nextest(code) ELSE BySignal(signal)
    /\ Close
    /\ UNCHANGED <<processes, phase, loop, files, retain, exit>>

\* Reading a pipe fails.
JoinFails == Abort("join", FALSE) /\ UNCHANGED <<processes, loop>>

-----------------------------------------------------------------------------
(* The end of execute.                                                     *)

Ended == result # None /\ ~retain
FromRun == result.by = "nextest"

\* Scratch stays for whoever looks into the failure.
Retain ==
    /\ Goto("conclude", "exited")
    /\ retain
    /\ exit' = Refused
    /\ UNCHANGED <<guardVars, processes, phase, loop, files, result, retain>>

\* Nextest ended by itself, and there is a report.
BeginPublish ==
    /\ Goto("conclude", "publish")
    /\ Ended /\ FromRun /\ report # "absent"
    /\ UNCHANGED <<guardVars, processes, phase, loop, files, outcome>>

\* Mutant: a missing report is no failure.
KeepAnyStatus ==
    /\ Goto("conclude", "cleanup")
    /\ Ended /\ (FromRun => report = "absent")
    /\ UNCHANGED <<guardVars, processes, phase, loop, files, outcome>>

\* A report is missing where the status requires one.
ReportMissing ==
    /\ Goto("conclude", "cleanup")
    /\ Ended /\ FromRun /\ report = "absent" /\ result.code \in {"passed", "failed"}
    /\ result' = Infrastructure
    /\ UNCHANGED <<guardVars, processes, phase, loop, files, retain, exit>>

\* No report is due.
KeepStatus ==
    /\ Goto("conclude", "cleanup")
    /\ Ended /\ (FromRun => report = "absent" /\ result.code = "other")
    /\ UNCHANGED <<guardVars, processes, phase, loop, files, outcome>>

\* publish_junit
Publish ==
    /\ Goto("publish", "cleanup")
    /\ report = "valid"
    /\ declared' = "report"
    /\ UNCHANGED <<guardVars, processes, phase, loop, report, scratch, outcome>>

\* ... refuses the report, or fails before or after its rename.
PublishFails ==
    /\ Goto("publish", "cleanup")
    /\ declared' \in {"none"} \cup (IF report = "valid" THEN {"report"} ELSE {})
    /\ result' = Infrastructure
    /\ UNCHANGED <<guardVars, processes, phase, loop, report, scratch, retain, exit>>

Cleanup ==
    /\ Goto("cleanup", "exited")
    /\ scratch' = "removed"
    /\ exit' = result
    /\ UNCHANGED <<guardVars, processes, phase, loop, report, declared, result, retain>>

CleanupFails ==
    /\ Goto("cleanup", "exited")
    /\ exit' = Refused
    /\ UNCHANGED <<guardVars, processes, phase, loop, files, result, retain>>

-----------------------------------------------------------------------------
(* The processes, and whoever sends signals.                               *)

runner == <<pc, phase, loop, declared, scratch, outcome>>

\* The command ends, and run may have left a report; its children are nobody's.
LeaderExits ==
    /\ ~Done
    /\ leader = "running"
    /\ leader' = "zombie"
    /\ code' \in Codes
    /\ tree' = {Root}
    /\ report' \in IF phase = "run" THEN {"absent", "torn", "valid"} ELSE {report}
    /\ UNCHANGED <<guardVars, runner, live, holders, killed>>

\* A process of group p forms group g, and may pass on the pipes.
Fork(p, g) ==
    /\ ~Done
    /\ p \in live \ killed
    /\ g \notin live \cup observed
    /\ live' = live \cup {g}
    /\ tree' = IF leader = "running" /\ p \in tree THEN tree \cup {g} ELSE tree
    /\ holders' \in {holders} \cup (IF p \in holders THEN {holders \cup {g}} ELSE {})
    /\ UNCHANGED <<guardVars, runner, leader, code, killed, report>>

\* The parent of g's processes ends, and the walk finds g no longer.
Detach(g) ==
    /\ ~Done
    /\ g \in tree \ {Root}
    /\ tree' = tree \ {g}
    /\ UNCHANGED <<guardVars, runner, leader, code, live, holders, killed, report>>

\* The last process of g ends.
GroupDies(g) ==
    /\ ~Done
    /\ g \in live
    /\ g = Root => leader = "reaped"
    /\ live' = live \ {g}
    /\ tree' = tree \ {g}
    /\ holders' = holders \ {g}
    /\ UNCHANGED <<guardVars, runner, leader, code, killed, report>>

SignalArrives(s) == ~Done /\ Arrives(s) /\ UNCHANGED <<processes, runner, report>>

SignalRecorded == ~Done /\ Watch /\ UNCHANGED <<processes, runner, report>>

\* SIGKILL, or a termination signal before the first guard is installed.
RunnerDies ==
    /\ ~Done
    /\ pc' = "killed"
    /\ UNCHANGED <<guardVars, processes, phase, loop, files, outcome>>

Environment ==
    \/ LeaderExits
    \/ \E p \in All, g \in Groups : Fork(p, g)
    \/ \E g \in Groups : Detach(g)
    \/ \E g \in All : GroupDies(g)
    \/ \E s \in Signals : SignalArrives(s)
    \/ SignalRecorded
    \/ RunnerDies

Next ==
    \/ Refuse \/ MakeRoot \/ Stage \/ StageFails
    \/ InstallGuard \/ InstallFails \/ Spawn \/ SpawnFails
    \/ Collect \/ CollectFails \/ WaitLeader
    \/ TryWait \/ TryWaitFails \/ Forward \/ ForwardFails \/ Escalate \/ EscalateFails
    \/ DrainFails \/ DrainError \/ Quiet \/ DrainKill \/ GiveUp
    \/ Proceed \/ BoundaryFails \/ Finish \/ JoinFails
    \/ Retain \/ BeginPublish \/ ReportMissing \/ KeepStatus
    \/ Publish \/ PublishFails \/ Cleanup \/ CleanupFails
    \/ Environment

Spec == Init /\ [][Next]_vars

\* The loop polls for ever, its deadlines pass, a killed process ends.
Fairness ==
    /\ WF_vars(TryWait \/ (leader = "zombie" /\ TryWaitFails))
    /\ WF_vars(Escalate \/ EscalateFails)
    /\ WF_vars(DrainFails \/ DrainKill \/ Quiet)
    /\ WF_vars(GiveUp \/ Quiet)
    /\ WF_vars(Finish \/ Proceed \/ BoundaryFails)
    /\ WF_vars(Retain \/ BeginPublish \/ ReportMissing \/ KeepStatus)
    /\ WF_vars(Publish \/ PublishFails)
    /\ WF_vars(Cleanup \/ CleanupFails)
    /\ WF_vars(Root \in killed /\ LeaderExits)

FairSpec == Spec /\ Fairness

-----------------------------------------------------------------------------
(* Correctness.                                                            *)

Places == {"start", "stage", "install", "spawn", "collect", "wait", "watch", "drain", "quiesce",
           "join", "conclude", "publish", "cleanup", "exited", "killed"}

\* Every variable holds a value of its type.
TypeOK ==
    /\ GuardTypeOK
    /\ leader \in {"none", "running", "zombie", "reaped"}
    /\ code \in Codes \cup {None}
    /\ live \subseteq All /\ tree \subseteq live /\ holders \subseteq live /\ killed \subseteq All
    /\ pc \in Places
    /\ phase \in {"version", "list", "run"}
    /\ signal \in Signals \cup {None}
    /\ escalated \in BOOLEAN
    /\ groups \subseteq observed /\ observed \subseteq All
    /\ drainError \in BOOLEAN /\ waitFailed \in BOOLEAN
    /\ report \in {"absent", "torn", "valid"}
    /\ declared \in {"none", "report"}
    /\ scratch \in {"absent", "present", "removed"}
    /\ result \in Statuses \cup {None}
    /\ retain \in BOOLEAN
    /\ exit \in Statuses \cup {None}

AllGone == observed \cap live = {}

\* While the report is published, and ever after, it is the report of a run
\* that ended by itself, and no process the runner knew of can still write it.
PublishedIsQuiet ==
    pc = "publish" \/ declared = "report" =>
        leader = "reaped" /\ AllGone /\ phase = "run" /\ signal = None

\* The runner reports nextest's success or test failure only with the report
\* in place, every known process gone, and scratch removed.
VerdictIsWhole ==
    exit \in {Nextest("passed"), Nextest("failed")} =>
        exit.code = code /\ declared = "report" /\ AllGone /\ scratch = "removed"

\* Once the loop has seen a signal, whichever command it interrupts, the runner
\* publishes nothing and exits with the signal's status or with 2.
InterruptionIsTold ==
    signal # None /\ exit # None =>
        exit \in {BySignal(signal), Refused} /\ declared = "none"

\* Scratch is removed only under processes that are gone, unless try_wait
\* itself failed; what is left behind at the end is told by status 2.
ScratchOutlivesGroups ==
    /\ scratch = "removed" => AllGone \/ waitFailed
    /\ exit # None /\ scratch = "present" => exit = Refused

\* After a signal was forwarded the runner comes to its end, or waits for a
\* process that it never saw and that holds one of its pipes.
InterruptedEnds ==
    pc = "watch" /\ signal # None
        ~> Done \/ (pc = "join" /\ holders # {} /\ holders \cap groups = {})

\* README.md:145: "If the runner receives HUP, INT, or TERM, it returns the
\* corresponding Unix signal-derived status and drains the process groups it can
\* observe before scratch cleanup."
SignalStatusReturned ==
    signal # None /\ exit # None /\ scratch = "removed" /\ ~waitFailed => exit = BySignal(signal)

-----------------------------------------------------------------------------
(* The inductive invariant behind these properties.                        *)

\* The leader is watched from its start until it is reaped.
LeaderInv ==
    /\ leader \in {"running", "zombie"} => Root \in live \cap groups
    /\ leader \in {"zombie", "reaped"} => code # None
    /\ pc \in {"collect", "wait", "watch"} => leader \in {"running", "zombie"}
    /\ pc = "wait" => drainError
    /\ pc \in {"drain", "quiesce"} => leader = "reaped" \/ drainError
    /\ pc = "join" => leader = "reaped"

\* Which observed groups may be live at each place.
GroupsInv ==
    /\ pc \in {"start", "stage", "install", "spawn", "join", "publish"} => AllGone
    /\ pc \in {"collect", "wait", "watch", "drain", "quiesce"} =>
        observed \cap live \subseteq groups
    /\ pc \in {"conclude", "cleanup"} /\ ~retain => AllGone \/ waitFailed
    /\ retain => pc \in {"conclude", "exited", "killed"} /\ result = Refused
    /\ waitFailed => pc \in {"conclude", "cleanup", "exited", "killed"} /\ result = Refused

\* What is known once the result is.
ResultInv ==
    /\ pc \in {"conclude", "publish", "cleanup"} => result # None
    /\ pc = "publish" => result = Nextest(code)
    /\ result # None => pc \in {"conclude", "publish", "cleanup", "exited", "killed"}
    /\ result # None /\ result # Refused =>
        /\ phase = "run" /\ leader = "reaped" /\ AllGone
        /\ IF signal = None THEN result \in {Nextest(code), Infrastructure}
                            ELSE result = BySignal(signal)
    /\ pc = "cleanup" /\ result.by = "nextest" /\ declared = "none" => code = "other"

\* What the directories hold at each place.
FilesInv ==
    /\ declared = "report" =>
        pc \in {"cleanup", "exited", "killed"} /\ result \in {Nextest(code), Infrastructure}
    /\ scratch = "removed" => pc = "exited"
    /\ exit # None <=> pc = "exited"
    /\ pc \notin {"start", "exited", "killed"} => scratch = "present"

IInv ==
    /\ TypeOK
    /\ LeaderInv
    /\ GroupsInv
    /\ ResultInv
    /\ FilesInv
    /\ PublishedIsQuiet
    /\ VerdictIsWhole
    /\ InterruptionIsTold
    /\ ScratchOutlivesGroups
=============================================================================

----------------------- MODULE RunnerLifecycleProofs -----------------------
(***************************************************************************)
(* The safety properties of RunnerLifecycle, for any signals and process   *)
(* groups.  IInv is inductive as it stands; each lemma below takes the     *)
(* actions of one stretch of the runner, or those of the processes.        *)
(***************************************************************************)
EXTENDS RunnerLifecycle, TLAPS

\* The two statuses of the runner's own are among those it exits with.
LEMMA OwnStatuses == Refused \in Statuses /\ Infrastructure \in Statuses
BY DEF Statuses

LEMMA InitInv == Init => IInv
BY RunnerAssumption
   DEF Init, GuardInit, IInv, TypeOK, GuardTypeOK, LeaderInv, GroupsInv, ResultInv, FilesInv,
       PublishedIsQuiet, VerdictIsWhole, InterruptionIsTold, ScratchOutlivesGroups, AllGone,
       Codes, Nextest, BySignal, Refused, Infrastructure, Statuses, Places

\* Up to the first walk of a command's process tree.
LEMMA BeforeStep ==
    ASSUME IInv,
           Refuse \/ MakeRoot \/ Stage \/ StageFails \/ InstallGuard \/ InstallFails
           \/ Spawn \/ SpawnFails \/ Collect \/ CollectFails
    PROVE  IInv'
<1> USE RunnerAssumption, OwnStatuses
    DEF IInv, TypeOK, GuardTypeOK, LeaderInv, GroupsInv, ResultInv, FilesInv,
        PublishedIsQuiet, VerdictIsWhole, InterruptionIsTold, ScratchOutlivesGroups, AllGone,
        All, Codes, Nextest, BySignal, Refused, Infrastructure, Statuses, Places,
        guardVars, processes, loop, files, outcome,
        Goto, Fail, Abort, Know, Install, Close
<1>1. CASE Refuse
  BY <1>1 DEF Refuse
<1>2. CASE MakeRoot
  BY <1>2 DEF MakeRoot
<1>3. CASE Stage
  BY <1>3 DEF Stage
<1>4. CASE StageFails
  <2>1. retain' \in BOOLEAN
    <3>1. retain' = FALSE
      BY <1>4 DEF StageFails
    <3> QED BY <3>1
  <2> QED BY <1>4, <2>1 DEF StageFails
<1>5. CASE InstallGuard
  BY <1>5 DEF InstallGuard
<1>6. CASE InstallFails
  <2>1. retain' \in BOOLEAN
    <3>1. retain' = FALSE
      BY <1>6 DEF InstallFails
    <3> QED BY <3>1
  <2> QED BY <1>6, <2>1 DEF InstallFails
<1>7. CASE Spawn
  BY <1>7 DEF Spawn
<1>8. CASE SpawnFails
  <2>1. retain' \in BOOLEAN
    <3>1. retain' = FALSE
      BY <1>8 DEF SpawnFails
    <3> QED BY <3>1
  <2> QED BY <1>8, <2>1 DEF SpawnFails
<1>9. CASE Collect
  BY <1>9 DEF Collect
<1>10. CASE CollectFails
  BY <1>10 DEF CollectFails
<1> QED BY <1>1, <1>2, <1>3, <1>4, <1>5, <1>6, <1>7, <1>8, <1>9, <1>10

\* The loop, until the leader is reaped or the loop fails.
LEMMA WatchStep ==
    ASSUME IInv,
           WaitLeader \/ TryWait \/ TryWaitFails \/ Forward \/ ForwardFails \/ Escalate
           \/ EscalateFails
    PROVE  IInv'
<1> USE RunnerAssumption, OwnStatuses
    DEF IInv, TypeOK, GuardTypeOK, LeaderInv, GroupsInv, ResultInv, FilesInv,
        PublishedIsQuiet, VerdictIsWhole, InterruptionIsTold, ScratchOutlivesGroups, AllGone,
        All, Codes, Nextest, BySignal, Refused, Infrastructure, Statuses, Places,
        guardVars, processes, loop, files, outcome,
        Goto, Fail, Abort, Know, Reap, Close
<1>1. CASE WaitLeader
  <2>1. CASE Reap
    BY <1>1, <2>1 DEF WaitLeader
  <2>2. CASE UNCHANGED processes
    BY <1>1, <2>2 DEF WaitLeader
  <2> QED BY <1>1, <2>1, <2>2 DEF WaitLeader
<1>2. CASE TryWait
  BY <1>2 DEF TryWait
<1>3. CASE TryWaitFails
  <2>1. retain' \in BOOLEAN
    <3>1. retain' = FALSE
      BY <1>3 DEF TryWaitFails
    <3> QED BY <3>1
  <2> QED BY <1>3, <2>1 DEF TryWaitFails
<1>4. CASE Forward
  BY <1>4 DEF Forward
<1>5. CASE ForwardFails
  BY <1>5 DEF ForwardFails
<1>6. CASE Escalate
  BY <1>6 DEF Escalate
<1>7. CASE EscalateFails
  BY <1>7 DEF EscalateFails
<1> QED BY <1>1, <1>2, <1>3, <1>4, <1>5, <1>6, <1>7

\* The drain: it leaves the loop only when every known group is gone, or with an
\* error that retains scratch.
LEMMA DrainStep ==
    ASSUME IInv,
           DrainFails \/ DrainError \/ Quiet \/ DrainKill \/ GiveUp
    PROVE  IInv'
<1> USE RunnerAssumption, OwnStatuses
    DEF IInv, TypeOK, GuardTypeOK, LeaderInv, GroupsInv, ResultInv, FilesInv,
        PublishedIsQuiet, VerdictIsWhole, InterruptionIsTold, ScratchOutlivesGroups, AllGone,
        All, Codes, Nextest, BySignal, Refused, Infrastructure, Statuses, Places,
        guardVars, processes, loop, files, outcome,
        Goto, Fail, Abort, Close
<1>1. CASE DrainFails
  BY <1>1 DEF DrainFails
<1>2. CASE DrainError
  BY <1>2 DEF DrainError
<1>3. CASE Quiet
  <2>1. CASE drainError
    BY <1>3, <2>1 DEF Quiet
  <2>2. CASE ~drainError
    BY <1>3, <2>2 DEF Quiet
  <2> QED BY <2>1, <2>2
<1>4. CASE DrainKill
  <2>1. killed' \subseteq All /\ drainError' \in BOOLEAN
    BY <1>4 DEF DrainKill
  <2>2. pc = "drain" /\ pc' = "quiesce"
    BY <1>4 DEF DrainKill
  <2>3. UNCHANGED <<guardVars, leader, code, live, tree, holders, phase, signal, escalated,
                    groups, observed, waitFailed, files, outcome>>
    BY <1>4 DEF DrainKill
  <2>4. drainError => drainError'
    BY <1>4 DEF DrainKill
  <2> QED BY <2>1, <2>2, <2>3, <2>4
<1>5. CASE GiveUp
  BY <1>5 DEF GiveUp
<1> QED BY <1>1, <1>2, <1>3, <1>4, <1>5

\* After a command, and from its last one to the runner's end.
LEMMA AfterStep ==
    ASSUME IInv,
           Proceed \/ BoundaryFails \/ Finish \/ JoinFails \/ Retain \/ BeginPublish
           \/ ReportMissing \/ KeepStatus \/ Publish \/ PublishFails \/ Cleanup
           \/ CleanupFails
    PROVE  IInv'
<1> USE RunnerAssumption, OwnStatuses
    DEF IInv, TypeOK, GuardTypeOK, LeaderInv, GroupsInv, ResultInv, FilesInv,
        PublishedIsQuiet, VerdictIsWhole, InterruptionIsTold, ScratchOutlivesGroups, AllGone,
        All, Codes, Nextest, BySignal, Refused, Infrastructure, Statuses, Places,
        guardVars, processes, loop, files, outcome,
        Goto, Fail, Abort, Close, Joined, Ended, FromRun
<1>1. CASE Proceed
  BY <1>1 DEF Proceed
<1>2. CASE BoundaryFails
  <2>1. retain' \in BOOLEAN
    <3>1. retain' = FALSE
      BY <1>2 DEF BoundaryFails
    <3> QED BY <3>1
  <2> QED BY <1>2, <2>1 DEF BoundaryFails
<1>3. CASE Finish
  BY <1>3 DEF Finish
<1>4. CASE JoinFails
  <2>1. retain' \in BOOLEAN
    <3>1. retain' = FALSE
      BY <1>4 DEF JoinFails
    <3> QED BY <3>1
  <2> QED BY <1>4, <2>1 DEF JoinFails
<1>5. CASE Retain
  BY <1>5 DEF Retain
<1>6. CASE BeginPublish
  BY <1>6 DEF BeginPublish
<1>7. CASE ReportMissing
  BY <1>7 DEF ReportMissing
<1>8. CASE KeepStatus
  BY <1>8 DEF KeepStatus
<1>9. CASE Publish
  BY <1>9 DEF Publish
<1>10. CASE PublishFails
  BY <1>10 DEF PublishFails
<1>11. CASE Cleanup
  BY <1>11 DEF Cleanup
<1>12. CASE CleanupFails
  BY <1>12 DEF CleanupFails
<1> QED BY <1>1, <1>2, <1>3, <1>4, <1>5, <1>6, <1>7, <1>8, <1>9, <1>10, <1>11, <1>12

\* The processes come and go, signals arrive, the runner may die.
LEMMA ProcessStep == ASSUME IInv, Environment PROVE IInv'
<1> USE RunnerAssumption, OwnStatuses
    DEF IInv, TypeOK, GuardTypeOK, LeaderInv, GroupsInv, ResultInv, FilesInv,
        PublishedIsQuiet, VerdictIsWhole, InterruptionIsTold, ScratchOutlivesGroups, AllGone,
        All, Codes, Nextest, BySignal, Refused, Infrastructure, Statuses, Places,
        guardVars, processes, loop, files, outcome,
        runner, Done, Arrives, Watch
<1>1. CASE LeaderExits
  BY <1>1 DEF LeaderExits
<1>2. ASSUME NEW p \in All, NEW g \in Groups, Fork(p, g) PROVE IInv'
  BY <1>2 DEF Fork
<1>3. ASSUME NEW g \in Groups, Detach(g) PROVE IInv'
  BY <1>3 DEF Detach
<1>4. ASSUME NEW g \in All, GroupDies(g) PROVE IInv'
  BY <1>4 DEF GroupDies
<1>5. ASSUME NEW s \in Signals, SignalArrives(s) PROVE IInv'
  BY <1>5 DEF SignalArrives
<1>6. CASE SignalRecorded
  BY <1>6 DEF SignalRecorded
<1>7. CASE RunnerDies
  BY <1>7 DEF RunnerDies
<1> QED BY <1>1, <1>2, <1>3, <1>4, <1>5, <1>6, <1>7 DEF Environment

LEMMA StutterStep == ASSUME IInv, UNCHANGED vars PROVE IInv'
BY DEF IInv, TypeOK, GuardTypeOK, LeaderInv, GroupsInv, ResultInv, FilesInv, PublishedIsQuiet,
       VerdictIsWhole, InterruptionIsTold, ScratchOutlivesGroups, AllGone, guardVars, processes,
       loop, files, outcome, vars

\* IInv holds throughout every run of the runner.
THEOREM Invariance == Spec => []IInv
<1>1. IInv /\ [Next]_vars => IInv'
  BY BeforeStep, WatchStep, DrainStep, AfterStep, ProcessStep, StutterStep DEF Next
<1> QED BY InitInv, <1>1, PTL DEF Spec

\* What publish_junit copies is the report of a run that ended by itself, and
\* no process the runner knew of is left to change it.
THEOREM PublicationIsQuiet == Spec => []PublishedIsQuiet
<1>1. IInv => PublishedIsQuiet
  BY DEF IInv
<1> QED BY Invariance, <1>1, PTL

\* execute returns nextest's 0 or 100 only with the report in place, the known
\* processes gone and scratch removed.
THEOREM VerdictsAreWhole == Spec => []VerdictIsWhole
<1>1. IInv => VerdictIsWhole
  BY DEF IInv
<1> QED BY Invariance, <1>1, PTL

\* A signal the supervising loop has seen decides the status, whichever command
\* it interrupts, and nothing is published after it.
THEOREM InterruptionsAreTold == Spec => []InterruptionIsTold
<1>1. IInv => InterruptionIsTold
  BY DEF IInv
<1> QED BY Invariance, <1>1, PTL

\* Scratch is not removed under a process the runner knows of, unless try_wait
\* failed; and scratch that stays is told by status 2.
THEOREM ScratchIsKept == Spec => []ScratchOutlivesGroups
<1>1. IInv => ScratchOutlivesGroups
  BY DEF IInv
<1> QED BY Invariance, <1>1, PTL
=============================================================================

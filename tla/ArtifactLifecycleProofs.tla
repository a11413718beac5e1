---------------------- MODULE ArtifactLifecycleProofs ----------------------
(***************************************************************************)
(* The safety properties of ArtifactLifecycle, for any set of signals.     *)
(* IInv is inductive as it stands; the lemmas follow the course of         *)
(* run_buck_artifact, one step for each action.                            *)
(***************************************************************************)
EXTENDS ArtifactLifecycle, TLAPS

\* The statuses of the adapter's own are among those it exits with.
LEMMA OwnStatuses == Infrastructure \in Statuses /\ \A c \in Causes : Error(c) \in Statuses
BY DEF Statuses

LEMMA InitInv == Init => IInv
BY ArtifactAssumption
   DEF Init, GuardInit, IInv, TypeOK, GuardTypeOK, LeaderInv, SignalInv, ResultInv,
       ExportIsQuiet, StatusIsWhole, DispatchedSignalTold, Dispatched, GroupGone,
       Codes, Nextest, BySignal, Infrastructure, Error, Errors, Causes, Statuses, BeforeRun, Places

\* Up to the start of nextest run: every error here is a setup error or an
\* interruption, and no process exists.
LEMMA BeforeStep ==
    ASSUME IInv,
           Refuse \/ RootFails \/ MakeRoot \/ Arm \/ ArmFails \/ Unhindered \/ Interrupted
           \/ Stage \/ StageFails \/ Probe \/ ProbeFails \/ List \/ ListRefused \/ ListFails \/ SpawnFails \/ Spawn
    PROVE  IInv'
<1> USE ArtifactAssumption, OwnStatuses
    DEF IInv, TypeOK, GuardTypeOK, LeaderInv, SignalInv, ResultInv, ExportIsQuiet,
        StatusIsWhole, DispatchedSignalTold, Dispatched, GroupGone, Codes, Nextest, BySignal,
        Infrastructure, Error, Errors, Causes, Statuses, BeforeRun, Places,
        guardVars, group, child, files, outcome,
        Goto, Return, Install
<1>1. CASE Refuse
  BY <1>1 DEF Refuse
<1>2. CASE MakeRoot
  BY <1>2 DEF MakeRoot
<1>3. CASE Arm
  BY <1>3 DEF Arm
<1>4. CASE ArmFails
  BY <1>4 DEF ArmFails
<1>5. CASE Unhindered
  BY <1>5 DEF Unhindered
<1>6. CASE Interrupted
  BY <1>6 DEF Interrupted
<1>7. CASE Stage
  BY <1>7 DEF Stage
<1>8. CASE StageFails
  BY <1>8 DEF StageFails
<1>9. CASE List
  BY <1>9 DEF List
<1>10. CASE ListRefused
  BY <1>10 DEF ListRefused
<1>11. CASE ListFails
  BY <1>11 DEF ListFails
<1>12. CASE SpawnFails
  BY <1>12 DEF SpawnFails
<1>13. CASE Spawn
  BY <1>13 DEF Spawn
<1>14. CASE RootFails
  BY <1>14 DEF RootFails
<1>15. CASE Probe
  BY <1>15 DEF Probe
<1>16. CASE ProbeFails
  BY <1>16 DEF ProbeFails
<1> QED BY <1>1, <1>2, <1>3, <1>4, <1>5, <1>6, <1>7, <1>8, <1>9, <1>10, <1>11, <1>12, <1>13,
           <1>14, <1>15, <1>16

\* run_child: it returns without an error only when the group is gone.
LEMMA ChildStep ==
    ASSUME IInv,
           TryWait \/ TryWaitFails \/ Forward \/ Escalate \/ SendFails \/ Quiet
           \/ DrainError \/ DrainKill \/ GiveUp \/ WaitLeader
    PROVE  IInv'
<1> USE ArtifactAssumption, OwnStatuses
    DEF IInv, TypeOK, GuardTypeOK, LeaderInv, SignalInv, ResultInv, ExportIsQuiet,
        StatusIsWhole, DispatchedSignalTold, Dispatched, GroupGone, Codes, Nextest, BySignal,
        Infrastructure, Error, Errors, Causes, Statuses, BeforeRun, Places,
        guardVars, group, child, files, outcome,
        Goto, Return, Drained, Reap
<1>1. CASE TryWait
  BY <1>1 DEF TryWait
<1>2. CASE TryWaitFails
  <2>1. killed' \in BOOLEAN
    BY <1>2 DEF TryWaitFails
  <2> QED BY <1>2, <2>1 DEF TryWaitFails
<1>3. CASE Forward
  BY <1>3 DEF Forward
<1>4. CASE Escalate
  BY <1>4 DEF Escalate
<1>5. CASE SendFails
  BY <1>5 DEF SendFails
<1>6. CASE Quiet
  BY <1>6 DEF Quiet
<1>7. CASE DrainError
  BY <1>7 DEF DrainError
<1>8. CASE DrainKill
  <2>1. killed' \in BOOLEAN /\ doomed' \in BOOLEAN
    BY <1>8 DEF DrainKill
  <2>2. doomed => doomed'
    BY <1>8 DEF DrainKill
  <2> QED BY <1>8, <2>1, <2>2 DEF DrainKill
<1>9. CASE GiveUp
  BY <1>9 DEF GiveUp
<1>10. CASE WaitLeader
  BY <1>10 DEF WaitLeader
<1> QED BY <1>1, <1>2, <1>3, <1>4, <1>5, <1>6, <1>7, <1>8, <1>9, <1>10

\* From the report to the adapter's end.
LEMMA AfterStep ==
    ASSUME IInv,
           Export \/ ExportFails \/ ExportNothing \/ Stop \/ Cleanup \/ CleanupFails
           \/ Drop
    PROVE  IInv'
<1> USE ArtifactAssumption, OwnStatuses
    DEF IInv, TypeOK, GuardTypeOK, LeaderInv, SignalInv, ResultInv, ExportIsQuiet,
        StatusIsWhole, DispatchedSignalTold, Dispatched, GroupGone, Codes, Nextest, BySignal,
        Infrastructure, Error, Errors, Causes, Statuses, BeforeRun, Places,
        guardVars, group, child, files, outcome,
        Goto, Raw, Required, Close
<1>1. CASE Export
  BY <1>1 DEF Export
<1>2. CASE ExportFails
  BY <1>2 DEF ExportFails
<1>3. CASE ExportNothing
  BY <1>3 DEF ExportNothing
<1>4. CASE Stop
  BY <1>4 DEF Stop
<1>5. CASE Cleanup
  BY <1>5 DEF Cleanup
<1>6. CASE CleanupFails
  BY <1>6 DEF CleanupFails
<1>7. CASE Drop
  BY <1>7 DEF Drop
<1> QED BY <1>1, <1>2, <1>3, <1>4, <1>5, <1>6, <1>7

\* The group's processes come and go, signals arrive, the adapter may die.
LEMMA EnvironmentStep == ASSUME IInv, Environment PROVE IInv'
<1> USE ArtifactAssumption, OwnStatuses
    DEF IInv, TypeOK, GuardTypeOK, LeaderInv, SignalInv, ResultInv, ExportIsQuiet,
        StatusIsWhole, DispatchedSignalTold, Dispatched, GroupGone, Codes, Nextest, BySignal,
        Infrastructure, Error, Errors, Causes, Statuses, BeforeRun, Places,
        guardVars, group, child, files, outcome,
        adapter, Done, Arrives, Watch
<1>1. CASE LeaderExits
  BY <1>1 DEF LeaderExits
<1>2. CASE OthersStart
  BY <1>2 DEF OthersStart
<1>3. CASE OthersEnd
  <2>1. others' \in BOOLEAN /\ ~others'
    <3>1. others' = FALSE
      BY <1>3 DEF OthersEnd
    <3> QED BY <3>1
  <2> QED BY <1>3, <2>1 DEF OthersEnd
<1>4. ASSUME NEW s \in Signals, SignalArrives(s) PROVE IInv'
  BY <1>4 DEF SignalArrives
<1>5. CASE SignalRecorded
  BY <1>5 DEF SignalRecorded
<1>6. CASE AdapterDies
  BY <1>6 DEF AdapterDies
<1> QED BY <1>1, <1>2, <1>3, <1>4, <1>5, <1>6 DEF Environment

LEMMA StutterStep == ASSUME IInv, UNCHANGED vars PROVE IInv'
BY DEF BeforeRun, IInv, TypeOK, GuardTypeOK, LeaderInv, SignalInv, ResultInv, ExportIsQuiet,
       StatusIsWhole, DispatchedSignalTold, Dispatched, GroupGone, guardVars, group, child,
       files, outcome, vars

\* IInv holds throughout every run of the adapter.
THEOREM Invariance == Spec => []IInv
<1>1. IInv /\ [Next]_vars => IInv'
  BY BeforeStep, ChildStep, AfterStep, EnvironmentStep, StutterStep DEF Next
<1> QED BY InitInv, <1>1, PTL DEF Spec

\* The report is copied and the caller's replaced only after drain_group found
\* the process group of nextest run gone.
THEOREM ExportsAreQuiet == Spec => []ExportIsQuiet
<1>1. IInv => ExportIsQuiet
  BY DEF IInv
<1> QED BY Invariance, <1>1, PTL

\* run_buck_artifact returns nextest's 0 or 100 only with the report exported,
\* the group gone and scratch removed.
THEOREM StatusesAreWhole == Spec => []StatusIsWhole
<1>1. IInv => StatusIsWhole
  BY DEF IInv
<1> QED BY Invariance, <1>1, PTL

\* Between the start of nextest run and the guard's stop no signal is lost from
\* the status, except to an error of the lifecycle.
THEOREM DispatchedSignalsAreTold == Spec => []DispatchedSignalTold
<1>1. IInv => DispatchedSignalTold
  BY DEF IInv
<1> QED BY Invariance, <1>1, PTL
=============================================================================

----------------------------- MODULE RunnerFiles -----------------------------
(***************************************************************************)
(* The files of concurrent runs, composed: each Buck test runner finds its *)
(* declared directory empty, sets up its scratch root, publishes its       *)
(* report and removes its root (execute of nextest_buck_test.rs), beside   *)
(* artifact adapters that share the scratch path, and the executor that    *)
(* looks at the declared directory.                                        *)
(***************************************************************************)
EXTENDS JunitHandoff, ScratchSetup

ASSUME FilesAssumption == Owners = Runners \cup Adapters /\ Runners \cap Adapters = {}

allVars == <<vars, scratchVars>>

FilesInit == Init /\ SInit

\* private_root comes between the look at the declared directory and nextest.
Prepare(r) == pc[r] = "reading" /\ SetUp(r) /\ UNCHANGED vars

\* Without a root there is no report; the runner returns an error.
NoRoot(r) == at[r] \in {"lost", "failed"} /\ ReadFails(r) /\ UNCHANGED scratchVars

\* Everything else of the runner needs its root, or comes before it.
Publish(r) == (pc[r] = "reading" => at[r] = "ready") /\ Runner(r) /\ UNCHANGED scratchVars

\* A runner killed while it prepares makes no further call.
KillPreparing(r) == pc[r] = "reading" /\ at[r] # "ready" /\ Kill(r) /\ UNCHANGED scratchVars

\* The root is removed when publish_junit has returned.
CleanUp(r) == pc[r] = "done" /\ RemoveRoot(r) /\ UNCHANGED vars

Adapter(a) == (SetUp(a) \/ RemoveRoot(a)) /\ UNCHANGED vars

\* A crash of the machine ends every process that has begun; its root stays.
CrashAll ==
    /\ Crash
    /\ at' = [o \in Owners |-> IF o \in Runners /\ pc[o] = "start" THEN at[o] ELSE "failed"]
    /\ UNCHANGED <<walk, naming>>

Executor == (ListDeclared \/ OpenReport \/ ReadReport \/ InspectFails) /\ UNCHANGED scratchVars

FilesNext ==
    \/ \E r \in Runners : Prepare(r) \/ NoRoot(r) \/ Publish(r) \/ KillPreparing(r) \/ CleanUp(r)
    \/ \E a \in Adapters : Adapter(a)
    \/ Executor
    \/ CrashAll

FilesSpec == FilesInit /\ [][FilesNext]_allVars

\* Every variable holds a value of its type.
FilesTypeOK == TypeOK /\ STypeOK
=============================================================================

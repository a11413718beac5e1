---------------------------- MODULE MCRunnerFiles ----------------------------
(***************************************************************************)
(* Two runners and the artifact adapter on one file system.  The two       *)
(* runners are alike, and so are the process ids they get.                 *)
(***************************************************************************)
EXTENDS RunnerFiles, TLC

Symmetry == Permutations(Runners) \cup Permutations(Pids)
===============================================================================

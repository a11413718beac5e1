------------------------- MODULE MCRunnerLifecycle -------------------------
(* Instances of RunnerLifecycle for TLC. *)
EXTENDS RunnerLifecycle, TLC

\* No action or invariant names a signal, or a group other than the leader's.
Symmetry == Permutations(Signals) \cup Permutations(Groups)
=============================================================================

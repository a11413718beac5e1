------------------------- MODULE MCExecutorSession -------------------------
(* Instances of ExecutorSession for TLC. *)
EXTENDS ExecutorSessionInv, TLC

\* Specs and keys are interchangeable: no action or invariant names one.  The
\* two bad keys are too in every property but UnexportableIsPerTarget.
Symmetry == Permutations(Specs) \cup Permutations(Keys) \cup Permutations({Malformed, Overlong})
=============================================================================

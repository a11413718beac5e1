------------------------ MODULE MCArtifactLifecycle ------------------------
(* Instances of ArtifactLifecycle for TLC. *)
EXTENDS ArtifactLifecycle, TLC

\* No action or invariant names a signal.
Symmetry == Permutations(Signals)
=============================================================================

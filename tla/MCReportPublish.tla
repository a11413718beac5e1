-------------------------- MODULE MCReportPublish --------------------------
(* Instances of ReportPublish for TLC. *)
EXTENDS ReportPublish, TLC

\* Executors, filenames and process ids are interchangeable.
Symmetry == Permutations(Executors) \cup Permutations(Names) \cup Permutations(Pids)
=============================================================================

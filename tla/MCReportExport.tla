--------------------------- MODULE MCReportExport ---------------------------
(* Instances of ReportExport for TLC. *)
EXTENDS ReportExport, TLC

\* Adapters and process ids are interchangeable.
Symmetry == Permutations(Exporters) \cup Permutations(Pids)
=============================================================================

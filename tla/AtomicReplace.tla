--------------------------- MODULE AtomicReplace ---------------------------
(***************************************************************************)
(* What export_report promises the owner of a report that several adapters *)
(* may write: every export replaces the report as a whole, in some order;  *)
(* Ok means that the file never goes back behind this export, not even in  *)
(* a crash of the machine; an error says nothing about the file.           *)
(***************************************************************************)
EXTENDS Naturals

CONSTANTS Exporters

VARIABLES
    place,      \* the place of each export in the order of replacements, or 0
    latest,     \* the place of the one the file shows; 0 is the file as it was
    exported,   \* those that returned Ok
    failed      \* those that returned an error

replaceVars == <<place, latest, exported, failed>>

RInit ==
    /\ place = [e \in Exporters |-> 0]
    /\ latest = 0
    /\ exported = {} /\ failed = {}

Unanswered(e) == e \notin exported \cup failed

Replace(e) ==
    /\ Unanswered(e)
    /\ place[e] = 0
    /\ latest' = latest + 1
    /\ place' = [place EXCEPT ![e] = latest + 1]
    /\ UNCHANGED <<exported, failed>>

ReturnOk(e) ==
    /\ Unanswered(e)
    /\ place[e] # 0
    /\ exported' = exported \cup {e}
    /\ UNCHANGED <<place, latest, failed>>

ReturnError(e) ==
    /\ Unanswered(e)
    /\ failed' = failed \cup {e}
    /\ UNCHANGED <<place, latest, exported>>

\* The last replacements are undone, down to one that nobody answered Ok for.
GoBack ==
    /\ latest' \in 0..latest
    /\ \A e \in exported : place[e] <= latest'
    /\ place' = [e \in Exporters |-> IF place[e] <= latest' THEN place[e] ELSE 0]
    /\ UNCHANGED <<exported, failed>>

RNext == GoBack \/ \E e \in Exporters : Replace(e) \/ ReturnOk(e) \/ ReturnError(e)

RSpec == RInit /\ [][RNext]_replaceVars
=============================================================================

--------------------------- MODULE AtomicPublish ---------------------------
(***************************************************************************)
(* What DestinationDir::publish promises the owner of a report directory   *)
(* that several executors may have been given: a name is taken by at most  *)
(* one report, atomically and for good; Ok means that the report survives  *)
(* even a crash of the machine; an error means nothing about the file, but *)
(* that no other report was touched.                                       *)
(***************************************************************************)
CONSTANTS Executors, Names, None

VARIABLES
    files,      \* the executor whose report each name holds, or None
    exported,   \* the pairs <<executor, name>> whose publish returned Ok
    failed      \* ... and those whose publish returned an error

promiseVars == <<files, exported, failed>>

PInit ==
    /\ files = [n \in Names |-> None]
    /\ exported = {}
    /\ failed = {}

Unanswered(e, n) == <<e, n>> \notin exported \cup failed

\* The report appears whole, under a free name.
Put(e, n) ==
    /\ Unanswered(e, n)
    /\ files[n] = None
    /\ files' = [files EXCEPT ![n] = e]
    /\ UNCHANGED <<exported, failed>>

ReturnOk(e, n) ==
    /\ Unanswered(e, n)
    /\ files[n] = e
    /\ exported' = exported \cup {<<e, n>>}
    /\ UNCHANGED <<files, failed>>

ReturnError(e, n) ==
    /\ Unanswered(e, n)
    /\ failed' = failed \cup {<<e, n>>}
    /\ UNCHANGED <<files, exported>>

\* A crash of the machine may lose any report that is not acknowledged.
Lose ==
    /\ files' \in [Names -> Executors \cup {None}]
    /\ \A n \in Names :
        \/ files'[n] = files[n]
        \/ files'[n] = None /\ <<files[n], n>> \notin exported
    /\ UNCHANGED <<exported, failed>>

PNext ==
    \/ Lose
    \/ \E e \in Executors, n \in Names : Put(e, n) \/ ReturnOk(e, n) \/ ReturnError(e, n)

PSpec == PInit /\ [][PNext]_promiseVars
=============================================================================

---------------------------- MODULE SignalGuard ----------------------------
(***************************************************************************)
(* The SignalGuard of nextest_v2.rs, of which nextest_buck_artifact.rs has *)
(* a copy: a thread waits for the first of the termination signals and     *)
(* records it.  A program that has installed one never gets the default    *)
(* action of these signals back: when nobody waits, they are swallowed.    *)
(***************************************************************************)
CONSTANTS
    Signals,    \* HUP, INT, TERM
    None        \* no signal

VARIABLES
    handler,    \* "default", "watching" or "ignored"
    queued,     \* signals delivered that the watcher has not seen
    first       \* the signal the guard has recorded

guardVars == <<handler, queued, first>>

GuardInit == handler = "default" /\ queued = {} /\ first = None

\* SignalGuard::install
Install == handler' = "watching" /\ queued' = {} /\ first' = None

\* A signal arrives while the watcher waits.
Arrives(s) ==
    /\ handler = "watching"
    /\ queued' = queued \cup {s}
    /\ UNCHANGED <<handler, first>>

\* The watcher records one of them and ends.
Watch ==
    /\ handler = "watching"
    /\ \E s \in queued : first' = s
    /\ handler' = "ignored"
    /\ queued' = {}

\* Dropping or stopping the guard: what the watcher has not seen is lost.
Close == handler' = "ignored" /\ queued' = {} /\ UNCHANGED first

GuardTypeOK ==
    /\ handler \in {"default", "watching", "ignored"}
    /\ queued \subseteq Signals
    /\ first \in Signals \cup {None}
=============================================================================

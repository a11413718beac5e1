-------------------------- MODULE SessionContract --------------------------
(***************************************************************************)
(* What an executor session promises Buck and the owner of the report      *)
(* directory, with no tasks, channels or locks: which specs it has         *)
(* accepted, the one result it gave for each, the reports it left, and the *)
(* exit code.  ExecutorSession implements it.                              *)
(***************************************************************************)
CONSTANTS Specs, Keys, None

VARIABLES
    asked,      \* [Specs -> [key, kind]], as Buck asks
    accepted,   \* specs Buck has an acknowledgement for
    result,     \* what Buck knows of each spec: a status, "OMITTED" or None
    files,      \* the spec whose report holds each key's name
    phase,      \* "open", "ended" or "failed"
    code        \* the exit code Buck received

contractVars == <<asked, accepted, result, files, phase, code>>

Outcomes == {"PASS", "FAIL", "TIMEOUT"}

HasReport(s) == asked[s].key \in Keys /\ files[asked[s].key] = s

CInit ==
    /\ accepted = {}
    /\ result = [s \in Specs |-> None]
    /\ files = [k \in Keys |-> None]
    /\ phase = "open"
    /\ code = None

\* A failing session may still accept specs, and then owes them nothing.
Accept(s) ==
    /\ phase # "ended"
    /\ s \notin accepted
    /\ accepted' = accepted \cup {s}
    /\ UNCHANGED <<asked, result, files, phase, code>>

\* Reports appear one at a time, once, before their target has a result.
CommitReport(s) ==
    /\ phase = "open"
    /\ s \in accepted
    /\ result[s] = None
    /\ asked[s].kind = "nextest"
    /\ asked[s].key \in Keys
    /\ files[asked[s].key] = None
    /\ files' = [files EXCEPT ![asked[s].key] = s]
    /\ UNCHANGED <<asked, accepted, result, phase, code>>

\* A result is given once; a nextest outcome comes with its report.
GiveResult(s, status) ==
    /\ s \in accepted
    /\ result[s] = None
    /\ \/ status \in Outcomes /\ (asked[s].kind = "nextest" => HasReport(s))
       \/ status = "INFRA_FAILURE"
       \/ status = "OMITTED" /\ phase = "open"
    /\ result' = [result EXCEPT ![s] = status]
    /\ UNCHANGED <<asked, accepted, files, phase, code>>

\* The session ends when nothing accepted is left without a result.
End ==
    /\ phase = "open"
    /\ \A s \in accepted : result[s] # None
    /\ phase' = "ended"
    /\ UNCHANGED <<asked, accepted, result, files, code>>

\* The exit code is 0 exactly when every accepted spec passed.
SendCode ==
    /\ phase = "ended"
    /\ code = None
    /\ code' = IF \A s \in accepted : result[s] = "PASS" THEN 0 ELSE 32
    /\ UNCHANGED <<asked, accepted, result, files, phase>>

\* Anything may fail, at any time; what is committed stays.
Fail ==
    /\ phase' = "failed"
    /\ UNCHANGED <<asked, accepted, result, files>>
    /\ \/ code' = code
       \/ phase = "ended" /\ code = None /\ code' = IF \A s \in accepted : result[s] = "PASS"
                                                    THEN 0 ELSE 32

CNext ==
    \/ \E s \in Specs :
        \/ Accept(s) \/ CommitReport(s)
        \/ \E status \in Outcomes \cup {"INFRA_FAILURE", "OMITTED"} : GiveResult(s, status)
    \/ End \/ SendCode \/ Fail

CSpec == CInit /\ [][CNext]_contractVars
=============================================================================

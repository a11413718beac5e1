-------------------------- MODULE ExecutorSession --------------------------
(***************************************************************************)
(* One session of the Buck v2 test executor: the TestExecutor service that *)
(* queues the specs Buck sends (executor/src/service.rs) and the task that *)
(* runs them, publishes their JUnit reports and answers Buck               *)
(* (executor/src/orchestrator.rs).                                         *)
(*                                                                         *)
(* Three parties take steps: the service's request handlers (one tokio     *)
(* task per request), the run task (which polls every spec's process()     *)
(* future, so these interleave at their awaits only), and Buck, which      *)
(* sends requests and answers RPCs.  A step of the model is the code       *)
(* between two awaits.                                                     *)
(***************************************************************************)
EXTENDS Naturals, Sequences, FiniteSets

CONSTANTS
    Specs,      \* the ExternalRunnerSpec requests Buck may send
    Keys,       \* report filenames, lowercased (the reservation keys)
    Malformed,  \* stands for the key of a spec with no target or handle
    Overlong,   \* stands for the key of an identity that encodes past 255 bytes
    Kinds,      \* the kinds of spec a run offers, a subset of AllKinds
    None,       \* no spec, no status, no exit code
    ChanCap,    \* capacity of the mpsc channel (10_000 in the code)
    BufferCap   \* width of buffer_unordered (10_000 in the code)

\* "nextest": test_type is nextest; "reserved_env": so it is, and its env
\* already holds BUCK2_NEXTEST_JUNIT_DIR; "other": any other test_type.
AllKinds == {"nextest", "reserved_env", "other"}

ASSUME SessionAssumption ==
    /\ Kinds \subseteq AllKinds
    /\ Keys \cap {Malformed, Overlong} = {}
    /\ None \notin Specs
    /\ None \notin {0, 32}
    /\ None \notin {"PASS", "FAIL", "TIMEOUT", "INFRA_FAILURE", "OMITTED"}
    /\ ChanCap \in Nat \ {0}
    /\ BufferCap \in Nat \ {0}

VARIABLES
    req,        \* what Buck asks for each spec: its key and its kind
    sender,     \* Executor.sender is Some
    chan,       \* the specs acknowledged and not yet pulled by the run task
    pc,         \* where each spec's request, then its process(), stands
    pending,    \* the status process() is about to report
    reserved,   \* Orchestrator.reserved
    publicationOpen,  \* SessionState.publication_open
    disk,       \* the destination directory: the spec each key's report is of
    run,        \* where service::run and Orchestrator::run stand
    verdict,    \* the local verdict of Orchestrator::run
    executed,   \* Buck's view: specs Execute2 was called for
    reports,    \* Buck's view: the statuses it received for each spec
    exit,       \* Buck's view: the exit code of EndOfTestResults
    rpcFailed   \* some RPC to Buck failed or came back without a response

vars == <<req, sender, chan, pc, pending, reserved, publicationOpen, disk,
          run, verdict, executed, reports, exit, rpcFailed>>

Status == {"PASS", "FAIL", "TIMEOUT", "INFRA_FAILURE"}

KeyOf(s) == req[s].key

\* The spec asked for a report directory and may be dispatched.
IsNextest(s) == req[s].kind = "nextest"

\* process(s) has been pulled and its future is not finished.
InFlight == {s \in Specs : pc[s] \in {"started", "executing", "publishing",
                                      "reporting", "closing", "failing"}}

\* A handler holds a clone of the sender and waits for room in the channel.
Sending == {s \in Specs : pc[s] = "cloned"}

\* The handler of the spec answered Buck with an acknowledgement.
Acked(s) == pc[s] \notin {"idle", "cloned", "refused"}

\* service::run has returned, and with it the process ends.
Stopped == run \in {"ok", "err", "not_started"}

\* Mutant: the receiver outlives Orchestrator::run.
ReceiverKept == ~Stopped

\* The receiver lives in the stream of Orchestrator::run.
ReceiverAlive == run \in {"starting", "running", "failing", "ending"}

Init ==
    /\ req \in [Specs -> [key : Keys \cup {Malformed, Overlong}, kind : Kinds]]
    /\ sender = TRUE
    /\ chan = <<>>
    /\ pc = [s \in Specs |-> "idle"]
    /\ pending = [s \in Specs |-> None]
    /\ reserved = {}
    /\ publicationOpen = TRUE
    /\ disk = [k \in Keys |-> None]
    /\ run = "starting"
    /\ verdict = 0
    /\ executed = {}
    /\ reports = [s \in Specs |-> {}]
    /\ exit = None
    /\ rpcFailed = FALSE

-----------------------------------------------------------------------------
(* The TestExecutor service.                                               *)

buckVars == <<executed, reports, exit, rpcFailed>>
sessionVars == <<reserved, publicationOpen, disk, pending>>

\* A request handler moves spec s on; what the run task owns is left alone.
Handler(s, from, to) ==
    /\ ~Stopped
    /\ pc[s] = from
    /\ pc' = [pc EXCEPT ![s] = to]
    /\ UNCHANGED <<req, run, verdict, sessionVars, buckVars>>

\* The sender is cloned under its mutex ...
CloneSender(s) == Handler(s, "idle", "cloned") /\ sender /\ UNCHANGED <<sender, chan>>

\* ... or found taken: the answer is failed_precondition.
RefuseClosed(s) == Handler(s, "idle", "refused") /\ ~sender /\ UNCHANGED <<sender, chan>>

\* The send, outside the lock, finds room; the reply follows without an await.
SendSpec(s) ==
    /\ Handler(s, "cloned", "queued")
    /\ ReceiverAlive
    /\ Len(chan) < ChanCap
    /\ chan' = Append(chan, s)
    /\ UNCHANGED sender

\* The receiver is gone: the answer is an internal error.
RefuseDead(s) == Handler(s, "cloned", "refused") /\ ~ReceiverAlive /\ UNCHANGED <<sender, chan>>

\* Buck gives up on the request, or its connection breaks, while the handler
\* waits for room: the server drops the handler, and with it its clone.
DropRequest(s) == Handler(s, "cloned", "refused") /\ UNCHANGED <<sender, chan>>

\* The sender is taken; clones in flight keep the channel open.
EndOfTestRequests ==
    /\ ~Stopped
    /\ sender
    /\ sender' = FALSE
    /\ UNCHANGED <<req, chan, pc, run, verdict, sessionVars, buckVars>>

-----------------------------------------------------------------------------
(* Orchestrator::process, one action per await-free section.               *)

\* The run task polls process(s).
Process(s, from, to) ==
    /\ run = "running"
    /\ pc[s] = from
    /\ pc' = [pc EXCEPT ![s] = to]
    /\ UNCHANGED <<req, sender, chan, run>>

\* buffer_unordered takes the next spec while it has a free slot.
Pull ==
    /\ run = "running"
    /\ chan # <<>>
    /\ Cardinality(InFlight) < BufferCap
    /\ pc' = [pc EXCEPT ![Head(chan)] = "started"]
    /\ chan' = Tail(chan)
    /\ UNCHANGED <<req, sender, run, verdict, sessionVars, buckVars>>

\* No target, no handle, or an identity with no filename: process() fails
\* before it reserves, dispatches or reports anything.
RejectSpec(s) ==
    /\ Process(s, "started", "failing")
    /\ KeyOf(s) \in {Malformed, Overlong}
    /\ UNCHANGED <<verdict, sessionVars, buckVars>>

\* The key is taken, or the spec brings the reserved environment key: it is
\* reported as an infrastructure failure and never dispatched.
RefuseSpec(s) ==
    /\ Process(s, "started", "reporting")
    /\ KeyOf(s) \in Keys
    /\ KeyOf(s) \in reserved \/ req[s].kind = "reserved_env"
    /\ reserved' = reserved \cup {KeyOf(s)}
    /\ pending' = [pending EXCEPT ![s] = "INFRA_FAILURE"]
    /\ UNCHANGED <<verdict, publicationOpen, disk, buckVars>>

\* Reserve the key and call Execute2.
CallExecute2(s) ==
    /\ Process(s, "started", "executing")
    /\ KeyOf(s) \in Keys
    /\ req[s].kind # "reserved_env"
    /\ reserved' = reserved \cup {KeyOf(s)}
    /\ executed' = executed \cup {s}
    /\ UNCHANGED <<verdict, pending, publicationOpen, disk, reports, exit, rpcFailed>>

\* Mutant: whether the key was new is not looked at.
DispatchUnreserved(s) == CallExecute2(s)

Dispatch(s) == CallExecute2(s) /\ KeyOf(s) \notin reserved

\* Mutant: an omitted spec counts as a success.
CancelUncounted(s) ==
    /\ Process(s, "executing", "omitted")
    /\ UNCHANGED <<verdict, sessionVars, buckVars>>

\* Buck answers Cancelled: process() ends with OMITTED, reports nothing, and
\* the run task counts it against the verdict.
ExecuteCancelled(s) ==
    /\ Process(s, "executing", "omitted")
    /\ verdict' = 32
    /\ UNCHANGED <<sessionVars, buckVars>>

\* The RPC fails, or its reply has no response.
ExecuteFailed(s) ==
    /\ Process(s, "executing", "failing")
    /\ rpcFailed' = TRUE
    /\ UNCHANGED <<verdict, sessionVars, executed, reports, exit>>

\* Buck answers with a result: exit code 0, another one, a timeout, or no
\* status at all.  A nextest spec goes on to its report.
ExecuteFinished(s) ==
    /\ Process(s, "executing", IF IsNextest(s) THEN "publishing" ELSE "reporting")
    /\ \E status \in Status : pending' = [pending EXCEPT ![s] = status]
    /\ UNCHANGED <<verdict, reserved, publicationOpen, disk, buckVars>>

ExecuteAnswered(s) == ExecuteCancelled(s) \/ ExecuteFailed(s) \/ ExecuteFinished(s)

\* The report of s is committed under key k.  When the directory fsync (or
\* the unlink after a hard-link commit) fails, the report is in place and
\* publish still returns an error, which becomes INFRA_FAILURE.
Commit(s, k) ==
    /\ Process(s, "publishing", "reporting")
    /\ disk' = [disk EXCEPT ![k] = s]
    /\ pending' \in {pending, [pending EXCEPT ![s] = "INFRA_FAILURE"]}
    /\ UNCHANGED <<verdict, reserved, publicationOpen, buckVars>>

\* Mutant: publication is not asked whether it is still open.
PublishUnguarded(s) == Commit(s, KeyOf(s)) /\ disk[KeyOf(s)] = None

\* Mutant: another target's name, and the commit replaces what is there.
PublishReplacing(s) == publicationOpen /\ \E k \in Keys : Commit(s, k)

\* The declared output is sound, publication is open, and the no-replace
\* commit succeeds, all under the state lock.
PublishReport(s) ==
    /\ Commit(s, KeyOf(s))
    /\ publicationOpen
    /\ disk[KeyOf(s)] = None

\* Mutant: the publication error is swallowed and the test's status kept.
PublishErrorSwallowed(s) ==
    /\ Process(s, "publishing", "reporting")
    /\ UNCHANGED <<verdict, sessionVars, buckVars>>

\* The output is missing or unsound, publication is closed, or publish fails
\* before its commit: report_infra.
PublishFailed(s) ==
    /\ Process(s, "publishing", "reporting")
    /\ pending' = [pending EXCEPT ![s] = "INFRA_FAILURE"]
    /\ UNCHANGED <<verdict, reserved, publicationOpen, disk, buckVars>>

\* The ReportTestResult request reaches Buck.  Once sent it may arrive even
\* after the run task has given up on the session.
DeliverReport(s) ==
    /\ pc[s] = "reporting"
    /\ reports' = [reports EXCEPT ![s] = @ \cup {pending[s]}]
    /\ UNCHANGED <<req, sender, chan, pc, run, verdict, sessionVars, executed, exit, rpcFailed>>

\* Buck acknowledges the report: process() ends, and the run task folds its
\* status into the verdict v before it polls anything else.
Accepted(s, v) ==
    /\ Process(s, "reporting", "done")
    /\ pending[s] \in reports[s]
    /\ verdict' = v
    /\ UNCHANGED <<sessionVars, buckVars>>

\* Mutant: after report_infra, process() goes on to report the test's status.
ReportTwice(s) ==
    \/ pending[s] = "FAIL" /\ Accepted(s, 32)
    \/ /\ Process(s, "reporting", "reporting")
       /\ pending[s] \in reports[s]
       /\ pending' = [pending EXCEPT ![s] = "FAIL"]
       /\ UNCHANGED <<verdict, reserved, publicationOpen, disk, buckVars>>

\* Mutant: the verdict is that of the last spec to finish.
ReportLastVerdict(s) == Accepted(s, IF pending[s] = "PASS" THEN 0 ELSE 32)

ReportAccepted(s) == Accepted(s, IF pending[s] = "PASS" THEN verdict ELSE 32)

\* The report RPC fails, whether or not Buck received the report.
ReportFailed(s) ==
    /\ Process(s, "reporting", "closing")
    /\ rpcFailed' = TRUE
    /\ UNCHANGED <<verdict, sessionVars, executed, reports, exit>>

ReportAnswered(s) == ReportAccepted(s) \/ ReportFailed(s)

\* report() closes publication before process() returns its error.
CloseAfterReport(s) ==
    /\ Process(s, "closing", "failing")
    /\ publicationOpen' = FALSE
    /\ UNCHANGED <<verdict, reserved, disk, pending, buckVars>>

-----------------------------------------------------------------------------
(* Orchestrator::run and service::run.                                     *)

RunTask(from, to) ==
    /\ run = from
    /\ run' = to
    /\ UNCHANGED <<req, sender, chan, pc, verdict, reserved, disk, pending, executed, reports>>

\* Requests are served before Orchestrator::new opens the destination; when
\* that fails, service::run returns at once.
StartSession ==
    /\ \E to \in {"running", "not_started"} : RunTask("starting", to)
    /\ UNCHANGED <<publicationOpen, exit, rpcFailed>>

\* Mutant: failures are looked at once the stream has ended.
AbortAtEnd ==
    /\ ~sender
    /\ \E s \in Specs : pc[s] = "failing"
    /\ RunTask("running", "failing")
    /\ UNCHANGED <<publicationOpen, exit, rpcFailed>>

\* The stop message, or the failed process itself, reaches the select.  Other
\* futures may have been polled since process() failed.
AbortSession ==
    /\ \E s \in Specs : pc[s] = "failing"
    /\ RunTask("running", "failing")
    /\ UNCHANGED <<publicationOpen, exit, rpcFailed>>

\* fail_session, then the error return drops the stream: the receiver, the
\* queued specs and every unfinished process().
FailSession ==
    /\ RunTask("failing", "stopping_err")
    /\ publicationOpen' = FALSE
    /\ UNCHANGED <<exit, rpcFailed>>

\* Mutant: the stream is taken to have ended when the channel has.
EndOfStreamEarly ==
    /\ ~sender /\ Sending = {} /\ chan = <<>>
    /\ RunTask("running", "ending")
    /\ UNCHANGED <<publicationOpen, exit, rpcFailed>>

\* Every sender is gone, the channel is drained and every process() is done:
\* the run task calls EndOfTestResults.
EndOfStream ==
    /\ ~sender /\ Sending = {} /\ chan = <<>> /\ InFlight = {}
    /\ RunTask("running", "ending")
    /\ UNCHANGED <<publicationOpen, exit, rpcFailed>>

\* Buck receives the exit code and acknowledges it.
EndAccepted ==
    /\ RunTask("ending", "stopping_ok")
    /\ exit' = verdict
    /\ UNCHANGED <<publicationOpen, rpcFailed>>

\* The EndOfTestResults RPC fails, whether or not Buck received the code.
EndFailed ==
    /\ RunTask("ending", "failing")
    /\ exit' \in {exit, verdict}
    /\ rpcFailed' = TRUE
    /\ UNCHANGED publicationOpen

EndAnswered == EndAccepted \/ EndFailed

\* The graceful shutdown waits for the handlers; an error of the server
\* replaces the session's own result.
ServerStopped ==
    /\ Sending = {}
    /\ \/ RunTask("stopping_ok", "ok")
       \/ \E from \in {"stopping_ok", "stopping_err"} : RunTask(from, "err")
    /\ UNCHANGED <<publicationOpen, exit, rpcFailed>>

\* The executor has exited.
Exited == Stopped /\ UNCHANGED vars

Next ==
    \/ EndOfTestRequests \/ StartSession \/ Pull \/ AbortSession \/ FailSession
    \/ EndOfStream \/ EndAnswered \/ ServerStopped \/ Exited
    \/ \E s \in Specs :
        \/ CloneSender(s) \/ RefuseClosed(s) \/ SendSpec(s) \/ RefuseDead(s) \/ DropRequest(s)
        \/ RejectSpec(s) \/ RefuseSpec(s) \/ Dispatch(s) \/ ExecuteAnswered(s)
        \/ PublishReport(s) \/ PublishFailed(s)
        \/ DeliverReport(s) \/ ReportAnswered(s) \/ CloseAfterReport(s)

\* tokio polls every task that can run, and Buck answers, or loses, every RPC
\* it was sent.  Nothing makes Buck send a spec, drop a request or end the
\* session.
Fairness ==
    /\ WF_vars(StartSession) /\ WF_vars(Pull) /\ WF_vars(AbortSession) /\ WF_vars(FailSession)
    /\ WF_vars(EndOfStream) /\ WF_vars(EndAnswered) /\ WF_vars(ServerStopped)
    /\ \A s \in Specs :
        /\ WF_vars(SendSpec(s)) /\ WF_vars(RefuseDead(s))
        /\ WF_vars(RejectSpec(s) \/ RefuseSpec(s) \/ Dispatch(s))
        /\ WF_vars(ExecuteAnswered(s))
        /\ WF_vars(PublishReport(s) \/ PublishFailed(s))
        /\ WF_vars(DeliverReport(s)) /\ WF_vars(ReportAnswered(s))
        /\ WF_vars(CloseAfterReport(s))

Spec == Init /\ [][Next]_vars
FairSpec == Spec /\ Fairness

-----------------------------------------------------------------------------
(* Correctness.                                                            *)

Labels == {"idle", "cloned", "refused", "queued", "started", "executing", "publishing",
           "reporting", "closing", "failing", "omitted", "done"}
RunStates == {"starting", "running", "failing", "ending", "stopping_ok", "stopping_err",
              "ok", "err", "not_started"}

\* Every variable holds a value of its type, and the channel never exceeds
\* the capacity mpsc::channel was given.
TypeOK ==
    /\ req \in [Specs -> [key : Keys \cup {Malformed, Overlong}, kind : AllKinds]]
    /\ sender \in BOOLEAN
    /\ chan \in Seq(Specs) /\ Len(chan) <= ChanCap
    /\ pc \in [Specs -> Labels]
    /\ pending \in [Specs -> Status \cup {None}]
    /\ reserved \subseteq Keys
    /\ publicationOpen \in BOOLEAN
    /\ disk \in [Keys -> Specs \cup {None}]
    /\ run \in RunStates
    /\ verdict \in {0, 32}
    /\ executed \subseteq Specs
    /\ reports \in [Specs -> SUBSET Status]
    /\ exit \in {0, 32, None}
    /\ rpcFailed \in BOOLEAN

\* process() reserves before it dispatches: Buck never runs two specs whose
\* reports would have filenames that differ at most in case.
OneExecutionPerKey ==
    \A s, t \in executed : KeyOf(s) = KeyOf(t) => s = t

\* A nextest spec that Buck is told passed, failed or timed out has its own
\* report in the destination; without one it is an INFRA_FAILURE.
OutcomeHasReport ==
    \A s \in Specs :
        IsNextest(s) /\ reports[s] \cap {"PASS", "FAIL", "TIMEOUT"} # {}
            => disk[KeyOf(s)] = s

\* Buck never receives two different results for one spec, whichever of the
\* error paths of process() the spec went through.
SingleResult ==
    \A s \in Specs : \A a, b \in reports[s] : a = b

\* Exit code 0 reaches Buck only when every spec it had acknowledged was
\* executed, was reported as PASS and, for nextest, left its report.
HonestVerdict ==
    exit = 0 =>
        \A s \in Specs :
            Acked(s) => /\ s \in executed
                        /\ reports[s] = {"PASS"}
                        /\ IsNextest(s) => disk[KeyOf(s)] = s

\* EndOfTestResults is called with nothing left over: each acknowledged spec
\* was omitted by Buck or has a result Buck received.
NothingLostAtEnd ==
    exit # None =>
        \A s \in Specs :
            Acked(s) => pc[s] = "omitted" \/ (pc[s] = "done" /\ reports[s] # {})

\* A committed report is never replaced or removed, and it carries the name
\* reserved for the spec it is of.
KeepReports ==
    \A k \in Keys :
        /\ disk[k] # None => disk'[k] = disk[k]
        /\ disk'[k] \in Specs => KeyOf(disk'[k]) = k
ReportsKept == [][KeepReports]_vars

\* After fail_session no report is committed and publication stays closed:
\* results still on their way cannot add files to a failed session.
StayClosed == ~publicationOpen => disk' = disk /\ ~publicationOpen'
ClosedStaysClosed == [][StayClosed]_vars

\* Once Buck has ended its requests, the executor exits, whatever fails.
SessionEnds == ~sender ~> Stopped

\* An acknowledged spec is reported or omitted, or the session fails; no
\* queue, slot or lost reply leaves it waiting for ever.
AckedIsResolved ==
    \A s \in Specs :
        Acked(s) ~> \/ pc[s] = "omitted"
                    \/ pc[s] = "done" /\ reports[s] # {}
                    \/ run \in {"failing", "stopping_err", "err", "not_started"}

\* Buck's view of one spec: it was omitted, or has the status Buck received.
ResultOf(s) ==
    IF pc[s] = "omitted" THEN "OMITTED"
    ELSE IF reports[s] = {} THEN None
    ELSE CHOOSE status \in Status : status \in reports[s]

\* The session as the contract sees it.
AckedSpecs == {s \in Specs : Acked(s)}
Results == [s \in Specs |-> ResultOf(s)]
Phase == IF run \in {"starting", "running"} THEN "open"
         ELSE IF run \in {"ending", "stopping_ok", "ok"} THEN "ended"
         ELSE "failed"

Contract == INSTANCE SessionContract WITH
    asked <- req, accepted <- AckedSpecs, result <- Results,
    files <- disk, phase <- Phase, code <- exit

\* The session keeps the contract: one result per accepted spec, an outcome
\* only with its report, and an exit code of 0 exactly when all passed.
KeepsContract == Contract!CSpec

\* README.md:64 and the error text at orchestrator.rs:300: a cancellation
\* stops later publication.  The code leaves publication open (violated).
CancellationStopsPublication ==
    [][(\E s \in Specs : pc[s] = "omitted") => disk' = disk]_vars

\* README.md:61: an unexportable report is an INFRA_FAILURE of its target;
\* only a transport or reporting failure ends the session.  The code aborts
\* on an identity too long for a filename (violated).
UnexportableIsPerTarget ==
    run \in {"failing", "stopping_err"} =>
        rpcFailed \/ \E s \in Specs : Acked(s) /\ KeyOf(s) = Malformed
=============================================================================

------------------------ MODULE ExecutorSessionInv ------------------------
(***************************************************************************)
(* The inductive invariant behind the safety properties of ExecutorSession:*)
(* what each stage of a spec has already established.                      *)
(***************************************************************************)
EXTENDS ExecutorSession

Outcome == {"PASS", "FAIL", "TIMEOUT"}

\* The channel holds exactly the queued specs, each once.
ChannelInv ==
    /\ \A i \in 1..Len(chan) : pc[chan[i]] = "queued"
    /\ \A i, j \in 1..Len(chan) : chan[i] = chan[j] => i = j
    /\ \A s \in Specs : pc[s] = "queued" => \E i \in 1..Len(chan) : chan[i] = s

\* Only a spec that reserved its key is executed, and only one per key.
DispatchInv ==
    /\ \A s \in executed : KeyOf(s) \in reserved
    /\ \A s, t \in executed : KeyOf(s) = KeyOf(t) => s = t
    /\ \A s \in Specs :
        /\ pc[s] \in {"executing", "publishing"} => s \in executed
        /\ pc[s] = "publishing" => IsNextest(s)
        /\ pc[s] \in {"idle", "cloned", "refused", "queued", "started"} => s \notin executed
        /\ pending[s] \in Outcome => s \in executed

\* A status is chosen between Execute2's answer and the report.
PendingInv ==
    \A s \in Specs :
        /\ pc[s] \in {"publishing", "reporting", "closing", "done"} => pending[s] # None
        /\ pc[s] \in {"idle", "cloned", "refused", "queued", "started", "executing", "omitted"}
               => pending[s] = None

\* A report on disk carries its own spec's name and was put there after the
\* spec's execution.
DiskInv ==
    \A k \in Keys :
        disk[k] \in Specs =>
            /\ KeyOf(disk[k]) = k
            /\ IsNextest(disk[k])
            /\ disk[k] \in executed
            /\ pc[disk[k]] \in {"reporting", "closing", "failing", "done"}

\* Buck has received at most the status that process() settled on, and a
\* nextest outcome is settled on only with the report in place.
ReportInv ==
    \A s \in Specs :
        /\ reports[s] # {} => /\ reports[s] = {pending[s]}
                              /\ pc[s] \in {"reporting", "closing", "failing", "done"}
        /\ pc[s] = "done" => reports[s] # {}
        /\ /\ IsNextest(s)
           /\ pending[s] \in Outcome
           /\ pc[s] # "publishing"
           => disk[KeyOf(s)] = s

\* The verdict is 0 until some spec is omitted or reported as anything but PASS.
Spoils(s) == pc[s] = "omitted" \/ (pc[s] = "done" /\ pending[s] # "PASS")
VerdictInv == verdict = 32 <=> \E s \in Specs : Spoils(s)

\* Every request is answered and every acknowledged spec is finished.
Settled ==
    /\ ~sender
    /\ \A s \in Specs : pc[s] \in {"idle", "refused", "omitted", "done"}

\* An exit code is sent once, after everything settled.
EndInv ==
    /\ run \in {"ending", "stopping_ok", "ok"} => Settled
    /\ run \in {"starting", "running", "ending"} => exit = None
    /\ exit # None => Settled /\ exit = verdict

IInv ==
    /\ TypeOK
    /\ ChannelInv
    /\ DispatchInv
    /\ PendingInv
    /\ DiskInv
    /\ ReportInv
    /\ VerdictInv
    /\ EndInv
=============================================================================

----------------------- MODULE ExecutorSessionProofs -----------------------
(***************************************************************************)
(* Proofs that every execution of ExecutorSession, for any specs, keys and *)
(* capacities, satisfies the safety properties the runs check.  Each lemma *)
(* named ...Step takes one conjunct of IInv through one step, action by    *)
(* action; the theorems at the end put them together.                      *)
(***************************************************************************)
EXTENDS ExecutorSessionInv, TLAPS

USE SessionAssumption

\* The steps of Next, one name per action, so that a proof can split on them.
LEMMA NextCases ==
    ASSUME [Next]_vars
    PROVE  \/ UNCHANGED vars
           \/ EndOfTestRequests \/ StartSession \/ Pull \/ AbortSession \/ FailSession
           \/ EndOfStream \/ EndAccepted \/ EndFailed \/ ServerStopped
           \/ \E s \in Specs :
               \/ CloneSender(s) \/ RefuseClosed(s) \/ SendSpec(s) \/ RefuseDead(s)
               \/ DropRequest(s) \/ RejectSpec(s) \/ RefuseSpec(s) \/ Dispatch(s)
               \/ ExecuteCancelled(s) \/ ExecuteFailed(s) \/ ExecuteFinished(s)
               \/ PublishReport(s) \/ PublishFailed(s) \/ DeliverReport(s)
               \/ ReportAccepted(s) \/ ReportFailed(s) \/ CloseAfterReport(s)
BY DEF Next, Exited, EndAnswered, ExecuteAnswered, ReportAnswered

\* Every step preserves the types.
LEMMA TypeStep ==
    ASSUME TypeOK, PendingInv, [Next]_vars
    PROVE  TypeOK'
<1> USE DEF TypeOK, Status, Labels, RunStates
<1>1. CASE UNCHANGED vars
  BY <1>1 DEF vars
<1>2. CASE EndOfTestRequests
  BY <1>2 DEF EndOfTestRequests, sessionVars, buckVars
<1>3. CASE StartSession
  BY <1>3 DEF StartSession, RunTask
<1>4. CASE Pull
  BY <1>4 DEF Pull, sessionVars, buckVars
<1>5. CASE AbortSession
  BY <1>5 DEF AbortSession, RunTask
<1>6. CASE FailSession
  BY <1>6 DEF FailSession, RunTask
<1>7. CASE EndOfStream
  BY <1>7 DEF EndOfStream, RunTask
<1>8. CASE EndAccepted
  BY <1>8 DEF EndAccepted, RunTask
<1>9. CASE EndFailed
  BY <1>9 DEF EndFailed, RunTask
<1>10. CASE ServerStopped
  BY <1>10 DEF ServerStopped, RunTask
<1>11. ASSUME NEW s \in Specs, CloneSender(s) PROVE TypeOK'
  BY <1>11 DEF CloneSender, Handler, sessionVars, buckVars
<1>12. ASSUME NEW s \in Specs, RefuseClosed(s) PROVE TypeOK'
  BY <1>12 DEF RefuseClosed, Handler, sessionVars, buckVars
<1>13. ASSUME NEW s \in Specs, SendSpec(s) PROVE TypeOK'
  BY <1>13 DEF SendSpec, Handler, sessionVars, buckVars
<1>14. ASSUME NEW s \in Specs, RefuseDead(s) PROVE TypeOK'
  BY <1>14 DEF RefuseDead, Handler, sessionVars, buckVars
<1>15. ASSUME NEW s \in Specs, DropRequest(s) PROVE TypeOK'
  BY <1>15 DEF DropRequest, Handler, sessionVars, buckVars
<1>16. ASSUME NEW s \in Specs, RejectSpec(s) PROVE TypeOK'
  BY <1>16 DEF RejectSpec, Process, sessionVars, buckVars
<1>17. ASSUME NEW s \in Specs, RefuseSpec(s) PROVE TypeOK'
  BY <1>17 DEF RefuseSpec, Process, sessionVars, buckVars
<1>18. ASSUME NEW s \in Specs, Dispatch(s) PROVE TypeOK'
  BY <1>18 DEF Dispatch, CallExecute2, Process, sessionVars, buckVars
<1>19. ASSUME NEW s \in Specs, ExecuteCancelled(s) PROVE TypeOK'
  BY <1>19 DEF ExecuteCancelled, Process, sessionVars, buckVars
<1>20. ASSUME NEW s \in Specs, ExecuteFailed(s) PROVE TypeOK'
  BY <1>20 DEF ExecuteFailed, Process, sessionVars, buckVars
<1>21. ASSUME NEW s \in Specs, ExecuteFinished(s) PROVE TypeOK'
  BY <1>21 DEF ExecuteFinished, Process, sessionVars, buckVars
<1>22. ASSUME NEW s \in Specs, PublishReport(s) PROVE TypeOK'
  <2> USE <1>22 DEF PublishReport, Commit, Process, sessionVars, buckVars
  <2>1. disk' \in [Keys -> Specs \cup {None}]
    OBVIOUS
  <2>2. pending' \in [Specs -> Status \cup {None}]
    OBVIOUS
  <2>3. pc' \in [Specs -> Labels]
    OBVIOUS
  <2>4. QED
    BY <2>1, <2>2, <2>3
<1>23. ASSUME NEW s \in Specs, PublishFailed(s) PROVE TypeOK'
  BY <1>23 DEF PublishFailed, Process, sessionVars, buckVars
<1>24. ASSUME NEW s \in Specs, DeliverReport(s) PROVE TypeOK'
  BY <1>24 DEF DeliverReport, sessionVars, buckVars, PendingInv
<1>25. ASSUME NEW s \in Specs, ReportAccepted(s) PROVE TypeOK'
  BY <1>25 DEF ReportAccepted, Accepted, Process, sessionVars, buckVars
<1>26. ASSUME NEW s \in Specs, ReportFailed(s) PROVE TypeOK'
  BY <1>26 DEF ReportFailed, Process, sessionVars, buckVars
<1>27. ASSUME NEW s \in Specs, CloseAfterReport(s) PROVE TypeOK'
  BY <1>27 DEF CloseAfterReport, Process, sessionVars, buckVars
<1>28. QED
  BY <1>1, <1>2, <1>3, <1>4, <1>5, <1>6, <1>7, <1>8, <1>9, <1>10, <1>11, <1>12, <1>13, <1>14,
     <1>15, <1>16, <1>17, <1>18, <1>19, <1>20, <1>21, <1>22, <1>23, <1>24, <1>25, <1>26, <1>27,
     NextCases

\* A step that leaves the channel alone and moves at most one spec, neither
\* from nor to the queued stage, leaves the two in agreement.
LEMMA ChannelFrame ==
    ASSUME TypeOK, ChannelInv, chan' = chan,
           NEW s \in Specs, NEW to \in Labels \ {"queued"},
           pc[s] # "queued", pc' = [pc EXCEPT ![s] = to]
    PROVE  ChannelInv'
<1>1. \A i \in 1..Len(chan) : chan[i] \in Specs /\ chan[i] # s
  BY DEF TypeOK, ChannelInv
<1>2. \A i \in 1..Len(chan) : pc'[chan[i]] = "queued"
  BY <1>1 DEF TypeOK, ChannelInv
<1>3. \A t \in Specs : pc'[t] = "queued" => \E i \in 1..Len(chan) : chan[i] = t
  BY DEF TypeOK, ChannelInv
<1>4. QED
  BY <1>2, <1>3 DEF ChannelInv

\* The spec at the head of the channel is a queued one.
LEMMA HeadQueued ==
    ASSUME TypeOK, ChannelInv, chan # <<>>
    PROVE  Head(chan) \in Specs /\ Head(chan) = chan[1] /\ pc[Head(chan)] = "queued"
BY DEF TypeOK, ChannelInv

LEMMA ChannelPull ==
    ASSUME TypeOK, ChannelInv, Pull
    PROVE  ChannelInv'
<1>1. /\ Head(chan) \in Specs /\ Head(chan) = chan[1]
      /\ pc' = [pc EXCEPT ![Head(chan)] = "started"]
  BY HeadQueued DEF Pull
<1>2. /\ Len(chan) \in Nat \ {0}
      /\ Len(chan') = Len(chan) - 1
      /\ \A i \in 1..Len(chan') : chan'[i] = chan[i + 1]
  BY DEF Pull, TypeOK
<1>3. \A i \in 1..Len(chan) : chan[i] \in Specs
  BY DEF TypeOK
<1>4. \A i \in 1..Len(chan') : chan'[i] # Head(chan) /\ pc'[chan'[i]] = "queued"
  <2> TAKE i \in 1..Len(chan')
  <2>1. i + 1 \in 1..Len(chan) /\ i + 1 # 1 /\ 1 \in 1..Len(chan)
    BY <1>2
  <2>2. chan[i + 1] # chan[1] /\ pc[chan[i + 1]] = "queued" /\ chan[i + 1] \in Specs
    BY <2>1, <1>3 DEF ChannelInv
  <2>3. QED
    BY <1>1, <1>2, <2>1, <2>2 DEF TypeOK
<1>5. \A i, j \in 1..Len(chan') : chan'[i] = chan'[j] => i = j
  <2> TAKE i, j \in 1..Len(chan')
  <2>1. i + 1 \in 1..Len(chan) /\ j + 1 \in 1..Len(chan)
    BY <1>2
  <2>2. chan[i + 1] = chan[j + 1] => i + 1 = j + 1
    BY <2>1 DEF ChannelInv
  <2>3. QED
    BY <1>2, <2>2
<1>6. ASSUME NEW s \in Specs, pc'[s] = "queued"
      PROVE  \E i \in 1..Len(chan') : chan'[i] = s
  <2>1. pc[s] = "queued" /\ s # Head(chan)
    BY <1>1, <1>6 DEF TypeOK
  <2>2. PICK i \in 1..Len(chan) : chan[i] = s
    BY <2>1 DEF ChannelInv
  <2>3. i # 1 /\ i - 1 \in 1..Len(chan') /\ (i - 1) + 1 = i
    BY <1>1, <1>2, <2>1, <2>2
  <2>4. QED
    BY <1>2, <2>2, <2>3
<1>7. QED
  BY <1>4, <1>5, <1>6 DEF ChannelInv

LEMMA ChannelSend ==
    ASSUME TypeOK, ChannelInv, NEW s \in Specs, SendSpec(s)
    PROVE  ChannelInv'
<1>1. pc[s] = "cloned" /\ pc' = [pc EXCEPT ![s] = "queued"] /\ chan' = Append(chan, s)
  BY DEF SendSpec, Handler
<1>2. /\ Len(chan) \in Nat
      /\ Len(chan') = Len(chan) + 1
      /\ chan'[Len(chan) + 1] = s
      /\ \A i \in 1..Len(chan) : chan'[i] = chan[i] /\ chan[i] \in Specs
  BY <1>1 DEF TypeOK
<1>3. \A i \in 1..Len(chan) : chan[i] # s /\ pc'[chan[i]] = "queued"
  BY <1>1, <1>2 DEF TypeOK, ChannelInv
<1>4. \A i \in 1..Len(chan') : pc'[chan'[i]] = "queued"
  BY <1>1, <1>2, <1>3 DEF TypeOK
<1>5. \A i, j \in 1..Len(chan') : chan'[i] = chan'[j] => i = j
  BY <1>2, <1>3 DEF ChannelInv
<1>6. ASSUME NEW t \in Specs, pc'[t] = "queued"
      PROVE  \E i \in 1..Len(chan') : chan'[i] = t
  <2>1. CASE t = s
    BY <1>2, <2>1
  <2>2. CASE t # s
    <3>1. PICK i \in 1..Len(chan) : chan[i] = t
      BY <1>1, <1>6, <2>2 DEF TypeOK, ChannelInv
    <3>2. QED
      BY <1>2, <3>1
  <2>3. QED
    BY <2>1, <2>2
<1>7. QED
  BY <1>4, <1>5, <1>6 DEF ChannelInv
\* Every step keeps the channel and the queued specs in agreement.
LEMMA ChannelStep ==
    ASSUME TypeOK, ChannelInv, [Next]_vars
    PROVE  ChannelInv'
<1>1. CASE UNCHANGED vars
  BY <1>1 DEF vars, ChannelInv
<1>2. CASE EndOfTestRequests
  BY <1>2 DEF EndOfTestRequests, ChannelInv
<1>3. CASE StartSession
  BY <1>3 DEF StartSession, RunTask, ChannelInv
<1>4. CASE Pull
  BY <1>4, ChannelPull
<1>5. CASE AbortSession
  BY <1>5 DEF AbortSession, RunTask, ChannelInv
<1>6. CASE FailSession
  BY <1>6 DEF FailSession, RunTask, ChannelInv
<1>7. CASE EndOfStream
  BY <1>7 DEF EndOfStream, RunTask, ChannelInv
<1>8. CASE EndAccepted
  BY <1>8 DEF EndAccepted, RunTask, ChannelInv
<1>9. CASE EndFailed
  BY <1>9 DEF EndFailed, RunTask, ChannelInv
<1>10. CASE ServerStopped
  BY <1>10 DEF ServerStopped, RunTask, ChannelInv
<1>11. ASSUME NEW s \in Specs, CloneSender(s) PROVE ChannelInv'
  BY <1>11, ChannelFrame DEF CloneSender, Handler, Labels
<1>12. ASSUME NEW s \in Specs, RefuseClosed(s) PROVE ChannelInv'
  BY <1>12, ChannelFrame DEF RefuseClosed, Handler, Labels
<1>13. ASSUME NEW s \in Specs, SendSpec(s) PROVE ChannelInv'
  BY <1>13, ChannelSend
<1>14. ASSUME NEW s \in Specs, RefuseDead(s) PROVE ChannelInv'
  BY <1>14, ChannelFrame DEF RefuseDead, Handler, Labels
<1>15. ASSUME NEW s \in Specs, DropRequest(s) PROVE ChannelInv'
  BY <1>15, ChannelFrame DEF DropRequest, Handler, Labels
<1>16. ASSUME NEW s \in Specs, RejectSpec(s) PROVE ChannelInv'
  BY <1>16, ChannelFrame DEF RejectSpec, Process, Labels
<1>17. ASSUME NEW s \in Specs, RefuseSpec(s) PROVE ChannelInv'
  BY <1>17, ChannelFrame DEF RefuseSpec, Process, Labels
<1>18. ASSUME NEW s \in Specs, Dispatch(s) PROVE ChannelInv'
  BY <1>18, ChannelFrame DEF Dispatch, CallExecute2, Process, Labels
<1>19. ASSUME NEW s \in Specs, ExecuteCancelled(s) PROVE ChannelInv'
  BY <1>19, ChannelFrame DEF ExecuteCancelled, Process, Labels
<1>20. ASSUME NEW s \in Specs, ExecuteFailed(s) PROVE ChannelInv'
  BY <1>20, ChannelFrame DEF ExecuteFailed, Process, Labels
<1>21. ASSUME NEW s \in Specs, ExecuteFinished(s) PROVE ChannelInv'
  BY <1>21, ChannelFrame DEF ExecuteFinished, Process, Labels
<1>22. ASSUME NEW s \in Specs, PublishReport(s) PROVE ChannelInv'
  BY <1>22, ChannelFrame DEF PublishReport, Commit, Process, Labels
<1>23. ASSUME NEW s \in Specs, PublishFailed(s) PROVE ChannelInv'
  BY <1>23, ChannelFrame DEF PublishFailed, Process, Labels
<1>24. ASSUME NEW s \in Specs, DeliverReport(s) PROVE ChannelInv'
  BY <1>24 DEF DeliverReport, ChannelInv
<1>25. ASSUME NEW s \in Specs, ReportAccepted(s) PROVE ChannelInv'
  BY <1>25, ChannelFrame DEF ReportAccepted, Accepted, Process, Labels
<1>26. ASSUME NEW s \in Specs, ReportFailed(s) PROVE ChannelInv'
  BY <1>26, ChannelFrame DEF ReportFailed, Process, Labels
<1>27. ASSUME NEW s \in Specs, CloseAfterReport(s) PROVE ChannelInv'
  BY <1>27, ChannelFrame DEF CloseAfterReport, Process, Labels
<1>28. QED
  BY <1>1, <1>2, <1>3, <1>4, <1>5, <1>6, <1>7, <1>8, <1>9, <1>10, <1>11, <1>12, <1>13, <1>14,
     <1>15, <1>16, <1>17, <1>18, <1>19, <1>20, <1>21, <1>22, <1>23, <1>24, <1>25, <1>26, <1>27,
     NextCases

\* Every step leaves at most one executed spec per key.
LEMMA DispatchStep ==
    ASSUME TypeOK, ChannelInv, PendingInv, DispatchInv, [Next]_vars
    PROVE  DispatchInv'
<1> USE DEF TypeOK, DispatchInv, Labels, PendingInv, IsNextest, KeyOf, Outcome, Status
<1>1. CASE UNCHANGED vars
  BY <1>1 DEF vars
<1>2. CASE EndOfTestRequests
  BY <1>2 DEF EndOfTestRequests, sessionVars, buckVars
<1>3. CASE StartSession
  BY <1>3 DEF StartSession, RunTask
<1>4. CASE Pull
  BY <1>4, HeadQueued DEF Pull, sessionVars, buckVars
<1>5. CASE AbortSession
  BY <1>5 DEF AbortSession, RunTask
<1>6. CASE FailSession
  BY <1>6 DEF FailSession, RunTask
<1>7. CASE EndOfStream
  BY <1>7 DEF EndOfStream, RunTask
<1>8. CASE EndAccepted
  BY <1>8 DEF EndAccepted, RunTask
<1>9. CASE EndFailed
  BY <1>9 DEF EndFailed, RunTask
<1>10. CASE ServerStopped
  BY <1>10 DEF ServerStopped, RunTask
<1>11. ASSUME NEW s \in Specs, CloneSender(s) PROVE DispatchInv'
  BY <1>11 DEF CloneSender, Handler, sessionVars, buckVars
<1>12. ASSUME NEW s \in Specs, RefuseClosed(s) PROVE DispatchInv'
  BY <1>12 DEF RefuseClosed, Handler, sessionVars, buckVars
<1>13. ASSUME NEW s \in Specs, SendSpec(s) PROVE DispatchInv'
  BY <1>13 DEF SendSpec, Handler, sessionVars, buckVars
<1>14. ASSUME NEW s \in Specs, RefuseDead(s) PROVE DispatchInv'
  BY <1>14 DEF RefuseDead, Handler, sessionVars, buckVars
<1>15. ASSUME NEW s \in Specs, DropRequest(s) PROVE DispatchInv'
  BY <1>15 DEF DropRequest, Handler, sessionVars, buckVars
<1>16. ASSUME NEW s \in Specs, RejectSpec(s) PROVE DispatchInv'
  BY <1>16 DEF RejectSpec, Process, sessionVars, buckVars
<1>17. ASSUME NEW s \in Specs, RefuseSpec(s) PROVE DispatchInv'
  BY <1>17 DEF RefuseSpec, Process, sessionVars, buckVars
<1>18. ASSUME NEW s \in Specs, Dispatch(s) PROVE DispatchInv'
  BY <1>18 DEF Dispatch, CallExecute2, Process, sessionVars, buckVars
<1>19. ASSUME NEW s \in Specs, ExecuteCancelled(s) PROVE DispatchInv'
  BY <1>19 DEF ExecuteCancelled, Process, sessionVars, buckVars
<1>20. ASSUME NEW s \in Specs, ExecuteFailed(s) PROVE DispatchInv'
  BY <1>20 DEF ExecuteFailed, Process, sessionVars, buckVars
<1>21. ASSUME NEW s \in Specs, ExecuteFinished(s) PROVE DispatchInv'
  BY <1>21 DEF ExecuteFinished, Process, sessionVars, buckVars
<1>22. ASSUME NEW s \in Specs, PublishReport(s) PROVE DispatchInv'
  BY <1>22 DEF PublishReport, Commit, Process, sessionVars, buckVars
<1>23. ASSUME NEW s \in Specs, PublishFailed(s) PROVE DispatchInv'
  BY <1>23 DEF PublishFailed, Process, sessionVars, buckVars
<1>24. ASSUME NEW s \in Specs, DeliverReport(s) PROVE DispatchInv'
  BY <1>24 DEF DeliverReport, sessionVars, buckVars
<1>25. ASSUME NEW s \in Specs, ReportAccepted(s) PROVE DispatchInv'
  BY <1>25 DEF ReportAccepted, Accepted, Process, sessionVars, buckVars
<1>26. ASSUME NEW s \in Specs, ReportFailed(s) PROVE DispatchInv'
  BY <1>26 DEF ReportFailed, Process, sessionVars, buckVars
<1>27. ASSUME NEW s \in Specs, CloseAfterReport(s) PROVE DispatchInv'
  BY <1>27 DEF CloseAfterReport, Process, sessionVars, buckVars
<1>28. QED
  BY <1>1, <1>2, <1>3, <1>4, <1>5, <1>6, <1>7, <1>8, <1>9, <1>10, <1>11, <1>12, <1>13, <1>14,
     <1>15, <1>16, <1>17, <1>18, <1>19, <1>20, <1>21, <1>22, <1>23, <1>24, <1>25, <1>26, <1>27,
     NextCases

\* Every step sets a status where one is due and nowhere else.
LEMMA PendingStep ==
    ASSUME TypeOK, ChannelInv, PendingInv, [Next]_vars
    PROVE  PendingInv'
<1> USE DEF TypeOK, PendingInv, Labels, Status
<1>1. CASE UNCHANGED vars
  BY <1>1 DEF vars
<1>2. CASE EndOfTestRequests
  BY <1>2 DEF EndOfTestRequests, sessionVars, buckVars
<1>3. CASE StartSession
  BY <1>3 DEF StartSession, RunTask
<1>4. CASE Pull
  BY <1>4, HeadQueued DEF Pull, sessionVars, buckVars
<1>5. CASE AbortSession
  BY <1>5 DEF AbortSession, RunTask
<1>6. CASE FailSession
  BY <1>6 DEF FailSession, RunTask
<1>7. CASE EndOfStream
  BY <1>7 DEF EndOfStream, RunTask
<1>8. CASE EndAccepted
  BY <1>8 DEF EndAccepted, RunTask
<1>9. CASE EndFailed
  BY <1>9 DEF EndFailed, RunTask
<1>10. CASE ServerStopped
  BY <1>10 DEF ServerStopped, RunTask
<1>11. ASSUME NEW s \in Specs, CloneSender(s) PROVE PendingInv'
  BY <1>11 DEF CloneSender, Handler, sessionVars, buckVars
<1>12. ASSUME NEW s \in Specs, RefuseClosed(s) PROVE PendingInv'
  BY <1>12 DEF RefuseClosed, Handler, sessionVars, buckVars
<1>13. ASSUME NEW s \in Specs, SendSpec(s) PROVE PendingInv'
  BY <1>13 DEF SendSpec, Handler, sessionVars, buckVars
<1>14. ASSUME NEW s \in Specs, RefuseDead(s) PROVE PendingInv'
  BY <1>14 DEF RefuseDead, Handler, sessionVars, buckVars
<1>15. ASSUME NEW s \in Specs, DropRequest(s) PROVE PendingInv'
  BY <1>15 DEF DropRequest, Handler, sessionVars, buckVars
<1>16. ASSUME NEW s \in Specs, RejectSpec(s) PROVE PendingInv'
  BY <1>16 DEF RejectSpec, Process, sessionVars, buckVars
<1>17. ASSUME NEW s \in Specs, RefuseSpec(s) PROVE PendingInv'
  BY <1>17 DEF RefuseSpec, Process, sessionVars, buckVars
<1>18. ASSUME NEW s \in Specs, Dispatch(s) PROVE PendingInv'
  BY <1>18 DEF Dispatch, CallExecute2, Process, sessionVars, buckVars
<1>19. ASSUME NEW s \in Specs, ExecuteCancelled(s) PROVE PendingInv'
  BY <1>19 DEF ExecuteCancelled, Process, sessionVars, buckVars
<1>20. ASSUME NEW s \in Specs, ExecuteFailed(s) PROVE PendingInv'
  BY <1>20 DEF ExecuteFailed, Process, sessionVars, buckVars
<1>21. ASSUME NEW s \in Specs, ExecuteFinished(s) PROVE PendingInv'
  BY <1>21 DEF ExecuteFinished, Process, sessionVars, buckVars
<1>22. ASSUME NEW s \in Specs, PublishReport(s) PROVE PendingInv'
  BY <1>22 DEF PublishReport, Commit, Process, sessionVars, buckVars
<1>23. ASSUME NEW s \in Specs, PublishFailed(s) PROVE PendingInv'
  BY <1>23 DEF PublishFailed, Process, sessionVars, buckVars
<1>24. ASSUME NEW s \in Specs, DeliverReport(s) PROVE PendingInv'
  BY <1>24 DEF DeliverReport, sessionVars, buckVars
<1>25. ASSUME NEW s \in Specs, ReportAccepted(s) PROVE PendingInv'
  BY <1>25 DEF ReportAccepted, Accepted, Process, sessionVars, buckVars
<1>26. ASSUME NEW s \in Specs, ReportFailed(s) PROVE PendingInv'
  BY <1>26 DEF ReportFailed, Process, sessionVars, buckVars
<1>27. ASSUME NEW s \in Specs, CloseAfterReport(s) PROVE PendingInv'
  BY <1>27 DEF CloseAfterReport, Process, sessionVars, buckVars
<1>28. QED
  BY <1>1, <1>2, <1>3, <1>4, <1>5, <1>6, <1>7, <1>8, <1>9, <1>10, <1>11, <1>12, <1>13, <1>14,
     <1>15, <1>16, <1>17, <1>18, <1>19, <1>20, <1>21, <1>22, <1>23, <1>24, <1>25, <1>26, <1>27,
     NextCases

\* Every step leaves each report under the name of its own spec.
LEMMA DiskStep ==
    ASSUME TypeOK, ChannelInv, DispatchInv, DiskInv, [Next]_vars
    PROVE  DiskInv'
<1> USE DEF TypeOK, DispatchInv, DiskInv, Labels, IsNextest, KeyOf
<1>1. CASE UNCHANGED vars
  BY <1>1 DEF vars
<1>2. CASE EndOfTestRequests
  BY <1>2 DEF EndOfTestRequests, sessionVars, buckVars
<1>3. CASE StartSession
  BY <1>3 DEF StartSession, RunTask
<1>4. CASE Pull
  BY <1>4, HeadQueued DEF Pull, sessionVars, buckVars
<1>5. CASE AbortSession
  BY <1>5 DEF AbortSession, RunTask
<1>6. CASE FailSession
  BY <1>6 DEF FailSession, RunTask
<1>7. CASE EndOfStream
  BY <1>7 DEF EndOfStream, RunTask
<1>8. CASE EndAccepted
  BY <1>8 DEF EndAccepted, RunTask
<1>9. CASE EndFailed
  BY <1>9 DEF EndFailed, RunTask
<1>10. CASE ServerStopped
  BY <1>10 DEF ServerStopped, RunTask
<1>11. ASSUME NEW s \in Specs, CloneSender(s) PROVE DiskInv'
  BY <1>11 DEF CloneSender, Handler, sessionVars, buckVars
<1>12. ASSUME NEW s \in Specs, RefuseClosed(s) PROVE DiskInv'
  BY <1>12 DEF RefuseClosed, Handler, sessionVars, buckVars
<1>13. ASSUME NEW s \in Specs, SendSpec(s) PROVE DiskInv'
  BY <1>13 DEF SendSpec, Handler, sessionVars, buckVars
<1>14. ASSUME NEW s \in Specs, RefuseDead(s) PROVE DiskInv'
  BY <1>14 DEF RefuseDead, Handler, sessionVars, buckVars
<1>15. ASSUME NEW s \in Specs, DropRequest(s) PROVE DiskInv'
  BY <1>15 DEF DropRequest, Handler, sessionVars, buckVars
<1>16. ASSUME NEW s \in Specs, RejectSpec(s) PROVE DiskInv'
  BY <1>16 DEF RejectSpec, Process, sessionVars, buckVars
<1>17. ASSUME NEW s \in Specs, RefuseSpec(s) PROVE DiskInv'
  BY <1>17 DEF RefuseSpec, Process, sessionVars, buckVars
<1>18. ASSUME NEW s \in Specs, Dispatch(s) PROVE DiskInv'
  BY <1>18 DEF Dispatch, CallExecute2, Process, sessionVars, buckVars
<1>19. ASSUME NEW s \in Specs, ExecuteCancelled(s) PROVE DiskInv'
  BY <1>19 DEF ExecuteCancelled, Process, sessionVars, buckVars
<1>20. ASSUME NEW s \in Specs, ExecuteFailed(s) PROVE DiskInv'
  BY <1>20 DEF ExecuteFailed, Process, sessionVars, buckVars
<1>21. ASSUME NEW s \in Specs, ExecuteFinished(s) PROVE DiskInv'
  BY <1>21 DEF ExecuteFinished, Process, sessionVars, buckVars
<1>22. ASSUME NEW s \in Specs, PublishReport(s) PROVE DiskInv'
  BY <1>22 DEF PublishReport, Commit, Process, sessionVars, buckVars
<1>23. ASSUME NEW s \in Specs, PublishFailed(s) PROVE DiskInv'
  BY <1>23 DEF PublishFailed, Process, sessionVars, buckVars
<1>24. ASSUME NEW s \in Specs, DeliverReport(s) PROVE DiskInv'
  BY <1>24 DEF DeliverReport, sessionVars, buckVars
<1>25. ASSUME NEW s \in Specs, ReportAccepted(s) PROVE DiskInv'
  BY <1>25 DEF ReportAccepted, Accepted, Process, sessionVars, buckVars
<1>26. ASSUME NEW s \in Specs, ReportFailed(s) PROVE DiskInv'
  BY <1>26 DEF ReportFailed, Process, sessionVars, buckVars
<1>27. ASSUME NEW s \in Specs, CloseAfterReport(s) PROVE DiskInv'
  BY <1>27 DEF CloseAfterReport, Process, sessionVars, buckVars
<1>28. QED
  BY <1>1, <1>2, <1>3, <1>4, <1>5, <1>6, <1>7, <1>8, <1>9, <1>10, <1>11, <1>12, <1>13, <1>14,
     <1>15, <1>16, <1>17, <1>18, <1>19, <1>20, <1>21, <1>22, <1>23, <1>24, <1>25, <1>26, <1>27,
     NextCases

\* Every step leaves an outcome only with its report, and one result.
LEMMA ReportStep ==
    ASSUME TypeOK, ChannelInv, DispatchInv, PendingInv, DiskInv, ReportInv, [Next]_vars
    PROVE  ReportInv'
<1> USE DEF TypeOK, DispatchInv, PendingInv, DiskInv, ReportInv, Labels, IsNextest, KeyOf, Outcome,
            Status
<1>1. CASE UNCHANGED vars
  BY <1>1 DEF vars
<1>2. CASE EndOfTestRequests
  BY <1>2 DEF EndOfTestRequests, sessionVars, buckVars
<1>3. CASE StartSession
  BY <1>3 DEF StartSession, RunTask
<1>4. CASE Pull
  <2>1. Head(chan) \in Specs /\ pc[Head(chan)] = "queued"
    BY <1>4, HeadQueued DEF Pull
  <2>2. \A t \in Specs : pc'[t] = IF t = Head(chan) THEN "started" ELSE pc[t]
    BY <1>4, <2>1 DEF Pull
  <2>3. UNCHANGED <<req, pending, reports, disk>>
    BY <1>4 DEF Pull, sessionVars, buckVars
  <2>4. QED
    BY <2>1, <2>2, <2>3
<1>5. CASE AbortSession
  BY <1>5 DEF AbortSession, RunTask
<1>6. CASE FailSession
  BY <1>6 DEF FailSession, RunTask
<1>7. CASE EndOfStream
  BY <1>7 DEF EndOfStream, RunTask
<1>8. CASE EndAccepted
  BY <1>8 DEF EndAccepted, RunTask
<1>9. CASE EndFailed
  BY <1>9 DEF EndFailed, RunTask
<1>10. CASE ServerStopped
  BY <1>10 DEF ServerStopped, RunTask
<1>11. ASSUME NEW s \in Specs, CloneSender(s) PROVE ReportInv'
  BY <1>11 DEF CloneSender, Handler, sessionVars, buckVars
<1>12. ASSUME NEW s \in Specs, RefuseClosed(s) PROVE ReportInv'
  BY <1>12 DEF RefuseClosed, Handler, sessionVars, buckVars
<1>13. ASSUME NEW s \in Specs, SendSpec(s) PROVE ReportInv'
  BY <1>13 DEF SendSpec, Handler, sessionVars, buckVars
<1>14. ASSUME NEW s \in Specs, RefuseDead(s) PROVE ReportInv'
  BY <1>14 DEF RefuseDead, Handler, sessionVars, buckVars
<1>15. ASSUME NEW s \in Specs, DropRequest(s) PROVE ReportInv'
  BY <1>15 DEF DropRequest, Handler, sessionVars, buckVars
<1>16. ASSUME NEW s \in Specs, RejectSpec(s) PROVE ReportInv'
  BY <1>16 DEF RejectSpec, Process, sessionVars, buckVars
<1>17. ASSUME NEW s \in Specs, RefuseSpec(s) PROVE ReportInv'
  BY <1>17 DEF RefuseSpec, Process, sessionVars, buckVars
<1>18. ASSUME NEW s \in Specs, Dispatch(s) PROVE ReportInv'
  BY <1>18 DEF Dispatch, CallExecute2, Process, sessionVars, buckVars
<1>19. ASSUME NEW s \in Specs, ExecuteCancelled(s) PROVE ReportInv'
  BY <1>19 DEF ExecuteCancelled, Process, sessionVars, buckVars
<1>20. ASSUME NEW s \in Specs, ExecuteFailed(s) PROVE ReportInv'
  BY <1>20 DEF ExecuteFailed, Process, sessionVars, buckVars
<1>21. ASSUME NEW s \in Specs, ExecuteFinished(s) PROVE ReportInv'
  BY <1>21 DEF ExecuteFinished, Process, sessionVars, buckVars
<1>22. ASSUME NEW s \in Specs, PublishReport(s) PROVE ReportInv'
  BY <1>22 DEF PublishReport, Commit, Process, sessionVars, buckVars
<1>23. ASSUME NEW s \in Specs, PublishFailed(s) PROVE ReportInv'
  BY <1>23 DEF PublishFailed, Process, sessionVars, buckVars
<1>24. ASSUME NEW s \in Specs, DeliverReport(s) PROVE ReportInv'
  BY <1>24 DEF DeliverReport, sessionVars, buckVars
<1>25. ASSUME NEW s \in Specs, ReportAccepted(s) PROVE ReportInv'
  BY <1>25 DEF ReportAccepted, Accepted, Process, sessionVars, buckVars
<1>26. ASSUME NEW s \in Specs, ReportFailed(s) PROVE ReportInv'
  BY <1>26 DEF ReportFailed, Process, sessionVars, buckVars
<1>27. ASSUME NEW s \in Specs, CloseAfterReport(s) PROVE ReportInv'
  BY <1>27 DEF CloseAfterReport, Process, sessionVars, buckVars
<1>28. QED
  BY <1>1, <1>2, <1>3, <1>4, <1>5, <1>6, <1>7, <1>8, <1>9, <1>10, <1>11, <1>12, <1>13, <1>14,
     <1>15, <1>16, <1>17, <1>18, <1>19, <1>20, <1>21, <1>22, <1>23, <1>24, <1>25, <1>26, <1>27,
     NextCases

\* Every step keeps the verdict 0 exactly while nothing spoiled it.
LEMMA VerdictStep ==
    ASSUME TypeOK, ChannelInv, PendingInv, VerdictInv, [Next]_vars
    PROVE  VerdictInv'
<1> USE DEF TypeOK, PendingInv, VerdictInv, Spoils, Labels
<1>1. CASE UNCHANGED vars
  BY <1>1 DEF vars
<1>2. CASE EndOfTestRequests
  BY <1>2 DEF EndOfTestRequests, sessionVars, buckVars
<1>3. CASE StartSession
  BY <1>3 DEF StartSession, RunTask
<1>4. CASE Pull
  BY <1>4, HeadQueued DEF Pull, sessionVars, buckVars
<1>5. CASE AbortSession
  BY <1>5 DEF AbortSession, RunTask
<1>6. CASE FailSession
  BY <1>6 DEF FailSession, RunTask
<1>7. CASE EndOfStream
  BY <1>7 DEF EndOfStream, RunTask
<1>8. CASE EndAccepted
  BY <1>8 DEF EndAccepted, RunTask
<1>9. CASE EndFailed
  BY <1>9 DEF EndFailed, RunTask
<1>10. CASE ServerStopped
  BY <1>10 DEF ServerStopped, RunTask
<1>11. ASSUME NEW s \in Specs, CloneSender(s) PROVE VerdictInv'
  BY <1>11 DEF CloneSender, Handler, sessionVars, buckVars
<1>12. ASSUME NEW s \in Specs, RefuseClosed(s) PROVE VerdictInv'
  BY <1>12 DEF RefuseClosed, Handler, sessionVars, buckVars
<1>13. ASSUME NEW s \in Specs, SendSpec(s) PROVE VerdictInv'
  BY <1>13 DEF SendSpec, Handler, sessionVars, buckVars
<1>14. ASSUME NEW s \in Specs, RefuseDead(s) PROVE VerdictInv'
  BY <1>14 DEF RefuseDead, Handler, sessionVars, buckVars
<1>15. ASSUME NEW s \in Specs, DropRequest(s) PROVE VerdictInv'
  BY <1>15 DEF DropRequest, Handler, sessionVars, buckVars
<1>16. ASSUME NEW s \in Specs, RejectSpec(s) PROVE VerdictInv'
  BY <1>16 DEF RejectSpec, Process, sessionVars, buckVars
<1>17. ASSUME NEW s \in Specs, RefuseSpec(s) PROVE VerdictInv'
  BY <1>17 DEF RefuseSpec, Process, sessionVars, buckVars
<1>18. ASSUME NEW s \in Specs, Dispatch(s) PROVE VerdictInv'
  BY <1>18 DEF Dispatch, CallExecute2, Process, sessionVars, buckVars
<1>19. ASSUME NEW s \in Specs, ExecuteCancelled(s) PROVE VerdictInv'
  BY <1>19 DEF ExecuteCancelled, Process, sessionVars, buckVars
<1>20. ASSUME NEW s \in Specs, ExecuteFailed(s) PROVE VerdictInv'
  BY <1>20 DEF ExecuteFailed, Process, sessionVars, buckVars
<1>21. ASSUME NEW s \in Specs, ExecuteFinished(s) PROVE VerdictInv'
  BY <1>21 DEF ExecuteFinished, Process, sessionVars, buckVars
<1>22. ASSUME NEW s \in Specs, PublishReport(s) PROVE VerdictInv'
  BY <1>22 DEF PublishReport, Commit, Process, sessionVars, buckVars
<1>23. ASSUME NEW s \in Specs, PublishFailed(s) PROVE VerdictInv'
  BY <1>23 DEF PublishFailed, Process, sessionVars, buckVars
<1>24. ASSUME NEW s \in Specs, DeliverReport(s) PROVE VerdictInv'
  BY <1>24 DEF DeliverReport, sessionVars, buckVars
<1>25. ASSUME NEW s \in Specs, ReportAccepted(s) PROVE VerdictInv'
  BY <1>25 DEF ReportAccepted, Accepted, Process, sessionVars, buckVars
<1>26. ASSUME NEW s \in Specs, ReportFailed(s) PROVE VerdictInv'
  BY <1>26 DEF ReportFailed, Process, sessionVars, buckVars
<1>27. ASSUME NEW s \in Specs, CloseAfterReport(s) PROVE VerdictInv'
  BY <1>27 DEF CloseAfterReport, Process, sessionVars, buckVars
<1>28. QED
  BY <1>1, <1>2, <1>3, <1>4, <1>5, <1>6, <1>7, <1>8, <1>9, <1>10, <1>11, <1>12, <1>13, <1>14,
     <1>15, <1>16, <1>17, <1>18, <1>19, <1>20, <1>21, <1>22, <1>23, <1>24, <1>25, <1>26, <1>27,
     NextCases

\* Every step sends the exit code once, with everything settled.
LEMMA EndStep ==
    ASSUME TypeOK, ChannelInv, EndInv, [Next]_vars
    PROVE  EndInv'
<1> USE DEF TypeOK, EndInv, Settled, Sending, InFlight, Labels
<1>1. CASE UNCHANGED vars
  BY <1>1 DEF vars
<1>2. CASE EndOfTestRequests
  BY <1>2 DEF EndOfTestRequests, sessionVars, buckVars
<1>3. CASE StartSession
  BY <1>3 DEF StartSession, RunTask
<1>4. CASE Pull
  BY <1>4, HeadQueued DEF Pull, sessionVars, buckVars
<1>5. CASE AbortSession
  BY <1>5 DEF AbortSession, RunTask
<1>6. CASE FailSession
  BY <1>6 DEF FailSession, RunTask
<1>7. CASE EndOfStream
  <2>1. \A s \in Specs : pc[s] # "queued"
    BY <1>7 DEF EndOfStream, ChannelInv
  <2>2. \A s \in Specs : pc[s] \in {"idle", "refused", "omitted", "done"}
    BY <1>7, <2>1 DEF EndOfStream
  <2>3. QED
    BY <1>7, <2>2 DEF EndOfStream, RunTask
<1>8. CASE EndAccepted
  BY <1>8 DEF EndAccepted, RunTask
<1>9. CASE EndFailed
  BY <1>9 DEF EndFailed, RunTask
<1>10. CASE ServerStopped
  BY <1>10 DEF ServerStopped, RunTask
<1>11. ASSUME NEW s \in Specs, CloneSender(s) PROVE EndInv'
  BY <1>11 DEF CloneSender, Handler, sessionVars, buckVars
<1>12. ASSUME NEW s \in Specs, RefuseClosed(s) PROVE EndInv'
  BY <1>12 DEF RefuseClosed, Handler, sessionVars, buckVars
<1>13. ASSUME NEW s \in Specs, SendSpec(s) PROVE EndInv'
  BY <1>13 DEF SendSpec, Handler, sessionVars, buckVars
<1>14. ASSUME NEW s \in Specs, RefuseDead(s) PROVE EndInv'
  BY <1>14 DEF RefuseDead, Handler, sessionVars, buckVars
<1>15. ASSUME NEW s \in Specs, DropRequest(s) PROVE EndInv'
  BY <1>15 DEF DropRequest, Handler, sessionVars, buckVars
<1>16. ASSUME NEW s \in Specs, RejectSpec(s) PROVE EndInv'
  BY <1>16 DEF RejectSpec, Process, sessionVars, buckVars
<1>17. ASSUME NEW s \in Specs, RefuseSpec(s) PROVE EndInv'
  BY <1>17 DEF RefuseSpec, Process, sessionVars, buckVars
<1>18. ASSUME NEW s \in Specs, Dispatch(s) PROVE EndInv'
  BY <1>18 DEF Dispatch, CallExecute2, Process, sessionVars, buckVars
<1>19. ASSUME NEW s \in Specs, ExecuteCancelled(s) PROVE EndInv'
  BY <1>19 DEF ExecuteCancelled, Process, sessionVars, buckVars
<1>20. ASSUME NEW s \in Specs, ExecuteFailed(s) PROVE EndInv'
  BY <1>20 DEF ExecuteFailed, Process, sessionVars, buckVars
<1>21. ASSUME NEW s \in Specs, ExecuteFinished(s) PROVE EndInv'
  BY <1>21 DEF ExecuteFinished, Process, sessionVars, buckVars
<1>22. ASSUME NEW s \in Specs, PublishReport(s) PROVE EndInv'
  BY <1>22 DEF PublishReport, Commit, Process, sessionVars, buckVars
<1>23. ASSUME NEW s \in Specs, PublishFailed(s) PROVE EndInv'
  BY <1>23 DEF PublishFailed, Process, sessionVars, buckVars
<1>24. ASSUME NEW s \in Specs, DeliverReport(s) PROVE EndInv'
  BY <1>24 DEF DeliverReport, sessionVars, buckVars
<1>25. ASSUME NEW s \in Specs, ReportAccepted(s) PROVE EndInv'
  BY <1>25 DEF ReportAccepted, Accepted, Process, sessionVars, buckVars
<1>26. ASSUME NEW s \in Specs, ReportFailed(s) PROVE EndInv'
  BY <1>26 DEF ReportFailed, Process, sessionVars, buckVars
<1>27. ASSUME NEW s \in Specs, CloseAfterReport(s) PROVE EndInv'
  BY <1>27 DEF CloseAfterReport, Process, sessionVars, buckVars
<1>28. QED
  BY <1>1, <1>2, <1>3, <1>4, <1>5, <1>6, <1>7, <1>8, <1>9, <1>10, <1>11, <1>12, <1>13, <1>14,
     <1>15, <1>16, <1>17, <1>18, <1>19, <1>20, <1>21, <1>22, <1>23, <1>24, <1>25, <1>26, <1>27,
     NextCases

-----------------------------------------------------------------------------
\* Nothing has happened, so every conjunct holds.
LEMMA InitInv ==
    ASSUME Init
    PROVE  IInv
<1>1. TypeOK
  <2>1. req \in [Specs -> [key : Keys \cup {Malformed, Overlong}, kind : AllKinds]]
    BY DEF Init
  <2>2. chan \in Seq(Specs) /\ Len(chan) <= ChanCap
    BY DEF Init
  <2>3. QED
    BY <2>1, <2>2 DEF Init, TypeOK, Labels, RunStates
<1>2. ChannelInv
  BY DEF Init, ChannelInv
<1>3. DispatchInv /\ PendingInv /\ DiskInv /\ ReportInv
  BY DEF Init, DispatchInv, PendingInv, DiskInv, ReportInv, Outcome, Status
<1>4. VerdictInv /\ EndInv
  BY DEF Init, VerdictInv, Spoils, EndInv
<1>5. QED
  BY <1>1, <1>2, <1>3, <1>4 DEF IInv

\* IInv is inductive: what each stage of a spec has established stays true
\* whichever handler, process() or run-task step comes next.
THEOREM Invariance == Spec => []IInv
<1>1. Init => IInv
  BY InitInv
<1>2. IInv /\ [Next]_vars => IInv'
  BY TypeStep, ChannelStep, DispatchStep, PendingStep, DiskStep, ReportStep, VerdictStep,
     EndStep DEF IInv
<1>3. QED
  BY <1>1, <1>2, PTL DEF Spec

\* The variables keep their types and the channel its capacity.
THEOREM TypeCorrect == Spec => []TypeOK
<1>1. IInv => TypeOK
  BY DEF IInv
<1>2. QED
  BY <1>1, Invariance, PTL

\* No two specs with the same reserved key are ever both executed.
THEOREM ExecutionsAreUnique == Spec => []OneExecutionPerKey
<1>1. IInv => OneExecutionPerKey
  BY DEF IInv, DispatchInv, OneExecutionPerKey
<1>2. QED
  BY <1>1, Invariance, PTL

\* Buck is told a nextest outcome only when the report is in place.
THEOREM OutcomesHaveReports == Spec => []OutcomeHasReport
<1>1. IInv => OutcomeHasReport
  BY DEF IInv, ReportInv, Outcome, OutcomeHasReport
<1>2. QED
  BY <1>1, Invariance, PTL

\* No spec has two different results.
THEOREM ResultsAreSingle == Spec => []SingleResult
<1>1. IInv => SingleResult
  BY DEF IInv, ReportInv, SingleResult
<1>2. QED
  BY <1>1, Invariance, PTL

\* Exit code 0 vouches for every acknowledged spec.
THEOREM VerdictIsHonest == Spec => []HonestVerdict
<1>1. ASSUME IInv, exit = 0, NEW s \in Specs, Acked(s)
      PROVE  s \in executed /\ reports[s] = {"PASS"} /\ (IsNextest(s) => disk[KeyOf(s)] = s)
  <2>1. exit = verdict /\ pc[s] \in {"omitted", "done"}
    BY <1>1 DEF IInv, EndInv, Settled, Acked
  <2>2. pc[s] = "done" /\ pending[s] = "PASS"
    BY <1>1, <2>1 DEF IInv, VerdictInv, Spoils
  <2>3. QED
    BY <1>1, <2>2 DEF IInv, DispatchInv, ReportInv, Outcome
<1>2. IInv => HonestVerdict
  BY <1>1 DEF HonestVerdict
<1>3. QED
  BY <1>2, Invariance, PTL

\* The exit code leaves no acknowledged spec behind.
THEOREM EndLosesNothing == Spec => []NothingLostAtEnd
<1>1. IInv => NothingLostAtEnd
  BY DEF IInv, EndInv, Settled, ReportInv, Acked, NothingLostAtEnd
<1>2. QED
  BY <1>1, Invariance, PTL

\* Only PublishReport touches the destination, and no step opens publication.
LEMMA DiskFrame ==
    ASSUME [Next]_vars
    PROVE  /\ disk' = disk \/ \E s \in Specs : PublishReport(s)
           /\ publicationOpen' = publicationOpen \/ publicationOpen' = FALSE
           /\ req' = req
<1> USE DEF sessionVars, buckVars, RunTask, Handler, Process
<1>1. CASE UNCHANGED vars
  BY <1>1 DEF vars
<1>2. CASE EndOfTestRequests \/ Pull
  BY <1>2 DEF EndOfTestRequests, Pull
<1>3. CASE StartSession \/ AbortSession \/ FailSession \/ EndOfStream \/ EndAccepted
           \/ EndFailed \/ ServerStopped
  BY <1>3 DEF StartSession, AbortSession, FailSession, EndOfStream, EndAccepted, EndFailed,
     ServerStopped
<1>4. ASSUME NEW s \in Specs,
             CloneSender(s) \/ RefuseClosed(s) \/ SendSpec(s) \/ RefuseDead(s) \/ DropRequest(s)
      PROVE  disk' = disk /\ publicationOpen' = publicationOpen /\ req' = req
  BY <1>4 DEF CloneSender, RefuseClosed, SendSpec, RefuseDead, DropRequest
<1>5. ASSUME NEW s \in Specs,
             RejectSpec(s) \/ RefuseSpec(s) \/ Dispatch(s)
             \/ ExecuteCancelled(s) \/ ExecuteFailed(s) \/ ExecuteFinished(s)
      PROVE  disk' = disk /\ publicationOpen' = publicationOpen /\ req' = req
  BY <1>5 DEF RejectSpec, RefuseSpec, Dispatch, CallExecute2, ExecuteCancelled, ExecuteFailed,
     ExecuteFinished
<1>6. ASSUME NEW s \in Specs, PublishReport(s)
      PROVE  publicationOpen' = publicationOpen /\ req' = req
  BY <1>6 DEF PublishReport, Commit
<1>7. ASSUME NEW s \in Specs,
             PublishFailed(s) \/ DeliverReport(s) \/ ReportAccepted(s) \/ ReportFailed(s)
      PROVE  disk' = disk /\ publicationOpen' = publicationOpen /\ req' = req
  BY <1>7 DEF PublishFailed, DeliverReport, ReportAccepted, Accepted, ReportFailed
<1>8. ASSUME NEW s \in Specs, CloseAfterReport(s)
      PROVE  disk' = disk /\ publicationOpen' = FALSE /\ req' = req
  BY <1>8 DEF CloseAfterReport
<1>9. QED
  BY <1>1, <1>2, <1>3, <1>4, <1>5, <1>6, <1>7, <1>8, NextCases

\* A committed report stays what it was and where it was.
THEOREM CommittedReportsStay == Spec => ReportsKept
<1>1. ASSUME IInv, IInv', [Next]_vars, NEW k \in Keys
      PROVE  /\ disk[k] # None => disk'[k] = disk[k]
             /\ disk'[k] \in Specs => KeyOf(disk'[k]) = k
  <2>1. ASSUME NEW s \in Specs, PublishReport(s)
        PROVE  disk[k] # None => disk'[k] = disk[k]
    BY <1>1, <2>1 DEF PublishReport, Commit, IInv, TypeOK
  <2>2. disk[k] # None => disk'[k] = disk[k]
    BY <1>1, <2>1, DiskFrame
  <2>3. disk'[k] \in Specs => KeyOf(disk'[k]) = k
    BY <1>1, DiskFrame DEF IInv, DiskInv, KeyOf
  <2>4. QED
    BY <2>2, <2>3
<1>2. IInv /\ IInv' /\ [Next]_vars => KeepReports
  BY <1>1 DEF KeepReports
<1>3. QED
  BY <1>2, Invariance, PTL DEF Spec, ReportsKept

\* Closed publication stays closed and commits nothing.
THEOREM ClosingIsFinal == Spec => ClosedStaysClosed
<1>1. [Next]_vars => StayClosed
  BY DiskFrame DEF StayClosed, PublishReport
<1>2. QED
  BY <1>1, PTL DEF Spec, ClosedStaysClosed
-----------------------------------------------------------------------------
(***************************************************************************)
(* ExecutorSession implements SessionContract: every step of the session   *)
(* is, seen through AckedSpecs, Results and Phase, a step of the contract  *)
(* or no step at all.                                                      *)
(***************************************************************************)
CStep == [Contract!CNext]_(Contract!contractVars)

\* What IInv makes of ResultOf: nothing but the pending status is ever reported.
ResultMeaning ==
    \A s \in Specs :
        /\ pc[s] = "omitted" => ResultOf(s) = "OMITTED"
        /\ pc[s] # "omitted" /\ reports[s] = {} => ResultOf(s) = None
        /\ pc[s] # "omitted" /\ reports[s] # {}
               => /\ reports[s] = {pending[s]}
                  /\ pending[s] \in Status
                  /\ ResultOf(s) = pending[s]

LEMMA Meaning == IInv => ResultMeaning
<1> SUFFICES ASSUME IInv, NEW s \in Specs, pc[s] # "omitted", reports[s] # {}
             PROVE  /\ reports[s] = {pending[s]}
                    /\ pending[s] \in Status
                    /\ ResultOf(s) = pending[s]
  BY DEF ResultMeaning, ResultOf
<1>1. reports[s] = {pending[s]} /\ pending[s] \in Status
  BY DEF IInv, ReportInv, TypeOK
<1>2. (CHOOSE status \in Status : status \in reports[s]) = pending[s]
  BY <1>1
<1>3. QED
  BY <1>1, <1>2 DEF ResultOf

\* Results change only where a spec is omitted or its report arrives.
LEMMA ResultFrame ==
    ASSUME ResultMeaning, ResultMeaning', NEW s \in Specs,
           reports'[s] = reports[s],
           pc'[s] = "omitted" <=> pc[s] = "omitted"
    PROVE  ResultOf(s)' = ResultOf(s)
<1>1. CASE pc[s] = "omitted"
  BY <1>1 DEF ResultMeaning
<1>2. CASE pc[s] # "omitted" /\ reports[s] = {}
  BY <1>2 DEF ResultMeaning
<1>3. CASE pc[s] # "omitted" /\ reports[s] # {}
  BY <1>3 DEF ResultMeaning
<1>4. QED
  BY <1>1, <1>2, <1>3

\* A step that only moves one spec, within or outside the acknowledged stages,
\* is invisible to the contract, whatever it does to the run task's own state.
LEMMA Hidden ==
    ASSUME IInv, IInv', NEW s \in Specs, NEW to \in Labels \ {"omitted"},
           pc[s] # "omitted", pc' = [pc EXCEPT ![s] = to],
           pc[s] \in {"idle", "cloned", "refused"} <=> to \in {"idle", "cloned", "refused"},
           reports' = reports, req' = req, disk' = disk, exit' = exit, run' = run
    PROVE  CStep
<1>1. AckedSpecs' = AckedSpecs
  BY DEF AckedSpecs, Acked, IInv, TypeOK
<1>2. ResultMeaning /\ ResultMeaning'
  BY Meaning, PTL
<1>3. ASSUME NEW t \in Specs PROVE ResultOf(t)' = ResultOf(t)
  BY <1>2, ResultFrame DEF IInv, TypeOK
<1>4. Results' = Results
  BY <1>3 DEF Results
<1>5. QED
  BY <1>1, <1>4 DEF CStep, Contract!contractVars, Phase

\* So is a step of the run task, but for its phase and the exit code.
LEMMA RunFrame ==
    ASSUME IInv, IInv', pc' = pc, reports' = reports
    PROVE  AckedSpecs' = AckedSpecs /\ Results' = Results
<1>1. ResultMeaning /\ ResultMeaning'
  BY Meaning, PTL
<1>2. \A t \in Specs : ResultOf(t)' = ResultOf(t)
  BY <1>1, ResultFrame
<1>3. QED
  BY <1>2 DEF AckedSpecs, Acked, Results

\* The exit code the run task sends is the one the contract asks for.
LEMMA ExitCode ==
    ASSUME IInv, Settled
    PROVE  verdict = IF \A s \in AckedSpecs : Results[s] = "PASS" THEN 0 ELSE 32
<1>1. ResultMeaning
  BY Meaning
<1>2. \A s \in Specs : s \in AckedSpecs <=> pc[s] \in {"omitted", "done"}
  BY DEF Settled, AckedSpecs, Acked
<1>3. \A s \in AckedSpecs : Results[s] # "PASS" <=> Spoils(s)
  BY <1>1, <1>2 DEF Results, ResultMeaning, Spoils, IInv, ReportInv, AckedSpecs
<1>4. (\E s \in Specs : Spoils(s)) <=> \E s \in AckedSpecs : Spoils(s)
  BY <1>2 DEF Spoils, AckedSpecs
<1>5. verdict \in {0, 32} /\ (verdict = 32 <=> \E s \in Specs : Spoils(s))
  BY DEF IInv, TypeOK, VerdictInv
<1>6. QED
  BY <1>3, <1>4, <1>5

\* An acknowledgement reaches Buck: the contract accepts the spec.
LEMMA SendAccepts ==
    ASSUME IInv, IInv', NEW s \in Specs, SendSpec(s)
    PROVE  CStep
<1> USE DEF SendSpec, Handler, sessionVars, buckVars
<1>1. pc[s] = "cloned" /\ pc' = [pc EXCEPT ![s] = "queued"] /\ pc \in [Specs -> Labels]
  BY DEF IInv, TypeOK
<1>2. AckedSpecs' = AckedSpecs \cup {s} /\ s \notin AckedSpecs
  BY <1>1 DEF AckedSpecs, Acked
<1>3. ResultMeaning /\ ResultMeaning'
  BY Meaning, PTL
<1>4. \A t \in Specs : ResultOf(t)' = ResultOf(t)
  BY <1>1, <1>3, ResultFrame
<1>5. Results' = Results
  BY <1>4 DEF Results
<1>6. Phase # "ended" /\ Phase' = Phase
  BY <1>1 DEF ReceiverAlive, Phase, IInv, EndInv, Settled
<1>7. Contract!Accept(s)
  BY <1>2, <1>5, <1>6 DEF Contract!Accept
<1>8. QED
  BY <1>7 DEF CStep, Contract!CNext

\* A commit is the contract's commit: the session is open, the spec has no
\* result yet, and its name is free.
LEMMA PublishCommits ==
    ASSUME IInv, IInv', NEW s \in Specs, PublishReport(s)
    PROVE  CStep
<1> USE DEF PublishReport, Commit, Process, buckVars
<1>1. /\ pc[s] = "publishing" /\ pc' = [pc EXCEPT ![s] = "reporting"]
      /\ pc \in [Specs -> Labels] /\ run = "running"
  BY DEF IInv, TypeOK
<1>2. AckedSpecs' = AckedSpecs /\ s \in AckedSpecs
  BY <1>1 DEF AckedSpecs, Acked
<1>3. ResultMeaning /\ ResultMeaning'
  BY Meaning, PTL
<1>4. \A t \in Specs : ResultOf(t)' = ResultOf(t)
  BY <1>1, <1>3, ResultFrame
<1>5. Results' = Results
  BY <1>4 DEF Results
<1>6. Results[s] = None
  BY <1>1, <1>3 DEF Results, ResultMeaning, IInv, ReportInv
<1>7. req[s].kind = "nextest" /\ req[s].key \in Keys
  BY <1>1 DEF IInv, TypeOK, DispatchInv, IsNextest, KeyOf
<1>8. Phase = "open" /\ Phase' = Phase
  BY <1>1 DEF Phase
<1>9. Contract!CommitReport(s)
  BY <1>2, <1>5, <1>6, <1>7, <1>8 DEF Contract!CommitReport, KeyOf
<1>10. QED
  BY <1>9 DEF CStep, Contract!CNext

\* A spec that goes from no result to one has been given it.
LEMMA Gives ==
    ASSUME IInv, IInv', NEW s \in Specs, NEW status,
           \/ status \in Contract!Outcomes /\ (IsNextest(s) => Contract!HasReport(s))
           \/ status = "INFRA_FAILURE"
           \/ status = "OMITTED" /\ Phase = "open",
           Acked(s), ResultOf(s) = None, ResultOf(s)' = status,
           \A t \in Specs \ {s} : ResultOf(t)' = ResultOf(t),
           AckedSpecs' = AckedSpecs,
           req' = req, disk' = disk, exit' = exit, Phase' = Phase
    PROVE  CStep
<1>1. Results' = [Results EXCEPT ![s] = status] /\ Results[s] = None
  BY DEF Results
<1>2. s \in AckedSpecs
  BY DEF AckedSpecs
<1>3. Contract!GiveResult(s, status)
  BY <1>1, <1>2 DEF Contract!GiveResult, IsNextest
<1>4. QED
  BY <1>3 DEF CStep, Contract!CNext, Contract!Outcomes

LEMMA CancelGives ==
    ASSUME IInv, IInv', NEW s \in Specs, ExecuteCancelled(s)
    PROVE  CStep
<1> USE DEF ExecuteCancelled, Process, sessionVars, buckVars
<1>1. /\ pc[s] = "executing" /\ pc' = [pc EXCEPT ![s] = "omitted"]
      /\ pc \in [Specs -> Labels] /\ run = "running" /\ run' = run
  BY DEF IInv, TypeOK
<1>2. AckedSpecs' = AckedSpecs /\ Acked(s)
  BY <1>1 DEF AckedSpecs, Acked
<1>3. ResultMeaning /\ ResultMeaning'
  BY Meaning, PTL
<1>4. ResultOf(s) = None /\ ResultOf(s)' = "OMITTED"
  BY <1>1, <1>3 DEF ResultMeaning, IInv, ReportInv
<1>5. \A t \in Specs \ {s} : ResultOf(t)' = ResultOf(t)
  BY <1>1, <1>3, ResultFrame
<1>6. QED
  BY <1>1, <1>2, <1>4, <1>5, Gives DEF Phase

\* The first arrival of a report gives its result; a repeated one changes
\* nothing.  A nextest outcome finds its report in place.
LEMMA DeliveryGives ==
    ASSUME IInv, IInv', NEW s \in Specs, DeliverReport(s)
    PROVE  CStep
<1> USE DEF DeliverReport, sessionVars
<1>1. /\ pc[s] = "reporting" /\ pc' = pc /\ run' = run /\ exit' = exit
      /\ pending[s] \in Status /\ reports \in [Specs -> SUBSET Status]
      /\ reports' = [reports EXCEPT ![s] = @ \cup {pending[s]}]
  BY DEF IInv, TypeOK, PendingInv
<1>2. AckedSpecs' = AckedSpecs /\ Acked(s) /\ Phase' = Phase
  BY <1>1 DEF AckedSpecs, Acked, Phase
<1>3. ResultMeaning /\ ResultMeaning'
  BY Meaning, PTL
<1>4. \A t \in Specs \ {s} : ResultOf(t)' = ResultOf(t)
  BY <1>1, <1>3, ResultFrame
<1>5. ResultOf(s)' = pending[s]
  BY <1>1, <1>3 DEF ResultMeaning
<1>6. CASE reports[s] = {}
  <2>1. ResultOf(s) = None
    BY <1>1, <1>3, <1>6 DEF ResultMeaning
  <2>2. pending[s] \in Outcome /\ IsNextest(s) => Contract!HasReport(s)
    BY <1>1 DEF IInv, TypeOK, ReportInv, DispatchInv, Contract!HasReport, KeyOf
  <2>3. pending[s] \in Contract!Outcomes \/ pending[s] = "INFRA_FAILURE"
    BY <1>1 DEF Status, Contract!Outcomes
  <2>4. QED
    BY <1>1, <1>2, <1>4, <1>5, <2>1, <2>2, <2>3, Gives DEF Contract!Outcomes, Outcome
<1>7. CASE reports[s] # {}
  <2>1. ResultOf(s) = pending[s]
    BY <1>1, <1>3, <1>7 DEF ResultMeaning
  <2>2. Results' = Results
    BY <1>4, <1>5, <2>1 DEF Results
  <2>3. QED
    BY <1>1, <1>2, <2>2 DEF CStep, Contract!contractVars
<1>8. QED
  BY <1>6, <1>7

\* The run task opens, fails, ends and stops the session as the contract does.
LEMMA RunSteps ==
    ASSUME IInv, IInv',
           \/ StartSession \/ AbortSession \/ FailSession
           \/ EndOfStream \/ EndAccepted \/ EndFailed \/ ServerStopped
    PROVE  CStep
<1>1. /\ pc' = pc /\ reports' = reports /\ req' = req /\ disk' = disk
      /\ verdict' = verdict
  BY DEF StartSession, AbortSession, FailSession, EndOfStream, EndAccepted, EndFailed,
     ServerStopped, RunTask
<1>2. AckedSpecs' = AckedSpecs /\ Results' = Results
  BY <1>1, RunFrame
<1>3. ASSUME Phase' = "failed", exit' = exit PROVE CStep
  <2>1. Contract!Fail
    BY <1>1, <1>2, <1>3 DEF Contract!Fail
  <2>2. QED
    BY <2>1 DEF CStep, Contract!CNext
<1>4. ASSUME Phase' = Phase, exit' = exit PROVE CStep
  BY <1>1, <1>2, <1>4 DEF CStep, Contract!contractVars
<1>5. CASE StartSession \/ AbortSession \/ FailSession \/ ServerStopped
  <2>1. exit' = exit /\ (Phase' = "failed" \/ Phase' = Phase)
    BY <1>5 DEF StartSession, AbortSession, FailSession, ServerStopped, RunTask, Phase
  <2>2. QED
    BY <1>3, <1>4, <2>1
<1>6. CASE EndOfStream
  <2>1. Phase = "open" /\ Phase' = "ended" /\ exit' = exit /\ run' = "ending"
    BY <1>6 DEF EndOfStream, RunTask, Phase
  <2>2. ResultMeaning
    BY Meaning
  <2>3. \A s \in AckedSpecs : pc[s] \in {"omitted", "done"}
    BY <1>1, <2>1 DEF IInv, EndInv, Settled, AckedSpecs, Acked
  <2>4. ASSUME NEW s \in AckedSpecs PROVE Results[s] # None
    <3>1. s \in Specs /\ Results[s] = ResultOf(s)
      BY DEF AckedSpecs, Results
    <3>2. pc[s] = "done" => reports[s] # {}
      BY <3>1 DEF IInv, ReportInv
    <3>3. None \notin Status \cup {"OMITTED"}
      BY SessionAssumption DEF Status
    <3>4. QED
      BY <2>2, <2>3, <3>1, <3>2, <3>3 DEF ResultMeaning
  <2>5. Contract!End
    BY <1>1, <1>2, <2>1, <2>4 DEF Contract!End
  <2>6. QED
    BY <2>5 DEF CStep, Contract!CNext
<1>7. CASE EndAccepted \/ EndFailed
  <2>1. run = "ending" /\ Phase = "ended" /\ exit = None
    BY <1>7 DEF EndAccepted, EndFailed, RunTask, Phase, IInv, EndInv
  <2>2. verdict = IF \A s \in AckedSpecs : Results[s] = "PASS" THEN 0 ELSE 32
    BY <2>1, ExitCode DEF IInv, EndInv
  <2>3. CASE EndAccepted
    <3>1. Phase' = "ended" /\ exit' = verdict
      BY <2>3 DEF EndAccepted, RunTask, Phase
    <3>2. Contract!SendCode
      BY <1>1, <1>2, <2>1, <2>2, <3>1 DEF Contract!SendCode
    <3>3. QED
      BY <3>2 DEF CStep, Contract!CNext
  <2>4. CASE EndFailed
    <3>1. Phase' = "failed" /\ exit' \in {exit, verdict}
      BY <2>4 DEF EndFailed, RunTask, Phase
    <3>2. Contract!Fail
      BY <1>1, <1>2, <2>1, <2>2, <3>1 DEF Contract!Fail
    <3>3. QED
      BY <3>2 DEF CStep, Contract!CNext
  <2>5. QED
    BY <1>7, <2>3, <2>4
<1>8. QED
  BY <1>5, <1>6, <1>7

\* Every step of the session is a step of the contract, or hidden from it.
LEMMA StepImplements ==
    ASSUME IInv, IInv', [Next]_vars
    PROVE  CStep
<1> USE DEF sessionVars, buckVars, Handler, Process, Labels
<1>1. CASE UNCHANGED vars
  <2>1. AckedSpecs' = AckedSpecs /\ Results' = Results
    BY <1>1, RunFrame DEF vars
  <2>2. QED
    BY <1>1, <2>1 DEF vars, CStep, Contract!contractVars, Phase
<1>2. CASE EndOfTestRequests
  <2>1. AckedSpecs' = AckedSpecs /\ Results' = Results
    BY <1>2, RunFrame DEF EndOfTestRequests
  <2>2. QED
    BY <1>2, <2>1 DEF EndOfTestRequests, CStep, Contract!contractVars, Phase
<1>3. CASE Pull
  <2>1. Head(chan) \in Specs /\ pc[Head(chan)] = "queued"
    BY <1>3, HeadQueued DEF Pull, IInv
  <2>2. QED
    BY <1>3, <2>1, Hidden DEF Pull
<1>4. ASSUME NEW s \in Specs,
             CloneSender(s) \/ RefuseClosed(s) \/ RefuseDead(s) \/ DropRequest(s)
      PROVE  CStep
  BY <1>4, Hidden DEF CloneSender, RefuseClosed, RefuseDead, DropRequest
<1>5. ASSUME NEW s \in Specs,
             RejectSpec(s) \/ RefuseSpec(s) \/ Dispatch(s) \/ ExecuteFailed(s)
      PROVE  CStep
  BY <1>5, Hidden DEF RejectSpec, RefuseSpec, Dispatch, CallExecute2, ExecuteFailed
<1>6. ASSUME NEW s \in Specs, ExecuteFinished(s) PROVE CStep
  BY <1>6, Hidden DEF ExecuteFinished
<1>7. ASSUME NEW s \in Specs, PublishFailed(s) PROVE CStep
  BY <1>7, Hidden DEF PublishFailed
<1>8. ASSUME NEW s \in Specs, ReportAccepted(s) \/ ReportFailed(s) \/ CloseAfterReport(s)
      PROVE  CStep
  BY <1>8, Hidden DEF ReportAccepted, Accepted, ReportFailed, CloseAfterReport
<1>9. QED
  BY <1>1, <1>2, <1>3, <1>4, <1>5, <1>6, <1>7, <1>8, SendAccepts, PublishCommits, CancelGives,
     DeliveryGives, RunSteps, NextCases

\* The session, through its refinement mapping, satisfies the whole contract.
THEOREM SessionImplementsContract == Spec => KeepsContract
<1>1. Init => Contract!CInit
  <2> SUFFICES ASSUME Init PROVE Contract!CInit
    OBVIOUS
  <2>1. AckedSpecs = {} /\ Results = [s \in Specs |-> None] /\ Phase = "open"
    BY DEF Init, AckedSpecs, Acked, Results, ResultOf, Phase
  <2>2. QED
    BY <2>1 DEF Init, Contract!CInit
<1>2. IInv /\ IInv' /\ [Next]_vars => [Contract!CNext]_(Contract!contractVars)
  BY StepImplements DEF CStep
<1>3. QED
  BY <1>1, <1>2, Invariance, PTL DEF Spec, KeepsContract, Contract!CSpec
=============================================================================

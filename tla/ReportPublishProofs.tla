------------------------- MODULE ReportPublishProofs -------------------------
(***************************************************************************)
(* Proofs that any number of executors publishing any reports into one     *)
(* directory, with calls that fail and crashes at any point, keep the      *)
(* properties of ReportPublish and the promise of AtomicPublish.           *)
(***************************************************************************)
EXTENDS ReportPublish, TLAPS

USE PublishAssumption

\* The steps of Next, one name per action, so that a proof can split on them.
LEMMA NextCases ==
    ASSUME [Next]_vars
    PROVE  \/ UNCHANGED vars
           \/ Crash
           \/ \E e \in Executors, n \in Names : CreateTemp(e, n) \/ CreateFails(e, n)
           \/ \E e \in Executors :
               \/ Open(e) \/ OpenFails(e) \/ Kill(e) \/ Write(e) \/ Sync(e) \/ WriteFails(e)
               \/ Rename(e) \/ Link(e) \/ CommitFails(e) \/ Unlink(e) \/ UnlinkFails(e)
               \/ Clean(e) \/ SyncDir(e) \/ SyncDirFails(e)
BY DEF Next

\* The file a commit places is the executor's own, and synced.
LEMMA PlacesOwn ==
    ASSUME IInv, NEW e \in Executors, NEW to \in Calls, Place(e, to)
    PROVE  /\ pc[e] = "committing" /\ pc' = [pc EXCEPT ![e] = to]
           /\ name[e] \in Names /\ ~Answered(e, name[e])
           /\ final' = [final EXCEPT ![name[e]] = e]
           /\ data' = [data EXCEPT ![name[e]] = "synced"]
<1>1. pc[e] = "committing" /\ pc' = [pc EXCEPT ![e] = to]
  BY DEF Place, Step
<1>2. name[e] \in Names /\ ~Answered(e, name[e]) /\ file[e] = "synced"
  BY <1>1 DEF IInv, CallInv, Working
<1>3. PICK t \in temps : /\ SameName(t, TempOf(e))
                         /\ final' = [final EXCEPT ![name[e]] = t.owner]
                         /\ data' = [data EXCEPT ![name[e]] = file[t.owner]]
  BY DEF Place
<1>4. t.owner = e
  BY <1>1, <1>3 DEF IInv, TempIsOwn, Working
<1>5. QED
  BY <1>1, <1>2, <1>3, <1>4

\* Both ways to commit put the report under a name that was free.
LEMMA Commits ==
    ASSUME IInv, NEW e \in Executors, Rename(e) \/ Link(e)
    PROVE  /\ pc[e] = "committing"
           /\ pc' = [pc EXCEPT ![e] = IF norename THEN "unlinking" ELSE "syncing_dir"]
           /\ name[e] \in Names /\ ~Answered(e, name[e])
           /\ final[name[e]] = None
           /\ final' = [final EXCEPT ![name[e]] = e]
           /\ data' = [data EXCEPT ![name[e]] = "synced"]
           /\ UNCHANGED <<stable, exported, failed>>
<1>1. CASE Rename(e)
  <2>1. Place(e, "syncing_dir") /\ ~norename /\ final[name[e]] = None
    BY <1>1 DEF Rename
  <2>2. QED
    BY <2>1, PlacesOwn DEF Calls, Place, answers
<1>2. CASE Link(e)
  <2>1. Place(e, "unlinking") /\ norename /\ final[name[e]] = None
    BY <1>2 DEF Link
  <2>2. QED
    BY <2>1, PlacesOwn DEF Calls, Place, answers
<1>3. QED
  BY <1>1, <1>2

\* What the working executor removes by name is its own file's entry.
LEMMA RemovesOwn ==
    ASSUME IInv, NEW e \in Executors, pc[e] \in Working, Remove(e)
    PROVE  /\ temps' \subseteq temps
           /\ TempOf(e) \notin temps'
           /\ \A t \in temps : t.owner # e => t \in temps'
BY DEF IInv, TempIsOwn, Remove, SameName, TempOf

\* Every step preserves the types.
LEMMA TypeStep ==
    ASSUME IInv, [Next]_vars
    PROVE  TypeOK'
<1> USE DEF TypeOK, IInv, Calls, Contents, Temps
<1>1. CASE UNCHANGED vars
  BY <1>1 DEF vars
<1>2. CASE Crash
  BY <1>2 DEF Crash, answers
<1>3. ASSUME NEW e \in Executors, NEW n \in Names, CreateTemp(e, n) PROVE TypeOK'
  <2>1. pc' \in [Executors -> Calls] /\ file' \in [Executors -> Contents]
    BY <1>3 DEF CreateTemp, OpenTemp, Step
  <2>2. name'[e] = n /\ counter'[e] \in Nat /\ pid'[e] \in Pids
    BY <1>3 DEF CreateTemp, OpenTemp, Step
  <2>3. TempOf(e)' \in Temps
    BY <2>2 DEF TempOf
  <2>4. temps' \subseteq Temps
    BY <1>3, <2>3 DEF CreateTemp
  <2>5. QED
    BY <1>3, <2>1, <2>4 DEF CreateTemp, OpenTemp, Step
<1>4. ASSUME NEW e \in Executors, NEW n \in Names, CreateFails(e, n) PROVE TypeOK'
  BY <1>4 DEF CreateFails, OpenTemp, Step
<1>5. ASSUME NEW e \in Executors, Open(e) \/ OpenFails(e) PROVE TypeOK'
  BY <1>5 DEF Open, OpenFails, Call, Step, answers
<1>6. ASSUME NEW e \in Executors, Kill(e) PROVE TypeOK'
  BY <1>6 DEF Kill, dirVars, answers
<1>7. ASSUME NEW e \in Executors, Write(e) PROVE TypeOK'
  BY <1>7 DEF Write, Call, Step, answers
<1>8. ASSUME NEW e \in Executors, Sync(e) PROVE TypeOK'
  BY <1>8 DEF Sync, Call, Step, answers
<1>9. ASSUME NEW e \in Executors, WriteFails(e) PROVE TypeOK'
  BY <1>9 DEF WriteFails, Call, Step, answers
<1>10. ASSUME NEW e \in Executors, Rename(e) PROVE TypeOK'
  <2>1. pc' \in [Executors -> Calls]
    BY <1>10 DEF Rename, Place, Step
  <2>2. final' \in [Names -> Executors \cup {None}] /\ data' \in [Names -> Contents]
    BY <1>10, Commits
  <2>3. temps' \subseteq temps
    BY <1>10 DEF Rename, Remove
  <2>4. QED
    BY <1>10, <2>1, <2>2, <2>3 DEF Rename, Place, Step, answers
<1>11. ASSUME NEW e \in Executors, Link(e) PROVE TypeOK'
  <2>1. pc' \in [Executors -> Calls]
    BY <1>11 DEF Link, Place, Step
  <2>2. final' \in [Names -> Executors \cup {None}] /\ data' \in [Names -> Contents]
    BY <1>11, Commits
  <2>3. QED
    BY <1>11, <2>1, <2>2 DEF Link, Place, Step, answers
<1>12. ASSUME NEW e \in Executors, CommitFails(e) PROVE TypeOK'
  BY <1>12 DEF CommitFails, Call, Step, answers
<1>13. ASSUME NEW e \in Executors, Unlink(e) PROVE TypeOK'
  <2>1. temps' \subseteq temps
    BY <1>13 DEF Unlink, Remove
  <2>2. QED
    BY <1>13, <2>1 DEF Unlink, Step, answers
<1>14. ASSUME NEW e \in Executors, UnlinkFails(e) PROVE TypeOK'
  BY <1>14 DEF UnlinkFails, Call, Step, answers
<1>15. ASSUME NEW e \in Executors, Clean(e) PROVE TypeOK'
  <2>1. name[e] \in Names
    BY <1>15 DEF Clean, Step, CallInv, Working
  <2>2. TempOf(e) \in Temps
    BY <2>1 DEF TempOf
  <2>3. temps' \subseteq Temps /\ unremoved' \subseteq Temps
    BY <1>15, <2>2 DEF Clean, Remove
  <2>4. QED
    BY <1>15, <2>1, <2>3 DEF Clean, ReturnError, Step
<1>16. ASSUME NEW e \in Executors, SyncDir(e) PROVE TypeOK'
  <2>1. name[e] \in Names
    BY <1>16 DEF SyncDir, Step, CallInv
  <2>2. QED
    BY <1>16, <2>1 DEF SyncDir, Step
<1>17. ASSUME NEW e \in Executors, SyncDirFails(e) PROVE TypeOK'
  <2>1. name[e] \in Names
    BY <1>17 DEF SyncDirFails, Step, CallInv
  <2>2. QED
    BY <1>17, <2>1 DEF SyncDirFails, ReturnError, Step
<1>18. QED
  BY <1>1, <1>2, <1>3, <1>4, <1>5, <1>6, <1>7, <1>8, <1>9, <1>10, <1>11, <1>12, <1>13,
     <1>14, <1>15, <1>16, <1>17, NextCases

\* A commit shows synced bytes; a crash shows nothing the directory did not.
LEMMA FinalStep ==
    ASSUME IInv, [Next]_vars
    PROVE  FinalInv'
<1> USE DEF FinalInv, IInv
<1>1. CASE UNCHANGED vars
  BY <1>1 DEF vars
<1>2. CASE Crash
  <2> SUFFICES ASSUME NEW n \in Names
               PROVE  /\ final'[n] # None => data'[n] = "synced"
                      /\ stable'[n] \in {None, final'[n]}
    BY DEF FinalInv
  <2>1. final[n] # None => data[n] = "synced"
    BY DEF IInv
  <2>2. final'[n] \in {final[n], None}
    BY <1>2 DEF Crash, IInv
  <2>3. QED
    BY <1>2, <2>1, <2>2 DEF Crash
<1>3. ASSUME NEW e \in Executors, NEW n \in Names, CreateTemp(e, n) PROVE FinalInv'
  BY <1>3 DEF CreateTemp, OpenTemp, Step
<1>4. ASSUME NEW e \in Executors, NEW n \in Names, CreateFails(e, n) PROVE FinalInv'
  BY <1>4 DEF CreateFails, OpenTemp, Step
<1>5. ASSUME NEW e \in Executors, Open(e) \/ OpenFails(e) PROVE FinalInv'
  BY <1>5 DEF Open, OpenFails, Call, Step, answers
<1>6. ASSUME NEW e \in Executors, Kill(e) PROVE FinalInv'
  BY <1>6 DEF Kill, dirVars, answers
<1>7. ASSUME NEW e \in Executors, Write(e) PROVE FinalInv'
  BY <1>7 DEF Write, Call, Step, answers
<1>8. ASSUME NEW e \in Executors, Sync(e) PROVE FinalInv'
  BY <1>8 DEF Sync, Call, Step, answers
<1>9. ASSUME NEW e \in Executors, WriteFails(e) PROVE FinalInv'
  BY <1>9 DEF WriteFails, Call, Step, answers
<1>10. ASSUME NEW e \in Executors, Rename(e) PROVE FinalInv'
  BY <1>10, Commits DEF TypeOK
<1>11. ASSUME NEW e \in Executors, Link(e) PROVE FinalInv'
  BY <1>11, Commits DEF TypeOK
<1>12. ASSUME NEW e \in Executors, CommitFails(e) PROVE FinalInv'
  BY <1>12 DEF CommitFails, Call, Step, answers
<1>13. ASSUME NEW e \in Executors, Unlink(e) PROVE FinalInv'
  BY <1>13 DEF Unlink, Step, answers, Remove
<1>14. ASSUME NEW e \in Executors, UnlinkFails(e) PROVE FinalInv'
  BY <1>14 DEF UnlinkFails, Call, Step, answers
<1>15. ASSUME NEW e \in Executors, Clean(e) PROVE FinalInv'
  BY <1>15 DEF Clean, ReturnError, Step, Remove
<1>16. ASSUME NEW e \in Executors, SyncDir(e) PROVE FinalInv'
  BY <1>16 DEF SyncDir, Step
<1>17. ASSUME NEW e \in Executors, SyncDirFails(e) PROVE FinalInv'
  BY <1>17 DEF SyncDirFails, ReturnError, Step
<1>18. QED
  BY <1>1, <1>2, <1>3, <1>4, <1>5, <1>6, <1>7, <1>8, <1>9, <1>10, <1>11, <1>12, <1>13,
     <1>14, <1>15, <1>16, <1>17, NextCases

\* An acknowledged report is not replaced, and a crash cannot lose it.
LEMMA ExportedStep ==
    ASSUME IInv, [Next]_vars
    PROVE  ExportedInv'
<1> USE DEF ExportedInv, IInv
<1>1. CASE UNCHANGED vars
  BY <1>1 DEF vars
<1>2. CASE Crash
  BY <1>2 DEF Crash, answers
<1>3. ASSUME NEW e \in Executors, NEW n \in Names, CreateTemp(e, n) PROVE ExportedInv'
  BY <1>3 DEF CreateTemp, OpenTemp, Step
<1>4. ASSUME NEW e \in Executors, NEW n \in Names, CreateFails(e, n) PROVE ExportedInv'
  BY <1>4 DEF CreateFails, OpenTemp, Step
<1>5. ASSUME NEW e \in Executors, Open(e) \/ OpenFails(e) PROVE ExportedInv'
  BY <1>5 DEF Open, OpenFails, Call, Step, answers
<1>6. ASSUME NEW e \in Executors, Kill(e) PROVE ExportedInv'
  BY <1>6 DEF Kill, dirVars, answers
<1>7. ASSUME NEW e \in Executors, Write(e) PROVE ExportedInv'
  BY <1>7 DEF Write, Call, Step, answers
<1>8. ASSUME NEW e \in Executors, Sync(e) PROVE ExportedInv'
  BY <1>8 DEF Sync, Call, Step, answers
<1>9. ASSUME NEW e \in Executors, WriteFails(e) PROVE ExportedInv'
  BY <1>9 DEF WriteFails, Call, Step, answers
<1>10. ASSUME NEW e \in Executors, Rename(e) PROVE ExportedInv'
  BY <1>10, Commits DEF TypeOK
<1>11. ASSUME NEW e \in Executors, Link(e) PROVE ExportedInv'
  BY <1>11, Commits DEF TypeOK
<1>12. ASSUME NEW e \in Executors, CommitFails(e) PROVE ExportedInv'
  BY <1>12 DEF CommitFails, Call, Step, answers
<1>13. ASSUME NEW e \in Executors, Unlink(e) PROVE ExportedInv'
  BY <1>13 DEF Unlink, Step, answers, Remove
<1>14. ASSUME NEW e \in Executors, UnlinkFails(e) PROVE ExportedInv'
  BY <1>14 DEF UnlinkFails, Call, Step, answers
<1>15. ASSUME NEW e \in Executors, Clean(e) PROVE ExportedInv'
  BY <1>15 DEF Clean, ReturnError, Step, Remove
<1>16. ASSUME NEW e \in Executors, SyncDir(e) PROVE ExportedInv'
  <2>1. final[name[e]] = e /\ name[e] \in Names
    BY <1>16 DEF SyncDir, Step, IInv, CallInv
  <2>2. QED
    BY <1>16, <2>1 DEF SyncDir, IInv
<1>17. ASSUME NEW e \in Executors, SyncDirFails(e) PROVE ExportedInv'
  BY <1>17 DEF SyncDirFails, ReturnError, Step
<1>18. QED
  BY <1>1, <1>2, <1>3, <1>4, <1>5, <1>6, <1>7, <1>8, <1>9, <1>10, <1>11, <1>12, <1>13,
     <1>14, <1>15, <1>16, <1>17, NextCases

\* The commits and the removals leave every other executor's temporary alone.
LEMMA OthersKeep ==
    ASSUME IInv, NEW e \in Executors, NEW f \in Executors \ {e}, pc[f] \in Working,
           temps' = temps \/ (pc[e] \in Working /\ Remove(e)),
           name' = name, pid' = pid, counter' = counter
    PROVE  TempOf(f)' = TempOf(f) /\ TempOf(f) \in temps'
<1>1. TempOf(f) \in temps /\ TempOf(f).owner = f
  BY DEF IInv, CallInv, TempOf
<1>2. QED
  BY <1>1, RemovesOwn DEF TempOf

\* Each call leaves its executor, and every other, ready for the next one.
LEMMA CallStep ==
    ASSUME IInv, [Next]_vars
    PROVE  CallInv'
<1> USE DEF IInv
<1>1. CASE UNCHANGED vars
  BY <1>1 DEF vars, CallInv,
     TypeOK, TempOf, Working, Calls, Answered
<1>2. CASE Crash
  BY <1>2 DEF Crash, answers, CallInv,
     TypeOK, TempOf, Working, Calls, Answered
<1>3. ASSUME NEW e \in Executors, NEW n \in Names, CreateTemp(e, n) PROVE CallInv'
  BY <1>3 DEF CreateTemp, OpenTemp, Step, CallInv,
     TypeOK, TempOf, Working, Calls, Answered
<1>4. ASSUME NEW e \in Executors, NEW n \in Names, CreateFails(e, n) PROVE CallInv'
  BY <1>4 DEF CreateFails, OpenTemp, Step, CallInv,
     TypeOK, TempOf, Working, Calls, Answered
<1>5. ASSUME NEW e \in Executors, Open(e) \/ OpenFails(e) PROVE CallInv'
  BY <1>5 DEF Open, OpenFails, Call, Step, answers, CallInv,
     TypeOK, TempOf, Working, Calls, Answered
<1>6. ASSUME NEW e \in Executors, Kill(e) PROVE CallInv'
  BY <1>6 DEF Kill, dirVars, answers, CallInv,
     TypeOK, TempOf, Working, Calls, Answered
<1>7. ASSUME NEW e \in Executors, Write(e) PROVE CallInv'
  BY <1>7 DEF Write, Call, Step, answers, CallInv,
     TypeOK, TempOf, Working, Calls, Answered
<1>8. ASSUME NEW e \in Executors, Sync(e) PROVE CallInv'
  BY <1>8 DEF Sync, Call, Step, answers, CallInv,
     TypeOK, TempOf, Working, Calls, Answered
<1>9. ASSUME NEW e \in Executors, WriteFails(e) PROVE CallInv'
  BY <1>9 DEF WriteFails, Call, Step, answers, CallInv,
     TypeOK, TempOf, Working, Calls, Answered
<1>10. ASSUME NEW e \in Executors, Rename(e) PROVE CallInv'
  <2>1. /\ pc[e] = "committing" /\ name[e] \in Names /\ ~Answered(e, name[e])
        /\ pc' = [pc EXCEPT ![e] = IF norename THEN "unlinking" ELSE "syncing_dir"]
        /\ final[name[e]] = None /\ final' = [final EXCEPT ![name[e]] = e]
        /\ UNCHANGED <<pid, name, counter, file, exported, failed>>
    BY <1>10, Commits DEF Rename, Place, Step
  <2>2. temps' = temps \/ (pc[e] \in Working /\ Remove(e))
    BY <2>1, <1>10 DEF Rename, Working
  <2>3. TempOf(e)' = TempOf(e) /\ (pc'[e] \in Working => TempOf(e) \in temps')
    BY <2>1, <1>10 DEF Rename, TempOf, TypeOK, CallInv, Working, Place
  <2>4. ASSUME NEW f \in Executors, f # e
        PROVE  /\ pc'[f] = pc[f]
               /\ pc[f] \in Working => TempOf(f)' = TempOf(f) /\ TempOf(f) \in temps'
               /\ pc[f] \in {"unlinking", "syncing_dir"} => final'[name[f]] = f
    BY <2>1, <2>2, <2>4, OthersKeep DEF TypeOK, CallInv, Working
  <2>5. QED
    BY <2>1, <2>3, <2>4 DEF CallInv, TypeOK, Working, Answered
<1>11. ASSUME NEW e \in Executors, Link(e) PROVE CallInv'
  <2>1. /\ pc[e] = "committing" /\ name[e] \in Names /\ ~Answered(e, name[e])
        /\ pc' = [pc EXCEPT ![e] = IF norename THEN "unlinking" ELSE "syncing_dir"]
        /\ final[name[e]] = None /\ final' = [final EXCEPT ![name[e]] = e]
        /\ UNCHANGED <<pid, name, counter, file, exported, failed>>
    BY <1>11, Commits DEF Link, Place, Step
  <2>2. temps' = temps \/ (pc[e] \in Working /\ Remove(e))
    BY <2>1, <1>11 DEF Link, Working
  <2>3. TempOf(e)' = TempOf(e) /\ (pc'[e] \in Working => TempOf(e) \in temps')
    BY <2>1, <1>11 DEF Link, TempOf, TypeOK, CallInv, Working, Place
  <2>4. ASSUME NEW f \in Executors, f # e
        PROVE  /\ pc'[f] = pc[f]
               /\ pc[f] \in Working => TempOf(f)' = TempOf(f) /\ TempOf(f) \in temps'
               /\ pc[f] \in {"unlinking", "syncing_dir"} => final'[name[f]] = f
    BY <2>1, <2>2, <2>4, OthersKeep DEF TypeOK, CallInv, Working
  <2>5. QED
    BY <2>1, <2>3, <2>4 DEF CallInv, TypeOK, Working, Answered
<1>12. ASSUME NEW e \in Executors, CommitFails(e) PROVE CallInv'
  BY <1>12 DEF CommitFails, Call, Step, answers, CallInv,
     TypeOK, TempOf, Working, Calls, Answered
<1>13. ASSUME NEW e \in Executors, Unlink(e) PROVE CallInv'
  <2>1. /\ pc[e] = "unlinking" /\ pc' = [pc EXCEPT ![e] = "syncing_dir"]
        /\ UNCHANGED <<pid, name, counter, file, final, exported, failed>>
        /\ temps' = temps \/ (pc[e] \in Working /\ Remove(e))
    BY <1>13 DEF Unlink, Step, answers, Working
  <2>2. ASSUME NEW f \in Executors, f # e, pc[f] \in Working
        PROVE  TempOf(f)' = TempOf(f) /\ TempOf(f) \in temps'
    BY <2>1, <2>2, OthersKeep
  <2>3. QED
    BY <2>1, <2>2 DEF CallInv, TypeOK, Working, Answered
<1>14. ASSUME NEW e \in Executors, UnlinkFails(e) PROVE CallInv'
  BY <1>14 DEF UnlinkFails, Call, Step, answers, CallInv,
     TypeOK, TempOf, Working, Calls, Answered
<1>15. ASSUME NEW e \in Executors, Clean(e) PROVE CallInv'
  <2>1. /\ pc[e] = "cleaning" /\ pc' = [pc EXCEPT ![e] = "idle"]
        /\ UNCHANGED <<pid, name, counter, file, final, exported>>
        /\ failed' = failed \cup {<<e, name[e]>>}
        /\ temps' = temps \/ (pc[e] \in Working /\ Remove(e))
    BY <1>15 DEF Clean, ReturnError, Step, Working
  <2>2. ASSUME NEW f \in Executors, f # e, pc[f] \in Working
        PROVE  TempOf(f)' = TempOf(f) /\ TempOf(f) \in temps'
    BY <2>1, <2>2, OthersKeep
  <2>3. QED
    BY <2>1, <2>2 DEF CallInv, TypeOK, Working, Answered
<1>16. ASSUME NEW e \in Executors, SyncDir(e) PROVE CallInv'
  BY <1>16 DEF SyncDir, Step, CallInv,
     TypeOK, TempOf, Working, Calls, Answered
<1>17. ASSUME NEW e \in Executors, SyncDirFails(e) PROVE CallInv'
  BY <1>17 DEF SyncDirFails, ReturnError, Step, CallInv,
     TypeOK, TempOf, Working, Calls, Answered
<1>18. QED
  BY <1>1, <1>2, <1>3, <1>4, <1>5, <1>6, <1>7, <1>8, <1>9, <1>10, <1>11, <1>12, <1>13,
     <1>14, <1>15, <1>16, <1>17, NextCases

\* O_EXCL keeps temporaries of one name apart, so each call finds its own.
LEMMA OwnStep ==
    ASSUME IInv, [Next]_vars
    PROVE  TempIsOwn'
<1> USE DEF IInv, TypeOK, TempIsOwn, CallInv, TempOf, SameName, Working, Calls
<1>1. CASE UNCHANGED vars
  BY <1>1 DEF vars
<1>2. CASE Crash
  BY <1>2 DEF Crash, answers
<1>3. ASSUME NEW e \in Executors, NEW n \in Names, CreateTemp(e, n) PROVE TempIsOwn'
  <2>1. /\ pc' = [pc EXCEPT ![e] = "writing"] /\ temps' = temps \cup {TempOf(e)'}
        /\ \A t \in temps : ~SameName(t, TempOf(e)')
        /\ \A f \in Executors \ {e} : TempOf(f)' = TempOf(f)
    BY <1>3 DEF CreateTemp, OpenTemp, Step
  <2>2. SUFFICES ASSUME NEW f \in Executors, NEW t \in temps', pc'[f] \in Working,
                        SameName(t, TempOf(f)')
                 PROVE  t.owner = f
    BY DEF SameName
  <2>3. CASE f = e
    BY <2>1, <2>2, <2>3
  <2>4. CASE f # e /\ t \in temps
    <3>1. pc[f] \in Working /\ TempOf(f)' = TempOf(f)
      BY <2>1, <2>2, <2>4
    <3>2. t.name = TempOf(f).name /\ t.pid = TempOf(f).pid /\ t.counter = TempOf(f).counter
      BY <2>2, <3>1
    <3>3. QED
      BY <2>4, <3>1, <3>2
  <2>5. CASE f # e /\ t = TempOf(e)'
    <3>1. TempOf(f) \in temps /\ SameName(TempOf(f), TempOf(e)')
      BY <2>1, <2>2, <2>5
    <3>2. QED
      BY <2>1, <3>1
  <2>6. QED
    BY <2>1, <2>3, <2>4, <2>5
<1>4. ASSUME NEW e \in Executors, NEW n \in Names, CreateFails(e, n) PROVE TempIsOwn'
  BY <1>4 DEF CreateFails, OpenTemp, Step
<1>5. ASSUME NEW e \in Executors, Open(e) \/ OpenFails(e) PROVE TempIsOwn'
  BY <1>5 DEF Open, OpenFails, Call, Step, answers
<1>6. ASSUME NEW e \in Executors, Kill(e) PROVE TempIsOwn'
  BY <1>6 DEF Kill, dirVars, answers
<1>7. ASSUME NEW e \in Executors, Write(e) PROVE TempIsOwn'
  BY <1>7 DEF Write, Call, Step, answers
<1>8. ASSUME NEW e \in Executors, Sync(e) PROVE TempIsOwn'
  BY <1>8 DEF Sync, Call, Step, answers
<1>9. ASSUME NEW e \in Executors, WriteFails(e) PROVE TempIsOwn'
  BY <1>9 DEF WriteFails, Call, Step, answers
<1>10. ASSUME NEW e \in Executors, Rename(e) PROVE TempIsOwn'
  <2>1. /\ pc[e] = "committing" /\ pc' = [pc EXCEPT ![e] = "syncing_dir"]
        /\ UNCHANGED <<pid, name, counter>>
        /\ temps' \subseteq temps
    BY <1>10, Commits DEF Rename, Place, Step, Remove
  <2>2. QED
    BY <2>1
<1>11. ASSUME NEW e \in Executors, Link(e) PROVE TempIsOwn'
  BY <1>11 DEF Link, Place, Step, answers
<1>12. ASSUME NEW e \in Executors, CommitFails(e) PROVE TempIsOwn'
  BY <1>12 DEF CommitFails, Call, Step, answers
<1>13. ASSUME NEW e \in Executors, Unlink(e) PROVE TempIsOwn'
  BY <1>13 DEF Unlink, Step, answers, Remove
<1>14. ASSUME NEW e \in Executors, UnlinkFails(e) PROVE TempIsOwn'
  BY <1>14 DEF UnlinkFails, Call, Step, answers
<1>15. ASSUME NEW e \in Executors, Clean(e) PROVE TempIsOwn'
  BY <1>15 DEF Clean, ReturnError, Step, Remove
<1>16. ASSUME NEW e \in Executors, SyncDir(e) PROVE TempIsOwn'
  BY <1>16 DEF SyncDir, Step
<1>17. ASSUME NEW e \in Executors, SyncDirFails(e) PROVE TempIsOwn'
  BY <1>17 DEF SyncDirFails, ReturnError, Step
<1>18. QED
  BY <1>1, <1>2, <1>3, <1>4, <1>5, <1>6, <1>7, <1>8, <1>9, <1>10, <1>11, <1>12, <1>13,
     <1>14, <1>15, <1>16, <1>17, NextCases

\* Every way out of publish accounts for its temporary.
LEMMA ExplainedStep ==
    ASSUME IInv, [Next]_vars
    PROVE  TempsAreExplained'
<1> USE DEF IInv, TypeOK, TempsAreExplained, TempOf, Working, Calls
<1>1. CASE UNCHANGED vars
  BY <1>1 DEF vars
<1>2. CASE Crash
  <2>1. temps' \subseteq temps /\ unremoved' = unremoved
        /\ pc' = [e \in Executors |-> IF pc[e] = "closed" THEN "closed" ELSE "dead"]
    BY <1>2 DEF Crash
  <2>2. \A t \in temps : t.owner \in Executors
    BY DEF Temps
  <2>3. QED
    BY <2>1, <2>2
<1>3. ASSUME NEW e \in Executors, NEW n \in Names, CreateTemp(e, n) PROVE TempsAreExplained'
  BY <1>3 DEF CreateTemp, OpenTemp, Step
<1>4. ASSUME NEW e \in Executors, NEW n \in Names, CreateFails(e, n) PROVE TempsAreExplained'
  BY <1>4 DEF CreateFails, OpenTemp, Step
<1>5. ASSUME NEW e \in Executors, Open(e) \/ OpenFails(e) PROVE TempsAreExplained'
  <2>1. CASE Open(e)
    BY <2>1 DEF Open, Call, Step, answers
  <2>2. CASE OpenFails(e)
    BY <2>2 DEF OpenFails, Call, Step, answers
  <2>3. QED
    BY <1>5, <2>1, <2>2
<1>6. ASSUME NEW e \in Executors, Kill(e) PROVE TempsAreExplained'
  BY <1>6 DEF Kill, dirVars, answers
<1>7. ASSUME NEW e \in Executors, Write(e) PROVE TempsAreExplained'
  BY <1>7 DEF Write, Call, Step, answers
<1>8. ASSUME NEW e \in Executors, Sync(e) PROVE TempsAreExplained'
  BY <1>8 DEF Sync, Call, Step, answers
<1>9. ASSUME NEW e \in Executors, WriteFails(e) PROVE TempsAreExplained'
  BY <1>9 DEF WriteFails, Call, Step, answers
<1>10. ASSUME NEW e \in Executors, Rename(e) PROVE TempsAreExplained'
  <2>1. /\ pc[e] = "committing" /\ pc' = [pc EXCEPT ![e] = "syncing_dir"]
        /\ UNCHANGED <<pid, name, counter, unremoved>>
        /\ Remove(e)
    BY <1>10 DEF Rename, Place, Step
  <2>2. temps' \subseteq temps /\ TempOf(e) \notin temps'
    BY <2>1, RemovesOwn
  <2>3. QED
    BY <2>1, <2>2
<1>11. ASSUME NEW e \in Executors, Link(e) PROVE TempsAreExplained'
  BY <1>11 DEF Link, Place, Step, answers
<1>12. ASSUME NEW e \in Executors, CommitFails(e) PROVE TempsAreExplained'
  BY <1>12 DEF CommitFails, Call, Step, answers
<1>13. ASSUME NEW e \in Executors, Unlink(e) PROVE TempsAreExplained'
  <2>1. /\ pc[e] = "unlinking" /\ pc' = [pc EXCEPT ![e] = "syncing_dir"]
        /\ UNCHANGED <<pid, name, counter, unremoved>>
        /\ Remove(e)
    BY <1>13 DEF Unlink, Step
  <2>2. temps' \subseteq temps /\ TempOf(e) \notin temps'
    BY <2>1, RemovesOwn
  <2>3. QED
    BY <2>1, <2>2
<1>14. ASSUME NEW e \in Executors, UnlinkFails(e) PROVE TempsAreExplained'
  BY <1>14 DEF UnlinkFails, Call, Step, answers
<1>15. ASSUME NEW e \in Executors, Clean(e) PROVE TempsAreExplained'
  <2>1. /\ pc[e] = "cleaning" /\ pc' = [pc EXCEPT ![e] = "idle"]
        /\ UNCHANGED <<pid, name, counter>>
        /\ \/ Remove(e) /\ UNCHANGED unremoved
           \/ unremoved' = unremoved \cup {TempOf(e)} /\ UNCHANGED temps
    BY <1>15 DEF Clean, ReturnError, Step
  <2>2. CASE Remove(e) /\ UNCHANGED unremoved
    <3>1. temps' \subseteq temps /\ TempOf(e) \notin temps'
      BY <2>1, <2>2, RemovesOwn
    <3>2. QED
      BY <2>1, <2>2, <3>1
  <2>3. CASE unremoved' = unremoved \cup {TempOf(e)} /\ UNCHANGED temps
    BY <2>1, <2>3
  <2>4. QED
    BY <2>1, <2>2, <2>3
<1>16. ASSUME NEW e \in Executors, SyncDir(e) PROVE TempsAreExplained'
  BY <1>16 DEF SyncDir, Step
<1>17. ASSUME NEW e \in Executors, SyncDirFails(e) PROVE TempsAreExplained'
  BY <1>17 DEF SyncDirFails, ReturnError, Step
<1>18. QED
  BY <1>1, <1>2, <1>3, <1>4, <1>5, <1>6, <1>7, <1>8, <1>9, <1>10, <1>11, <1>12, <1>13,
     <1>14, <1>15, <1>16, <1>17, NextCases

-----------------------------------------------------------------------------
\* Nothing has been opened, so every conjunct holds.
LEMMA InitInv ==
    ASSUME Init
    PROVE  IInv
<1>1. TypeOK
  BY DEF Init, TypeOK, Calls, Contents
<1>2. FinalInv /\ ExportedInv /\ CallInv /\ TempIsOwn /\ TempsAreExplained
  BY DEF Init, FinalInv, ExportedInv, CallInv, TempIsOwn, TempsAreExplained, Working
<1>3. QED
  BY <1>1, <1>2 DEF IInv

\* IInv is inductive: no call, failure, kill or crash, of any executor, breaks
\* what the others rely on.
THEOREM Invariance == Spec => []IInv
<1>1. Init => IInv
  BY InitInv
<1>2. IInv /\ [Next]_vars => IInv'
  BY TypeStep, FinalStep, ExportedStep, CallStep, OwnStep, ExplainedStep DEF IInv
<1>3. QED
  BY <1>1, <1>2, PTL DEF Spec

\* Only whole reports are ever visible, before and after any crash.
THEOREM OnlyCompleteIsVisible == Spec => []VisibleIsComplete
<1>1. IInv => VisibleIsComplete
  BY DEF IInv, FinalInv, VisibleIsComplete
<1>2. QED
  BY <1>1, Invariance, PTL

\* A report publish answered Ok for stays, whatever happens later.
THEOREM OkIsForGood == Spec => []ExportedStays
<1>1. IInv => ExportedStays
  BY DEF IInv, ExportedInv, ExportedStays
<1>2. QED
  BY <1>1, Invariance, PTL

\* No executor ever writes, places or removes another's temporary.
THEOREM TemporariesAreApart == Spec => []TempIsOwn
<1>1. IInv => TempIsOwn
  BY DEF IInv
<1>2. QED
  BY <1>1, Invariance, PTL

\* No error path forgets its temporary.
THEOREM TemporariesAreAccounted == Spec => []TempsAreExplained
<1>1. IInv => TempsAreExplained
  BY DEF IInv
<1>2. QED
  BY <1>1, Invariance, PTL

-----------------------------------------------------------------------------
PStep == [Promise!PNext]_(Promise!promiseVars)

\* Every call is a step of the promise, or hidden from it.
LEMMA StepImplements ==
    ASSUME IInv, [Next]_vars
    PROVE  PStep
<1> USE DEF PStep, Promise!PNext, Promise!promiseVars
<1>1. ASSUME UNCHANGED <<final, exported, failed>> PROVE PStep
  BY <1>1
<1>2. CASE Crash
  <2>1. final' \in [Names -> Executors \cup {None}] /\ UNCHANGED <<exported, failed>>
    BY <1>2 DEF Crash, answers
  <2>2. ASSUME NEW n \in Names, final'[n] # final[n]
        PROVE  final'[n] = None /\ <<final[n], n>> \notin exported
    <3>1. final'[n] = stable[n] /\ final'[n] = None
      BY <1>2, <2>2 DEF Crash, IInv, FinalInv
    <3>2. final[n] \in Executors
      BY <2>2, <3>1 DEF IInv, TypeOK
    <3>3. QED
      BY <3>1, <3>2 DEF IInv, ExportedInv
  <2>3. Promise!Lose
    BY <2>1, <2>2 DEF Promise!Lose
  <2>4. QED
    BY <2>3
<1>3. ASSUME NEW e \in Executors, Rename(e) \/ Link(e) PROVE PStep
  <2>1. /\ name[e] \in Names /\ ~Answered(e, name[e]) /\ final[name[e]] = None
        /\ final' = [final EXCEPT ![name[e]] = e]
        /\ UNCHANGED <<exported, failed>>
    BY <1>3, Commits
  <2>2. Promise!Put(e, name[e])
    BY <2>1 DEF Promise!Put, Promise!Unanswered, Answered
  <2>3. QED
    BY <2>1, <2>2
<1>4. ASSUME NEW e \in Executors, NEW n \in Names, CreateFails(e, n) PROVE PStep
  <2>1. Promise!ReturnError(e, n)
    BY <1>4 DEF CreateFails, OpenTemp, Promise!ReturnError, Promise!Unanswered, Answered
  <2>2. QED
    BY <2>1
<1>5. ASSUME NEW e \in Executors, Clean(e) \/ SyncDirFails(e) PROVE PStep
  <2>1. name[e] \in Names /\ ~Answered(e, name[e])
    BY <1>5 DEF Clean, SyncDirFails, Step, IInv, CallInv, Working
  <2>2. Promise!ReturnError(e, name[e])
    BY <1>5, <2>1 DEF Clean, SyncDirFails, ReturnError, Promise!ReturnError,
       Promise!Unanswered, Answered
  <2>3. QED
    BY <2>1, <2>2
<1>6. ASSUME NEW e \in Executors, SyncDir(e) PROVE PStep
  <2>1. name[e] \in Names /\ ~Answered(e, name[e]) /\ final[name[e]] = e
    BY <1>6 DEF SyncDir, Step, IInv, CallInv
  <2>2. Promise!ReturnOk(e, name[e])
    BY <1>6, <2>1 DEF SyncDir, Promise!ReturnOk, Promise!Unanswered, Answered
  <2>3. QED
    BY <2>1, <2>2
<1>7. CASE UNCHANGED vars
  BY <1>1, <1>7 DEF vars
<1>8. ASSUME NEW e \in Executors, NEW n \in Names, CreateTemp(e, n) PROVE PStep
  BY <1>1, <1>8 DEF CreateTemp, OpenTemp
<1>9. ASSUME NEW e \in Executors,
             Open(e) \/ OpenFails(e) \/ Kill(e) \/ Write(e) \/ Sync(e) \/ WriteFails(e) \/ CommitFails(e)
             \/ Unlink(e) \/ UnlinkFails(e)
      PROVE  PStep
  BY <1>1, <1>9 DEF Open, OpenFails, Kill, Write, Sync, WriteFails, CommitFails, Unlink, UnlinkFails, Call,
     dirVars, answers
<1>10. QED
  BY <1>2, <1>3, <1>4, <1>5, <1>6, <1>7, <1>8, <1>9, NextCases

\* publish, with all its calls and crashes, is an atomic publication.
THEOREM PublishKeepsPromise == Spec => KeepsPromise
<1>1. Init => Promise!PInit
  BY DEF Init, Promise!PInit
<1>2. IInv /\ [Next]_vars => [Promise!PNext]_(Promise!promiseVars)
  BY StepImplements DEF PStep
<1>3. QED
  BY <1>1, <1>2, Invariance, PTL DEF Spec, KeepsPromise, Promise!PSpec
=============================================================================

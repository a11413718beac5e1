------------------------- MODULE ReportExportProofs -------------------------
(***************************************************************************)
(* The properties of ReportExport, for any number of adapters, process ids *)
(* and attempts, and that it keeps the promise of AtomicReplace.           *)
(***************************************************************************)
EXTENDS ReportExport, TLAPS

USE ExportAssumption

LEMMA InitInv == Init => IInv
BY DEF Init, IInv, TypeOK, PlaceInv, ExportedInv, CallInv, TempIsOwn, TempsAreExplained,
       Calls, Holding, Contents, Temps

\* A temporary's name leads back to the adapter while it holds it.
LEMMA OwnTemp ==
    ASSUME IInv, NEW e \in Exporters, pc[e] \in Holding, NEW t \in temps, SameName(t, TempOf(e))
    PROVE  t = TempOf(e)
<1>1. t.owner = e /\ t.pid = pid[e] /\ t.attempt = attempt[e]
  BY DEF IInv, TempIsOwn, SameName, TempOf
<1>2. t \in Temps
  BY DEF IInv, TypeOK
<1>3. t = [pid |-> t.pid, attempt |-> t.attempt, owner |-> t.owner]
  BY <1>2 DEF Temps
<1> QED BY <1>1, <1>3 DEF TempOf

\* A removal takes the adapter's temporary and no other.
LEMMA Removes ==
    ASSUME IInv, NEW e \in Exporters, pc[e] \in Holding, Remove(e)
    PROVE  temps' = temps \ {TempOf(e)}
<1>1. SameName(TempOf(e), TempOf(e))
  BY DEF SameName
<1> QED BY <1>1, OwnTemp DEF Remove

\* Calls that change the adapter's own file at most.
LEMMA CallStep ==
    ASSUME IInv, NEW e \in Exporters,
           Read(e) \/ TryNext(e) \/ Write(e) \/ Sync(e) \/ Check(e) \/ Error(e)
    PROVE  IInv'
<1> USE DEF IInv, TypeOK, PlaceInv, ExportedInv, CallInv, TempIsOwn, TempsAreExplained,
            Calls, Holding, Contents, Temps, TempOf, SameName, Step, destination, answers
<1>7. UNCHANGED <<place, latest, stable, exported, failed>>
  BY DEF Read, TryNext, Write, Sync, Check, Error, Call
<1>8. \A f \in Exporters : place[f] # 0 => file'[f] = file[f]
  <2>1. CASE Write(e)
    BY <2>1 DEF Write, Call
  <2>2. CASE Sync(e)
    BY <2>2 DEF Sync, Call
  <2>3. CASE Read(e) \/ TryNext(e) \/ Check(e) \/ Error(e)
    BY <2>3 DEF Read, TryNext, Check, Error, Call
  <2> HIDE DEF IInv
  <2> QED BY <2>1, <2>2, <2>3
<1>1. TypeOK'
  BY DEF Read, TryNext, Write, Sync, Check, Error, Call, Taken
<1>2. PlaceInv'
  BY <1>7, <1>8
<1>3. ExportedInv'
  BY DEF Read, TryNext, Write, Sync, Check, Error, Call, Taken
<1>4. CallInv'
  <2>1. CASE Read(e)
    BY <2>1, <1>7 DEF Read, Call
  <2>4. CASE TryNext(e)
    <3>1. pc' = pc /\ temps' = temps /\ pc[e] = "creating"
      BY <2>4 DEF TryNext, Call
    <3>2. \A f \in Exporters : f # e => TempOf(f)' = TempOf(f)
      BY <2>4 DEF TryNext, Call
    <3>3. file' = file
      BY <2>4 DEF TryNext
    <3> QED BY <3>1, <3>2, <3>3, <1>7
  <2>2. CASE Write(e) \/ Error(e)
    BY <2>2, <1>7 DEF Write, Error, Call
  <2>3. CASE Sync(e) \/ Check(e)
    BY <2>3, <1>7 DEF Sync, Check, Call
  <2> HIDE DEF IInv, CallInv
  <2> QED BY <2>1, <2>2, <2>3, <2>4
<1>5. TempIsOwn'
  BY DEF Read, TryNext, Write, Sync, Check, Error, Call, Taken
<1>6. TempsAreExplained'
  BY DEF Read, TryNext, Write, Sync, Check, Error, Call, Taken
<1> QED BY <1>1, <1>2, <1>3, <1>4, <1>5, <1>6

\* The new temporary's name is nobody else's.
LEMMA CreateStep ==
    ASSUME IInv, NEW e \in Exporters, CreateTemp(e)
    PROVE  IInv'
<1> USE DEF IInv, TypeOK, PlaceInv, ExportedInv, CallInv, TempIsOwn, TempsAreExplained,
            Calls, Holding, Contents, Temps, TempOf, SameName, Step, destination, answers
<1>1. TypeOK'
  BY DEF CreateTemp, Taken
<1>2. PlaceInv'
  BY DEF CreateTemp, Taken
<1>3. ExportedInv'
  BY DEF CreateTemp, Taken
<1>4. CallInv'
  BY DEF CreateTemp, Taken
<1>5. TempIsOwn'
  <2>1. pid' = pid /\ attempt' = attempt /\ temps' = temps \cup {TempOf(e)}
    BY DEF CreateTemp
  <2>2. \A f \in Exporters :
            pc'[f] \in Holding => f = e \/ (pc[f] \in Holding /\ TempOf(f) \in temps)
    BY DEF CreateTemp
  <2>3. \A t \in temps : ~SameName(t, TempOf(e))
    BY DEF CreateTemp, Taken
  <2> SUFFICES ASSUME NEW f \in Exporters, NEW t \in temps', pc'[f] \in Holding,
                      SameName(t, TempOf(f))
               PROVE  t.owner = f
    BY <2>1
  <2>4. CASE t = TempOf(e)
    BY <2>1, <2>2, <2>3, <2>4
  <2>5. CASE t \in temps
    BY <2>1, <2>2, <2>3, <2>5
  <2> QED BY <2>1, <2>4, <2>5
<1>6. TempsAreExplained'
  BY DEF CreateTemp, Taken
<1> QED BY <1>1, <1>2, <1>3, <1>4, <1>5, <1>6

\* An error without a temporary.
LEMMA FailStep ==
    ASSUME IInv, NEW e \in Exporters,
           ReadFails(e) \/ CreateFails(e) \/ SyncDirFails(e)
    PROVE  IInv'
<1> USE DEF IInv, TypeOK, PlaceInv, ExportedInv, CallInv, TempIsOwn, TempsAreExplained,
            Calls, Holding, Contents, Temps, TempOf, SameName, Step, destination, answers
<1>1. TypeOK'
  BY DEF ReadFails, CreateFails, SyncDirFails, Fail
<1>2. PlaceInv'
  BY DEF ReadFails, CreateFails, SyncDirFails, Fail
<1>3. ExportedInv'
  BY DEF ReadFails, CreateFails, SyncDirFails, Fail
<1>4. CallInv'
  BY DEF ReadFails, CreateFails, SyncDirFails, Fail
<1>5. TempIsOwn'
  BY DEF ReadFails, CreateFails, SyncDirFails, Fail
<1>6. TempsAreExplained'
  BY DEF ReadFails, CreateFails, SyncDirFails, Fail
<1> QED BY <1>1, <1>2, <1>3, <1>4, <1>5, <1>6

\* The adapter's own file takes the next place.
LEMMA RenameStep ==
    ASSUME IInv, NEW e \in Exporters, Rename(e)
    PROVE  IInv'
<1> USE DEF IInv, TypeOK, PlaceInv, ExportedInv, CallInv, TempIsOwn, TempsAreExplained,
            Calls, Holding, Contents, Temps, TempOf, SameName, Step, destination, answers
<1>7. /\ temps' = temps \ {TempOf(e)}
      /\ place' = [place EXCEPT ![e] = latest + 1]
  BY Removes, OwnTemp DEF Rename
<1>1. TypeOK'
  BY <1>7 DEF Rename
<1>2. PlaceInv'
  BY <1>7 DEF Rename
<1>3. ExportedInv'
  BY <1>7 DEF Rename
<1>4. CallInv'
  BY <1>7 DEF Rename
<1>5. TempIsOwn'
  BY <1>7 DEF Rename
<1>6. TempsAreExplained'
  BY <1>7 DEF Rename
<1> QED BY <1>1, <1>2, <1>3, <1>4, <1>5, <1>6

\* Drop removes the adapter's temporary, or remembers it.
LEMMA DropStep ==
    ASSUME IInv, NEW e \in Exporters, Drop(e)
    PROVE  IInv'
<1> USE DEF IInv, TypeOK, PlaceInv, ExportedInv, CallInv, TempIsOwn, TempsAreExplained,
            Calls, Holding, Contents, Temps, TempOf, SameName, Step, destination, answers
<1>7. \/ temps' = temps \ {TempOf(e)} /\ unremoved' = unremoved
      \/ unremoved' = unremoved \cup {TempOf(e)} /\ temps' = temps
  BY Removes DEF Drop
<1>1. TypeOK'
  BY <1>7 DEF Drop
<1>2. PlaceInv'
  BY <1>7 DEF Drop
<1>3. ExportedInv'
  BY <1>7 DEF Drop
<1>4. CallInv'
  BY <1>7 DEF Drop
<1>5. TempIsOwn'
  BY <1>7 DEF Drop
<1>6. TempsAreExplained'
  BY <1>7 DEF Drop
<1> QED BY <1>1, <1>2, <1>3, <1>4, <1>5, <1>6

\* Ok follows the directory's sync.
LEMMA SyncDirStep ==
    ASSUME IInv, NEW e \in Exporters, SyncDir(e)
    PROVE  IInv'
<1> USE DEF IInv, TypeOK, PlaceInv, ExportedInv, CallInv, TempIsOwn, TempsAreExplained,
            Calls, Holding, Contents, Temps, TempOf, SameName, Step, destination, answers
<1>1. TypeOK'
  BY DEF SyncDir
<1>2. PlaceInv'
  BY DEF SyncDir
<1>3. ExportedInv'
  <2>1. place' = place /\ stable' = latest /\ exported' = exported \cup {e}
    BY DEF SyncDir
  <2>2. place[e] \in 1..latest
    <3>1. place[e] # 0
      BY DEF SyncDir
    <3> QED BY <3>1
  <2>3. \A f \in exported : place[f] \in 1..latest
    OBVIOUS
  <2>4. \A f \in exported \cup {e} : place[f] \in 1..latest
    BY <2>2, <2>3, Zenon
  <2> QED BY <2>1, <2>4, Zenon
<1>4. CallInv'
  BY DEF SyncDir
<1>5. TempIsOwn'
  BY DEF SyncDir
<1>6. TempsAreExplained'
  BY DEF SyncDir
<1> QED BY <1>1, <1>2, <1>3, <1>4, <1>5, <1>6

\* A killed adapter's temporary is explained by its death.
LEMMA KillStep ==
    ASSUME IInv, NEW e \in Exporters, Kill(e)
    PROVE  IInv'
<1> USE DEF IInv, TypeOK, PlaceInv, ExportedInv, CallInv, TempIsOwn, TempsAreExplained,
            Calls, Holding, Contents, Temps, TempOf, SameName, Step, destination, answers
<1>1. TypeOK'
  BY DEF Kill
<1>2. PlaceInv'
  BY DEF Kill
<1>3. ExportedInv'
  BY DEF Kill
<1>4. CallInv'
  BY DEF Kill
<1>5. TempIsOwn'
  BY DEF Kill
<1>6. TempsAreExplained'
  BY DEF Kill
<1> QED BY <1>1, <1>2, <1>3, <1>4, <1>5, <1>6

\* A crash takes back renames after the last sync only.
LEMMA CrashStep ==
    ASSUME IInv, Crash
    PROVE  IInv'
<1> USE DEF IInv, TypeOK, PlaceInv, ExportedInv, CallInv, TempIsOwn, TempsAreExplained,
            Calls, Holding, Contents, Temps, TempOf, SameName, Step, destination, answers
<1>1. TypeOK'
  BY DEF Crash
<1>2. PlaceInv'
  BY DEF Crash
<1>3. ExportedInv'
  BY DEF Crash
<1>4. CallInv'
  BY DEF Crash
<1>5. TempIsOwn'
  BY DEF Crash
<1>6. TempsAreExplained'
  BY DEF Crash
<1> QED BY <1>1, <1>2, <1>3, <1>4, <1>5, <1>6

LEMMA StutterStep == ASSUME IInv, UNCHANGED vars PROVE IInv'
BY DEF IInv, TypeOK, PlaceInv, ExportedInv, CallInv, TempIsOwn, TempsAreExplained, TempOf,
       SameName, vars, destination, answers

LEMMA InductiveStep == IInv /\ [Next]_vars => IInv'
<1> SUFFICES ASSUME IInv, Next PROVE IInv'
  BY StutterStep
<1>1. CASE Crash
  BY <1>1, CrashStep
<1>2. ASSUME NEW e \in Exporters,
             \/ Read(e) \/ ReadFails(e)
             \/ CreateTemp(e) \/ TryNext(e) \/ CreateFails(e)
             \/ Write(e) \/ Sync(e) \/ Check(e) \/ Rename(e) \/ Error(e) \/ Drop(e)
             \/ SyncDir(e) \/ SyncDirFails(e)
             \/ Kill(e)
      PROVE  IInv'
  BY <1>2, CallStep, CreateStep, FailStep, RenameStep, DropStep, SyncDirStep, KillStep
<1> QED BY <1>1, <1>2 DEF Next

\* IInv holds throughout, whatever fails or crashes.
THEOREM Invariance == Spec => []IInv
BY InitInv, InductiveStep, PTL DEF Spec

\* The destination shows what was there before or a whole report.
THEOREM OnlyCompleteIsVisible == Spec => []VisibleIsComplete
<1>1. IInv => VisibleIsComplete
  BY DEF IInv, TypeOK, PlaceInv, VisibleIsComplete
<1> QED BY Invariance, <1>1, PTL

\* export_report's Ok is for good, up to later exports.
THEOREM OkIsForGood == Spec => []ExportedStays
<1>1. IInv => ExportedStays
  BY DEF IInv, TypeOK, ExportedInv, ExportedStays
<1> QED BY Invariance, <1>1, PTL

\* O_EXCL keeps every adapter on its own temporary, whatever the process ids.
THEOREM TemporariesAreApart == Spec => []TempIsOwn
<1>1. IInv => TempIsOwn
  BY DEF IInv
<1> QED BY Invariance, <1>1, PTL

\* Temporary::drop leaves none behind without having tried.
THEOREM TemporariesAreAccounted == Spec => []TempsAreExplained
<1>1. IInv => TempsAreExplained
  BY DEF IInv
<1> QED BY Invariance, <1>1, PTL

-----------------------------------------------------------------------------
(* The refinement.                                                         *)

LEMMA InitRefines == Init => Promise!RInit
BY DEF Init, Promise!RInit

\* The rename is Replace, the answers are the promise's, a crash is GoBack.
LEMMA StepRefines ==
    ASSUME IInv, [Next]_vars
    PROVE  [Promise!RNext]_(Promise!replaceVars)
<1> USE DEF Promise!RNext, Promise!replaceVars, Promise!Unanswered, Holding
<1>1. CASE UNCHANGED vars
  BY <1>1 DEF vars
<1>2. CASE Crash
  <2>1. \A e \in exported : place[e] <= latest'
    BY <1>2 DEF Crash, IInv, TypeOK, ExportedInv
  <2>2. latest' \in 0..latest
    BY <1>2 DEF Crash, IInv, TypeOK
  <2> QED BY <1>2, <2>1, <2>2 DEF Crash, answers, Promise!GoBack
<1>3. ASSUME NEW e \in Exporters, Rename(e)
      PROVE  Promise!Replace(e)
  <2>1. pc[e] \in Holding
    BY <1>3 DEF Rename, Step
  <2>2. \A t \in temps : SameName(t, TempOf(e)) => t.owner = e
    BY <2>1 DEF IInv, TempIsOwn
  <2>3. place' = [place EXCEPT ![e] = latest + 1]
    BY <1>3, <2>2 DEF Rename
  <2> QED BY <1>3, <2>3 DEF Rename, Step, IInv, CallInv, answers, Promise!Replace
<1>4. ASSUME NEW e \in Exporters, SyncDir(e)
      PROVE  Promise!ReturnOk(e)
  BY <1>4 DEF SyncDir, Step, IInv, CallInv, Promise!ReturnOk
<1>5. ASSUME NEW e \in Exporters, ReadFails(e) \/ CreateFails(e) \/ SyncDirFails(e) \/ Drop(e)
      PROVE  Promise!ReturnError(e)
  BY <1>5 DEF ReadFails, CreateFails, SyncDirFails, Drop, Fail, Step, destination, IInv, CallInv,
              Promise!ReturnError
<1>6. ASSUME NEW e \in Exporters,
             \/ Read(e) \/ CreateTemp(e) \/ TryNext(e) \/ Write(e) \/ Sync(e) \/ Check(e)
             \/ Error(e) \/ Kill(e)
      PROVE  UNCHANGED Promise!replaceVars
  BY <1>6 DEF Read, CreateTemp, TryNext, Write, Sync, Check, Error, Kill, Call, destination, answers
<1> QED BY <1>1, <1>2, <1>3, <1>4, <1>5, <1>6 DEF Next

\* export_report implements AtomicReplace, for any number of adapters.
THEOREM ExportKeepsPromise == Spec => KeepsPromise
BY InitRefines, StepRefines, Invariance, PTL DEF Spec, KeepsPromise, Promise!RSpec
=============================================================================

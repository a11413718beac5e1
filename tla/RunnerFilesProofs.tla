------------------------- MODULE RunnerFilesProofs -------------------------
(***************************************************************************)
(* The properties of RunnerFiles, for any runners, adapters, process ids,  *)
(* components and attempts, and that the declared directory keeps the      *)
(* promise of AtomicReplace.                                               *)
(***************************************************************************)
EXTENDS RunnerFiles, TLAPS

USE HandoffAssumption, ScratchAssumption, FilesAssumption

-----------------------------------------------------------------------------
(* The scratch directories.                                                *)

LEMMA InitSetup == SInit => SetupInv
BY DEF SInit, SetupInv, STypeOK, WalkInv, RootInv, Places

\* Steps along the path.
LEMMA WalkStep ==
    ASSUME SetupInv, NEW o \in Owners,
           Found(o) \/ Missing(o) \/ Make(o) \/ MakeLate(o) \/ MakeLost(o) \/ WalkFails(o)
    PROVE  SetupInv'
<1> USE DEF SetupInv, STypeOK, WalkInv, RootInv, Places, walk, naming
<1>1. CASE Found(o)
  BY <1>1 DEF Found, Enter, Go
<1>2. CASE Missing(o)
  BY <1>2 DEF Missing, Go
<1>3. CASE Make(o)
  <2>1. level[o] = depth + 1 /\ level[o] <= Depth
    BY <1>3 DEF Make, Enter, Go, Created
  <2> QED BY <1>3, <2>1 DEF Make, Enter, Go, Created
<1>4. CASE MakeLate(o)
  BY <1>4 DEF MakeLate, Enter, Go
<1>5. CASE MakeLost(o)
  BY <1>5 DEF MakeLost, Go
<1>6. CASE WalkFails(o)
  BY <1>6 DEF WalkFails, Go
<1> HIDE DEF SetupInv
<1> QED BY <1>1, <1>2, <1>3, <1>4, <1>5, <1>6

\* Steps of the choice of a name.
LEMMA NamingStep ==
    ASSUME SetupInv, NEW o \in Owners, NEW stamp \in Stamps,
           MakeRoot(o, stamp) \/ MakeRootFails(o, stamp) \/ TryNext(o, stamp)
    PROVE  SetupInv'
<1> USE DEF SetupInv, STypeOK, WalkInv, RootInv, Places, walk, naming
<1>1. CASE TryNext(o, stamp)
  BY <1>1 DEF TryNext, Go
<1>2. ASSUME MakeRoot(o, stamp) \/ MakeRootFails(o, stamp) PROVE SetupInv'
  <2> DEFINE name == RootName(o, stamp)
  <2>1. name \in RootNames
    BY <1>2 DEF RootName, RootNames, MakeRoot, MakeRootFails, Go
  <2>2. /\ at[o] = "naming"
        /\ \E to \in {"ready", "failed"} : at' = [at EXCEPT ![o] = to]
        /\ roots' = roots \cup {[name |-> name, owner |-> o]}
        /\ root' = [root EXCEPT ![o] = name]
        /\ \A d \in roots : d.name # name
        /\ UNCHANGED <<walk, attempt>>
    BY <1>2 DEF MakeRoot, MakeRootFails, Go, Own, Taken
  <2> HIDE DEF name
  <2> QED BY <2>1, <2>2
<1> HIDE DEF SetupInv
<1> QED BY <1>1, <1>2

LEMMA SetUpStep ==
    ASSUME SetupInv, NEW o \in Owners, SetUp(o)
    PROVE  SetupInv'
BY WalkStep, NamingStep DEF SetUp

\* The name of a root that a process works in is no other directory's.
LEMMA RemoveStep ==
    ASSUME SetupInv, NEW o \in Owners, RemoveRoot(o)
    PROVE  SetupInv'
<1> USE DEF SetupInv, STypeOK, WalkInv, RootInv, Places, walk, naming
<1>1. roots' \subseteq roots
  BY DEF RemoveRoot
<1>2. \A p \in Owners : at'[p] = "ready" => [name |-> root[p], owner |-> p] \in roots'
  <2> SUFFICES ASSUME NEW p \in Owners, at'[p] = "ready"
               PROVE  [name |-> root[p], owner |-> p] \in roots'
    OBVIOUS
  <2>1. p # o /\ at[p] = "ready"
    BY DEF RemoveRoot, Go
  <2>2. ASSUME root[p] = root[o] PROVE FALSE
    <3> DEFINE d == [name |-> root[o], owner |-> o]
               e == [name |-> root[p], owner |-> p]
    <3>1. d \in roots /\ e \in roots /\ d.name = e.name
      BY <2>1, <2>2 DEF RemoveRoot, Go
    <3>2. d = e
      BY <3>1
    <3>3. d.owner = e.owner
      BY <3>2
    <3> QED BY <2>1, <3>3
  <2> QED BY <2>1, <2>2 DEF RemoveRoot
<1> QED BY <1>1, <1>2 DEF RemoveRoot, Go

\* A process that ends is none that works.
LEMMA EndStep == ASSUME SetupInv, CrashAll PROVE SetupInv'
BY DEF CrashAll, SetupInv, STypeOK, WalkInv, RootInv, Places, walk, naming

LEMMA SetupKept == ASSUME SetupInv, UNCHANGED scratchVars PROVE SetupInv'
BY DEF scratchVars, walk, naming, SetupInv, STypeOK, WalkInv, RootInv

LEMMA SetupInductive ==
    ASSUME SetupInv, [FilesNext]_allVars
    PROVE  SetupInv'
<1>1. CASE UNCHANGED allVars
  BY <1>1, SetupKept DEF allVars
<1>2. ASSUME NEW r \in Runners,
             Prepare(r) \/ NoRoot(r) \/ Publish(r) \/ KillPreparing(r) \/ CleanUp(r)
      PROVE  SetupInv'
  <2>1. r \in Owners
    OBVIOUS
  <2> QED BY <1>2, <2>1, SetUpStep, RemoveStep, SetupKept
          DEF Prepare, NoRoot, Publish, KillPreparing, CleanUp
<1>3. ASSUME NEW a \in Adapters, Adapter(a)
      PROVE  SetupInv'
  <2>1. a \in Owners
    OBVIOUS
  <2> QED BY <1>3, <2>1, SetUpStep, RemoveStep DEF Adapter
<1>4. CASE Executor
  BY <1>4, SetupKept DEF Executor
<1>5. CASE CrashAll
  BY <1>5, EndStep
<1> QED BY <1>1, <1>2, <1>3, <1>4, <1>5 DEF FilesNext

\* What the processes may rely on along the scratch path.
THEOREM SetupInvariance == FilesSpec => []SetupInv
BY InitSetup, SetupInductive, PTL DEF FilesSpec, FilesInit

\* private_root and unique_root: a process works in a root of its own, and no
\* other process removes it, however many names collide.
THEOREM RootsAreSeparate == FilesSpec => []RootsAreOwn
<1>1. SetupInv => RootsAreOwn
  <2> SUFFICES ASSUME SetupInv, NEW o \in Owners, at[o] = "ready",
                      NEW p \in Owners \ {o}, at[p] = "ready", root[p] = root[o]
               PROVE  FALSE
    BY DEF SetupInv, RootInv, RootsAreOwn
  <2> DEFINE d == [name |-> root[o], owner |-> o]
             e == [name |-> root[p], owner |-> p]
  <2>1. d \in roots /\ e \in roots /\ d.name = e.name
    BY DEF SetupInv, RootInv
  <2>2. d = e
    BY <2>1 DEF SetupInv, RootInv
  <2>3. d.owner = e.owner
    BY <2>2
  <2> QED BY <2>3
<1> QED BY SetupInvariance, <1>1, PTL

\* The runner that made the deepest component has not given up on AlreadyExists.
THEOREM SomeoneGetsOn == FilesSpec => []NotEveryoneLoses
<1>1. SetupInv => NotEveryoneLoses
  BY DEF SetupInv, WalkInv, NotEveryoneLoses
<1> QED BY SetupInvariance, <1>1, PTL

-----------------------------------------------------------------------------
(* The declared directory.                                                 *)

LEMMA InitHandoff == Init => HandoffInv
BY DEF Init, HandoffInv, TypeOK, TempInv, PlaceInv, CallInv, ExportedInv, LookInv,
       Calls, Holding, Contents

\* Under the temporary's name is the runner's own file while it holds one.
LEMMA OwnTemp ==
    ASSUME HandoffInv, NEW r \in Runners, pc[r] \in Holding
    PROVE  Named(r) = {TempOf(r)}
<1>1. TempOf(r) \in Named(r)
  BY DEF HandoffInv, CallInv, Named, SameName
<1>2. ASSUME NEW t \in Named(r) PROVE t = TempOf(r)
  <2>1. t \in temps /\ SameName(t, TempOf(r))
    BY <1>2 DEF Named
  <2>2. t.owner = r
    BY <2>1 DEF HandoffInv, TempInv
  <2> QED BY <2>1, <2>2 DEF HandoffInv, TempInv
<1> QED BY <1>1, <1>2

\* Calls that change at most what is known of the runner.
LEMMA QuietStep ==
    ASSUME HandoffInv, NEW r \in Runners,
           \/ Admit(r) \/ RefuseFull(r) \/ Read(r) \/ ReadFails(r) \/ List(r) \/ ListFails(r)
           \/ CreateFails(r) \/ WriteFails(r) \/ Check(r) \/ RenameFails(r) \/ SyncDirFails(r)
           \/ Kill(r)
    PROVE  HandoffInv'
<1>1. /\ UNCHANGED <<pid, lookVars, file, temps, place, latest, stable, window, exported>>
      /\ \E from, to \in Calls :
            /\ pc[r] = from /\ pc' = [pc EXCEPT ![r] = to]
            /\ \/ failed' = failed
               \/ failed' = failed \cup {r} /\ to = "done"
            /\ \/ to \in {"done", "dead"}
               \/ from = "start" /\ to = "reading"
               \/ from = "reading" /\ to = "listing"
               \/ from = "listing" /\ to = "creating"
               \/ from = "checking" /\ to = "renaming" /\ latest = 0
  <2>1. pc[r] \in Calls
    BY DEF HandoffInv, TypeOK
  <2> QED BY <2>1 DEF Admit, RefuseFull, Read, ReadFails, List, ListFails, CreateFails,
       WriteFails, Check, RenameFails, SyncDirFails, Kill, Call, Fail, Step, runnerVars, Calls
<1> USE <1>1 DEF HandoffInv, Holding, lookVars, TempOf, SameName
<1>2. TypeOK'
  BY DEF TypeOK
<1>3. TempInv'
  BY DEF TypeOK, TempInv
<1>4. PlaceInv'
  BY DEF PlaceInv
<1>5. CallInv'
  BY DEF TypeOK, CallInv
<1>6. ExportedInv'
  BY DEF ExportedInv
<1>7. LookInv'
  BY DEF LookInv
<1> QED BY <1>2, <1>3, <1>4, <1>5, <1>6, <1>7

\* Calls that change the runner's own file.
LEMMA FillStep ==
    ASSUME HandoffInv, NEW r \in Runners, Write(r) \/ Sync(r)
    PROVE  HandoffInv'
<1>1. /\ UNCHANGED <<pid, lookVars, temps, place, latest, stable, window, exported, failed>>
      /\ \/ /\ pc[r] = "writing" /\ pc' = [pc EXCEPT ![r] = "syncing"]
            /\ file' = [file EXCEPT ![r] = "written"]
         \/ /\ pc[r] = "syncing" /\ pc' = [pc EXCEPT ![r] = "checking"]
            /\ file' = [file EXCEPT ![r] = "synced"]
  BY DEF Write, Sync, Step
<1>2. place[r] = 0 /\ r \notin exported
  BY <1>1 DEF HandoffInv, CallInv, Holding
<1> USE <1>1, <1>2 DEF HandoffInv, Holding, lookVars, TempOf, SameName
<1>3. TypeOK'
  BY DEF TypeOK, Calls, Contents
<1>4. TempInv'
  BY DEF TypeOK, TempInv
<1>5. PlaceInv'
  BY DEF TypeOK, PlaceInv
<1>6. CallInv'
  BY DEF TypeOK, CallInv
<1>7. ExportedInv'
  BY DEF ExportedInv
<1>8. LookInv'
  <2>1. \A s \in begun : s # r
    BY DEF TypeOK
  <2>2. file'[r] # "none"
    BY DEF TypeOK
  <2> QED BY <2>1, <2>2 DEF LookInv, TypeOK
<1> QED BY <1>3, <1>4, <1>5, <1>6, <1>7, <1>8

\* create_new keeps the runners apart, whatever their process ids.
LEMMA CreateStep ==
    ASSUME HandoffInv, NEW r \in Runners, CreateTemp(r)
    PROVE  HandoffInv'
<1>1. /\ UNCHANGED <<pid, lookVars, place, latest, stable, window, exported, failed>>
      /\ pc[r] = "creating" /\ pc' = [pc EXCEPT ![r] = "writing"]
      /\ file' = [file EXCEPT ![r] = "partial"]
      /\ temps' = temps \cup {TempOf(r)}
  BY DEF CreateTemp, Step
<1>2. \A t \in temps : t.pid # pid[r]
  BY DEF CreateTemp, Named, SameName, TempOf
<1>3. place[r] = 0 /\ r \notin exported
  BY <1>1 DEF HandoffInv, CallInv
<1> USE <1>1, <1>2, <1>3 DEF HandoffInv, Holding, lookVars, TempOf, SameName
<1>4. TypeOK'
  BY DEF TypeOK, Calls, Contents
<1>5. TempInv'
  <2>1. \A t \in temps' : t = TempOf(t.owner)' /\ file'[t.owner] # "none"
    BY DEF TypeOK, TempInv
  <2>2. ASSUME NEW q \in Runners, NEW t \in temps', pc'[q] \in Holding, SameName(t, TempOf(q))'
        PROVE  t.owner = q
    <3>1. CASE q = r
      BY <3>1, <2>2
    <3>2. CASE q # r
      <4>1. pc[q] \in Holding /\ TempOf(q) \in temps
        BY <3>2, <2>2 DEF TypeOK, CallInv
      <4>2. pid[q] # pid[r]
        BY <4>1
      <4> QED BY <4>1, <4>2, <2>2 DEF TempInv
    <3> QED BY <3>1, <3>2
  <2> QED BY <2>1, <2>2 DEF TempInv
<1>6. PlaceInv'
  BY DEF TypeOK, PlaceInv
<1>7. CallInv'
  BY DEF TypeOK, CallInv
<1>8. ExportedInv'
  BY DEF TypeOK, ExportedInv
<1>9. LookInv'
  <2>1. \A s \in begun : s # r
    BY DEF TypeOK
  <2>2. file'[r] # "none"
    BY DEF TypeOK
  <2> QED BY <2>1, <2>2 DEF LookInv, TypeOK
<1> QED BY <1>4, <1>5, <1>6, <1>7, <1>8, <1>9

\* The runner that finds a report takes its own temporary away at most.
LEMMA OccupiedStep ==
    ASSUME HandoffInv, NEW r \in Runners, Occupied(r)
    PROVE  HandoffInv'
<1>0. pc[r] \in Holding
  BY DEF Occupied, Step, Holding
<1>1. /\ UNCHANGED <<pid, lookVars, file, place, latest, stable, window, exported>>
      /\ pc[r] = "checking" /\ pc' = [pc EXCEPT ![r] = "done"]
      /\ failed' = failed \cup {r}
      /\ temps' = temps \/ temps' = temps \ {TempOf(r)}
  BY <1>0, OwnTemp DEF Occupied, Step
<1> USE <1>1 DEF HandoffInv, Holding, lookVars, TempOf, SameName
<1>4. TypeOK'
  BY DEF TypeOK, Calls
<1>5. TempInv'
  BY DEF TypeOK, TempInv
<1>6. PlaceInv'
  BY DEF PlaceInv
<1>7. CallInv'
  BY DEF TypeOK, CallInv
<1>8. ExportedInv'
  BY DEF TypeOK, ExportedInv
<1>9. LookInv'
  BY DEF LookInv
<1> QED BY <1>4, <1>5, <1>6, <1>7, <1>8, <1>9

\* What the rename does: the report in place is now the runner's own.
LEMMA Renames ==
    ASSUME HandoffInv, NEW r \in Runners, Rename(r)
    PROVE  /\ pc[r] = "renaming" /\ pc' = [pc EXCEPT ![r] = "syncing_dir"]
           /\ temps' = temps \ {TempOf(r)}
           /\ place' = [place EXCEPT ![r] = latest + 1]
           /\ latest' = latest + 1
           /\ window' = {q \in Runners \ {r} : pc[q] = "renaming"}
           /\ UNCHANGED <<pid, lookVars, file, stable, exported, failed>>
<1>1. pc[r] \in Holding
  BY DEF Rename, Place, Step, Holding
<1>2. Named(r) = {TempOf(r)} /\ TempOf(r).owner = r
  BY <1>1, OwnTemp DEF TempOf
<1> QED BY <1>2 DEF Rename, Place, Step

LEMMA RenameStep ==
    ASSUME HandoffInv, NEW r \in Runners, Rename(r)
    PROVE  HandoffInv'
<1>1. /\ place[r] = 0 /\ file[r] = "synced" /\ r \notin exported
      /\ \A s \in begun : s # r
  BY Renames DEF HandoffInv, TypeOK, CallInv, Holding
<1> USE Renames, <1>1 DEF HandoffInv, Holding, lookVars, TempOf, SameName
<1>4. TypeOK'
  BY DEF TypeOK, Calls
<1>5. TempInv'
  BY DEF TypeOK, TempInv
<1>6. PlaceInv'
  BY DEF TypeOK, PlaceInv
<1>7. CallInv'
  BY DEF TypeOK, CallInv
<1>8. ExportedInv'
  BY DEF TypeOK, ExportedInv
<1>9. LookInv'
  BY DEF LookInv
<1> QED BY <1>4, <1>5, <1>6, <1>7, <1>8, <1>9

LEMMA SyncDirStep ==
    ASSUME HandoffInv, NEW r \in Runners, SyncDir(r)
    PROVE  HandoffInv'
<1>1. /\ pc[r] = "syncing_dir" /\ pc' = [pc EXCEPT ![r] = "done"]
      /\ stable' = latest
      /\ exported' = exported \cup {r}
      /\ UNCHANGED <<pid, lookVars, file, temps, place, latest, window, failed>>
  BY DEF SyncDir, Step
<1> USE <1>1 DEF HandoffInv, Holding, lookVars, TempOf, SameName
<1>4. TypeOK'
  BY DEF TypeOK, Calls
<1>5. TempInv'
  BY DEF TypeOK, TempInv
<1>6. PlaceInv'
  BY DEF PlaceInv
<1>7. CallInv'
  BY DEF TypeOK, CallInv
<1>8. ExportedInv'
  BY DEF TypeOK, ExportedInv, CallInv, PlaceInv
<1>9. LookInv'
  BY DEF LookInv
<1> QED BY <1>4, <1>5, <1>6, <1>7, <1>8, <1>9

\* The inspection finds the report of a runner alone, and nothing else.
LEMMA LookStep ==
    ASSUME HandoffInv, ListDeclared \/ OpenReport \/ ReadReport \/ InspectFails
    PROVE  HandoffInv'
<1>1. UNCHANGED <<pid, pc, runnerVars>>
  BY DEF ListDeclared, OpenReport, ReadReport, InspectFails, Inspect
<1>2. TypeOK'
  BY <1>1 DEF HandoffInv, TypeOK, ListDeclared, OpenReport, ReadReport, InspectFails, Inspect,
       Looking, runnerVars
<1>3. TempInv' /\ PlaceInv' /\ CallInv' /\ ExportedInv'
  BY <1>1 DEF HandoffInv, TempInv, PlaceInv, CallInv, ExportedInv, runnerVars, TempOf, SameName,
       Holding
<1>4. ASSUME NEW s \in begun', \A q \in Runners \ {s} : file'[q] = "none"
      PROVE  look' \notin {"waiting", "refused"}
             /\ (look' \in {"reading", "accepted", "oversized"} => shown' = s)
  <2>1. s \in Runners /\ s \in exported
    BY <1>2, <1>1 DEF TypeOK, runnerVars
  <2>2. \A q \in Runners : q # s => file[q] = "none"
    BY <1>4, <1>1 DEF runnerVars
  <2>3. /\ place[s] # 0 /\ latest # 0 /\ file[s] = "synced"
        /\ TempOf(s) \notin temps
    BY <2>1 DEF HandoffInv, ExportedInv, PlaceInv, TypeOK
  <2>4. CASE ListDeclared
    <3>1. ASSUME NEW t \in temps PROVE FALSE
      <4>1. t.owner \in Runners /\ t = TempOf(t.owner) /\ file[t.owner] # "none"
        BY DEF HandoffInv, TypeOK, TempInv
      <4> QED BY <4>1, <2>2, <2>3
    <3> QED BY <3>1, <2>3, <2>4 DEF ListDeclared, Inspect
  <2>5. CASE OpenReport
    <3>1. PICK r \in Runners : place[r] = latest /\ shown' = r
      BY <2>5 DEF OpenReport
    <3>2. file[r] = "synced"
      BY <3>1, <2>3 DEF HandoffInv, PlaceInv
    <3>3. r = s
      BY <3>2, <2>2
    <3> QED BY <3>1, <3>3, <2>5 DEF OpenReport, Inspect
  <2>6. CASE ReadReport
    <3>1. s \in begun /\ look = "reading"
      BY <2>6 DEF ReadReport, Inspect
    <3>2. shown = s
      BY <3>1, <2>2 DEF HandoffInv, LookInv
    <3> QED BY <3>2, <2>3, <2>6 DEF ReadReport, Inspect
  <2>7. CASE InspectFails
    BY <2>7 DEF InspectFails, Inspect
  <2> QED BY <2>4, <2>5, <2>6, <2>7
<1> QED BY <1>2, <1>3, <1>4 DEF HandoffInv, LookInv

\* What was synced stays; what was not may go, and so may any temporary.
LEMMA CrashStep == ASSUME HandoffInv, Crash PROVE HandoffInv'
<1>1. /\ latest' \in stable..latest /\ stable' = latest'
      /\ place' = [s \in Runners |-> IF place[s] <= latest' THEN place[s] ELSE 0]
      /\ file' \in [Runners -> Contents]
      /\ \A s \in Runners : file'[s] = file[s] \/ (file[s] = "written" /\ file'[s] = "partial")
      /\ temps' \subseteq temps
      /\ pc' = [s \in Runners |-> IF pc[s] = "start" THEN "start" ELSE "dead"]
      /\ look' = IF Looking THEN "error" ELSE look
      /\ UNCHANGED <<pid, window, exported, failed, shown, begun>>
  BY DEF Crash
<1>2. latest' \in Nat /\ latest' <= latest /\ stable <= latest'
  BY <1>1 DEF HandoffInv, TypeOK
<1> USE <1>1, <1>2 DEF HandoffInv, Holding, TempOf, SameName
<1>4. TypeOK'
  BY DEF TypeOK, Calls, Looking
<1>5. TempInv'
  BY DEF TypeOK, TempInv
<1>6. PlaceInv'
  <2>1. \A s \in Runners : place'[s] <= latest' /\ (place'[s] # 0 => place'[s] = place[s])
    BY DEF TypeOK
  <2>2. \A s \in Runners : place'[s] # 0 => file'[s] = "synced"
    BY <2>1 DEF PlaceInv
  <2>3. ASSUME NEW i \in 1..latest' PROVE \E s \in Runners : place'[s] = i
    <3>1. PICK s \in Runners : place[s] = i
      BY DEF PlaceInv, TypeOK
    <3> QED BY <3>1
  <2> QED BY <2>1, <2>2, <2>3 DEF PlaceInv
<1>7. CallInv'
  BY DEF TypeOK, CallInv
<1>8. ExportedInv'
  BY DEF TypeOK, ExportedInv
<1>9. LookInv'
  <2>1. \A s \in Runners : file'[s] = "none" => file[s] = "none"
    OBVIOUS
  <2> QED BY <2>1 DEF LookInv, Looking
<1> QED BY <1>4, <1>5, <1>6, <1>7, <1>8, <1>9

LEMMA HandoffInductive ==
    ASSUME HandoffInv, [Next]_vars
    PROVE  HandoffInv'
<1>1. CASE UNCHANGED vars
  BY <1>1 DEF vars, runnerVars, lookVars, HandoffInv, TypeOK, TempInv, PlaceInv, CallInv,
       ExportedInv, LookInv, TempOf, SameName
<1>2. CASE Crash
  BY <1>2, CrashStep
<1>3. CASE ListDeclared \/ OpenReport \/ ReadReport \/ InspectFails
  BY <1>3, LookStep
<1>4. ASSUME NEW r \in Runners, Runner(r)
      PROVE  HandoffInv'
  BY <1>4, QuietStep, FillStep, CreateStep, OccupiedStep, RenameStep, SyncDirStep DEF Runner
<1> QED BY <1>1, <1>2, <1>3, <1>4 DEF Next

\* What publish_junit and inspect_and_read have established at each call.
THEOREM HandoffInvariance == Spec => []HandoffInv
BY InitHandoff, HandoffInductive, PTL DEF Spec

-----------------------------------------------------------------------------
(* The composition.                                                        *)

\* execute of nextest_buck_test.rs, with the adapters and the crashes, does to
\* the declared directory what JunitHandoff says.
THEOREM FilesAreHandedOver == FilesSpec => Spec
<1>1. FilesInit => Init
  BY DEF FilesInit
<1>2. [FilesNext]_allVars => [Next]_vars
  BY DEF FilesNext, allVars, Prepare, NoRoot, Publish, KillPreparing, CleanUp, Adapter,
     Executor, CrashAll, Next, Runner
<1> QED BY <1>1, <1>2, PTL DEF FilesSpec, Spec

LEMMA FilesInvariance == FilesSpec => []HandoffInv
BY FilesAreHandedOver, HandoffInvariance, PTL

\* publish_junit's Ok, and inspect_and_read after it.
THEOREM OkReachesTheExecutor == FilesSpec => []OkIsHandedOver
<1>1. HandoffInv => OkIsHandedOver
  BY DEF HandoffInv, LookInv, OkIsHandedOver
<1> QED BY FilesInvariance, <1>1, PTL

\* The look of publish_junit before its rename.
THEOREM ReplacementIsARace == FilesSpec => ReplacedOnlyInWindow
<1>1. ASSUME HandoffInv, [Next]_vars,
             NEW r \in Runners, latest # 0, latest' > latest, place'[r] = latest'
      PROVE  r \in window
  <2>1. latest' # latest
    BY <1>1 DEF HandoffInv, TypeOK
  <2>2. ~Crash
    BY <1>1 DEF Crash, HandoffInv, TypeOK
  <2>3. PICK q \in Runners : Rename(q)
    <3>1. Next
      BY <1>1, <2>1 DEF vars, runnerVars
    <3>2. CASE ListDeclared \/ OpenReport \/ ReadReport \/ InspectFails
      BY <3>2, <2>1 DEF ListDeclared, OpenReport, ReadReport, InspectFails, Inspect, runnerVars
    <3>3. ASSUME NEW q \in Runners, Runner(q) PROVE Rename(q)
      BY <3>3, <2>1 DEF Runner, Admit, RefuseFull, Read, ReadFails, List, ListFails,
         CreateTemp, CreateFails, Write, Sync, WriteFails, Check, Occupied, RenameFails,
         SyncDir, SyncDirFails, Kill, Call, Fail, runnerVars
    <3> QED BY <2>2, <3>1, <3>2, <3>3 DEF Next
  <2>4. q = r
    BY <1>1, <2>3, Renames DEF HandoffInv, TypeOK, PlaceInv
  <2> QED BY <1>1, <2>3, <2>4, Renames DEF HandoffInv, CallInv
<1>2. HandoffInv /\ [Next]_vars =>
        [\A r \in Runners :
            latest # 0 /\ latest' > latest /\ place'[r] = latest' => r \in window]_vars
  BY <1>1
<1> QED BY <1>2, FilesInvariance, FilesAreHandedOver, PTL DEF Spec, ReplacedOnlyInWindow

\* No torn file is ever in place.
LEMMA AlwaysWhole == HandoffInv => Whole
<1> SUFFICES ASSUME HandoffInv, latest # 0
             PROVE  \E r \in Runners : place[r] = latest /\ file[r] \in {"written", "synced"}
  BY DEF Whole
<1>1. latest \in 1..latest
  BY DEF HandoffInv, TypeOK
<1>2. PICK r \in Runners : place[r] = latest
  BY <1>1 DEF HandoffInv, PlaceInv
<1> QED BY <1>2 DEF HandoffInv, PlaceInv

LEMMA InitRefines == Init => Reports!RInit
BY DEF Init, Reports!RInit, Whole

LEMMA StepRefines ==
    ASSUME HandoffInv, HandoffInv', [Next]_vars
    PROVE  [Reports!RNext]_(Reports!replaceVars)
<1>0. Whole /\ Whole'
  BY AlwaysWhole, PTL
<1> USE <1>0 DEF Reports!RNext, Reports!replaceVars, Reports!Unanswered
<1>1. CASE UNCHANGED vars
  BY <1>1 DEF vars, runnerVars
<1>2. CASE Crash
  BY <1>2 DEF Crash, HandoffInv, TypeOK, ExportedInv, Reports!GoBack
<1>3. CASE ListDeclared \/ OpenReport \/ ReadReport \/ InspectFails
  BY <1>3 DEF ListDeclared, OpenReport, ReadReport, InspectFails, Inspect, runnerVars
<1>4. ASSUME NEW r \in Runners, Runner(r)
      PROVE  [Reports!RNext]_(Reports!replaceVars)
  <2>1. CASE Rename(r)
    BY <2>1, Renames DEF HandoffInv, CallInv, Holding, Reports!Replace
  <2>2. CASE SyncDir(r)
    BY <2>2 DEF SyncDir, Step, HandoffInv, CallInv, Reports!ReturnOk
  <2>3. ASSUME NEW from \in {"start", "reading", "listing", "creating", "writing", "syncing",
                             "renaming", "syncing_dir"},
               Fail(r, from)
        PROVE  Reports!ReturnError(r)
    BY <2>3 DEF Fail, Step, HandoffInv, CallInv, Reports!ReturnError
  <2>4. CASE Occupied(r)
    BY <2>4 DEF Occupied, Step, HandoffInv, CallInv, Reports!ReturnError
  <2>5. CASE Admit(r) \/ Read(r) \/ List(r) \/ Check(r) \/ Kill(r)
             \/ CreateTemp(r) \/ Write(r) \/ Sync(r)
    BY <2>5 DEF Admit, Read, List, Check, Kill, CreateTemp, Write, Sync, Call, runnerVars
  <2> QED BY <1>4, <2>1, <2>2, <2>3, <2>4, <2>5
          DEF Runner, RefuseFull, ReadFails, ListFails, CreateFails, WriteFails, RenameFails,
              SyncDirFails
<1> QED BY <1>1, <1>2, <1>3, <1>4 DEF Next

\* The directory a runner publishes into keeps the promise of AtomicReplace, in
\* the composition with everything else that runs.
THEOREM HandoffKeepsPromise == FilesSpec => KeepsPromise
BY InitRefines, StepRefines, FilesInvariance, FilesAreHandedOver, PTL
   DEF Spec, KeepsPromise, Reports!RSpec
=============================================================================

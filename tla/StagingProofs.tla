----------------------------- MODULE StagingProofs -----------------------------
(***************************************************************************)
(* What the two adapters stage and what environment the tests see, for any *)
(* manifest, bundle, declared inputs and variables, and where exactly the  *)
(* two validators of schema v1 differ.                                     *)
(*                                                                         *)
(* A call keeps every file but the one it writes, so a file stays as it    *)
(* was written until a later call writes its path.  The inductive          *)
(* invariants carry what the validators have established about the paths,  *)
(* list by list and across lists, and the files written so far.            *)
(***************************************************************************)
EXTENDS RunnerStaging, RunnerEnvironment, ArtifactStaging, SequenceTheorems, TLAPS

\* A tree is a record; the files t has are in u, but for those at paths.
IsTree(t) == \E ok \in BOOLEAN : \E files : t = [ok |-> ok, files |-> files]
Leaves(t, u, paths) == \A q \in DOMAIN t.files \ paths : q \in DOMAIN u.files /\ u.files[q] = t.files[q]
Has(t, c) == c.path \in DOMAIN t.files /\ t.files[c.path] = c.by

\* The calls between t and u write nothing but paths.
Calls(t, u, paths) == IsTree(u) /\ (u.ok => t.ok /\ Leaves(t, u, paths))

\* The records are those of one manifest: one cwd for a package, cwds apart,
\* and one record for an identity.
RecordsInv ==
  /\ records \in Seq(Records)
  /\ \A i \in DOMAIN records :
       /\ SafePath(records[i].cwd)
       /\ records[i].package \in DOMAIN packageCwds /\ packageCwds[records[i].package] = records[i].cwd
  /\ \A p, q \in DOMAIN packageCwds : p # q => ~Overlaps(packageCwds[p], packageCwds[q])
  /\ \A i, j \in DOMAIN records : Identity(records[i]) = Identity(records[j]) => i = j

\* A package was opened where all its records say, and before their sources.
Synthesized == {"bundle", "copying", "staged"}
PackagesInv ==
  /\ \A p \in DOMAIN roots : p \in DOMAIN packageCwds /\ roots[p] = packageCwds[p] 
                             /\ \E i \in DOMAIN records : records[i].package = p
  /\ sources \subseteq DOMAIN records
  /\ \A i \in sources : records[i].package \in DOMAIN roots
  /\ stage \in {"manifest", "private", "workspace"} => DOMAIN roots = {} /\ sources = {}
  /\ stage \in Synthesized => sources = DOMAIN records

\* The bundle's resources were checked before the first is copied.
ResourcesInv ==
  /\ resources \in Seq(Range(resources))
  /\ \A i \in DOMAIN resources : /\ resources[i].path \in Seq(STRING) /\ SafePath(resources[i].path)
                                 /\ ~AdapterOwned(resources[i].path)
  /\ \A i, j \in DOMAIN resources : resources[i].path = resources[j].path => i = j
  /\ copied \in 0 .. Len(resources)
  /\ stage \notin {"copying", "staged", "refused"} => copied = 0
  /\ stage = "staged" => copied = Len(resources)

\* The files written so far, and that they are all still there.
FilesSoFar ==
  {c \in {WorkspaceManifest} : stage \in Synthesized \cup {"packages"}}
  \cup {PackageManifest(p, roots[p]) : p \in DOMAIN roots}
  \cup {SourceFile(records[i], records[i].cwd) : i \in sources}
  \cup {c \in {CargoMetadata, BinariesMetadata, Configuration} : stage \in Synthesized}
  \cup {ResourceCopy(resources[j]) : j \in 1 .. copied}
FilesInv == IsTree(tree) /\ (stage # "refused" => tree.ok /\ \A c \in FilesSoFar : Has(tree, c))

\* The inductive invariant of StagingSpec.
StagingInv == RecordsInv /\ PackagesInv /\ ResourcesInv /\ FilesInv
-------------------------------------------------------------------------------
LEMMA TreeFailed == ASSUME NEW t, IsTree(t) PROVE Failed(t).ok = FALSE /\ IsTree(Failed(t)) /\ t.ok \in BOOLEAN
<1>0. PICK ok \in BOOLEAN : \E files : t = [ok |-> ok, files |-> files]
  BY DEF IsTree
<1>1. PICK files : t = [ok |-> ok, files |-> files]
  BY <1>0
<1>2. Failed(t).ok = FALSE
  BY DEF Failed
<1>3. IsTree(Failed(t))
  BY DEF IsTree, Failed
<1>4. t.ok = ok
  BY <1>1
<1> QED BY <1>2, <1>3, <1>4

LEMMA TreeMade ==
  ASSUME NEW t, IsTree(t), NEW files, NEW u, u = [ok |-> t.ok, files |-> files]
  PROVE  u.ok = t.ok /\ u.files = files /\ IsTree(u)
<1>1. u.ok = t.ok /\ u.files = files
  OBVIOUS
<1>2. t.ok \in BOOLEAN
  BY TreeFailed
<1> QED BY <1>1, <1>2 DEF IsTree

LEMMA DirectoryCall ==
  ASSUME NEW t, IsTree(t), NEW p
  PROVE  /\ IsTree(EnsureDir(t, p))
         /\ EnsureDir(t, p).ok => t.ok /\ Leaves(t, EnsureDir(t, p), {})
<1>1. CASE \E q \in PathsTo(p) : IsFile(t, q)
  <2>1. EnsureDir(t, p) = Failed(t)
    BY <1>1 DEF EnsureDir
  <2> QED BY <2>1, TreeFailed
<1>2. CASE ~\E q \in PathsTo(p) : IsFile(t, q)
  <2> DEFINE new == Over([q \in PathsTo(p) |-> Directory], t.files)
  <2>1. EnsureDir(t, p) = [ok |-> t.ok, files |-> new]
    BY <1>2 DEF EnsureDir
  <2>2. ASSUME NEW q \in DOMAIN t.files PROVE q \in DOMAIN new /\ new[q] = t.files[q]
    <3>1. q \in PathsTo(p) => t.files[q] = Directory
      BY <1>2 DEF IsFile
    <3> QED BY <3>1 DEF Over
  <2> HIDE DEF new
  <2>3. EnsureDir(t, p).ok = t.ok /\ EnsureDir(t, p).files = new /\ IsTree(EnsureDir(t, p))
    BY <2>1, TreeMade
  <2> QED BY <2>2, <2>3 DEF Leaves
<1> QED BY <1>1, <1>2

LEMMA FileCall ==
  ASSUME NEW t, IsTree(t), NEW p, NEW by
  PROVE  /\ IsTree(CreateFile(t, p, by))
         /\ CreateFile(t, p, by).ok =>
              /\ t.ok /\ Leaves(t, CreateFile(t, p, by), {p})
              /\ p \in DOMAIN CreateFile(t, p, by).files /\ CreateFile(t, p, by).files[p] = by
<1> DEFINE new == Insert(t.files, p, by)
<1>1. p \in DOMAIN new /\ new[p] = by /\ \A q \in DOMAIN t.files \ {p} : q \in DOMAIN new /\ new[q] = t.files[q]
  BY DEF Insert, Over
<1>2. CreateFile(t, p, by) = Failed(t) \/ CreateFile(t, p, by) = [ok |-> t.ok, files |-> new]
  BY DEF CreateFile
<1> HIDE DEF new
<1>3. CASE CreateFile(t, p, by) = Failed(t)
  BY <1>3, TreeFailed
<1>4. CASE CreateFile(t, p, by) = [ok |-> t.ok, files |-> new]
  <2>1. CreateFile(t, p, by).ok = t.ok /\ CreateFile(t, p, by).files = new /\ IsTree(CreateFile(t, p, by))
    BY <1>4, TreeMade
  <2> QED BY <2>1, <1>1 DEF Leaves
<1> QED BY <1>2, <1>3, <1>4

\* A call to make a directory keeps all files.
LEMMA DirKeeps == ASSUME NEW t, IsTree(t), NEW p PROVE Calls(t, Apply(t, Dir(p)), {})
<1>1. Apply(t, Dir(p)) = IF ~t.ok THEN t ELSE EnsureDir(t, p)
  BY DEF Apply, Dir, Call
<1>2. t.ok => Leaves(t, t, {})
  BY DEF Leaves
<1> QED BY <1>1, <1>2, DirectoryCall DEF Calls

\* A call that writes a file keeps all others.
LEMMA WriteKeeps ==
  ASSUME NEW t, IsTree(t), NEW kind \in {"write", "copy"}, NEW p, NEW by
  PROVE  LET c == Call(kind, p, by)
         IN Calls(t, Apply(t, c), {p}) /\ (Apply(t, c).ok => Has(Apply(t, c), c))
<1> DEFINE c == Call(kind, p, by)
<1>1. c.path = p /\ c.by = by /\ c.call = kind
  BY DEF Call
<1>2. CASE ~t.ok
  BY <1>2 DEF Apply, Calls
<1>3. CASE t.ok /\ kind = "write"
  <2>1. Apply(t, c) = CreateFile(t, p, by)
    BY <1>1, <1>3 DEF Apply
  <2> DEFINE u == CreateFile(t, p, by)
  <2>2. /\ IsTree(u)
        /\ u.ok => t.ok /\ Leaves(t, u, {p}) /\ p \in DOMAIN u.files /\ u.files[p] = by
    BY FileCall
  <2> HIDE DEF u, c
  <2>3. Apply(t, c) = u
    BY <2>1 DEF u
  <2>4. Calls(t, Apply(t, c), {p})
    BY <2>2, <2>3 DEF Calls
  <2>5. Apply(t, c).ok => Has(Apply(t, c), c)
    BY <2>2, <2>3, <1>1 DEF Has
  <2> QED BY <2>4, <2>5 DEF c
<1>4. CASE t.ok /\ kind = "copy"
  <2> DEFINE made == EnsureDir(t, Front(p))
  <2>1. Apply(t, c) = IF made.ok THEN CreateFile(made, p, by) ELSE made
    <3> HIDE DEF c
    <3>1. Apply(t, c) = CopyRegular(t, p, by)
      BY <1>1, <1>4 DEF Apply
    <3>2. CopyRegular(t, p, by) = IF made.ok THEN CreateFile(made, p, by) ELSE made
      BY DEF CopyRegular
    <3> HIDE DEF made
    <3> QED BY <3>1, <3>2
  <2>2. IsTree(made) /\ (made.ok => Leaves(t, made, {}))
    BY DirectoryCall
  <2> HIDE DEF made, c
  <2>3. CASE made.ok
    <3> DEFINE u == CreateFile(made, p, by)
    <3>1. /\ IsTree(u)
          /\ u.ok => Leaves(made, u, {p}) /\ p \in DOMAIN u.files /\ u.files[p] = by
      BY <2>2, <2>3, FileCall
    <3> HIDE DEF u
    <3>2. u.ok => Leaves(t, u, {p})
      BY <3>1, <2>2, <2>3 DEF Leaves
    <3>3. Apply(t, c) = u
      BY <2>1, <2>3 DEF u
    <3> QED BY <3>1, <3>2, <3>3, <1>1, <1>4 DEF Has, Calls, c
  <2>4. CASE ~made.ok
    BY <2>1, <2>2, <2>4 DEF Calls, c
  <2> QED BY <2>3, <2>4
<1> QED BY <1>2, <1>3, <1>4

\* Calls follow one another, and what they do not write stays.
LEMMA CallsFollow ==
  ASSUME NEW t, NEW u, NEW v, NEW P, NEW Q, Calls(t, u, P), Calls(u, v, Q)
  PROVE  Calls(t, v, P \cup Q)
  BY DEF Calls, Leaves

LEMMA CallsKeep ==
  ASSUME NEW t, NEW u, NEW P, Calls(t, u, P), u.ok, NEW c, Has(t, c), c.path \notin P
  PROVE  Has(u, c)
  BY DEF Calls, Leaves, Has

LEMMA DirectoriesKeep ==
  ASSUME NEW t, IsTree(t), NEW a, NEW b, NEW c
  PROVE  Calls(t, Directories(t, a, b, c), {})
<1> DEFINE t1 == Apply(t, Dir(a))
           t2 == Apply(t1, Dir(b))
           t3 == Apply(t2, Dir(c))
<1>1. Calls(t, t1, {}) /\ IsTree(t1)
  BY DirKeeps DEF Calls
<1> HIDE DEF t1
<1>2. Calls(t1, t2, {}) /\ IsTree(t2)
  BY <1>1, DirKeeps DEF Calls
<1> HIDE DEF t2
<1>3. Calls(t2, t3, {})
  BY <1>2, DirKeeps
<1> HIDE DEF t3
<1>4. Calls(t, t2, {} \cup {})
  BY <1>1, <1>2, CallsFollow
<1>5. Calls(t, t3, ({} \cup {}) \cup {})
  BY <1>3, <1>4, CallsFollow
<1>6. t3 = Directories(t, a, b, c)
  BY DEF Directories, t3, t2, t1
<1> QED BY <1>5, <1>6
-------------------------------------------------------------------------------
\* The components of a path: the provers do not know that a literal is in STRING.
PathNames == STRING \cup {"workspace", "src", "Cargo.toml"}

LEMMA PathAppend ==
  ASSUME NEW path \in Seq(PathNames), NEW name \in PathNames
  PROVE  /\ Append(path, name) \in Seq(PathNames) /\ Len(Append(path, name)) = Len(path) + 1
         /\ Append(path, name)[Len(path) + 1] = name
         /\ \A k \in 1 .. Len(path) : Append(path, name)[k] = path[k]
  BY AppendProperties

\* What InWorkspace makes of a cwd, component by component.
LEMMA WorkspacePath ==
  ASSUME NEW cwd \in Seq(STRING)
  PROVE  /\ Len(cwd) \in Nat
         /\ InWorkspace(cwd) \in Seq(PathNames) /\ Len(InWorkspace(cwd)) = Len(cwd) + 1
         /\ InWorkspace(cwd)[1] = "workspace"
         /\ \A k \in 1 .. Len(cwd) : InWorkspace(cwd)[k + 1] = cwd[k]
<1> DEFINE first == <<"workspace">>
<1>1. first \in Seq(PathNames) /\ Len(first) = 1 /\ first[1] = "workspace"
  <2> DEFINE name == "workspace"
  <2>1. name \in PathNames
    BY DEF PathNames
  <2> HIDE DEF name
  <2>2. <<name>> \in Seq(PathNames) /\ Len(<<name>>) = 1 /\ <<name>>[1] = name
    BY <2>1
  <2> QED BY <2>2 DEF name
<1>2. Len(cwd) \in Nat /\ cwd \in Seq(PathNames)
  <2>1. STRING \subseteq PathNames
    BY DEF PathNames
  <2> QED BY <2>1, LenProperties, SeqMonotonic
<1> HIDE DEF first
<1>3. /\ first \o cwd \in Seq(PathNames) /\ Len(first \o cwd) = Len(first) + Len(cwd)
      /\ \A i \in 1 .. Len(first) + Len(cwd) :
           (first \o cwd)[i] = IF i <= Len(first) THEN first[i] ELSE cwd[i - Len(first)]
  BY <1>1, <1>2, ConcatProperties
<1>4. InWorkspace(cwd) = first \o cwd
  BY DEF InWorkspace, first
<1> QED BY <1>1, <1>2, <1>3, <1>4

LEMMA PackagePath ==
  ASSUME NEW p, NEW cwd \in Seq(STRING)
  PROVE  LET path == PackageManifest(p, cwd).path
         IN /\ Len(path) = Len(cwd) + 2 /\ path[1] = "workspace" /\ path[Len(cwd) + 2] = "Cargo.toml"
            /\ \A k \in 1 .. Len(cwd) : path[k + 1] = cwd[k]
<1> DEFINE dir == InWorkspace(cwd)
           name == "Cargo.toml"
           path == Append(dir, name)
<1>1. PackageManifest(p, cwd).path = path
  BY DEF PackageManifest, Call
<1>2. name \in PathNames
  BY DEF PathNames
<1> HIDE DEF dir, name
<1>3. /\ dir \in Seq(PathNames) /\ Len(dir) = Len(cwd) + 1 /\ Len(cwd) \in Nat /\ dir[1] = "workspace" 
      /\ \A k \in 1 .. Len(cwd) : dir[k + 1] = cwd[k]
  BY WorkspacePath DEF dir
<1>4. Len(path) = Len(dir) + 1 /\ path[Len(dir) + 1] = name /\ \A k \in 1 .. Len(dir) : path[k] = dir[k]
  BY <1>2, <1>3, PathAppend
<1> HIDE DEF path
<1>5. Len(path) = Len(cwd) + 2 /\ path[1] = "workspace" /\ path[Len(cwd) + 2] = name /\ \A k \in 1 .. Len(cwd) : path[k + 1] = cwd[k]
  BY <1>3, <1>4
<1> QED BY <1>1, <1>5 DEF name

LEMMA SourcePath ==
  ASSUME NEW r, NEW cwd \in Seq(STRING), BinaryName(Identity(r)) \in STRING
  PROVE  LET path == SourceFile(r, cwd).path
         IN /\ Len(path) = Len(cwd) + 3 /\ path[1] = "workspace" 
            /\ path[Len(cwd) + 2] = "src" /\ path[Len(cwd) + 3] = BinaryName(Identity(r))
            /\ \A k \in 1 .. Len(cwd) : path[k + 1] = cwd[k]
<1> DEFINE dir == InWorkspace(cwd)
           src == "src"
           name == BinaryName(Identity(r))
           inner == Append(dir, src)
           path == Append(inner, name)
<1>1. SourceFile(r, cwd).path = path
  BY DEF SourceFile, Call
<1>2. src \in PathNames /\ name \in PathNames
  BY DEF PathNames
<1> HIDE DEF dir, src, name
<1>3. /\ dir \in Seq(PathNames) /\ Len(dir) = Len(cwd) + 1 /\ Len(cwd) \in Nat /\ dir[1] = "workspace" 
      /\ \A k \in 1 .. Len(cwd) : dir[k + 1] = cwd[k]
  BY WorkspacePath DEF dir
<1>4. /\ inner \in Seq(PathNames) /\ Len(inner) = Len(dir) + 1 /\ inner[Len(dir) + 1] = src
      /\ \A k \in 1 .. Len(dir) : inner[k] = dir[k]
  BY <1>2, <1>3, PathAppend
<1> HIDE DEF inner
<1>5. Len(path) = Len(inner) + 1 /\ path[Len(inner) + 1] = name /\ \A k \in 1 .. Len(inner) : path[k] = inner[k]
  BY <1>2, <1>4, PathAppend
<1> HIDE DEF path
<1>6. /\ Len(path) = Len(cwd) + 3 /\ path[1] = "workspace" /\ path[Len(cwd) + 2] = src /\ path[Len(cwd) + 3] = name
      /\ \A k \in 1 .. Len(cwd) : path[k + 1] = cwd[k]
  <2>1. Len(inner) = Len(cwd) + 2 /\ Len(path) = Len(cwd) + 3
    BY <1>3, <1>4, <1>5
  <2>2. path[Len(cwd) + 2] = src /\ path[Len(cwd) + 3] = name
    BY <1>3, <1>4, <1>5, <2>1
  <2>3. path[1] = "workspace"
    BY <1>3, <1>4, <1>5, <2>1
  <2>4. ASSUME NEW k \in 1 .. Len(cwd) PROVE path[k + 1] = cwd[k]
    BY <1>3, <1>4, <1>5, <2>1
  <2> QED BY <2>1, <2>2, <2>3, <2>4
<1> QED BY <1>1, <1>6 DEF src, name

\* Two cwds that do not overlap part at some component.
LEMMA CwdsPart ==
  ASSUME NEW c \in Seq(STRING), NEW d \in Seq(STRING), ~Overlaps(c, d)
  PROVE  \E k \in 1 .. Len(c) : k <= Len(d) /\ c[k] # d[k]
<1>1. ASSUME NEW s \in Seq(STRING), NEW t \in Seq(STRING), Len(s) <= Len(t), \A k \in 1 .. Len(s) : s[k] = t[k]
      PROVE  IsPrefix(s, t)
  <2>1. Len(s) \in Nat /\ Len(t) \in Nat
    BY LenProperties
  <2>2. SubSeq(s, 1, Len(s)) = s
    BY SubSeqFull
  <2>3. \A i \in 1 .. Len(s) : t[i] \in STRING
    BY <1>1, <2>1, ElementOfSeq
  <2>4. /\ SubSeq(t, 1, Len(s)) \in Seq(STRING)
        /\ Len(SubSeq(t, 1, Len(s))) = Len(s)
        /\ \A i \in 1 .. Len(s) : SubSeq(t, 1, Len(s))[i] = t[i]
    <3>1. /\ SubSeq(t, 1, Len(s)) \in Seq(STRING)
          /\ Len(SubSeq(t, 1, Len(s))) = IF 1 <= Len(s) THEN Len(s) - 1 + 1 ELSE 0
          /\ \A i \in 1 .. (Len(s) - 1 + 1) : SubSeq(t, 1, Len(s))[i] = t[1 + i - 1]
      BY <2>1, <2>3, SubSeqProperties
    <3> QED BY <3>1, <2>1
  <2>5. SubSeq(t, 1, Len(s)) = s
    BY <1>1, <2>1, <2>4, SeqEqual
  <2> QED BY <1>1, <2>2, <2>5 DEF IsPrefix
<1>2. Len(c) \in Nat /\ Len(d) \in Nat
  BY LenProperties
<1>3. CASE Len(c) <= Len(d)
  BY <1>1, <1>2, <1>3 DEF Overlaps
<1>4. CASE Len(d) <= Len(c)
  BY <1>1, <1>2, <1>4 DEF Overlaps
<1> QED BY <1>2, <1>3, <1>4
-------------------------------------------------------------------------------
LEMMA StagingStarts == StagingInit => StagingInv
<1> SUFFICES ASSUME StagingInit PROVE StagingInv
  OBVIOUS
<1> USE DEF StagingInit
<1>1. RecordsInv
  BY DEF RecordsInv
<1>2. PackagesInv
  BY DEF PackagesInv, Synthesized
<1>3. ResourcesInv
  BY DEF ResourcesInv
<1>4. FilesInv
  <2>1. IsTree(tree) /\ tree.ok
    BY DEF IsTree, EmptyRoot
  <2>2. DOMAIN roots = {} /\ (1 .. copied) = {}
    OBVIOUS
  <2>3. FilesSoFar = {}
    BY <2>2 DEF FilesSoFar, Synthesized
  <2> QED BY <2>1, <2>3 DEF FilesInv
<1> QED BY <1>1, <1>2, <1>3, <1>4 DEF StagingInv

\* The loop of validate keeps what it has established about the records.
LEMMA RecordsStep == StagingInv /\ [StagingNext]_stagingVars => RecordsInv'
<1> SUFFICES ASSUME StagingInv, [StagingNext]_stagingVars PROVE RecordsInv'
  OBVIOUS
<1>1. RecordsInv
  BY DEF StagingInv
<1>2. CASE UNCHANGED <<records, packageCwds>>
  BY <1>1, <1>2 DEF RecordsInv
<1>3. ASSUME NEW r \in Records, ReadRecord(r), RecordAccepted(r) PROVE RecordsInv'
  <2>1. records' = Append(records, r) /\ packageCwds' = Insert(packageCwds, r.package, r.cwd)
    BY <1>3 DEF ReadRecord
  <2>2. /\ records' \in Seq(Records) /\ DOMAIN records = 1 .. Len(records) /\ Len(records) \in Nat
        /\ DOMAIN records' = 1 .. (Len(records) + 1) /\ records'[Len(records) + 1] = r
        /\ \A i \in DOMAIN records : records'[i] = records[i]
    BY <1>1, <2>1, AppendProperties, LenProperties DEF RecordsInv
  <2>3. /\ DOMAIN packageCwds' = DOMAIN packageCwds \cup {r.package} /\ packageCwds'[r.package] = r.cwd
        /\ \A p \in DOMAIN packageCwds : p # r.package => packageCwds'[p] = packageCwds[p]
    BY <2>1 DEF Insert, Over
  <2>4. r.package \in DOMAIN packageCwds => packageCwds[r.package] = r.cwd
    BY <1>3 DEF RecordAccepted, CwdAccepted
  <2>5. SafePath(r.cwd) /\ \A i \in DOMAIN records : Identity(records[i]) # Identity(r)
    BY <1>3 DEF RecordAccepted
  <2>6. ASSUME NEW i \in DOMAIN records'
        PROVE  /\ SafePath(records'[i].cwd)
               /\ records'[i].package \in DOMAIN packageCwds' /\ packageCwds'[records'[i].package] = records'[i].cwd
    BY <1>1, <2>2, <2>3, <2>4, <2>5 DEF RecordsInv
  <2>7. ASSUME NEW p \in DOMAIN packageCwds', NEW q \in DOMAIN packageCwds', p # q
        PROVE  ~Overlaps(packageCwds'[p], packageCwds'[q])
    <3>1. r.package \notin DOMAIN packageCwds => \A o \in DOMAIN packageCwds : ~Overlaps(packageCwds[o], r.cwd)
      BY <1>3 DEF RecordAccepted, CwdAccepted
    <3>2. \A c, d : Overlaps(c, d) <=> Overlaps(d, c)
      BY DEF Overlaps
    <3> QED BY <1>1, <2>3, <2>4, <2>7, <3>1, <3>2 DEF RecordsInv
  <2>8. ASSUME NEW i \in DOMAIN records', NEW j \in DOMAIN records', Identity(records'[i]) = Identity(records'[j])
        PROVE  i = j
    BY <1>1, <2>2, <2>5, <2>8 DEF RecordsInv
  <2>9. \A i, j \in DOMAIN records' : Identity(records'[i]) = Identity(records'[j]) => i = j
    BY <2>8
  <2> QED BY <2>2, <2>6, <2>7, <2>9 DEF RecordsInv, Identity
<1>4. CASE StagingNext
  BY <1>2, <1>3, <1>4 DEF StagingNext, ReadRecord, ResolveExecutables, MakePrivate, MakeWorkspace, OpenPackage, WriteSource,
       WriteMetadata, ParseBundle, NoBundle, CopyResource, Finish, GiveUp
<1> QED BY <1>2, <1>4 DEF stagingVars

\* Packages are opened where their records say, and sources follow them.
LEMMA PackagesStep == StagingInv /\ [StagingNext]_stagingVars => PackagesInv'
<1> SUFFICES ASSUME StagingInv, [StagingNext]_stagingVars PROVE PackagesInv'
  OBVIOUS
<1>1. PackagesInv /\ RecordsInv
  BY DEF StagingInv
<1>2. CASE UNCHANGED <<records, packageCwds, roots, sources>> /\ stage' \in {stage, "refused"}
  BY <1>1, <1>2 DEF PackagesInv, Synthesized
<1>3. ASSUME NEW r \in Records, ReadRecord(r), RecordAccepted(r) PROVE PackagesInv'
  <2>1. DOMAIN roots' = {} /\ sources' = {} /\ stage' = "manifest"
    BY <1>1, <1>3 DEF PackagesInv, ReadRecord, treeVars
  <2> QED BY <2>1 DEF PackagesInv, Synthesized
<1>4. ASSUME NEW i \in DOMAIN records, OpenPackage(i) PROVE PackagesInv'
  <2> DEFINE package == records[i].package
  <2>1. /\ stage = "packages" /\ stage' \in {"packages", "refused"}
        /\ roots' = Insert(roots, package, records[i].cwd)
        /\ UNCHANGED <<records, packageCwds, sources>>
    BY <1>4 DEF OpenPackage, Made
  <2>2. /\ DOMAIN roots' = DOMAIN roots \cup {package} /\ roots'[package] = records[i].cwd
        /\ \A p \in DOMAIN roots : p # package => roots'[p] = roots[p]
    BY <2>1 DEF Insert, Over
  <2>3. package \in DOMAIN packageCwds /\ packageCwds[package] = records[i].cwd
    BY <1>1 DEF RecordsInv
  <2> HIDE DEF package
  <2>4. \A p \in DOMAIN roots' : /\ p \in DOMAIN packageCwds /\ roots'[p] = packageCwds[p]
                                 /\ \E j \in DOMAIN records : records[j].package = p
    BY <1>1, <2>2, <2>3 DEF PackagesInv, package
  <2> QED BY <1>1, <2>1, <2>2, <2>4 DEF PackagesInv, Synthesized
<1>5. ASSUME NEW i \in DOMAIN records, WriteSource(i) PROVE PackagesInv'
  BY <1>1, <1>5 DEF WriteSource, Made, PackagesInv, Synthesized
<1>6. CASE ResolveExecutables \/ MakePrivate \/ MakeWorkspace
  BY <1>1, <1>6 DEF ResolveExecutables, MakePrivate, MakeWorkspace, Made, treeVars, PackagesInv, Synthesized
<1>7. CASE WriteMetadata \/ NoBundle \/ CopyResource \/ Finish \/ GiveUp \/ \E b \in Bundles : ParseBundle(b)
  BY <1>1, <1>7 DEF WriteMetadata, NoBundle, CopyResource, Finish, GiveUp, ParseBundle, Made, treeVars, PackagesInv, Synthesized
<1>8. ASSUME NEW r \in Records, ReadRecord(r), ~RecordAccepted(r) PROVE PackagesInv'
  BY <1>2, <1>8 DEF ReadRecord, treeVars
<1> QED BY <1>2, <1>3, <1>4, <1>5, <1>6, <1>7, <1>8 DEF StagingNext, stagingVars

\* parse_bundle establishes what copying relies on.
LEMMA ResourcesStep == StagingInv /\ [StagingNext]_stagingVars => ResourcesInv'
<1> SUFFICES ASSUME StagingInv, [StagingNext]_stagingVars PROVE ResourcesInv'
  OBVIOUS
<1>1. ResourcesInv
  BY DEF StagingInv
<1>2. CASE /\ UNCHANGED <<resources, copied>>
           /\ stage' = "staged" => stage = "staged" \/ copied = Len(resources)
           /\ stage' \notin {"copying", "staged", "refused"} => stage \notin {"copying", "staged", "refused"}
  BY <1>1, <1>2 DEF ResourcesInv
<1>3. ASSUME NEW b \in Bundles, ParseBundle(b), stage' # "refused" PROVE ResourcesInv'
  <2>1. /\ ResourcesAccepted(b, Declared)
        /\ stage = "bundle" /\ stage' = "copying" /\ resources' = b /\ copied' = copied
    BY <1>3 DEF ParseBundle
  <2>2. b \in Seq(Range(b)) /\ \A i \in DOMAIN b : b[i].path \in Seq(STRING)
    BY RecordsAssumption
  <2>3. copied = 0
    BY <1>1, <2>1 DEF ResourcesInv
  <2> DEFINE bundle == [resources |-> b, environment |-> <<>>]
  <2>4. bundle.resources = b
    OBVIOUS
  <2>5. /\ \A i \in DOMAIN b : ResourceAccepted(b[i], Declared)
        /\ Distinct([i \in DOMAIN b |-> b[i].path])
    BY <2>1, <2>4 DEF ResourcesAccepted
  <2>6. \A i, j \in DOMAIN b : b[i].path = b[j].path => i = j
    BY <2>5 DEF Distinct
  <2>7. 0 \in 0 .. Len(b)
    BY <2>2, LenProperties
  <2> QED BY <2>1, <2>2, <2>3, <2>5, <2>6, <2>7 DEF ResourcesInv, ResourceAccepted
<1>4. ASSUME CopyResource PROVE ResourcesInv'
  <2>1. /\ copied < Len(resources) /\ copied' = copied + 1 /\ resources' = resources
        /\ stage = "copying" /\ stage' \in {"copying", "refused"}
    BY <1>4 DEF CopyResource, Made
  <2>2. Len(resources) \in Nat
    BY <1>1, LenProperties DEF ResourcesInv
  <2> QED BY <1>1, <2>1, <2>2 DEF ResourcesInv
<1>5. ASSUME NEW b \in Bundles, ParseBundle(b), stage' = "refused" PROVE ResourcesInv'
  BY <1>2, <1>5 DEF ParseBundle
<1>6. CASE (\E r \in Records : ReadRecord(r)) \/ ResolveExecutables \/ MakePrivate \/ MakeWorkspace
  BY <1>2, <1>6 DEF ReadRecord, ResolveExecutables, MakePrivate, MakeWorkspace, Made, treeVars
<1>7. CASE (\E i \in DOMAIN records : OpenPackage(i) \/ WriteSource(i)) \/ WriteMetadata
  BY <1>2, <1>7 DEF OpenPackage, WriteSource, WriteMetadata, Made
<1>8. CASE NoBundle \/ Finish \/ GiveUp
  BY <1>2, <1>8 DEF NoBundle, Finish, GiveUp, treeVars
<1> QED BY <1>2, <1>3, <1>4, <1>5, <1>6, <1>7, <1>8 DEF StagingNext, stagingVars
-------------------------------------------------------------------------------
\* The paths of the files that belong to no record.
LEMMA FixedPaths ==
  /\ Len(WorkspaceManifest.path) = 2 /\ WorkspaceManifest.path[1] = "workspace"
  /\ Len(Configuration.path) = 3 /\ Configuration.path[1] = "workspace" /\ Configuration.path[3] = "nextest.toml"
  /\ CargoMetadata.path[1] = "meta" /\ BinariesMetadata.path[1] = "meta"
  /\ CargoMetadata.path # BinariesMetadata.path
<1>1. Len(WorkspaceManifest.path) = 2 /\ WorkspaceManifest.path[1] = "workspace"
  BY DEF WorkspaceManifest, Call
<1>2. Len(Configuration.path) = 3 /\ Configuration.path[1] = "workspace" /\ Configuration.path[3] = "nextest.toml"
  BY DEF Configuration, Call
<1>3. CargoMetadata.path[1] = "meta" /\ BinariesMetadata.path[1] = "meta" /\ CargoMetadata.path # BinariesMetadata.path
  BY DEF CargoMetadata, BinariesMetadata, Call
<1> QED BY <1>1, <1>2, <1>3

\* The cwds of the records and of the opened packages.
LEMMA CwdsAreSound ==
  ASSUME StagingInv
  PROVE  /\ \A i \in DOMAIN records :
              /\ records[i].cwd \in Seq(STRING) /\ Len(records[i].cwd) \in Nat \ {0}
              /\ BinaryName(Identity(records[i])) \in STRING
              /\ records[i].package \in DOMAIN roots => roots[records[i].package] = records[i].cwd
         /\ \A p \in DOMAIN roots :
              /\ roots[p] \in Seq(STRING) /\ Len(roots[p]) \in Nat \ {0}
              /\ \A i \in DOMAIN records : records[i].package # p => ~Overlaps(records[i].cwd, roots[p])
         /\ \A i, j \in DOMAIN records : records[i].package # records[j].package => ~Overlaps(records[i].cwd, records[j].cwd)
<1>1. RecordsInv /\ PackagesInv
  BY DEF StagingInv
<1>2. ASSUME NEW i \in DOMAIN records
      PROVE  /\ records[i].cwd \in Seq(STRING) /\ Len(records[i].cwd) \in Nat \ {0}
             /\ BinaryName(Identity(records[i])) \in STRING
  <2>1. records[i] \in Records
    BY <1>1 DEF RecordsInv
  <2>2. records[i].cwd \in Seq(STRING) /\ BinaryName(Identity(records[i])) \in STRING
    BY <2>1, RecordsAssumption
  <2>3. records[i].cwd # <<>>
    BY <1>1 DEF RecordsInv, SafePath
  <2> QED BY <2>2, <2>3, EmptySeq
<1>3. \A i \in DOMAIN records : records[i].package \in DOMAIN roots => roots[records[i].package] = records[i].cwd
  BY <1>1 DEF RecordsInv, PackagesInv
<1>4. \A i, j \in DOMAIN records : records[i].package # records[j].package => ~Overlaps(records[i].cwd, records[j].cwd)
  BY <1>1 DEF RecordsInv
<1>5. ASSUME NEW p \in DOMAIN roots PROVE \E i \in DOMAIN records : records[i].package = p /\ roots[p] = records[i].cwd
  BY <1>1, <1>3 DEF PackagesInv
<1>6. ASSUME NEW p \in DOMAIN roots
      PROVE  /\ roots[p] \in Seq(STRING) /\ Len(roots[p]) \in Nat \ {0}
             /\ \A i \in DOMAIN records : records[i].package # p => ~Overlaps(records[i].cwd, roots[p])
  <2>1. PICK i \in DOMAIN records : records[i].package = p /\ roots[p] = records[i].cwd
    BY <1>5
  <2> QED BY <2>1, <1>2, <1>4
<1> QED BY <1>2, <1>3, <1>4, <1>6

\* A package's manifest is written over none of the files so far.
LEMMA PackageIsApart ==
  ASSUME StagingInv, stage = "packages", NEW i \in DOMAIN records, records[i].package \notin DOMAIN roots, NEW c \in FilesSoFar
  PROVE  c.path # PackageManifest(records[i].package, records[i].cwd).path
<1> DEFINE cwd == records[i].cwd
           path == PackageManifest(records[i].package, records[i].cwd).path
<1>1. cwd \in Seq(STRING) /\ Len(cwd) \in Nat \ {0}
  BY CwdsAreSound
<1>2. Len(path) = Len(cwd) + 2 /\ \A k \in 1 .. Len(cwd) : path[k + 1] = cwd[k]
  BY <1>1, PackagePath
<1> HIDE DEF cwd, path
<1>3. ASSUME c = WorkspaceManifest PROVE c.path # path
  <2>1. Len(c.path) = 2
    BY <1>3, FixedPaths
  <2>2. Len(path) # 2
    BY <1>1, <1>2
  <2> QED BY <2>1, <2>2
<1>4. ASSUME NEW p \in DOMAIN roots, c = PackageManifest(p, roots[p]) PROVE c.path # path
  <2>1. roots[p] \in Seq(STRING) /\ Len(roots[p]) \in Nat \ {0} /\ ~Overlaps(cwd, roots[p])
    BY CwdsAreSound DEF cwd
  <2>2. \A k \in 1 .. Len(roots[p]) : c.path[k + 1] = roots[p][k]
    BY <1>4, <2>1, PackagePath
  <2>3. PICK k \in 1 .. Len(cwd) : k <= Len(roots[p]) /\ cwd[k] # roots[p][k]
    BY <1>1, <2>1, CwdsPart
  <2>4. k \in 1 .. Len(roots[p])
    BY <1>1, <2>1, <2>3
  <2> QED BY <1>2, <2>2, <2>3, <2>4
<1>5. ASSUME NEW j \in sources, c = SourceFile(records[j], records[j].cwd) PROVE c.path # path
  <2>1. j \in DOMAIN records /\ records[j].package # records[i].package
    BY DEF StagingInv, PackagesInv
  <2> DEFINE other == records[j].cwd
  <2>2. other \in Seq(STRING) /\ Len(other) \in Nat \ {0} /\ ~Overlaps(cwd, other) /\ BinaryName(Identity(records[j])) \in STRING
    BY <2>1, CwdsAreSound DEF cwd
  <2>3. \A k \in 1 .. Len(other) : c.path[k + 1] = other[k]
    BY <1>5, <2>2, SourcePath
  <2> HIDE DEF other
  <2>4. PICK k \in 1 .. Len(cwd) : k <= Len(other) /\ cwd[k] # other[k]
    BY <1>1, <2>2, CwdsPart
  <2>5. k \in 1 .. Len(other)
    BY <1>1, <2>2, <2>4
  <2> QED BY <1>2, <2>3, <2>4, <2>5
<1>6. 1 .. copied = {}
  BY DEF StagingInv, ResourcesInv
<1> QED BY <1>3, <1>4, <1>5, <1>6 DEF FilesSoFar, Synthesized, path

\* A record's source file is written over none of the files so far.
LEMMA SourceIsApart ==
  ASSUME StagingInv, stage = "packages", NEW i \in DOMAIN records, records[i].package \in DOMAIN roots, i \notin sources,
         NEW c \in FilesSoFar
  PROVE  c.path # SourceFile(records[i], records[i].cwd).path
<1> DEFINE cwd == records[i].cwd
           name == BinaryName(Identity(records[i]))
           path == SourceFile(records[i], records[i].cwd).path
<1>1. cwd \in Seq(STRING) /\ Len(cwd) \in Nat \ {0} /\ name \in STRING
  BY CwdsAreSound
<1>2. Len(path) = Len(cwd) + 3 /\ path[Len(cwd) + 3] = name /\ \A k \in 1 .. Len(cwd) : path[k + 1] = cwd[k]
  BY <1>1, SourcePath
<1> HIDE DEF cwd, name, path
<1>3. ASSUME c = WorkspaceManifest PROVE c.path # path
  <2>1. Len(c.path) = 2
    BY <1>3, FixedPaths
  <2>2. Len(path) # 2
    BY <1>1, <1>2
  <2> QED BY <2>1, <2>2
<1>4. ASSUME NEW p \in DOMAIN roots, c = PackageManifest(p, roots[p]) PROVE c.path # path
  <2>1. /\ roots[p] \in Seq(STRING) /\ Len(roots[p]) \in Nat \ {0}
        /\ IF records[i].package = p THEN roots[p] = cwd ELSE ~Overlaps(cwd, roots[p])
    BY CwdsAreSound DEF cwd
  <2>2. Len(c.path) = Len(roots[p]) + 2 /\ \A k \in 1 .. Len(roots[p]) : c.path[k + 1] = roots[p][k]
    BY <1>4, <2>1, PackagePath
  <2>3. CASE records[i].package = p
    BY <1>1, <1>2, <2>1, <2>2, <2>3
  <2>4. CASE records[i].package # p
    <3>1. PICK k \in 1 .. Len(cwd) : k <= Len(roots[p]) /\ cwd[k] # roots[p][k]
      BY <1>1, <2>1, <2>4, CwdsPart
    <3>2. k \in 1 .. Len(roots[p])
      BY <1>1, <2>1, <3>1
    <3> QED BY <1>2, <2>2, <3>1, <3>2
  <2> QED BY <2>3, <2>4
<1>5. ASSUME NEW j \in sources, c = SourceFile(records[j], records[j].cwd) PROVE c.path # path
  <2> DEFINE other == records[j].cwd
             called == BinaryName(Identity(records[j]))
  <2>1. j \in DOMAIN records /\ j # i
    BY DEF StagingInv, PackagesInv
  <2>2. /\ other \in Seq(STRING) /\ Len(other) \in Nat \ {0} /\ called \in STRING
        /\ IF records[i].package = records[j].package THEN other = cwd ELSE ~Overlaps(cwd, other)
    BY <2>1, CwdsAreSound DEF cwd, StagingInv, RecordsInv
  <2>3. Len(c.path) = Len(other) + 3 /\ c.path[Len(other) + 3] = called /\ \A k \in 1 .. Len(other) : c.path[k + 1] = other[k]
    BY <1>5, <2>2, SourcePath
  <2>4. called # name
    <3>1. records[i] \in Records /\ records[j] \in Records /\ Identity(records[i]) # Identity(records[j])
      BY <2>1 DEF StagingInv, RecordsInv
    <3> QED BY <3>1, RecordsAssumption DEF name
  <2> HIDE DEF other, called
  <2>5. CASE records[i].package = records[j].package
    BY <1>1, <1>2, <2>2, <2>3, <2>4, <2>5
  <2>6. CASE records[i].package # records[j].package
    <3>1. PICK k \in 1 .. Len(cwd) : k <= Len(other) /\ cwd[k] # other[k]
      BY <1>1, <2>2, <2>6, CwdsPart
    <3>2. k \in 1 .. Len(other)
      BY <1>1, <2>2, <3>1
    <3> QED BY <1>2, <2>3, <3>1, <3>2
  <2> QED BY <2>5, <2>6
<1>6. 1 .. copied = {}
  BY DEF StagingInv, ResourcesInv
<1> QED BY <1>3, <1>4, <1>5, <1>6 DEF FilesSoFar, Synthesized, path

\* The first component tells the files of the workspace from the others.
LEMMA FirstComponents ==
  ASSUME StagingInv, NEW c \in FilesSoFar
  PROVE  \/ c.path[1] = "workspace"
         \/ stage \in Synthesized /\ c \in {CargoMetadata, BinariesMetadata} /\ c.path[1] = "meta"
         \/ \E j \in 1 .. copied : c.path = resources[j].path
<1>1. ASSUME NEW p \in DOMAIN roots, c = PackageManifest(p, roots[p]) PROVE c.path[1] = "workspace"
  <2>1. roots[p] \in Seq(STRING)
    BY CwdsAreSound
  <2> QED BY <1>1, <2>1, PackagePath
<1>2. ASSUME NEW i \in sources, c = SourceFile(records[i], records[i].cwd) PROVE c.path[1] = "workspace"
  <2>1. i \in DOMAIN records
    BY DEF StagingInv, PackagesInv
  <2>2. records[i].cwd \in Seq(STRING) /\ BinaryName(Identity(records[i])) \in STRING
    BY <2>1, CwdsAreSound
  <2> QED BY <1>2, <2>2, SourcePath
<1>3. ASSUME NEW j \in 1 .. copied, c = ResourceCopy(resources[j]) PROVE c.path = resources[j].path
  BY <1>3 DEF ResourceCopy, Call
<1> QED BY <1>1, <1>2, <1>3, FixedPaths DEF FilesSoFar

\* Neither the metadata nor the configuration is written over a file so far.
LEMMA MetadataIsApart ==
  ASSUME StagingInv, stage = "packages", NEW c \in FilesSoFar
  PROVE  c.path \notin {CargoMetadata.path, BinariesMetadata.path, Configuration.path}
<1>1. 1 .. copied = {} /\ stage \notin Synthesized
  BY DEF StagingInv, ResourcesInv, Synthesized
<1>2. c.path[1] = "workspace"
  BY <1>1, FirstComponents
<1>3. ASSUME c.path = Configuration.path PROVE FALSE
  <2>1. Len(c.path) = 3 /\ c.path[3] = "nextest.toml"
    BY <1>3, FixedPaths
  <2>2. ASSUME NEW p \in DOMAIN roots, c = PackageManifest(p, roots[p]) PROVE FALSE
    <3>1. roots[p] \in Seq(STRING) /\ Len(roots[p]) \in Nat \ {0}
      BY CwdsAreSound
    <3>2. Len(c.path) = Len(roots[p]) + 2 /\ c.path[Len(roots[p]) + 2] = "Cargo.toml"
      BY <2>2, <3>1, PackagePath
    <3>3. Len(roots[p]) = 1
      BY <2>1, <3>1, <3>2
    <3>4. c.path[3] = "Cargo.toml"
      BY <3>2, <3>3
    <3> QED BY <2>1, <3>4
  <2>3. ASSUME NEW i \in sources, c = SourceFile(records[i], records[i].cwd) PROVE FALSE
    <3>1. i \in DOMAIN records
      BY DEF StagingInv, PackagesInv
    <3>2. records[i].cwd \in Seq(STRING) /\ Len(records[i].cwd) \in Nat \ {0} /\ BinaryName(Identity(records[i])) \in STRING
      BY <3>1, CwdsAreSound
    <3>3. Len(c.path) = Len(records[i].cwd) + 3
      BY <2>3, <3>2, SourcePath
    <3>4. Len(records[i].cwd) + 3 # 3
      BY <3>2
    <3> QED BY <2>1, <3>3, <3>4
  <2>4. c # WorkspaceManifest
    BY <2>1, FixedPaths
  <2> QED BY <1>1, <2>2, <2>3, <2>4 DEF FilesSoFar
<1> QED BY <1>2, <1>3, FixedPaths

\* A resource is copied over none of the files so far.
LEMMA ResourceIsApart ==
  ASSUME StagingInv, copied < Len(resources), NEW c \in FilesSoFar
  PROVE  c.path # ResourceCopy(resources[copied + 1]).path
<1>1. ResourcesInv
  BY DEF StagingInv
<1>2. /\ Len(resources) \in Nat /\ copied \in Nat
      /\ copied + 1 \in DOMAIN resources /\ \A j \in 1 .. copied : j \in DOMAIN resources /\ j # copied + 1
  BY <1>1, LenProperties DEF ResourcesInv
<1>3. ResourceCopy(resources[copied + 1]).path = resources[copied + 1].path
  BY DEF ResourceCopy, Call
<1>4. resources[copied + 1].path[1] \notin {"workspace", "meta"}
  BY <1>1, <1>2 DEF ResourcesInv, AdapterOwned
<1>5. ASSUME NEW j \in 1 .. copied PROVE resources[j].path # resources[copied + 1].path
  BY <1>1, <1>2 DEF ResourcesInv
<1> QED BY <1>3, <1>4, <1>5, FirstComponents

\* No call of the runner writes over a file it has written.
LEMMA FilesStep == StagingInv /\ [StagingNext]_stagingVars => FilesInv'
<1> SUFFICES ASSUME StagingInv, [StagingNext]_stagingVars PROVE FilesInv'
  OBVIOUS
<1>1. /\ IsTree(tree) /\ (stage # "refused" => tree.ok)
      /\ \A c \in FilesSoFar : stage # "refused" => Has(tree, c)
  BY DEF StagingInv, FilesInv
<1>2. CASE /\ tree' = tree
           /\ \/ stage' = "refused"
              \/ FilesSoFar' \subseteq FilesSoFar /\ stage # "refused"
  BY <1>1, <1>2 DEF FilesInv
<1>3. CASE tree' = tree /\ UNCHANGED <<roots, copied, sources, resources>> /\ stage' = "refused"
  BY <1>1, <1>3 DEF FilesInv
\* What a step that writes the files in new owes.
<1>4. ASSUME NEW new, NEW P, Calls(tree, tree', P), stage # "refused",
             tree'.ok => \A c \in new : Has(tree', c),
             stage' # "refused" => tree'.ok /\ FilesSoFar' \subseteq FilesSoFar \cup new,
             \A c \in FilesSoFar : c.path \notin P
      PROVE  FilesInv'
  <2>1. tree'.ok => \A c \in FilesSoFar : Has(tree', c)
    BY <1>1, <1>4, CallsKeep
  <2> QED BY <1>4, <2>1 DEF FilesInv, Calls
<1>5. CASE MakePrivate
  <2> DEFINE made == Directories(tree, <<"home">>, <<"cargo-home">>, <<"tmp">>)
  <2>1. Calls(tree, made, {})
    BY <1>1, DirectoriesKeep
  <2> HIDE DEF made
  <2>2. tree' = made /\ stage = "private" /\ stage' = IF made.ok THEN "workspace" ELSE "refused"
    BY <1>5 DEF MakePrivate, Made, made
  <2>3. FilesSoFar' = FilesSoFar
    BY <1>5, <2>2 DEF MakePrivate, FilesSoFar, Synthesized, PackageManifest, SourceFile, WorkspaceManifest, CargoMetadata, BinariesMetadata,
         Configuration, ResourceCopy
  <2> QED BY <2>1, <2>2, <2>3, <1>4
<1>6. CASE MakeWorkspace
  <2> DEFINE t1 == Directories(tree, <<"workspace">>, <<"target">>, <<"meta">>)
             t2 == Apply(t1, Dir(<<"workspace", ".config">>))
             t3 == Apply(t2, WorkspaceManifest)
  <2>1. Calls(tree, t1, {}) /\ IsTree(t1)
    BY <1>1, DirectoriesKeep DEF Calls
  <2> HIDE DEF t1
  <2>2. Calls(t1, t2, {}) /\ IsTree(t2)
    BY <2>1, DirKeeps DEF Calls
  <2> HIDE DEF t2
  <2> DEFINE path == WorkspaceManifest.path
  <2>3. Calls(t2, t3, {path}) /\ (t3.ok => Has(t3, WorkspaceManifest))
    BY <2>2, WriteKeeps DEF WorkspaceManifest, Call
  <2>4. tree' = t3 /\ stage = "workspace" /\ stage' = IF t3.ok THEN "packages" ELSE "refused"
    BY <1>6 DEF MakeWorkspace, Made, t3, t2, t1
  <2> HIDE DEF t3, path
  <2>5. Calls(tree, t3, ({} \cup {}) \cup {path})
    BY <2>1, <2>2, <2>3, CallsFollow
  <2>6. DOMAIN roots = {} /\ sources = {} /\ (1 .. copied) = {}
    BY <2>4 DEF StagingInv, PackagesInv, ResourcesInv
  <2>7. FilesSoFar = {}
    BY <2>4, <2>6 DEF FilesSoFar, Synthesized
  <2>8. FilesSoFar' \subseteq {WorkspaceManifest} \/ stage' = "refused"
    BY <1>6, <2>4, <2>6 DEF MakeWorkspace, FilesSoFar, Synthesized, WorkspaceManifest
  <2> QED BY <2>3, <2>4, <2>5, <2>7, <2>8, <1>4
<1>7. ASSUME NEW i \in DOMAIN records, OpenPackage(i) PROVE FilesInv'
  <2> DEFINE package == records[i].package
             cwd == records[i].cwd
             c == PackageManifest(package, cwd)
             t1 == Apply(tree, Dir(Append(InWorkspace(cwd), "src")))
             t2 == Apply(t1, c)
             path == c.path
  <2>1. Calls(tree, t1, {}) /\ IsTree(t1)
    BY <1>1, DirKeeps DEF Calls
  <2>2. /\ tree' = t2 /\ stage = "packages" /\ stage' = IF t2.ok THEN "packages" ELSE "refused"
        /\ package \notin DOMAIN roots /\ roots' = Insert(roots, package, cwd)
        /\ UNCHANGED <<records, sources, resources, copied>>
    BY <1>7 DEF OpenPackage, Made
  <2> HIDE DEF t1
  <2>3. Calls(t1, t2, {path}) /\ (t2.ok => Has(t2, c))
    BY <2>1, WriteKeeps DEF PackageManifest, Call
  <2>4. \A d \in FilesSoFar : d.path # path
    BY <2>2, PackageIsApart
  <2> HIDE DEF t2, path
  <2>5. Calls(tree, t2, {} \cup {path})
    BY <2>1, <2>3, CallsFollow
  <2>6. /\ DOMAIN roots' = DOMAIN roots \cup {package} /\ roots'[package] = cwd
        /\ \A p \in DOMAIN roots : roots'[p] = roots[p]
    BY <2>2 DEF Insert, Over
  <2> HIDE DEF package, cwd
  <2>7. FilesSoFar' \subseteq FilesSoFar \cup {c} \/ stage' = "refused"
    BY <2>2, <2>6 DEF FilesSoFar, Synthesized, PackageManifest, SourceFile, WorkspaceManifest, ResourceCopy
  <2> HIDE DEF c
  <2>8. (t2.ok => \A d \in {c} : Has(t2, d)) /\ Calls(tree, t2, {path}) /\ \A d \in FilesSoFar : d.path \notin {path}
    BY <2>3, <2>4, <2>5
  <2> QED BY <2>2, <2>7, <2>8, <1>4
<1>8. ASSUME NEW i \in DOMAIN records, WriteSource(i) PROVE FilesInv'
  <2> DEFINE c == SourceFile(records[i], records[i].cwd)
             t1 == Apply(tree, c)
             path == c.path
  <2>1. roots[records[i].package] = records[i].cwd
    BY <1>8, CwdsAreSound DEF WriteSource
  <2>2. /\ tree' = t1 /\ stage = "packages" /\ stage' = IF t1.ok THEN "packages" ELSE "refused"
        /\ records[i].package \in DOMAIN roots /\ i \notin sources /\ sources' = sources \cup {i}
        /\ UNCHANGED <<records, roots, resources, copied>>
    BY <1>8, <2>1 DEF WriteSource, Made
  <2>3. Calls(tree, t1, {path}) /\ (t1.ok => Has(t1, c))
    BY <1>1, WriteKeeps DEF SourceFile, Call
  <2>4. \A d \in FilesSoFar : d.path # path
    BY <2>2, SourceIsApart
  <2> HIDE DEF t1, path
  <2>5. FilesSoFar' \subseteq FilesSoFar \cup {c} \/ stage' = "refused"
    BY <2>2 DEF FilesSoFar, Synthesized, PackageManifest, SourceFile, WorkspaceManifest, ResourceCopy
  <2> HIDE DEF c
  <2>6. (t1.ok => \A d \in {c} : Has(t1, d)) /\ \A d \in FilesSoFar : d.path \notin {path}
    BY <2>3, <2>4
  <2> QED BY <2>2, <2>3, <2>5, <2>6, <1>4
<1>9. CASE WriteMetadata
  <2> DEFINE t1 == Apply(tree, CargoMetadata)
             t2 == Apply(t1, BinariesMetadata)
             t3 == Apply(t2, Configuration)
             P == {CargoMetadata.path, BinariesMetadata.path, Configuration.path}
             new == {CargoMetadata, BinariesMetadata, Configuration}
  <2>1. Calls(tree, t1, {CargoMetadata.path}) /\ IsTree(t1) /\ (t1.ok => Has(t1, CargoMetadata))
    BY <1>1, WriteKeeps DEF CargoMetadata, Call, Calls
  <2>2. /\ tree' = t3 /\ stage = "packages" /\ stage' = IF t3.ok THEN "bundle" ELSE "refused"
        /\ UNCHANGED <<records, roots, sources, resources, copied>>
    BY <1>9 DEF WriteMetadata, Made
  <2> HIDE DEF t1
  <2>3. Calls(t1, t2, {BinariesMetadata.path}) /\ IsTree(t2) /\ (t2.ok => Has(t2, BinariesMetadata))
    BY <2>1, WriteKeeps DEF BinariesMetadata, Call, Calls
  <2> HIDE DEF t2
  <2>4. Calls(t2, t3, {Configuration.path}) /\ (t3.ok => Has(t3, Configuration))
    BY <2>3, WriteKeeps DEF Configuration, Call
  <2> HIDE DEF t3
  <2>5. Calls(tree, t2, {CargoMetadata.path} \cup {BinariesMetadata.path})
    BY <2>1, <2>3, CallsFollow
  <2>6. Calls(tree, t3, ({CargoMetadata.path} \cup {BinariesMetadata.path}) \cup {Configuration.path})
    BY <2>4, <2>5, CallsFollow
  <2>7. P = ({CargoMetadata.path} \cup {BinariesMetadata.path}) \cup {Configuration.path}
    OBVIOUS
  <2>8. t3.ok => t2.ok /\ t1.ok
    BY <2>3, <2>4 DEF Calls
  <2>9. t3.ok => Has(t2, CargoMetadata)
    BY <2>1, <2>3, <2>8, FixedPaths, CallsKeep
  <2>10. CargoMetadata.path # Configuration.path /\ BinariesMetadata.path # Configuration.path
    BY FixedPaths
  <2>11. t3.ok => \A c \in new : Has(t3, c)
    BY <2>3, <2>4, <2>8, <2>9, <2>10, CallsKeep
  <2>12. \A c \in FilesSoFar : c.path \notin P
    BY <2>2, MetadataIsApart
  <2>13. FilesSoFar' \subseteq FilesSoFar \cup new \/ stage' = "refused"
    BY <2>2 DEF FilesSoFar, Synthesized, PackageManifest, SourceFile, WorkspaceManifest, ResourceCopy, CargoMetadata,
         BinariesMetadata, Configuration
  <2> HIDE DEF P, new
  <2>14. Calls(tree, t3, P)
    BY <2>6, <2>7
  <2> QED BY <2>2, <2>11, <2>12, <2>13, <2>14, <1>4
<1>10. CASE CopyResource
  <2> DEFINE c == ResourceCopy(resources[copied + 1])
             t1 == Apply(tree, c)
             path == c.path
  <2>1. /\ tree' = t1 /\ stage = "copying" /\ copied < Len(resources) /\ stage' = IF t1.ok THEN "copying" ELSE "refused"
        /\ copied' = copied + 1
        /\ UNCHANGED <<records, roots, sources, resources>>
    BY <1>10 DEF CopyResource, Made
  <2>2. Calls(tree, t1, {path}) /\ (t1.ok => Has(t1, c))
    BY <1>1, WriteKeeps DEF ResourceCopy, Call
  <2>3. \A d \in FilesSoFar : d.path # path
    BY <2>1, ResourceIsApart
  <2> HIDE DEF t1, path
  <2>4. copied \in Nat
    BY LenProperties DEF StagingInv, ResourcesInv
  <2>5. 1 .. copied' = (1 .. copied) \cup {copied + 1}
    BY <2>1, <2>4
  <2>6. FilesSoFar' \subseteq FilesSoFar \cup {c} \/ stage' = "refused"
    BY <2>1, <2>5 DEF FilesSoFar, Synthesized, PackageManifest, SourceFile, WorkspaceManifest, ResourceCopy, CargoMetadata,
         BinariesMetadata, Configuration
  <2> HIDE DEF c
  <2> DEFINE new == {c}
             P == {path}
  <2>7. Calls(tree, tree', P) /\ (tree'.ok => \A d \in new : Has(tree', d)) /\ stage # "refused"
    BY <2>1, <2>2
  <2>8. stage' # "refused" => tree'.ok /\ FilesSoFar' \subseteq FilesSoFar \cup new
    BY <2>1, <2>6
  <2>9. \A d \in FilesSoFar : d.path \notin P
    BY <2>3
  <2> HIDE DEF new, P
  <2> QED BY <2>7, <2>8, <2>9, <1>4
<1>11. CASE \E r \in Records : ReadRecord(r)
  <2>1. CASE stage' = "refused"
    BY <1>3, <1>11, <2>1 DEF ReadRecord, treeVars
  <2>2. CASE stage' # "refused"
    <3>1. /\ DOMAIN roots = {} /\ sources = {} /\ stage' = "manifest" /\ stage = "manifest"
          /\ UNCHANGED <<roots, sources, copied, resources, tree>>
      BY <1>11, <2>2 DEF ReadRecord, treeVars, StagingInv, PackagesInv
    <3>2. FilesSoFar' \subseteq FilesSoFar
      BY <3>1 DEF FilesSoFar, Synthesized, ResourceCopy
    <3> QED BY <1>2, <3>1, <3>2
  <2> QED BY <2>1, <2>2
<1>12. CASE ResolveExecutables \/ NoBundle \/ Finish \/ \E b \in Bundles : ParseBundle(b)
  <2>1. /\ UNCHANGED <<roots, sources, copied, records, tree>>
        /\ stage \in {"manifest", "bundle", "copying"}
        /\ stage \in Synthesized \/ stage' \in {"private", "refused"} \/ stage = "manifest"
        /\ \/ stage' = "refused"
           \/ ((stage \in Synthesized) <=> (stage' \in Synthesized)) /\ stage' # "packages" /\ stage # "packages"
    BY <1>12 DEF ResolveExecutables, NoBundle, Finish, ParseBundle, treeVars, Synthesized
  <2>2. (1 .. copied) = {} \/ resources' = resources
    <3>1. stage = "bundle" \/ resources' = resources
      BY <1>12 DEF ResolveExecutables, NoBundle, Finish, ParseBundle, treeVars
    <3>2. stage = "bundle" => copied = 0
      BY DEF StagingInv, ResourcesInv
    <3> QED BY <3>1, <3>2
  <2>3. stage' = "refused" \/ FilesSoFar' \subseteq FilesSoFar
    BY <2>1, <2>2 DEF FilesSoFar, PackageManifest, SourceFile, WorkspaceManifest, CargoMetadata, BinariesMetadata,
         Configuration, ResourceCopy
  <2> QED BY <1>2, <2>1, <2>3
<1>13. CASE GiveUp
  BY <1>3, <1>13 DEF GiveUp, treeVars
<1>14. CASE UNCHANGED stagingVars
  <2>1. tree' = tree /\ stage' = stage
    BY <1>14 DEF stagingVars
  <2>2. FilesSoFar' = FilesSoFar
    BY <1>14 DEF stagingVars, FilesSoFar, PackageManifest, SourceFile, WorkspaceManifest, CargoMetadata, BinariesMetadata,
         Configuration, ResourceCopy
  <2> QED BY <1>1, <2>1, <2>2 DEF FilesInv
<1> QED BY <1>5, <1>6, <1>7, <1>8, <1>9, <1>10, <1>11, <1>12, <1>13, <1>14 DEF StagingNext

\* What staging has established before each of its calls, for any manifest,
\* bundle and declared inputs (execute, ManifestV2::validate, synthesize).
THEOREM StagingInvariance == StagingSpec => []StagingInv
<1>1. StagingInv /\ [StagingNext]_stagingVars => StagingInv'
  BY RecordsStep, PackagesStep, ResourcesStep, FilesStep DEF StagingInv
<1> QED BY StagingStarts, <1>1, PTL DEF StagingSpec
-------------------------------------------------------------------------------
LEMMA StagedFiles == ASSUME StagingInv PROVE FilesAreStaged
<1> SUFFICES ASSUME stage = "staged" PROVE FilesAreStaged
  BY DEF FilesAreStaged
<1>1. \A c \in FilesSoFar : Holds(c)
  BY DEF StagingInv, FilesInv, Holds, Has
<1>2. \A c \in {WorkspaceManifest, CargoMetadata, BinariesMetadata, Configuration} : Holds(c)
  BY <1>1 DEF FilesSoFar, Synthesized
<1>3. sources = DOMAIN records
  BY DEF StagingInv, PackagesInv, Synthesized
<1>4. ASSUME NEW i \in DOMAIN records
      PROVE  /\ Holds(PackageManifest(records[i].package, records[i].cwd))
             /\ Holds(SourceFile(records[i], records[i].cwd))
  <2>1. records[i].package \in DOMAIN roots /\ roots[records[i].package] = records[i].cwd
    BY <1>3, CwdsAreSound DEF StagingInv, PackagesInv
  <2>2. PackageManifest(records[i].package, records[i].cwd) \in FilesSoFar
    BY <2>1 DEF FilesSoFar
  <2>3. SourceFile(records[i], records[i].cwd) \in FilesSoFar
    BY <1>3 DEF FilesSoFar
  <2> QED BY <1>1, <2>2, <2>3
<1>5. ASSUME NEW j \in DOMAIN resources PROVE Holds(ResourceCopy(resources[j]))
  <2>1. j \in 1 .. copied
    BY LenProperties DEF StagingInv, ResourcesInv
  <2>2. ResourceCopy(resources[j]) \in FilesSoFar
    BY <2>1 DEF FilesSoFar
  <2> QED BY <1>1, <2>2
<1> QED BY <1>2, <1>4, <1>5 DEF FilesAreStaged

\* One expected suite for every identity.
LEMMA ExpectedKeys ==
  ASSUME StagingInv
  PROVE  \A e, f \in Expectation(records, Inputs) : e.key = f.key => e = f
<1> SUFFICES ASSUME NEW e \in Expectation(records, Inputs), NEW f \in Expectation(records, Inputs), e.key = f.key PROVE e = f
  OBVIOUS
<1> DEFINE Suite(r) == [key |-> Identity(r), id |-> Identity(r), name |-> BinaryName(Identity(r)), package |-> r.package,
                        path |-> SourceFor(r.executable, Inputs)]
<1>1. Expectation(records, Inputs) = {Suite(r) : r \in Range(records)}
  BY DEF Expectation
<1>2. \A r : Suite(r).key = Identity(r)
  OBVIOUS
<1> HIDE DEF Suite
<1>3. PICK i \in DOMAIN records : e = Suite(records[i])
  BY <1>1 DEF Range
<1>4. PICK j \in DOMAIN records : f = Suite(records[j])
  BY <1>1 DEF Range
<1>5. Identity(records[i]) = Identity(records[j])
  BY <1>2, <1>3, <1>4
<1>6. i = j
  BY <1>5 DEF StagingInv, RecordsInv
<1> QED BY <1>3, <1>4, <1>6

\* An expected suite is a record whose id is its key.
LEMMA ExpectedShape ==
  ASSUME NEW e \in Expectation(records, Inputs), NEW path
  PROVE  /\ e.id = e.key /\ [e EXCEPT !.path = e.path] = e
         /\ LET s == [e EXCEPT !.path = path]
            IN s.key = e.key /\ s.id = e.id /\ s.name = e.name /\ s.package = e.package /\ s.path = path
<1>1. PICK key, name, package, own : e = [key |-> key, id |-> key, name |-> name, package |-> package, path |-> own]
  BY DEF Expectation
<1> QED BY <1>1

\* nextest's answer is refused when a path or a suite is another one.
LEMMA ListsOwn == ASSUME StagingInv PROVE ListIsManifests
<1> DEFINE expected == Expectation(records, Inputs)
<1>1. \A e, f \in expected : e.key = f.key => e = f
  BY ExpectedKeys
<1>2. \A e \in expected : e.id = e.key /\ [e EXCEPT !.path = e.path] = e
  BY ExpectedShape
<1>3. \A suites : ListAccepted(<<suites>>, expected) <=>
         /\ {s.key : s \in suites} = {e.key : e \in expected}
         /\ \A s \in suites : s.id = s.key /\ \E e \in expected : /\ e.key = s.key /\ s.name = e.name 
                                                                  /\ s.package = e.package /\ s.path = e.path
  BY DEF ListAccepted
<1>4. ASSUME NEW e \in expected, NEW f \in expected
      PROVE  LET suites == (expected \ {e}) \cup {[e EXCEPT !.path = f.path]}
             IN /\ ListAccepted(<<suites>>, expected) <=> e.path = f.path
                /\ f \in suites => ~ListAccepted(<<suites \ {f}>>, expected)
  <2> DEFINE s == [e EXCEPT !.path = f.path]
             suites == (expected \ {e}) \cup {s}
  <2>1. s.key = e.key /\ s.id = e.id /\ s.name = e.name /\ s.package = e.package /\ s.path = f.path
    BY ExpectedShape
  <2>2. e.path = f.path => s = e
    BY <1>2
  <2> HIDE DEF s, expected
  <2>3. e.path = f.path => ListAccepted(<<suites>>, expected)
    <3>1. SUFFICES ASSUME e.path = f.path PROVE ListAccepted(<<suites>>, expected)
      OBVIOUS
    <3>2. suites = expected
      BY <2>2, <3>1
    <3>3. ListAccepted(<<expected>>, expected)
      BY <1>2, <1>3
    <3> QED BY <3>2, <3>3
  <2>4. ListAccepted(<<suites>>, expected) => e.path = f.path
    <3>1. SUFFICES ASSUME ListAccepted(<<suites>>, expected) PROVE e.path = f.path
      OBVIOUS
    <3>2. PICK g \in expected : g.key = s.key /\ s.path = g.path
      BY <1>3, <3>1
    <3> QED BY <1>1, <2>1, <3>2
  <2>5. f \in suites => ~ListAccepted(<<suites \ {f}>>, expected)
    <3>1. SUFFICES ASSUME f \in suites, ListAccepted(<<suites \ {f}>>, expected) PROVE FALSE
      OBVIOUS
    <3>2. {t.key : t \in suites \ {f}} = {g.key : g \in expected}
      BY <1>3, <3>1
    <3>3. PICK t \in suites \ {f} : t.key = f.key
      BY <3>2
    <3>4. CASE t \in expected
      BY <1>1, <3>3, <3>4
    <3>5. CASE t = s
      BY <1>1, <2>1, <2>2, <3>1, <3>3, <3>5
    <3> QED BY <3>3, <3>4, <3>5
  <2> QED BY <2>3, <2>4, <2>5 DEF s
<1> QED BY <1>4 DEF ListIsManifests

\* Whatever the runner accepts and stages, no file replaces or hides another,
\* and the tests nextest may list are those of the manifest
\* (ManifestV2::validate, parse_bundle, synthesize, copy_regular,
\* validate_list).
THEOREM RunnerStagesAsDeclared == StagingSpec => []StagedAsDeclared
<1>1. StagingInv => StagedAsDeclared
  BY StagedFiles, ListsOwn DEF StagedAsDeclared
<1> QED BY StagingInvariance, <1>1, PTL
-------------------------------------------------------------------------------
\* What run_buck_artifact has established before it stages: a manifest it
\* accepts, and resources whose destinations lie clear of the manifest's.
StagingSteps == {"resources", "runtime_inputs", "synthesized", "ready"}
LateSteps == {"synthesized", "ready"}
ManifestInv ==
  /\ step # "manifest" => manifest \in Manifests
  /\ step \notin {"manifest", "refused"} => BinaryAccepts(manifest)
PairsInv ==
  /\ pairs \in Seq(Range(pairs))
  /\ \A i \in DOMAIN pairs, d \in ManifestDestinations(manifest) : ~PathsOverlap(Components(pairs[i].path), Components(d))
  /\ step = "manifest" => pairs = <<>>
PlacedInv ==
  /\ placed \in Nat
  /\ step = "resources" => placed <= Len(pairs)
  /\ step = "runtime_inputs" => placed <= Len(manifest.runtime_inputs)
  /\ step \in {"manifest", "bundle"} => placed = 0

\* The copies made so far that no later copy goes over: a runtime input may
\* go over the executable, and a resource over one with another spelling.
CopiedResources == IF step = "resources" THEN placed ELSE Len(pairs)
CopiedInputs == IF step = "resources" THEN 0 ELSE IF step = "runtime_inputs" THEN placed ELSE Len(manifest.runtime_inputs)
SparedByInputs(n) == \A j \in 1 .. n : RuntimeCopy(j).path # ExecutableCopy.path
SparedByResources(i, k) == \A j \in 1 .. k : j > i => DeclaredCopy(j).path # DeclaredCopy(i).path
CopiesSoFar ==
  {c \in {ExecutableCopy} : SparedByInputs(CopiedInputs)}
  \cup {DeclaredCopy(i) : i \in {i \in 1 .. CopiedResources : SparedByResources(i, CopiedResources)}}
  \cup {RuntimeCopy(j) : j \in 1 .. CopiedInputs}

\* They are in place, but for those the adapter's own files go over.
OwnSoFar == IF step \in LateSteps THEN OwnFiles ELSE {}
CopiesInv ==
  /\ IsTree(root) /\ (step # "refused" => root.ok)
  /\ step \in StagingSteps => \A c \in CopiesSoFar : c.path \in OwnSoFar \/ Has(root, c)

\* The copy that nextest starts.
StartedInv ==
  step \in LateSteps => Dispatched \in DOMAIN root.files /\ (root.files[Dispatched] = <<"artifact">> <=> ~Displaced)

\* The inductive invariant of ArtifactSpec.
ArtifactInv == ManifestInv /\ PairsInv /\ PlacedInv /\ CopiesInv /\ StartedInv
-------------------------------------------------------------------------------
\* A list with one more element.
LEMMA ListGrows ==
  ASSUME NEW s, s \in Seq(Range(s)), NEW x
  PROVE  LET t == Append(s, x)
         IN /\ t \in Seq(Range(t)) /\ Len(s) \in Nat
            /\ DOMAIN s = 1 .. Len(s) /\ DOMAIN t = 1 .. (Len(s) + 1) /\ Len(t) = Len(s) + 1
            /\ t[Len(s) + 1] = x /\ \A i \in DOMAIN s : t[i] = s[i]
<1> DEFINE S == Range(s) \cup {x}
           t == Append(s, x)
<1>1. s \in Seq(S) /\ x \in S
  BY SeqMonotonic
<1>2. /\ Len(s) \in Nat /\ DOMAIN s = 1 .. Len(s)
      /\ t \in Seq(S) /\ Len(t) = Len(s) + 1 /\ t[Len(s) + 1] = x /\ \A i \in 1 .. Len(s) : t[i] = s[i]
  BY <1>1, AppendProperties, LenProperties
<1> HIDE DEF t
<1>3. DOMAIN t = 1 .. (Len(s) + 1)
  BY <1>2, LenProperties
<1>4. S \subseteq Range(t)
  BY <1>2, <1>3 DEF Range
<1>5. t \in Seq(Range(t))
  BY <1>2, <1>4, SeqMonotonic
<1> QED BY <1>2, <1>3, <1>5 DEF t

LEMMA ArtifactStarts == ArtifactInit => ArtifactInv
<1> SUFFICES ASSUME ArtifactInit PROVE ArtifactInv
  OBVIOUS
<1>1. ManifestInv /\ PlacedInv
  BY DEF ArtifactInit, ManifestInv, PlacedInv
<1>2. PairsInv
  BY DEF ArtifactInit, PairsInv
<1>3. IsTree(root) /\ root.ok
  BY DEF ArtifactInit, IsTree, EmptyRoot
<1>4. CopiesInv
  BY <1>3 DEF ArtifactInit, CopiesInv, StagingSteps
<1>5. StartedInv
  BY DEF ArtifactInit, StartedInv, LateSteps
<1> QED BY <1>1, <1>2, <1>4, <1>5 DEF ArtifactInv

LEMMA ManifestStep == ArtifactInv /\ [ArtifactNext]_artifactVars => ManifestInv'
<1> SUFFICES ASSUME ArtifactInv, [ArtifactNext]_artifactVars PROVE ManifestInv'
  OBVIOUS
<1>1. ManifestInv
  BY DEF ArtifactInv
<1>2. CASE manifest' = manifest /\ (step = "manifest" => step' = "manifest") 
           /\ (step' \notin {"manifest", "refused"} => step \notin {"manifest", "refused"})
  BY <1>1, <1>2 DEF ManifestInv
<1>3. ASSUME NEW m \in Manifests, NEW d \in DeclaredLists, ValidateManifest(m, d) PROVE ManifestInv'
  BY <1>3 DEF ValidateManifest, ManifestInv
<1>4. CASE (\E r \in ArtifactResources : BundleResource(r)) \/ (\E v \in ArtifactVariables : BundleVariable(v))
  BY <1>2, <1>4 DEF BundleResource, BundleVariable
<1>5. CASE StageExecutable \/ StageResource \/ ResourcesStaged \/ StageRuntimeInput
  BY <1>2, <1>5 DEF StageExecutable, StageResource, ResourcesStaged, StageRuntimeInput, Reached, inputVars
<1>6. CASE Synthesize \/ MakeHomes \/ ArtifactGivesUp
  BY <1>2, <1>6 DEF Synthesize, MakeHomes, ArtifactGivesUp, Reached, inputVars
<1> QED BY <1>2, <1>3, <1>4, <1>5, <1>6 DEF ArtifactNext, artifactVars

LEMMA PairsStep == ArtifactInv /\ [ArtifactNext]_artifactVars => PairsInv'
<1> SUFFICES ASSUME ArtifactInv, [ArtifactNext]_artifactVars PROVE PairsInv'
  OBVIOUS
<1>1. PairsInv
  BY DEF ArtifactInv
<1>2. CASE UNCHANGED <<manifest, pairs>> /\ (step' = "manifest" => step = "manifest")
  BY <1>1, <1>2 DEF PairsInv
<1>3. ASSUME NEW m \in Manifests, NEW d \in DeclaredLists, ValidateManifest(m, d) PROVE PairsInv'
  <2>1. pairs' = <<>>
    BY <1>1, <1>3 DEF ValidateManifest, PairsInv
  <2> QED BY <2>1 DEF PairsInv
<1>4. ASSUME NEW r \in ArtifactResources, BundleResource(r), pairs' # pairs PROVE PairsInv'
  <2>1. PICK index : /\ ResourceFits(r, index)
                     /\ pairs' = Append(pairs, [source |-> r.source, path |-> r.path, index |-> index])
    BY <1>4 DEF BundleResource
  <2> DEFINE pair == [source |-> r.source, path |-> r.path, index |-> index]
  <2>2. pair.path = r.path
    OBVIOUS
  <2>3. manifest' = manifest /\ step' = "bundle"
    BY <1>4 DEF BundleResource
  <2>4. \A d \in ManifestDestinations(manifest) : ~PathsOverlap(Components(r.path), Components(d))
    BY <2>1 DEF ResourceFits
  <2>5. /\ pairs' \in Seq(Range(pairs')) /\ Len(pairs) \in Nat
        /\ DOMAIN pairs = 1 .. Len(pairs) /\ DOMAIN pairs' = 1 .. (Len(pairs) + 1)
        /\ pairs'[Len(pairs) + 1] = pair /\ \A i \in DOMAIN pairs : pairs'[i] = pairs[i]
    BY <1>1, <2>1, ListGrows DEF PairsInv
  <2> HIDE DEF pair
  <2>6. \A i \in DOMAIN pairs', d \in ManifestDestinations(manifest) : ~PathsOverlap(Components(pairs'[i].path), Components(d))
    BY <1>1, <2>2, <2>4, <2>5 DEF PairsInv
  <2> QED BY <2>3, <2>5, <2>6 DEF PairsInv
<1>5. ASSUME NEW r \in ArtifactResources, BundleResource(r), pairs' = pairs PROVE PairsInv'
  BY <1>2, <1>5 DEF BundleResource
<1>6. CASE (\E v \in ArtifactVariables : BundleVariable(v)) \/ ArtifactGivesUp
  BY <1>2, <1>6 DEF BundleVariable, ArtifactGivesUp, inputVars
<1>7. CASE StageExecutable \/ StageResource \/ ResourcesStaged \/ StageRuntimeInput \/ Synthesize \/ MakeHomes
  BY <1>2, <1>7 DEF StageExecutable, StageResource, ResourcesStaged, StageRuntimeInput, Synthesize, MakeHomes, Reached, inputVars
<1> QED BY <1>2, <1>3, <1>4, <1>5, <1>6, <1>7 DEF ArtifactNext, artifactVars

LEMMA PlacedStep == ArtifactInv /\ [ArtifactNext]_artifactVars => PlacedInv'
<1> SUFFICES ASSUME ArtifactInv, [ArtifactNext]_artifactVars PROVE PlacedInv'
  OBVIOUS
<1>1. PlacedInv
  BY DEF ArtifactInv
<1> DEFINE n == Len(manifest.runtime_inputs)
           k == Len(pairs)
           n1 == Len(manifest'.runtime_inputs)
           k1 == Len(pairs')
<1>11. step \notin {"manifest", "refused"} => n \in Nat /\ k \in Nat
  BY ManifestsAssumption, LenProperties DEF ArtifactInv, ManifestInv, PairsInv
<1>12. /\ placed \in Nat /\ (step = "resources" => placed <= k) /\ (step = "runtime_inputs" => placed <= n)
       /\ (step \in {"manifest", "bundle"} => placed = 0)
  BY <1>1 DEF PlacedInv
<1>13. (manifest' = manifest => n1 = n) /\ (pairs' = pairs => k1 = k)
  OBVIOUS
<1>14. ASSUME /\ placed' \in Nat /\ (step' = "resources" => placed' <= k1) /\ (step' = "runtime_inputs" => placed' <= n1)
              /\ (step' \in {"manifest", "bundle"} => placed' = 0)
       PROVE  PlacedInv'
  BY <1>14 DEF PlacedInv
<1> HIDE DEF n, k, n1, k1
<1>2. CASE placed' = placed /\ (step' = "refused" \/ (step' = "resources" /\ step = "bundle") \/ (step' = "bundle" /\ step \in {"manifest", "bundle"})
                                 \/ (step' = step /\ UNCHANGED <<manifest, pairs>>) \/ step' \in {"synthesized", "ready"})
  <2>1. k1 \in Nat
    BY PairsStep, LenProperties DEF PairsInv, k1
  <2> QED BY <1>2, <1>12, <1>13, <1>14, <2>1
<1>3. CASE StageResource
  <2>1. step = "resources" /\ step' \in {"resources", "refused"} /\ placed < k /\ placed' = placed + 1 /\ pairs' = pairs
    BY <1>3 DEF StageResource, Reached, inputVars, k
  <2> QED BY <1>11, <1>12, <1>13, <1>14, <2>1
<1>4. CASE StageRuntimeInput
  <2>1. step = "runtime_inputs" /\ step' \in {"runtime_inputs", "refused"} /\ placed < n /\ placed' = placed + 1 /\ manifest' = manifest
    BY <1>4 DEF StageRuntimeInput, Reached, inputVars, n
  <2> QED BY <1>11, <1>12, <1>13, <1>14, <2>1
<1>5. CASE ResourcesStaged
  <2>1. step = "resources" /\ step' = "runtime_inputs" /\ placed' = 0 /\ manifest' = manifest
    BY <1>5 DEF ResourcesStaged, inputVars
  <2> QED BY <1>11, <1>13, <1>14, <2>1
<1>6. CASE \E m \in Manifests, d \in DeclaredLists : ValidateManifest(m, d)
  BY <1>2, <1>6 DEF ValidateManifest
<1>7. CASE (\E r \in ArtifactResources : BundleResource(r)) \/ (\E v \in ArtifactVariables : BundleVariable(v))
  BY <1>2, <1>7 DEF BundleResource, BundleVariable
<1>8. CASE StageExecutable \/ Synthesize \/ MakeHomes \/ ArtifactGivesUp
  BY <1>2, <1>8 DEF StageExecutable, Synthesize, MakeHomes, ArtifactGivesUp, Reached, inputVars
<1> QED BY <1>2, <1>3, <1>4, <1>5, <1>6, <1>7, <1>8 DEF ArtifactNext, artifactVars

\* The two lists of destinations lie apart.
LEMMA DestinationsApart ==
  ASSUME PairsInv, NEW i \in DOMAIN pairs
  PROVE  /\ DeclaredCopy(i).path # ExecutableCopy.path
         /\ \A j \in DOMAIN manifest.runtime_inputs : DeclaredCopy(i).path # RuntimeCopy(j).path
<1>1. DeclaredCopy(i).path = Components(pairs[i].path) /\ ExecutableCopy.path = Components(manifest.executable)
  BY DEF DeclaredCopy, ExecutableCopy, Call
<1>2. \A d \in ManifestDestinations(manifest) : Components(pairs[i].path) # Components(d)
  BY DEF PairsInv, PathsOverlap
<1>3. manifest.executable \in ManifestDestinations(manifest)
  BY DEF ManifestDestinations
<1>4. ASSUME NEW j \in DOMAIN manifest.runtime_inputs PROVE DeclaredCopy(i).path # RuntimeCopy(j).path
  <2>1. manifest.runtime_inputs[j] \in ManifestDestinations(manifest)
    BY DEF ManifestDestinations, Range
  <2>2. RuntimeCopy(j).path = Components(manifest.runtime_inputs[j])
    BY DEF RuntimeCopy, Call
  <2> QED BY <1>1, <1>2, <2>1, <2>2
<1> QED BY <1>1, <1>2, <1>3, <1>4

\* The copies so far are of listed files.
LEMMA CopiesListed ==
  ASSUME ArtifactInv, step \in StagingSteps
  PROVE  /\ 1 .. CopiedResources \subseteq DOMAIN pairs /\ 1 .. CopiedInputs \subseteq DOMAIN manifest.runtime_inputs
         /\ Len(pairs) \in Nat /\ DOMAIN pairs = 1 .. Len(pairs)
         /\ Len(manifest.runtime_inputs) \in Nat /\ DOMAIN manifest.runtime_inputs = 1 .. Len(manifest.runtime_inputs)
<1> DEFINE n == Len(manifest.runtime_inputs)
           k == Len(pairs)
<1>1. n \in Nat /\ DOMAIN manifest.runtime_inputs = 1 .. n
  BY ManifestsAssumption, LenProperties DEF ArtifactInv, ManifestInv, StagingSteps
<1>2. k \in Nat /\ DOMAIN pairs = 1 .. k
  BY LenProperties DEF ArtifactInv, PairsInv
<1>3. placed \in Nat /\ (step = "resources" => placed <= k) /\ (step = "runtime_inputs" => placed <= n)
  BY DEF ArtifactInv, PlacedInv
<1>4. CopiedResources = (IF step = "resources" THEN placed ELSE k)
  BY DEF CopiedResources
<1>5. CopiedInputs = (IF step = "resources" THEN 0 ELSE IF step = "runtime_inputs" THEN placed ELSE n)
  BY DEF CopiedInputs
<1> HIDE DEF n, k
<1>6. 1 .. CopiedResources \subseteq 1 .. k /\ 1 .. CopiedInputs \subseteq 1 .. n
  BY <1>1, <1>2, <1>3, <1>4, <1>5
<1> QED BY <1>1, <1>2, <1>6 DEF n, k

\* A step that writes the files at W: a copy is made by it, or made before
\* and kept, or one of the adapter's files goes over it.
LEMMA CopiesMove ==
  ASSUME ArtifactInv, NEW W, Calls(root, root', W), step' # "refused" => root'.ok,
         step' \in StagingSteps =>
           \A c \in CopiesSoFar' : \/ c.path \in OwnSoFar' \/ Has(root', c)
                                   \/ step \in StagingSteps /\ c \in CopiesSoFar /\ c.path \notin W \cup OwnSoFar
  PROVE  CopiesInv'
<1>1. IsTree(root')
  BY DEF Calls
<1>2. ASSUME step' \in StagingSteps, NEW c \in CopiesSoFar' PROVE c.path \in OwnSoFar' \/ Has(root', c)
  <2>1. root'.ok
    BY <1>2 DEF StagingSteps
  <2>2. CASE step \in StagingSteps /\ c \in CopiesSoFar /\ c.path \notin W \cup OwnSoFar
    <3>1. Has(root, c)
      BY <2>2 DEF ArtifactInv, CopiesInv
    <3> QED BY <2>1, <2>2, <3>1, CallsKeep
  <2> QED BY <2>2, <1>2
<1>3. CopiesInv' = /\ IsTree(root') /\ (step' # "refused" => root'.ok)
                   /\ step' \in StagingSteps => \A c \in CopiesSoFar' : c.path \in OwnSoFar' \/ Has(root', c)
  BY DEF CopiesInv, StagingSteps
<1> QED BY <1>1, <1>2, <1>3

\* What the copies are after a step that keeps the lists.
LEMMA CopiesNext ==
  ASSUME UNCHANGED inputVars
  PROVE  /\ Displaced' = Displaced
         /\ CopiedResources' = (IF step' = "resources" THEN placed' ELSE Len(pairs))
         /\ CopiedInputs' = (IF step' = "resources" THEN 0 ELSE IF step' = "runtime_inputs" THEN placed' ELSE Len(manifest.runtime_inputs))
         /\ \A c \in CopiesSoFar' : \/ c = ExecutableCopy /\ SparedByInputs(CopiedInputs')
                                    \/ \E i \in 1 .. CopiedResources' : c = DeclaredCopy(i) /\ SparedByResources(i, CopiedResources')
                                    \/ \E j \in 1 .. CopiedInputs' : c = RuntimeCopy(j)
<1>1. manifest' = manifest /\ pairs' = pairs /\ declared' = declared
  BY DEF inputVars
<1>2. CopiedResources' = (IF step' = "resources" THEN placed' ELSE Len(pairs))
  BY <1>1 DEF CopiedResources
<1>3. CopiedInputs' = (IF step' = "resources" THEN 0 ELSE IF step' = "runtime_inputs" THEN placed' ELSE Len(manifest.runtime_inputs))
  BY <1>1 DEF CopiedInputs
<1>4. ExecutableCopy' = ExecutableCopy
  BY <1>1 DEF ExecutableCopy, Call
<1>5. \A i : DeclaredCopy(i)' = DeclaredCopy(i) /\ RuntimeCopy(i)' = RuntimeCopy(i)
  BY <1>1 DEF DeclaredCopy, RuntimeCopy, Call
<1>6. Displaced' = Displaced
  BY <1>1, <1>4, <1>5 DEF Displaced
<1>7. CopiesSoFar' = {c \in {ExecutableCopy} : SparedByInputs(CopiedInputs')}
        \cup {DeclaredCopy(i) : i \in {i \in 1 .. CopiedResources' : SparedByResources(i, CopiedResources')}}
        \cup {RuntimeCopy(i) : i \in 1 .. CopiedInputs'}
  BY <1>4, <1>5 DEF CopiesSoFar, SparedByInputs, SparedByResources
<1> QED BY <1>2, <1>3, <1>6, <1>7

\* A copy to a path as it is spelled.
LEMMA CopyKeeps ==
  ASSUME NEW t, IsTree(t), NEW spelled, NEW p, NEW by
  PROVE  LET c == Call("copy", p, by)
             u == CopyTo(t, spelled, c)
         IN Calls(t, u, {c.path}) /\ IsTree(u) /\ (u.ok => Has(u, c))
<1> DEFINE c == Call("copy", p, by)
           u == CopyTo(t, spelled, c)
<1>1. c.path = p
  BY DEF Call
<1>2. Calls(t, Apply(t, c), {p}) /\ (Apply(t, c).ok => Has(Apply(t, c), c))
  BY WriteKeeps
<1>3. u = Failed(t) \/ u = Apply(t, c)
  BY DEF CopyTo
<1> HIDE DEF c, u
<1>4. u = Failed(t) => Calls(t, u, {p}) /\ ~u.ok
  BY TreeFailed DEF Calls
<1>5. Calls(t, u, {p}) /\ (u.ok => Has(u, c))
  BY <1>2, <1>3, <1>4
<1>6. Calls(t, u, {c.path}) /\ IsTree(u) /\ (u.ok => Has(u, c))
  BY <1>1, <1>5 DEF Calls
<1> QED BY <1>6 DEF c, u

\* The executable: the first copy.
LEMMA ExecutableStep == ASSUME ArtifactInv, StageExecutable PROVE CopiesInv'
<1> DEFINE t1 == CopyTo(root, manifest.executable, ExecutableCopy)
           t2 == WorkingDirectory(t1)
           path == ExecutableCopy.path
<1>1. IsTree(root)
  BY DEF ArtifactInv, CopiesInv
<1>2. Calls(root, t1, {path}) /\ IsTree(t1) /\ (t1.ok => Has(t1, ExecutableCopy))
  BY <1>1, CopyKeeps DEF ExecutableCopy
<1>3. /\ step = "bundle" /\ root' = t2 /\ step' = (IF t2.ok THEN "resources" ELSE "refused")
      /\ UNCHANGED inputVars /\ placed' = placed
  BY DEF StageExecutable, Reached
<1>4. placed = 0
  BY <1>3 DEF ArtifactInv, PlacedInv
<1> HIDE DEF t1
<1>5. Calls(t1, t2, {})
  <2> DEFINE u == Apply(t1, Dir(Components(manifest.working_directory)))
  <2>1. t2 = Failed(t1) \/ t2 = u
    BY DEF WorkingDirectory
  <2>2. Calls(t1, u, {})
    BY <1>2, DirKeeps
  <2>3. Calls(t1, Failed(t1), {})
    BY <1>2, TreeFailed DEF Calls
  <2> HIDE DEF t2, u
  <2> QED BY <2>1, <2>2, <2>3
<1> HIDE DEF t2, path
<1>6. Calls(root, t2, {path} \cup {})
  BY <1>2, <1>5, CallsFollow
<1>7. t2.ok => Has(t2, ExecutableCopy)
  BY <1>2, <1>5, CallsKeep DEF Calls
<1>8. ASSUME step' # "refused", NEW c \in CopiesSoFar' PROVE c = ExecutableCopy
  <2>1. step' = "resources" /\ 1 .. CopiedResources' = {} /\ 1 .. CopiedInputs' = {}
    BY <1>3, <1>4, <1>8, CopiesNext
  <2> QED BY <1>3, <2>1, CopiesNext, <1>8
<1>9. step' \in StagingSteps => \A c \in CopiesSoFar' : Has(root', c)
  BY <1>3, <1>7, <1>8 DEF StagingSteps
<1>10. Calls(root, root', {path} \cup {}) /\ (step' # "refused" => root'.ok)
  BY <1>3, <1>6
<1> QED BY <1>9, <1>10, CopiesMove

\* A declared resource: it goes over none but earlier resources.
LEMMA ResourceStep == ASSUME ArtifactInv, StageResource PROVE CopiesInv'
<1> DEFINE c == DeclaredCopy(placed + 1)
           t1 == CopyTo(root, pairs[placed + 1].path, c)
           path == c.path
<1>1. IsTree(root)
  BY DEF ArtifactInv, CopiesInv
<1>2. Calls(root, t1, {path}) /\ (t1.ok => Has(t1, c))
  BY <1>1, CopyKeeps DEF DeclaredCopy
<1>3. /\ step = "resources" /\ placed < Len(pairs) /\ root' = t1 /\ step' = (IF t1.ok THEN "resources" ELSE "refused")
      /\ UNCHANGED inputVars /\ placed' = placed + 1
  BY DEF StageResource, Reached
<1>4. placed \in Nat /\ step \in StagingSteps /\ OwnSoFar = {}
  BY <1>3 DEF ArtifactInv, PlacedInv, StagingSteps, OwnSoFar, LateSteps
<1>5. placed + 1 \in DOMAIN pairs /\ 1 .. (placed + 1) = (1 .. placed) \cup {placed + 1} /\ \A i \in 1 .. placed : placed + 1 > i
  <2>1. Len(pairs) \in Nat /\ DOMAIN pairs = 1 .. Len(pairs)
    BY <1>4, CopiesListed
  <2> QED BY <1>3, <1>4, <2>1
<1>6. CopiedResources = placed /\ CopiedInputs = 0 /\ 1 .. CopiedInputs = {}
  BY <1>3 DEF CopiedResources, CopiedInputs
<1> HIDE DEF t1, path
<1>7. ExecutableCopy.path # path
  BY <1>5, DestinationsApart DEF path, ArtifactInv
<1>8. ASSUME step' # "refused", NEW d \in CopiesSoFar'
      PROVE  Has(root', d) \/ (d \in CopiesSoFar /\ d.path \notin {path})
  <2>1. step' = "resources" /\ CopiedResources' = placed + 1 /\ 1 .. CopiedInputs' = {}
    BY <1>3, <1>8, CopiesNext
  <2>2. Has(root', c)
    BY <1>2, <1>3, <1>8
  <2>3. CASE d = ExecutableCopy
    <3>1. SparedByInputs(CopiedInputs)
      BY <1>6 DEF SparedByInputs
    <3> QED BY <1>7, <2>3, <3>1 DEF CopiesSoFar
  <2>4. ASSUME NEW i \in 1 .. placed, d = DeclaredCopy(i), SparedByResources(i, placed + 1)
        PROVE  d \in CopiesSoFar /\ d.path \notin {path}
    <3>1. SparedByResources(i, placed) /\ d.path # path
      BY <1>5, <2>4 DEF SparedByResources, path
    <3> QED BY <1>6, <2>4, <3>1 DEF CopiesSoFar
  <2>5. d = ExecutableCopy \/ d = c \/ \E i \in 1 .. placed : d = DeclaredCopy(i) /\ SparedByResources(i, placed + 1)
    BY <1>3, <1>5, <1>8, <2>1, CopiesNext DEF c
  <2> QED BY <2>2, <2>3, <2>4, <2>5
<1>9. Calls(root, root', {path}) /\ (step' # "refused" => root'.ok)
  BY <1>2, <1>3
<1>10. step' \in StagingSteps => step' # "refused"
  BY DEF StagingSteps
<1> QED BY <1>4, <1>8, <1>9, <1>10, CopiesMove

LEMMA ResourcesStagedStep == ASSUME ArtifactInv, ResourcesStaged PROVE CopiesInv'
<1>1. /\ step = "resources" /\ placed = Len(pairs) /\ step' = "runtime_inputs" /\ placed' = 0
      /\ UNCHANGED inputVars /\ root' = root
  BY DEF ResourcesStaged
<1>2. IsTree(root) /\ root.ok
  BY <1>1 DEF ArtifactInv, CopiesInv
<1>3. step \in StagingSteps /\ OwnSoFar = {}
  BY <1>1 DEF StagingSteps, OwnSoFar, LateSteps
<1>4. CopiedResources = placed /\ 1 .. CopiedInputs = {}
  BY <1>1 DEF CopiedResources, CopiedInputs
<1>5. ASSUME NEW c \in CopiesSoFar' PROVE c \in CopiesSoFar
  <2>1. CopiedResources' = placed /\ 1 .. CopiedInputs' = {}
    BY <1>1, CopiesNext
  <2>2. c = ExecutableCopy \/ \E i \in 1 .. placed : c = DeclaredCopy(i) /\ SparedByResources(i, placed)
    BY <1>1, <1>5, <2>1, CopiesNext
  <2>3. SparedByInputs(CopiedInputs)
    BY <1>4 DEF SparedByInputs
  <2> QED BY <1>4, <2>2, <2>3 DEF CopiesSoFar
<1>6. Calls(root, root', {})
  BY <1>1, <1>2 DEF Calls, Leaves
<1> QED BY <1>1, <1>2, <1>3, <1>5, <1>6, CopiesMove

\* A runtime input: it goes over none but the executable and earlier inputs,
\* and those hold the same.
LEMMA RuntimeInputStep == ASSUME ArtifactInv, StageRuntimeInput PROVE CopiesInv'
<1> DEFINE c == RuntimeCopy(placed + 1)
           t1 == CopyTo(root, manifest.runtime_inputs[placed + 1], c)
           path == c.path
           n == Len(manifest.runtime_inputs)
<1>1. IsTree(root)
  BY DEF ArtifactInv, CopiesInv
<1>2. Calls(root, t1, {path}) /\ (t1.ok => Has(t1, c))
  BY <1>1, CopyKeeps DEF RuntimeCopy
<1>3. /\ step = "runtime_inputs" /\ placed < n /\ root' = t1 /\ step' = (IF t1.ok THEN "runtime_inputs" ELSE "refused")
      /\ UNCHANGED inputVars /\ placed' = placed + 1
  BY DEF StageRuntimeInput, Reached
<1>4. placed \in Nat /\ step \in StagingSteps /\ OwnSoFar = {}
  BY <1>3 DEF ArtifactInv, PlacedInv, StagingSteps, OwnSoFar, LateSteps
<1>5. n \in Nat /\ DOMAIN manifest.runtime_inputs = 1 .. n /\ DOMAIN pairs = 1 .. Len(pairs)
  BY <1>4, CopiesListed
<1> HIDE DEF t1, path, n
<1>6. placed + 1 \in 1 .. n /\ 1 .. (placed + 1) = (1 .. placed) \cup {placed + 1}
  BY <1>3, <1>4, <1>5
<1>7. CopiedResources = Len(pairs) /\ CopiedInputs = placed
  BY <1>3 DEF CopiedResources, CopiedInputs
<1>8. \A i \in DOMAIN pairs : DeclaredCopy(i).path # path
  BY <1>5, <1>6, DestinationsApart DEF path, ArtifactInv
<1>9. \A j : RuntimeCopy(j).path = path => RuntimeCopy(j) = c
  BY DEF RuntimeCopy, Call, path
<1>10. ASSUME step' # "refused", NEW d \in CopiesSoFar'
       PROVE  Has(root', d) \/ (d \in CopiesSoFar /\ d.path \notin {path})
  <2>1. CopiedResources' = Len(pairs) /\ CopiedInputs' = placed + 1
    BY <1>3, <1>10, CopiesNext
  <2>2. Has(root', c)
    BY <1>2, <1>3, <1>10
  <2>3. CASE d = ExecutableCopy /\ SparedByInputs(placed + 1)
    <3>1. SparedByInputs(placed) /\ d.path # path
      BY <1>6, <2>3 DEF SparedByInputs, path
    <3> QED BY <1>7, <2>3, <3>1 DEF CopiesSoFar
  <2>4. ASSUME NEW i \in 1 .. Len(pairs), d = DeclaredCopy(i), SparedByResources(i, Len(pairs))
        PROVE  d \in CopiesSoFar /\ d.path \notin {path}
    BY <1>5, <1>7, <1>8, <2>4 DEF CopiesSoFar
  <2>5. ASSUME NEW j \in 1 .. placed, d = RuntimeCopy(j)
        PROVE  Has(root', d) \/ (d \in CopiesSoFar /\ d.path \notin {path})
    BY <1>7, <1>9, <2>2, <2>5 DEF CopiesSoFar
  <2>6. \/ d = ExecutableCopy /\ SparedByInputs(placed + 1)
        \/ d = c
        \/ \E i \in 1 .. Len(pairs) : d = DeclaredCopy(i) /\ SparedByResources(i, Len(pairs))
        \/ \E j \in 1 .. placed : d = RuntimeCopy(j)
    BY <1>3, <1>6, <1>10, <2>1, CopiesNext DEF c
  <2> QED BY <2>2, <2>3, <2>4, <2>5, <2>6
<1>11. Calls(root, root', {path}) /\ (step' # "refused" => root'.ok)
  BY <1>2, <1>3
<1>12. step' \in StagingSteps => step' # "refused"
  BY DEF StagingSteps
<1> QED BY <1>4, <1>10, <1>11, <1>12, CopiesMove

\* The files at paths hold something else than the artifact.
Foreign(t, paths) == t.ok => \A p \in paths : p \in DOMAIN t.files /\ t.files[p] # <<"artifact">>
LEMMA WriteForeign ==
  ASSUME NEW t, IsTree(t), NEW P, Foreign(t, P), NEW p, NEW by, by # <<"artifact">>
  PROVE  LET u == Apply(t, Call("write", p, by))
         IN Calls(t, u, {p}) /\ IsTree(u) /\ Foreign(u, P \cup {p})
<1> DEFINE c == Call("write", p, by)
           u == Apply(t, c)
<1>1. c.path = p /\ c.by = by
  BY DEF Call
<1>2. Calls(t, u, {p}) /\ (u.ok => Has(u, c))
  BY WriteKeeps
<1> HIDE DEF c, u
<1>3. ASSUME u.ok, NEW q \in P \cup {p} PROVE q \in DOMAIN u.files /\ u.files[q] # <<"artifact">>
  <2>1. CASE q = p
    BY <1>1, <1>2, <1>3, <2>1 DEF Has
  <2>2. CASE q \in P \ {p}
    BY <1>2, <1>3, <2>2 DEF Calls, Leaves, Foreign
  <2> QED BY <2>1, <2>2
<1>4. Calls(t, u, {p}) /\ IsTree(u) /\ Foreign(u, P \cup {p})
  BY <1>2, <1>3 DEF Calls, Foreign
<1> QED BY <1>4 DEF c, u

\* The workspace and its metadata: they write what they are listed with, and
\* none of it is the artifact.
LEMMA WorkspaceWritten ==
  ASSUME NEW t, IsTree(t)
  PROVE  LET made == WriteMetadataTo(MakeWorkspaceOf(t))
         IN Calls(t, made, SynthesizedFiles) /\ Foreign(made, SynthesizedFiles)
<1> DEFINE t1 == Apply(t, Dir(<<"workspace", "src">>))
           t2 == Apply(t1, Dir(<<"workspace", ".config">>))
           t3 == Apply(t2, Dir(<<"target", "debug", "deps">>))
           t4 == Apply(t3, Dir(<<"meta">>))
           p5 == <<"workspace", "Cargo.toml">>
           t5 == Apply(t4, Call("write", p5, <<"package">>))
           p6 == <<"workspace", ".config", "nextest.toml">>
           t6 == Apply(t5, Call("write", p6, <<"configuration">>))
           p7 == <<"meta", "cargo-metadata.json">>
           t7 == Apply(t6, Call("write", p7, <<"cargo_metadata">>))
           p8 == <<"meta", "binaries-metadata.json">>
           t8 == Apply(t7, Call("write", p8, <<"binaries_metadata">>))
           p9 == <<"meta", "tests-metadata.json">>
           t9 == Apply(t8, Call("write", p9, <<"tests_metadata">>))
           A == {} \cup {p5}
           B == A \cup {p6}
           C == B \cup {p7}
           D == C \cup {p8}
           E == D \cup {p9}
<1>0. /\ <<"package">> # <<"artifact">> /\ <<"configuration">> # <<"artifact">> /\ <<"cargo_metadata">> # <<"artifact">>
      /\ <<"binaries_metadata">> # <<"artifact">> /\ <<"tests_metadata">> # <<"artifact">>
  OBVIOUS
<1>1. Calls(t, t1, {}) /\ IsTree(t1)
  BY DirKeeps DEF Calls
<1> HIDE DEF t1
<1>2. Calls(t1, t2, {}) /\ IsTree(t2)
  BY <1>1, DirKeeps DEF Calls
<1> HIDE DEF t2
<1>3. Calls(t2, t3, {}) /\ IsTree(t3)
  BY <1>2, DirKeeps DEF Calls
<1> HIDE DEF t3
<1>4. Calls(t3, t4, {}) /\ IsTree(t4) /\ Foreign(t4, {})
  BY <1>3, DirKeeps DEF Calls, Foreign
<1> HIDE DEF t4, p5, p6, p7, p8, p9
<1>5. Calls(t4, t5, {p5}) /\ IsTree(t5) /\ Foreign(t5, A)
  BY <1>0, <1>4, WriteForeign
<1> HIDE DEF t5, A
<1>6. Calls(t5, t6, {p6}) /\ IsTree(t6) /\ Foreign(t6, B)
  BY <1>0, <1>5, WriteForeign
<1> HIDE DEF t6, B
<1>7. Calls(t6, t7, {p7}) /\ IsTree(t7) /\ Foreign(t7, C)
  BY <1>0, <1>6, WriteForeign
<1> HIDE DEF t7, C
<1>8. Calls(t7, t8, {p8}) /\ IsTree(t8) /\ Foreign(t8, D)
  BY <1>0, <1>7, WriteForeign
<1> HIDE DEF t8, D
<1>9. Calls(t8, t9, {p9}) /\ Foreign(t9, E)
  BY <1>0, <1>8, WriteForeign
<1> HIDE DEF t9, E
<1>10. WriteMetadataTo(MakeWorkspaceOf(t)) = t9
  BY DEF WriteMetadataTo, MakeWorkspaceOf, t1, t2, t3, t4, t5, t6, t7, t8, t9, p5, p6, p7, p8, p9
<1>11. Calls(t, t4, {})
  <2>1. Calls(t, t2, {} \cup {})
    BY <1>1, <1>2, CallsFollow
  <2>2. Calls(t, t3, ({} \cup {}) \cup {})
    BY <2>1, <1>3, CallsFollow
  <2>3. Calls(t, t4, (({} \cup {}) \cup {}) \cup {})
    BY <2>2, <1>4, CallsFollow
  <2>4. (({} \cup {}) \cup {}) \cup {} = {}
    OBVIOUS
  <2> QED BY <2>3, <2>4
<1>12. Calls(t, t5, A)
  BY <1>5, <1>11, CallsFollow DEF A
<1>13. Calls(t, t6, B)
  BY <1>6, <1>12, CallsFollow DEF B
<1>14. Calls(t, t7, C)
  BY <1>7, <1>13, CallsFollow DEF C
<1>15. Calls(t, t8, D)
  BY <1>8, <1>14, CallsFollow DEF D
<1>16. Calls(t, t9, E)
  BY <1>9, <1>15, CallsFollow DEF E
<1>17. SynthesizedFiles = {p5, p6, p7, p8, p9}
  BY DEF SynthesizedFiles, p5, p6, p7, p8, p9
<1>18. E = SynthesizedFiles
  BY <1>17 DEF A, B, C, D, E
<1> QED BY <1>9, <1>10, <1>16, <1>18

\* The copy nextest starts has what the executable's place holds: the
\* artifact, when nothing displaced it.
LEMMA SynthesizeStep == ASSUME ArtifactInv, Synthesize PROVE CopiesInv' /\ StartedInv'
<1> DEFINE made == WriteMetadataTo(MakeWorkspaceOf(root))
           place == Components(manifest.executable)
           content == IF place = Dispatched THEN <<"empty">> ELSE made.files[place]
           c == Call("copy", Dispatched, content)
           t1 == Apply(made, c)
           n == Len(manifest.runtime_inputs)
<1>1. IsTree(root)
  BY DEF ArtifactInv, CopiesInv
<1>2. Calls(root, made, SynthesizedFiles) /\ Foreign(made, SynthesizedFiles)
  BY <1>1, WorkspaceWritten
<1>3. Calls(made, t1, {Dispatched}) /\ (t1.ok => Has(t1, c))
  BY <1>2, WriteKeeps DEF Calls
<1>4. /\ step = "runtime_inputs" /\ placed = n /\ root' = (IF made.ok THEN t1 ELSE made)
      /\ step' = (IF root'.ok THEN "synthesized" ELSE "refused")
      /\ UNCHANGED inputVars
  BY DEF Synthesize, Reached
<1>5. step \in StagingSteps /\ CopiedResources = Len(pairs) /\ CopiedInputs = n /\ OwnSoFar = {}
  BY <1>4 DEF StagingSteps, CopiedResources, CopiedInputs, OwnSoFar, LateSteps
<1>6. ExecutableCopy.path = place /\ ExecutableCopy.by = <<"artifact">> /\ \A i : RuntimeCopy(i).by = <<"runtime_resource">>
  BY DEF ExecutableCopy, RuntimeCopy, Call
<1>7. c.path = Dispatched /\ c.by = content
  BY DEF Call
<1>8. DOMAIN manifest.runtime_inputs = 1 .. n
  BY <1>5, CopiesListed
<1>9. <<"empty">> # <<"artifact">> /\ <<"runtime_resource">> # <<"artifact">>
  OBVIOUS
<1>10. content = IF place = Dispatched THEN <<"empty">> ELSE made.files[place]
  OBVIOUS
<1> HIDE DEF made, place, content, c, t1, n
<1>11. IsTree(made) /\ IsTree(root')
  BY <1>2, <1>3, <1>4 DEF Calls
<1>12. Calls(root, root', SynthesizedFiles \cup {Dispatched}) /\ (step' # "refused" => root'.ok)
  <2>1. Calls(root, t1, SynthesizedFiles \cup {Dispatched})
    BY <1>2, <1>3, CallsFollow
  <2>2. CASE made.ok
    BY <1>4, <2>1, <2>2
  <2>3. CASE ~made.ok
    BY <1>4, <1>11, <2>3 DEF Calls
  <2> QED BY <2>2, <2>3
<1>13. ASSUME step' # "refused"
       PROVE  made.ok /\ root' = t1 /\ step' = "synthesized" /\ Has(root', c)
  BY <1>3, <1>4, <1>13
<1>14. ASSUME step' # "refused", NEW d \in CopiesSoFar'
       PROVE  d.path \in OwnSoFar' \/ (d \in CopiesSoFar /\ d.path \notin (SynthesizedFiles \cup {Dispatched}) \cup OwnSoFar)
  <2>1. CopiedResources' = Len(pairs) /\ CopiedInputs' = n
    BY <1>4, <1>13, <1>14, CopiesNext DEF n
  <2>2. d \in CopiesSoFar
    BY <1>4, <1>5, <1>14, <2>1, CopiesNext DEF CopiesSoFar
  <2>3. OwnSoFar' = OwnFiles
    BY <1>13, <1>14 DEF OwnSoFar, LateSteps
  <2> QED BY <1>5, <2>2, <2>3 DEF OwnFiles
<1>15. step' \in StagingSteps => step' # "refused"
  BY DEF StagingSteps
<1>16. CopiesInv'
  BY <1>5, <1>12, <1>14, <1>15, CopiesMove
<1>17. ASSUME made.ok, NEW d \in CopiesSoFar, d.path = place, place \notin SynthesizedFiles PROVE made.files[place] = d.by
  <2>1. Has(root, d)
    BY <1>5, <1>17 DEF ArtifactInv, CopiesInv
  <2>2. Has(made, d)
    BY <1>2, <1>17, <2>1, CallsKeep
  <2> QED BY <1>17, <2>2 DEF Has
<1>18. ASSUME made.ok PROVE content = <<"artifact">> <=> ~Displaced
  <2>1. CASE place = Dispatched
    BY <1>6, <1>9, <1>10, <2>1 DEF Displaced
  <2>2. CASE place \in SynthesizedFiles /\ place # Dispatched
    BY <1>2, <1>6, <1>10, <1>18, <2>2 DEF Displaced, Foreign
  <2>3. ASSUME place \notin SynthesizedFiles \cup {Dispatched}, NEW i \in 1 .. n, RuntimeCopy(i).path = place
        PROVE  content = <<"artifact">> <=> ~Displaced
    <3>1. RuntimeCopy(i) \in CopiesSoFar
      BY <1>5 DEF CopiesSoFar
    <3>2. made.files[place] = <<"runtime_resource">>
      BY <1>6, <1>17, <1>18, <2>3, <3>1
    <3> QED BY <1>6, <1>8, <1>9, <1>10, <2>3, <3>2 DEF Displaced
  <2>4. CASE place \notin SynthesizedFiles \cup {Dispatched} /\ \A i \in 1 .. n : RuntimeCopy(i).path # place
    <3>1. ExecutableCopy \in CopiesSoFar
      BY <1>5, <1>6, <2>4 DEF CopiesSoFar, SparedByInputs
    <3>2. made.files[place] = <<"artifact">>
      BY <1>6, <1>17, <1>18, <2>4, <3>1
    <3> QED BY <1>6, <1>8, <1>10, <2>4, <3>2 DEF Displaced
  <2> QED BY <2>1, <2>2, <2>3, <2>4
<1>19. StartedInv'
  <2>1. Displaced' = Displaced
    BY <1>4, CopiesNext
  <2>2. step' \in LateSteps => step' # "refused"
    BY DEF LateSteps
  <2>3. ASSUME step' # "refused" PROVE Dispatched \in DOMAIN root'.files /\ (root'.files[Dispatched] = <<"artifact">> <=> ~Displaced)
    BY <1>7, <1>13, <1>18, <2>3 DEF Has
  <2> QED BY <2>1, <2>2, <2>3 DEF StartedInv, LateSteps, Dispatched
<1> QED BY <1>16, <1>19

\* The directories of the commands and the probe's log leave the copies, but
\* for one where the log goes.
LEMMA HomesStep == ASSUME ArtifactInv, MakeHomes PROVE CopiesInv' /\ StartedInv'
<1> DEFINE t1 == Apply(root, Dir(<<"home">>))
           t2 == Apply(t1, Dir(<<"cargo-home">>))
           t3 == Apply(t2, Dir(<<"tmp">>))
           log == <<"probe.log">>
           t4 == Apply(t3, Call("write", log, <<"help">>))
<1>1. /\ step = "synthesized" /\ root' = t4 /\ step' = (IF t4.ok THEN "ready" ELSE "refused")
      /\ UNCHANGED inputVars
  BY DEF MakeHomes, Reached
<1>2. IsTree(root) /\ step \in StagingSteps /\ OwnSoFar = OwnFiles
  BY <1>1 DEF ArtifactInv, CopiesInv, StagingSteps, OwnSoFar, LateSteps
<1>3. Calls(root, t1, {}) /\ IsTree(t1)
  BY <1>2, DirKeeps DEF Calls
<1> HIDE DEF t1
<1>4. Calls(t1, t2, {}) /\ IsTree(t2)
  BY <1>3, DirKeeps DEF Calls
<1> HIDE DEF t2
<1>5. Calls(t2, t3, {}) /\ IsTree(t3)
  BY <1>4, DirKeeps DEF Calls
<1> HIDE DEF t3
<1>6. Calls(t3, t4, {log})
  BY <1>5, WriteKeeps
<1> HIDE DEF t4
<1>7. Calls(root, t2, {} \cup {})
  BY <1>3, <1>4, CallsFollow
<1>8. Calls(root, t3, ({} \cup {}) \cup {})
  BY <1>5, <1>7, CallsFollow
<1>9. Calls(root, t4, (({} \cup {}) \cup {}) \cup {log})
  BY <1>6, <1>8, CallsFollow
<1>10. log \in OwnFiles /\ Dispatched # log
  <2>1. Len(log) = 1 /\ Len(Dispatched) = 4
    BY DEF Dispatched
  <2> QED BY <2>1 DEF OwnFiles
<1> HIDE DEF log
<1>11. Calls(root, root', {log}) /\ (step' # "refused" => root'.ok)
  <2>1. (({} \cup {}) \cup {}) \cup {log} = {log}
    OBVIOUS
  <2> QED BY <1>1, <1>9, <2>1
<1>12. CopiedResources = Len(pairs) /\ CopiedInputs = Len(manifest.runtime_inputs)
  BY <1>1 DEF CopiedResources, CopiedInputs
<1>13. ASSUME step' # "refused", NEW d \in CopiesSoFar'
       PROVE  d.path \in OwnSoFar' \/ (d \in CopiesSoFar /\ d.path \notin {log} \cup OwnSoFar)
  <2>1. step' = "ready" /\ OwnSoFar' = OwnFiles
    BY <1>1, <1>13 DEF OwnSoFar, LateSteps
  <2>2. CopiedResources' = Len(pairs) /\ CopiedInputs' = Len(manifest.runtime_inputs)
    BY <1>1, <2>1, CopiesNext
  <2>3. d \in CopiesSoFar
    BY <1>1, <1>12, <1>13, <2>2, CopiesNext DEF CopiesSoFar
  <2> QED BY <1>2, <1>10, <2>1, <2>3
<1>14. step' \in StagingSteps => step' # "refused"
  BY DEF StagingSteps
<1>15. CopiesInv'
  BY <1>2, <1>11, <1>13, <1>14, CopiesMove
<1>16. Dispatched \in DOMAIN root.files /\ (root.files[Dispatched] = <<"artifact">> <=> ~Displaced)
  BY <1>1 DEF ArtifactInv, StartedInv, LateSteps
<1>17. StartedInv'
  <2>1. Displaced' = Displaced
    BY <1>1, CopiesNext
  <2>2. step' # "refused" => Dispatched \in DOMAIN root'.files /\ root'.files[Dispatched] = root.files[Dispatched]
    BY <1>10, <1>11, <1>16 DEF Calls, Leaves
  <2>3. step' \in LateSteps => step' # "refused"
    BY DEF LateSteps
  <2> QED BY <1>16, <2>1, <2>2, <2>3 DEF StartedInv, LateSteps, Dispatched
<1> QED BY <1>15, <1>17

LEMMA CopiesStep == ArtifactInv /\ [ArtifactNext]_artifactVars => CopiesInv'
<1> SUFFICES ASSUME ArtifactInv, [ArtifactNext]_artifactVars PROVE CopiesInv'
  OBVIOUS
<1>1. IsTree(root) /\ (step # "refused" => root.ok)
  BY DEF ArtifactInv, CopiesInv
<1>2. CASE root' = root /\ step # "refused" /\ step' \notin StagingSteps
  <2>1. Calls(root, root', {})
    BY <1>1, <1>2 DEF Calls, Leaves
  <2> QED BY <1>1, <1>2, <2>1, CopiesMove
<1>3. ASSUME NEW m \in Manifests, NEW d \in DeclaredLists, ValidateManifest(m, d) PROVE CopiesInv'
  BY <1>2, <1>3 DEF ValidateManifest, StagingSteps
<1>4. CASE (\E r \in ArtifactResources : BundleResource(r)) \/ (\E v \in ArtifactVariables : BundleVariable(v)) \/ ArtifactGivesUp
  BY <1>2, <1>4 DEF BundleResource, BundleVariable, ArtifactGivesUp, StagingSteps
<1>5. CASE UNCHANGED artifactVars
  <2>1. root' = root /\ step' = step
    BY <1>5 DEF artifactVars
  <2>2. CopiesSoFar' = CopiesSoFar /\ OwnSoFar' = OwnSoFar
    BY <1>5 DEF artifactVars, CopiesSoFar, CopiedResources, CopiedInputs, SparedByInputs, SparedByResources, OwnSoFar,
                ExecutableCopy, DeclaredCopy, RuntimeCopy
  <2> QED BY <2>1, <2>2 DEF ArtifactInv, CopiesInv
<1> QED BY <1>3, <1>4, <1>5, ExecutableStep, ResourceStep, ResourcesStagedStep, RuntimeInputStep, SynthesizeStep, HomesStep
        DEF ArtifactNext

LEMMA StartedStep == ArtifactInv /\ [ArtifactNext]_artifactVars => StartedInv'
<1> SUFFICES ASSUME ArtifactInv, [ArtifactNext]_artifactVars PROVE StartedInv'
  OBVIOUS
<1>1. CASE step' \notin LateSteps
  BY <1>1 DEF StartedInv, LateSteps
<1>2. ASSUME NEW m \in Manifests, NEW d \in DeclaredLists, ValidateManifest(m, d) PROVE StartedInv'
  BY <1>1, <1>2 DEF ValidateManifest, LateSteps
<1>3. CASE (\E r \in ArtifactResources : BundleResource(r)) \/ (\E v \in ArtifactVariables : BundleVariable(v)) \/ ArtifactGivesUp
  BY <1>1, <1>3 DEF BundleResource, BundleVariable, ArtifactGivesUp, LateSteps
<1>4. CASE StageExecutable \/ StageResource \/ ResourcesStaged \/ StageRuntimeInput
  BY <1>1, <1>4 DEF StageExecutable, StageResource, ResourcesStaged, StageRuntimeInput, Reached, LateSteps
<1>5. CASE UNCHANGED artifactVars
  <2>1. root' = root /\ step' = step /\ manifest' = manifest
    BY <1>5 DEF artifactVars
  <2>2. Displaced' = Displaced
    BY <2>1 DEF Displaced, ExecutableCopy, RuntimeCopy
  <2> QED BY <2>1, <2>2 DEF ArtifactInv, StartedInv
<1> QED BY <1>2, <1>3, <1>4, <1>5, SynthesizeStep, HomesStep DEF ArtifactNext

\* What the artifact adapter has established before each of its calls, for
\* any manifest and bundle (run_buck_artifact).
THEOREM ArtifactInvariance == ArtifactSpec => []ArtifactInv
<1>1. ArtifactInv /\ [ArtifactNext]_artifactVars => ArtifactInv'
  BY ManifestStep, PairsStep, PlacedStep, CopiesStep, StartedStep DEF ArtifactInv
<1> QED BY ArtifactStarts, <1>1, PTL DEF ArtifactSpec

\* A variable of the adapter's that no manifest sets has the bundle's value,
\* and the adapter's when there is none.
LEMMA OwnVariable ==
  ASSUME NEW m, NEW b, NEW n \in AdapterSets, n \notin DOMAIN m.environment
  PROVE  EnvFor(m, b)[n] = IF n \in DOMAIN BundleVariables(b) THEN BundleVariables(b)[n] ELSE <<"adapter">>
<1> DEFINE vars == BundleVariables(b)
           own == [x \in AdapterSets |-> <<"adapter">>]
           given == Over(vars, m.environment)
<1>1. n \in DOMAIN own /\ own[n] = <<"adapter">>
  OBVIOUS
<1> HIDE DEF vars, own
<1>2. n \in DOMAIN given <=> n \in DOMAIN vars
  BY DEF Over
<1>3. n \in DOMAIN vars => given[n] = vars[n]
  BY DEF Over
<1> HIDE DEF given
<1>4. Over(given, own)[n] = IF n \in DOMAIN given THEN given[n] ELSE own[n]
  BY <1>1 DEF Over
<1> QED BY <1>1, <1>2, <1>3, <1>4 DEF EnvFor, vars, own, given

\* Whatever manifest and bundle the adapter accepts: nextest starts the
\* declared artifact exactly when neither a runtime input nor a file of the
\* adapter's displaced it, each declared file is in its place but where the
\* stated later ones go over it, and the names kept for the adapter have its
\* values or the bundle's.  No path is assumed to keep clear of another
\* (run_buck_artifact, validate_bundle, synthesize, env_for).
THEOREM ArtifactStagesAsDeclared == ArtifactSpec => []ArtifactAsDeclared
<1>1. ASSUME ArtifactInv, step = "ready" PROVE ArtifactAsDeclared
  <2>1. step \in StagingSteps /\ OwnSoFar = OwnFiles
    BY <1>1 DEF StagingSteps, OwnSoFar, LateSteps
  <2>2. CopiedResources = Len(pairs) /\ CopiedInputs = Len(manifest.runtime_inputs)
    BY <1>1 DEF CopiedResources, CopiedInputs
  <2>3. DOMAIN pairs = 1 .. CopiedResources /\ DOMAIN manifest.runtime_inputs = 1 .. CopiedInputs
    BY <1>1, <2>1, <2>2, CopiesListed
  <2>4. ASSUME NEW c \in CopiesSoFar PROVE Placed(c) \/ c.path \in OwnFiles
    BY <1>1, <2>1, <2>4 DEF ArtifactInv, CopiesInv, Placed, Has
  <2>5. Placed(Call("copy", Dispatched, <<"artifact">>)) <=> ~Displaced
    <3>1. Dispatched \in DOMAIN root.files /\ (root.files[Dispatched] = <<"artifact">> <=> ~Displaced)
      BY <1>1 DEF ArtifactInv, StartedInv, LateSteps
    <3> DEFINE c == Call("copy", Dispatched, <<"artifact">>)
    <3>2. c.path = Dispatched /\ c.by = <<"artifact">>
      BY DEF Call
    <3> QED BY <3>1, <3>2 DEF Placed
  <2>6. ASSUME NEW i \in DOMAIN pairs, \A j \in DOMAIN pairs : j > i => DeclaredCopy(j).path # DeclaredCopy(i).path
        PROVE  Placed(DeclaredCopy(i)) \/ DeclaredCopy(i).path \in OwnFiles
    <3>1. SparedByResources(i, CopiedResources)
      BY <2>3, <2>6 DEF SparedByResources
    <3>2. DeclaredCopy(i) \in CopiesSoFar
      BY <2>3, <3>1 DEF CopiesSoFar
    <3> QED BY <2>4, <3>2
  <2>7. ASSUME NEW i \in DOMAIN manifest.runtime_inputs PROVE Placed(RuntimeCopy(i)) \/ RuntimeCopy(i).path \in OwnFiles
    <3>1. RuntimeCopy(i) \in CopiesSoFar
      BY <2>3 DEF CopiesSoFar
    <3> QED BY <2>4, <3>1
  <2>8. ASSUME NEW n \in (Pinned \cup Prefixed) \cap AdapterSets
        PROVE  EnvFor(manifest, Bundle)[n] =
                 IF n \in DOMAIN BundleVariables(Bundle) THEN BundleVariables(Bundle)[n] ELSE <<"adapter">>
    <3>1. DOMAIN manifest.environment \cap (Pinned \cup Prefixed) = {}
      BY <1>1 DEF ArtifactInv, ManifestInv, BinaryAccepts
    <3>2. n \in AdapterSets /\ n \notin DOMAIN manifest.environment
      BY <3>1
    <3> QED BY <3>2, OwnVariable
  <2> QED BY <2>5, <2>6, <2>7, <2>8 DEF ArtifactAsDeclared
<1>2. ArtifactInv => ArtifactAsDeclared
  BY <1>1 DEF ArtifactAsDeclared
<1> QED BY ArtifactInvariance, <1>2, PTL
-------------------------------------------------------------------------------
\* Paths that part at their first component.
LEMMA PartApart ==
  ASSUME NEW S, NEW p \in Seq(S), NEW q \in Seq(S), Len(p) >= 1, Len(q) >= 1, p[1] # q[1]
  PROVE  ~Overlaps(p, q)
<1>1. ASSUME NEW s \in Seq(S), NEW t \in Seq(S), Len(s) >= 1, Len(t) >= 1, IsPrefix(s, t) PROVE s[1] = t[1]
  <2>1. Len(s) \in Nat /\ Len(t) \in Nat /\ Len(s) <= Len(t) /\ SubSeq(s, 1, Len(s)) = SubSeq(t, 1, Len(s))
    BY <1>1, LenProperties DEF IsPrefix
  <2>2. \A i \in 1 .. Len(s) : s[i] \in S /\ t[i] \in S
    BY <2>1, ElementOfSeq
  <2>3. SubSeq(s, 1, Len(s))[1] = s[1]
    BY <1>1, <2>1, <2>2, SubSeqProperties
  <2>4. SubSeq(t, 1, Len(s))[1] = t[1]
    BY <1>1, <2>1, <2>2, SubSeqProperties
  <2> QED BY <2>1, <2>3, <2>4
<1>2. ~IsPrefix(p, q) /\ ~IsPrefix(q, p)
  BY <1>1
<1> QED BY <1>2 DEF Overlaps

\* A path that is safe is one the adapter accepts, and the other way round
\* when it is normalized.
LEMMA SafeIsRelative ==
  ASSUME NEW p \in Paths
  PROVE  /\ SafePath(p) => RelPath(p)
         /\ RelPath(p) /\ Normalized(p) => SafePath(p)
<1>1. 1 \in DOMAIN p /\ p # <<>>
  BY EmptySeq, LenProperties DEF Paths
<1>2. SafePath(p) => RelPath(p)
  BY <1>1 DEF SafePath, RelPath
<1>3. RelPath(p) /\ Normalized(p) => SafePath(p)
  BY <1>1 DEF RelPath, Normalized, SafePath
<1> QED BY <1>2, <1>3

\* What emit-manifest writes, with its cases.
LEMMA EmittedAccepted ==
  ASSUME NEW p \in Paths, SafePath(p)
  PROVE  BinaryAccepts(Patched(Emitted(p))) /\ LibraryAccepts(Patched(Emitted(p))) /\ ~LibraryAccepts(Emitted(p))
<1> DEFINE exec == <<"bin", "buck2_nextest_rust_test">>
           work == <<"work">>
           value == <<"declared">>
           env == [n \in {"BUCK2_ARTIFACT_RUNTIME"} |-> value]
           m == [fields |-> "exact", identity |-> "contract", executable |-> exec, working_directory |-> work,
                 runtime_inputs |-> <<p>>, environment |-> env]
<1>1. Patched(Emitted(p)) = m
  <2> DEFINE list == <<p>>
             none == "no_cases"
             exact == "exact"
             cases == "contract"
  <2>2. \A e, fields, identity, x, w, r, v :
          e = [fields |-> fields, identity |-> identity, executable |-> x, working_directory |-> w, runtime_inputs |-> r, environment |-> v]
            => Patched(e) = [fields |-> fields, identity |-> cases, executable |-> x, working_directory |-> w,
                             runtime_inputs |-> r, environment |-> v]
    BY DEF Patched
  <2>3. Emitted(p) = [fields |-> exact, identity |-> none, executable |-> exec, working_directory |-> work,
                      runtime_inputs |-> list, environment |-> env]
    BY DEF Emitted
  <2>4. m = [fields |-> exact, identity |-> cases, executable |-> exec, working_directory |-> work,
             runtime_inputs |-> list, environment |-> env]
    OBVIOUS
  <2> HIDE DEF exec, work, env, list, none, exact, cases, m
  <2> QED BY <2>2, <2>3, <2>4
<1>2. Emitted(p).identity = "no_cases"
  BY DEF Emitted
<1>3. ~LibraryAccepts(Emitted(p))
  BY <1>2 DEF LibraryAccepts
<1>4. /\ m.fields = "exact" /\ m.identity = "contract" /\ m.executable = exec /\ m.working_directory = work
      /\ m.runtime_inputs = <<p>> /\ m.environment = env
  OBVIOUS
<1> HIDE DEF m
<1>5. RelPath(exec) /\ SafePath(exec)
  <2>1. exec # <<>> /\ DOMAIN exec = {1, 2} /\ exec[1] = "bin" /\ exec[2] = "buck2_nextest_rust_test"
    OBVIOUS
  <2> HIDE DEF exec
  <2>2. "bin" \notin NoName /\ "buck2_nextest_rust_test" \notin NoName
    BY Zenon DEF NoName
  <2> QED BY <2>1, <2>2 DEF RelPath, SafePath
<1>6. RelPath(work) /\ SafePath(work)
  <2>1. work # <<>> /\ DOMAIN work = {1} /\ work[1] = "work"
    OBVIOUS
  <2> HIDE DEF work
  <2>2. "work" \notin NoName
    BY Zenon DEF NoName
  <2> QED BY <2>1, <2>2 DEF RelPath, SafePath
<1>7. ~Overlaps(exec, work)
  <2> DEFINE S == {"bin", "buck2_nextest_rust_test", "work"}
  <2>1. exec \in Seq(S) /\ work \in Seq(S) /\ Len(exec) = 2 /\ Len(work) = 1 /\ exec[1] = "bin" /\ work[1] = "work"
    OBVIOUS
  <2>2. Len(exec) >= 1 /\ Len(work) >= 1 /\ exec[1] # work[1]
    BY <2>1
  <2> HIDE DEF S, exec, work
  <2> QED BY <2>1, <2>2, PartApart
<1>8. DOMAIN env = {"BUCK2_ARTIFACT_RUNTIME"} /\ \A n \in DOMAIN env : env[n] = value
  OBVIOUS
<1>9. value # WithNul
  BY DEF WithNul
<1> HIDE DEF env, value
<1>10. /\ DOMAIN env \cap (IllFormed \cup Pinned \cup Prefixed) = {}
       /\ DOMAIN env \cap (IllFormed \cup {"", "PATH"} \cup Prefixed) = {}
       /\ \A n \in DOMAIN env : env[n] # WithNul
  <2>1. "BUCK2_ARTIFACT_RUNTIME" \notin IllFormed \cup Pinned \cup Prefixed \cup {"", "PATH"}
    BY DEF IllFormed, Pinned, Prefixed
  <2> QED BY <1>8, <1>9, <2>1
<1>11. /\ \A i \in DOMAIN m.runtime_inputs : m.runtime_inputs[i] = p
       /\ Distinct(m.runtime_inputs)
  <2>1. DOMAIN <<p>> = {1} /\ <<p>>[1] = p
    OBVIOUS
  <2> QED BY <1>4, <2>1 DEF Distinct
<1>12. RelPath(p)
  BY SafeIsRelative
<1> HIDE DEF exec, work
<1>13. BinaryAccepts(m)
  BY <1>4, <1>5, <1>6, <1>10, <1>11, <1>12 DEF BinaryAccepts
<1>14. LibraryAccepts(m)
  BY <1>4, <1>5, <1>6, <1>7, <1>10, <1>11 DEF LibraryAccepts
<1> QED BY <1>1, <1>3, <1>13, <1>14

\* A path is safe exactly when the adapter accepts it as it is normalized.
LEMMA SafeIsNormalized == ASSUME NEW p \in Paths PROVE SafePath(p) <=> RelPath(p) /\ Normalized(p)
<1>1. SafePath(p) => Normalized(p)
  BY DEF SafePath, Normalized
<1> QED BY <1>1, SafeIsRelative

\* The two validators on one manifest: each condition one of them has and
\* the other has not is one of the stated differences.
LEMMA ValidatorsAgreeOn == ASSUME NEW m \in Manifests PROVE ManifestsAgreeOn(m)
<1> DEFINE inputs == m.runtime_inputs
           names == DOMAIN m.environment
           paths == {m.executable, m.working_directory} \cup Range(inputs)
<1>1. /\ m.executable \in Paths /\ m.working_directory \in Paths
      /\ \A i \in DOMAIN inputs : inputs[i] \in Paths
  BY ManifestsAssumption, ElementOfSeq, LenProperties
<1>2. paths \subseteq Paths /\ \A p \in Range(inputs) : \E i \in DOMAIN inputs : p = inputs[i]
  BY <1>1 DEF Range
<1>3. (\A p \in paths : RelPath(p)) <=> RelPath(m.executable) /\ RelPath(m.working_directory) /\ \A i \in DOMAIN inputs : RelPath(inputs[i])
  BY DEF Range
<1>4. (\A p \in paths : SafePath(p)) <=> SafePath(m.executable) /\ SafePath(m.working_directory) /\ \A i \in DOMAIN inputs : SafePath(inputs[i])
  BY DEF Range
<1>5. BinaryAccepts(m) <=> /\ m.fields = "exact" /\ m.identity = "contract"
                           /\ (\A p \in paths : RelPath(p)) /\ Distinct(inputs)
                           /\ names \cap (IllFormed \cup Pinned \cup Prefixed) = {}
  BY <1>3 DEF BinaryAccepts
<1>6. LibraryAccepts(m) <=> /\ m.fields \in {"exact", "loose"} /\ m.identity \in {"contract", "other"}
                            /\ (\A p \in paths : SafePath(p)) /\ Distinct(inputs)
                            /\ ~Overlaps(m.executable, m.working_directory)
                            /\ names \cap (IllFormed \cup {"", "PATH"} \cup Prefixed) = {}
                            /\ \A n \in names : m.environment[n] # WithNul
  BY <1>4 DEF LibraryAccepts
<1>7. Strict(m) <=> /\ (\A p \in paths : Normalized(p)) /\ ~Overlaps(m.executable, m.working_directory)
                    /\ "" \notin names /\ \A n \in names : m.environment[n] # WithNul
  BY DEF Strict
<1>8. Contractual(m) <=> m.fields = "exact" /\ m.identity = "contract" /\ names \cap Pinned = {}
  BY DEF Contractual
<1>9. \A p \in paths : SafePath(p) <=> RelPath(p) /\ Normalized(p)
  BY <1>2, SafeIsNormalized
<1>10. "PATH" \in Pinned
  BY DEF Pinned
<1> HIDE DEF inputs, names, paths
<1>11. BinaryAccepts(m) => (LibraryAccepts(m) <=> Strict(m))
  BY <1>5, <1>6, <1>7, <1>9, <1>10
<1>12. LibraryAccepts(m) => (BinaryAccepts(m) <=> Contractual(m))
  BY <1>5, <1>6, <1>8, <1>9
<1>13. ASSUME NEW p \in Range(inputs), EmitAccepts(p)
       PROVE  BinaryAccepts(Patched(Emitted(p))) /\ LibraryAccepts(Patched(Emitted(p))) /\ ~LibraryAccepts(Emitted(p))
  BY <1>1, <1>2, <1>13, EmittedAccepted DEF EmitAccepts
<1> QED BY <1>11, <1>12, <1>13 DEF ManifestsAgreeOn, inputs

\* The library and the artifact adapter accept the same manifests but for
\* exactly the stated differences, and both accept what emit-manifest writes
\* with its cases (validate_manifest, ManifestV1::validate, run_emit_manifest).
THEOREM ManifestValidatorsAgree == ArtifactSpec => []ManifestsAgree
<1>1. ArtifactInv => ManifestsAgree
  BY ValidatorsAgreeOn DEF ArtifactInv, ManifestInv, ManifestsAgree
<1> QED BY ArtifactInvariance, <1>1, PTL
-------------------------------------------------------------------------------
\* The two maps hold what was read, one item for a name, and what passed its
\* check; the suite's names are checked before the bundle is read.
EnvironmentInv ==
  /\ \A v \in options : v.name \in DOMAIN suite /\ suite[v.name] = v
  /\ \A n \in DOMAIN suite : \E v \in options : v.name = n
  /\ phase \in {"bundle", "variables", "ready"} => SuiteAccepted
  /\ \A v \in entries :
       /\ v.name \in DOMAIN toolchain /\ toolchain[v.name] = Given(v) /\ ~Reserved(v.name)
       /\ v.kind = "relative_path" => \E i \in DOMAIN offered : offered[i].path = v.value
  /\ \A n \in DOMAIN toolchain : \E v \in entries : v.name = n
  /\ phase \in {"options", "bundle"} => entries = {}

LEMMA EnvironmentStarts == EnvironmentInit => EnvironmentInv
  BY DEF EnvironmentInit, EnvironmentInv

LEMMA EnvironmentStep == EnvironmentInv /\ [EnvironmentNext]_environmentVars => EnvironmentInv'
<1> SUFFICES ASSUME EnvironmentInv, [EnvironmentNext]_environmentVars PROVE EnvironmentInv'
  OBVIOUS
<1>1. CASE /\ UNCHANGED <<options, suite, entries, toolchain>> /\ (offered' = offered \/ entries = {})
           /\ (phase' \in {"bundle", "variables", "ready"} => SuiteAccepted)
           /\ (phase' \in {"options", "bundle"} => entries = {})
  BY <1>1 DEF EnvironmentInv, SuiteAccepted
<1>2. ASSUME NEW v \in SuiteVariables, SuiteOption(v) PROVE EnvironmentInv'
  <2>1. CASE v.name \in DOMAIN suite
    BY <1>1, <1>2, <2>1 DEF SuiteOption
  <2>2. CASE v.name \notin DOMAIN suite
    <3> DEFINE new == Insert(suite, v.name, v)
    <3>1. /\ phase = "options" /\ phase' = "options" /\ options' = options \cup {v} /\ suite' = new
          /\ UNCHANGED <<offered, entries, toolchain>>
      BY <1>2, <2>2 DEF SuiteOption
    <3>2. DOMAIN new = DOMAIN suite \cup {v.name} /\ new[v.name] = v /\ \A k \in DOMAIN suite \ {v.name} : new[k] = suite[k]
      BY DEF Insert, Over
    <3> HIDE DEF new
    <3>3. \A o \in options : o.name \in DOMAIN suite /\ suite[o.name] = o
      BY DEF EnvironmentInv
    <3>4. \A o \in options' : o.name \in DOMAIN suite' /\ suite'[o.name] = o
      BY <2>2, <3>1, <3>2, <3>3
    <3>5. \A n \in DOMAIN suite' : \E o \in options' : o.name = n
      BY <3>1, <3>2 DEF EnvironmentInv
    <3> QED BY <3>1, <3>4, <3>5 DEF EnvironmentInv
  <2> QED BY <2>1, <2>2
<1>3. CASE ValidateSuite
  <2>1. phase = "options" /\ UNCHANGED <<options, suite, entries, toolchain, offered>> /\ phase' = (IF SuiteAccepted THEN "bundle" ELSE "refused")
    BY <1>3 DEF ValidateSuite
  <2>2. entries = {}
    BY <2>1 DEF EnvironmentInv
  <2> QED BY <1>1, <2>1, <2>2
<1>4. ASSUME NEW b \in Toolchains, ParseResources(b) PROVE EnvironmentInv'
  <2>1. phase = "bundle" /\ phase' \in {"variables", "refused"} /\ UNCHANGED <<options, suite, entries, toolchain>>
    BY <1>4 DEF ParseResources
  <2>2. entries = {} /\ SuiteAccepted
    BY <2>1 DEF EnvironmentInv
  <2> QED BY <1>1, <2>1, <2>2
<1>5. CASE WithoutBundle \/ VariablesRead
  <2>1. phase \in {"bundle", "variables"} /\ phase' = "ready" /\ UNCHANGED <<options, suite, entries, toolchain, offered>>
    BY <1>5 DEF WithoutBundle, VariablesRead
  <2>2. SuiteAccepted
    BY <2>1 DEF EnvironmentInv
  <2> QED BY <1>1, <2>1, <2>2
<1>6. ASSUME NEW v \in ToolchainVariables, ToolchainVariable(v) PROVE EnvironmentInv'
  <2>1. phase = "variables" /\ UNCHANGED <<options, suite, offered>> /\ SuiteAccepted
    BY <1>6 DEF ToolchainVariable, EnvironmentInv
  <2>2. CASE ~VariableAccepted(v)
    BY <1>1, <1>6, <2>1, <2>2 DEF ToolchainVariable
  <2>3. CASE VariableAccepted(v)
    <3> DEFINE value == Given(v)
               new == Insert(toolchain, v.name, value)
    <3>1. phase' = "variables" /\ entries' = entries \cup {v} /\ toolchain' = new
      BY <1>6, <2>1, <2>3 DEF ToolchainVariable
    <3> HIDE DEF value
    <3>2. DOMAIN new = DOMAIN toolchain \cup {v.name} /\ new[v.name] = value /\ \A k \in DOMAIN toolchain \ {v.name} : new[k] = toolchain[k]
      BY DEF Insert, Over
    <3>3. /\ ~Reserved(v.name) /\ v.name \notin DOMAIN toolchain
          /\ v.kind = "relative_path" => \E i \in DOMAIN offered : offered[i].path = v.value
      BY <2>3 DEF VariableAccepted
    <3>4. \A e \in entries :
            /\ e.name \in DOMAIN toolchain /\ toolchain[e.name] = Given(e) /\ ~Reserved(e.name)
            /\ e.kind = "relative_path" => \E i \in DOMAIN offered : offered[i].path = e.value
      BY DEF EnvironmentInv
    <3> HIDE DEF new
    <3> USE DEF value
    <3>5. \A e \in entries' :
            /\ e.name \in DOMAIN toolchain' /\ toolchain'[e.name] = Given(e) /\ ~Reserved(e.name)
            /\ e.kind = "relative_path" => \E i \in DOMAIN offered : offered[i].path = e.value
      BY <3>1, <3>2, <3>3, <3>4
    <3>6. \A n \in DOMAIN toolchain' : \E e \in entries' : e.name = n
      BY <3>1, <3>2 DEF EnvironmentInv
    <3>7. /\ \A o \in options : o.name \in DOMAIN suite /\ suite[o.name] = o
          /\ \A n \in DOMAIN suite : \E o \in options : o.name = n
      BY DEF EnvironmentInv
    <3>8. SuiteAccepted'
      BY <2>1 DEF SuiteAccepted
    <3> QED BY <2>1, <3>1, <3>5, <3>6, <3>7, <3>8 DEF EnvironmentInv
  <2> QED BY <2>2, <2>3
<1>7. CASE UNCHANGED environmentVars
  BY <1>1, <1>7 DEF environmentVars, EnvironmentInv
<1> QED BY <1>2, <1>3, <1>4, <1>5, <1>6, <1>7 DEF EnvironmentNext

\* What sanitized_env gives for a name.
LEMMA EnvironmentValues ==
  ASSUME EnvironmentInv, phase = "ready"
  PROVE  EnvironmentAsGiven
<1> DEFINE own == [n \in RunnerOwned |-> <<"runner">>]
           given == [n \in DOMAIN suite |-> suite[n].value]
           both == Over(given, toolchain)
<1>1. SanitizedEnv = Over(own, both)
  BY DEF SanitizedEnv
<1>2. DOMAIN own = RunnerOwned /\ DOMAIN given = DOMAIN suite /\ \A n \in DOMAIN suite : given[n] = suite[n].value
  OBVIOUS
<1> HIDE DEF own, given
<1>3. /\ DOMAIN both = DOMAIN suite \cup DOMAIN toolchain
      /\ \A n \in DOMAIN suite : both[n] = suite[n].value
      /\ \A n \in DOMAIN toolchain \ DOMAIN suite : both[n] = toolchain[n]
  BY <1>2 DEF Over
<1> HIDE DEF both
<1>4. DOMAIN SanitizedEnv = RunnerOwned \cup DOMAIN both /\ \A n \in DOMAIN both \ RunnerOwned : SanitizedEnv[n] = both[n]
  BY <1>1, <1>2 DEF Over
<1>5. /\ \A v \in options : v.name \in DOMAIN suite /\ suite[v.name] = v
      /\ \A n \in DOMAIN suite : ~Reserved(n) /\ \E v \in options : v.name = n
      /\ \A v \in entries : v.name \in DOMAIN toolchain /\ toolchain[v.name] = Given(v) /\ ~Reserved(v.name)
      /\ \A n \in DOMAIN toolchain : \E v \in entries : v.name = n
  BY DEF EnvironmentInv, SuiteAccepted
<1>6. \A n : ~Reserved(n) => n \notin RunnerOwned /\ n \notin BuckOwned
  BY DEF Reserved
<1>7. ASSUME NEW v \in options PROVE SanitizedEnv[v.name] = v.value
  <2>1. v.name \in DOMAIN suite /\ suite[v.name] = v /\ v.name \notin RunnerOwned
    BY <1>5, <1>6
  <2>2. both[v.name] = v.value /\ v.name \in DOMAIN both
    BY <1>3, <2>1
  <2> QED BY <1>4, <2>1, <2>2
<1>8. ASSUME NEW v \in entries PROVE SanitizedEnv[v.name] = Given(v) \/ \E s \in options : s.name = v.name
  <2>1. v.name \in DOMAIN toolchain /\ toolchain[v.name] = Given(v) /\ v.name \notin RunnerOwned
    BY <1>5, <1>6
  <2>2. CASE v.name \in DOMAIN suite
    BY <1>5, <2>2
  <2>3. CASE v.name \notin DOMAIN suite
    BY <1>3, <1>4, <2>1, <2>3
  <2> QED BY <2>2, <2>3
<1>9. ASSUME NEW v \in entries, v.kind = "relative_path" PROVE v.value \in {offered[i].path : i \in DOMAIN offered}
  BY <1>9 DEF EnvironmentInv
<1>10. RunnerOwned \cap BuckOwned = {}
  BY DEF RunnerOwned, BuckOwned
<1>11. \A n \in DOMAIN both : ~Reserved(n) /\ \E v \in options \cup entries : v.name = n
  BY <1>3, <1>5
<1>12. \A n \in DOMAIN SanitizedEnv : n \notin BuckOwned /\ (n \in RunnerOwned \/ \E v \in options \cup entries : v.name = n)
  BY <1>4, <1>6, <1>10, <1>11
<1> QED BY <1>7, <1>8, <1>9, <1>12 DEF EnvironmentAsGiven

\* Whatever variables the runner accepts, the tests see them as given
\* (validate_suite_environment, parse_bundle, sanitized_env).
THEOREM EnvironmentReachesTests == EnvironmentSpec => []EnvironmentAsGiven
<1>1. EnvironmentInv => EnvironmentAsGiven
  BY EnvironmentValues DEF EnvironmentAsGiven
<1> QED BY EnvironmentStarts, EnvironmentStep, <1>1, PTL DEF EnvironmentSpec
===============================================================================

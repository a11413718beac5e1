------------------------------ MODULE PrivateRoot ------------------------------
(***************************************************************************)
(* The private scratch root that the Buck test runner and the artifact     *)
(* adapter fill before they start nextest: a tree of directories and files *)
(* and the calls that make them (nextest_v2.rs, bin/nextest_buck_artifact  *)
(* .rs).  A path is the sequence of its '/'-separated components, so ""    *)
(* stands for a leading, trailing or doubled slash.                        *)
(***************************************************************************)
EXTENDS Naturals, Sequences, SequencesExt, FiniteSets, FiniteSetsExt

\* safe_relative and safe_path: normalized, relative, no backslash or NUL.
NoName == {"", "."}
SafePath(p) == p # <<>> /\ \A i \in DOMAIN p : p[i] \notin NoName \cup {"..", "backslash"}

\* overlaps: one path is the other or a directory above it.
Overlaps(p, q) == IsPrefix(p, q) \/ IsPrefix(q, p)

Distinct(s) == \A i, j \in DOMAIN s : s[i] = s[j] => i = j

\* A map with the entries of f over those of g, and a map's insert.
Over(f, g) == [x \in DOMAIN f \cup DOMAIN g |-> IF x \in DOMAIN f THEN f[x] ELSE g[x]]
Insert(f, key, value) == Over([x \in {key} |-> value], f)
-------------------------------------------------------------------------------
\* The private root as the calls leave it: a function from paths to Directory
\* or to what wrote the file; ok is FALSE once a call has failed.
Directory == <<"directory">>
EmptyRoot == [ok |-> TRUE, files |-> [p \in {<<>>} |-> Directory]]
PathsTo(p) == {SubSeq(p, 1, n) : n \in 0 .. Len(p)}
Failed(t) == [ok |-> FALSE, files |-> t.files]
IsFile(t, p) == p \in DOMAIN t.files /\ t.files[p] # Directory

\* ensure_dir, File::create or fs::write (which make no directory), and
\* copy_regular.
EnsureDir(t, p) ==
  IF \E q \in PathsTo(p) : IsFile(t, q) THEN Failed(t)
  ELSE [ok |-> t.ok, files |-> Over([q \in PathsTo(p) |-> Directory], t.files)]
CreateFile(t, p, by) ==
  IF Front(p) \in DOMAIN t.files /\ ~IsFile(t, Front(p)) /\ (p \in DOMAIN t.files => IsFile(t, p))
  THEN [ok |-> t.ok, files |-> Insert(t.files, p, by)] ELSE Failed(t)
CopyRegular(t, p, by) == LET made == EnsureDir(t, Front(p)) IN IF made.ok THEN CreateFile(made, p, by) ELSE made
Apply(t, c) ==
  IF ~t.ok THEN t
  ELSE IF c.call = "ensure_dir" THEN EnsureDir(t, c.path)
  ELSE IF c.call = "write" THEN CreateFile(t, c.path, c.by)
  ELSE CopyRegular(t, c.path, c.by)

Call(call, path, by) == [call |-> call, path |-> path, by |-> by]
Dir(path) == Call("ensure_dir", path, Directory)
===============================================================================

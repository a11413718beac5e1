---------------------------- MODULE ArtifactInputs ----------------------------
(***************************************************************************)
(* What the artifact adapter accepts and stages before it starts nextest   *)
(* (bin/nextest_buck_artifact.rs): the schema-v1 manifest, which the       *)
(* library validates too (manifest_v1.rs) and emit-manifest writes, the    *)
(* match of a bundle with the declared files, and the environment.         *)
(* ArtifactStaging puts them in order.                                     *)
(*                                                                         *)
(* The two validators of a manifest differ, and the adapter does not       *)
(* compare runtime inputs with the executable, or anything with the paths  *)
(* it writes itself: the properties state those differences and what       *)
(* follows from those comparisons that are missing.                        *)
(***************************************************************************)
EXTENDS PrivateRoot

\* A bug rel_path could have: ".." is not looked for.
TraversalKept(p) == p[1] \notin NoName /\ \A i \in DOMAIN p : p[i] # "backslash"

\* rel_path, and what Path makes of the spelling: empty and "." components
\* inside a path disappear.
RelPath(p) == p[1] \notin NoName /\ \A i \in DOMAIN p : p[i] \notin {"..", "backslash"}
Components(p) == SelectSeq(p, LAMBDA c : c \notin NoName)

\* paths_overlap, of components.
PathsOverlap(p, q) == p = q \/ Overlaps(p, q)

\* A path no spelling of which is longer.
Normalized(p) == \A i \in DOMAIN p : p[i] \notin NoName

\* The names validate_manifest keeps for the adapter, those the library
\* keeps too, and a name that is none; "" is a name to the binary, whose
\* check of all bytes has none to look at.
Pinned == {"PATH", "CARGO_HOME", "CARGO_TARGET_DIR", "CARGO_MANIFEST_DIR", "CARGO_NET_OFFLINE"}
Prefixed == {"BUCK2_NEXTEST_DISPATCH_ALLOWED", "BUCK2_NEXTEST_EXTRA"}
IllFormed == {"a-b"}

\* A value that holds a NUL.
WithNul == <<"nul">>

\* validate_manifest.  The records of a manifest have exactly the schema's
\* fields, or they are "loose": all of them, but one more somewhere, or a
\* list in a record's place; "missing" stands for a field that is absent,
\* mistyped or not the constant both validators ask for.  identity is the
\* fixed identity with its four cases, another one, or one without cases.
BinaryAccepts(m) ==
  /\ m.fields = "exact" /\ m.identity = "contract"
  /\ RelPath(m.executable) /\ RelPath(m.working_directory)
  /\ \A i \in DOMAIN m.runtime_inputs : RelPath(m.runtime_inputs[i])
  /\ Distinct(m.runtime_inputs)
  /\ DOMAIN m.environment \cap (IllFormed \cup Pinned \cup Prefixed) = {}

\* ManifestV1's fields as serde reads them, and ManifestV1::validate.
LibraryAccepts(m) ==
  /\ m.fields \in {"exact", "loose"} /\ m.identity \in {"contract", "other"}
  /\ SafePath(m.executable) /\ SafePath(m.working_directory)
  /\ \A i \in DOMAIN m.runtime_inputs : SafePath(m.runtime_inputs[i])
  /\ Distinct(m.runtime_inputs)
  /\ ~Overlaps(m.executable, m.working_directory)
  /\ DOMAIN m.environment \cap (IllFormed \cup {"", "PATH"} \cup Prefixed) = {}
  /\ \A n \in DOMAIN m.environment : m.environment[n] # WithNul

\* emit_manifest writes a manifest without test cases, and run_emit_manifest
\* puts in the fixed ones.
EmitAccepts(runtime_input) == SafePath(runtime_input)
Emitted(runtime_input) ==
  [fields |-> "exact", identity |-> "no_cases", executable |-> <<"bin", "buck2_nextest_rust_test">>,
   working_directory |-> <<"work">>, runtime_inputs |-> <<runtime_input>>,
   environment |-> [n \in {"BUCK2_ARTIFACT_RUNTIME"} |-> <<"declared">>]]

Patched(m) == [m EXCEPT !.identity = "contract"]
-------------------------------------------------------------------------------
\* bundle_source_matches and the search for it: the index of the first
\* declared resource that no earlier record used and whose path ends in the
\* source, 0 when there is none.
Candidates(source, declared, used) == {i \in DOMAIN declared \ used : IsSuffix(Components(source), declared[i])}
Pick(source, declared, used) ==
  IF Candidates(source, declared, used) = {} THEN 0 ELSE Min(Candidates(source, declared, used))

\* A bug the check could have: the runtime inputs are not looked at.
ExecutableOnly(m) == {m.executable}

\* What a bundle resource may not overlap.
ManifestDestinations(m) == {m.executable} \cup Range(m.runtime_inputs)
-------------------------------------------------------------------------------
\* env_for: the adapter's variables, then the manifest's with the bundle's
\* over them.  (The signal fixtures' variables and what the command inherits
\* are left out.)
AdapterSets == {"PATH", "HOME", "TMPDIR", "CARGO_NET_OFFLINE", "CARGO_TARGET_DIR", "CARGO_MANIFEST_DIR",
                "CARGO_HOME", "BUCK2_NEXTEST_DISPATCH_ALLOWED"}
BundleValue(v) == IF v.kind = "relative_path" THEN <<"scratch_root">> \o v.value ELSE v.value
BundleVariables(b) == [n \in {v.name : v \in Range(b.environment)} |->
                         BundleValue(CHOOSE v \in Range(b.environment) : v.name = n)]
EnvFor(m, b) == Over(Over(BundleVariables(b), m.environment), [n \in AdapterSets |-> <<"adapter">>])
-------------------------------------------------------------------------------
\* Two validators read the same manifest.  Of those the binary accepts the
\* library accepts exactly the ones whose paths are spelled normalized, whose
\* executable and working directory lie apart, and whose environment has
\* neither an empty name nor a NUL; of those the library accepts the binary
\* accepts exactly the ones without a foreign field, with the fixed identity
\* and without a name it pins.  And whatever emit-manifest writes, both accept
\* (validate_manifest, ManifestV1::validate, run_emit_manifest).
Strict(m) ==
  /\ \A p \in {m.executable, m.working_directory} \cup Range(m.runtime_inputs) : Normalized(p)
  /\ ~Overlaps(m.executable, m.working_directory)
  /\ \A n \in DOMAIN m.environment : n # "" /\ m.environment[n] # WithNul
Contractual(m) == m.fields = "exact" /\ m.identity = "contract" /\ DOMAIN m.environment \cap Pinned = {}
ManifestsAgreeOn(m) ==
  /\ BinaryAccepts(m) => (LibraryAccepts(m) <=> Strict(m))
  /\ LibraryAccepts(m) => (BinaryAccepts(m) <=> Contractual(m))
  /\ \A p \in Range(m.runtime_inputs) : EmitAccepts(p) =>
       BinaryAccepts(Patched(Emitted(p))) /\ LibraryAccepts(Patched(Emitted(p))) /\ ~LibraryAccepts(Emitted(p))
===============================================================================

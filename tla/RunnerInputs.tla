----------------------------- MODULE RunnerInputs -----------------------------
(***************************************************************************)
(* What the Buck test runner accepts and what it makes of it before it     *)
(* starts nextest: the identity of a schema-v2 record (manifest_v2.rs),    *)
(* the declared input a source names, the resources of the toolchain       *)
(* bundle, and the answer of nextest list (bin/nextest_buck_test.rs).      *)
(* RunnerStaging and RunnerEnvironment put them in order.                  *)
(*                                                                         *)
(* Text no property tells apart (labels, digests, platforms, how a name is *)
(* spelled) is one "sound" flag per record or item.                        *)
(***************************************************************************)
EXTENDS PrivateRoot

CONSTANTS Cwd,             \* BUCK_PROJECT_ROOT, where relative paths start
          BinaryName(_)    \* generated_name of a semantic id
-------------------------------------------------------------------------------
\* The semantic identity of a record.
Identity(r) == <<r.package, r.owner, r.binary>>

\* abs and source_for: the one declared input whose path ends in source.
Absolute(p) == Cwd \o p
Matches(source, declared) == {d \in {Absolute(declared[i]) : i \in DOMAIN declared} : IsSuffix(source, d)}
Resolved(source, declared) == Cardinality(Matches(source, declared)) = 1
SourceFor(source, declared) == CHOOSE d \in Matches(source, declared) : TRUE
-------------------------------------------------------------------------------
\* parse_bundle.  A resource goes to a path the runner does not write itself
\* and comes from the one declared resource its source names.
AdapterOwned(p) == p[1] \in {"workspace", "meta", "target", "manifest.json"}
ResourceAccepted(r, declared) ==
  /\ SafePath(r.source) /\ SafePath(r.path) /\ ~AdapterOwned(r.path)
  /\ r.sound /\ Resolved(r.source, declared)
ResourcesAccepted(b, declared) ==
  /\ Len(b) = Len(declared)
  /\ \A i \in DOMAIN b : ResourceAccepted(b[i], declared)
  /\ Distinct([i \in DOMAIN b |-> b[i].source])
  /\ Distinct([i \in DOMAIN b |-> b[i].path])
-------------------------------------------------------------------------------
\* validate_list: one document, whose suites are the expected ids, each with
\* the name, package and executable that were synthesized for it.
Expectation(rs, declared) ==
  {[key |-> Identity(r), id |-> Identity(r), name |-> BinaryName(Identity(r)), package |-> r.package,
    path |-> SourceFor(r.executable, declared)] : r \in Range(rs)}
ListAccepted(documents, expected) ==
  /\ Len(documents) = 1
  /\ {s.key : s \in documents[1]} = {e.key : e \in expected}
  /\ \A s \in documents[1] :
       s.id = s.key /\ \E e \in expected : e.key = s.key /\ s.name = e.name /\ s.package = e.package /\ s.path = e.path
===============================================================================

--------------------------- MODULE RunnerEnvironment ---------------------------
(***************************************************************************)
(* How the Buck test runner puts together the environment of the commands  *)
(* (bin/nextest_buck_test.rs, nextest_v2.rs): --suite-env options are read *)
(* into a map and validated when the line is complete, the variables of    *)
(* the toolchain bundle are validated one by one after its resources, and  *)
(* sanitized_env lays the two maps and the runner's own variables over one *)
(* another.  Anything refused ends the run.                                *)
(***************************************************************************)
EXTENDS RunnerInputs

CONSTANTS SuiteVariables,      \* what --suite-env may give
          ToolchainVariables,  \* the entries bundle_environment may have
          Toolchains,          \* the lists of resources the bundle may have
          ToolchainDeclared,   \* --bundle-resources, in order
          MaxVariables         \* bound on the options and entries together

VARIABLES phase,       \* where the runner is
          options,     \* the --suite-env options read
          suite,       \* suite_env: the option of each name
          offered,     \* the resources of the bundle
          entries,     \* the entries of bundle_environment read
          toolchain    \* the map parse_bundle returns

environmentVars == <<phase, options, suite, offered, entries, toolchain>>
-------------------------------------------------------------------------------
\* validate_suite_environment and parse_bundle's check of a name.
RunnerOwned == {"PATH", "HOME", "TMPDIR", "CARGO_HOME", "CARGO_TARGET_DIR", "CARGO_MANIFEST_DIR",
                "CARGO_NET_OFFLINE", "CARGO_NET_GIT_FETCH_WITH_CLI"}
BuckOwned == {"BUCK2_NEXTEST_JUNIT_DIR", "BUCK2_NEXTEST_EXTRA"}      \* the names with the prefix

\* A bug the check could have: one variable of the runner's own is missing.
MostReserved(name) == name \in (RunnerOwned \ {"TMPDIR"}) \cup BuckOwned
Reserved(name) == name \in RunnerOwned \cup BuckOwned

SuiteAccepted == \A n \in DOMAIN suite : ~Reserved(n) /\ suite[n].sound

\* The check of one entry: a literal, or the path of a resource.
VariableAccepted(v) ==
  /\ ~Reserved(v.name) /\ v.sound /\ v.name \notin DOMAIN toolchain
  /\ v.kind = "relative_path" => SafePath(v.value) /\ \E i \in DOMAIN offered : offered[i].path = v.value

\* A path is given as a path below the root.
Given(v) == IF v.kind = "relative_path" THEN <<"scratch_root">> \o v.value ELSE v.value

\* sanitized_env: an empty environment, then the bundle's variables, the
\* suite's, and the runner's own last.
SanitizedEnv == Over([n \in RunnerOwned |-> <<"runner">>], Over([n \in DOMAIN suite |-> suite[n].value], toolchain))
-------------------------------------------------------------------------------
EnvironmentInit ==
  /\ phase = "options"
  /\ options = {} /\ suite = <<>>
  /\ offered = <<>>
  /\ entries = {} /\ toolchain = <<>>

Room == Cardinality(options) + Cardinality(entries) < MaxVariables

\* The arm of parse for --suite-env: a name given twice is refused.
SuiteOption(v) ==
  /\ phase = "options" /\ Room
  /\ IF v.name \in DOMAIN suite
     THEN phase' = "refused" /\ UNCHANGED <<options, suite>>
     ELSE phase' = phase /\ options' = options \cup {v} /\ suite' = Insert(suite, v.name, v)
  /\ UNCHANGED <<offered, entries, toolchain>>

ValidateSuite ==
  /\ phase = "options"
  /\ phase' = IF SuiteAccepted THEN "bundle" ELSE "refused"
  /\ UNCHANGED <<options, suite, offered, entries, toolchain>>

\* parse_bundle: the resources, then one turn for each variable, or no
\* bundle at all.
ParseResources(b) ==
  /\ phase = "bundle"
  /\ IF ResourcesAccepted(b, ToolchainDeclared)
     THEN phase' = "variables" /\ offered' = b
     ELSE phase' = "refused" /\ UNCHANGED offered
  /\ UNCHANGED <<options, suite, entries, toolchain>>
WithoutBundle == phase = "bundle" /\ phase' = "ready" /\ UNCHANGED <<options, suite, offered, entries, toolchain>>

ToolchainVariable(v) ==
  /\ phase = "variables" /\ Room
  /\ IF VariableAccepted(v)
     THEN phase' = phase /\ entries' = entries \cup {v} /\ toolchain' = Insert(toolchain, v.name, Given(v))
     ELSE phase' = "refused" /\ UNCHANGED <<entries, toolchain>>
  /\ UNCHANGED <<options, suite, offered>>
VariablesRead == phase = "variables" /\ phase' = "ready" /\ UNCHANGED <<options, suite, offered, entries, toolchain>>

EnvironmentNext ==
  \/ \E v \in SuiteVariables : SuiteOption(v)
  \/ ValidateSuite
  \/ \E b \in Toolchains : ParseResources(b)
  \/ WithoutBundle
  \/ \E v \in ToolchainVariables : ToolchainVariable(v)
  \/ VariablesRead

EnvironmentSpec == EnvironmentInit /\ [][EnvironmentNext]_environmentVars
-------------------------------------------------------------------------------
\* What was accepted reaches the tests as it was given: the suite's variables
\* all, the bundle's where the suite says nothing, a bundle path only to a
\* staged resource, nothing anyone else named, and no one but the runner sets
\* the runner's own or names Buck's (validate_suite_environment,
\* parse_bundle, sanitized_env).
EnvironmentAsGiven ==
  phase = "ready" =>
    /\ \A v \in options : SanitizedEnv[v.name] = v.value
    /\ \A v \in entries :
         \/ SanitizedEnv[v.name] = Given(v)
         \/ \E s \in options : s.name = v.name
    /\ \A v \in entries : v.kind = "relative_path" => v.value \in {offered[i].path : i \in DOMAIN offered}
    /\ \A n \in DOMAIN SanitizedEnv : n \notin BuckOwned
    /\ \A n \in DOMAIN SanitizedEnv : n \in RunnerOwned \/ \E v \in options \cup entries : v.name = n
===============================================================================

----------------------------- MODULE CommandLines -----------------------------
(***************************************************************************)
(* What the command lines of the programs are made of: the arguments, and  *)
(* what each of the adapter's programs takes (adapter/src/bin: the runner, *)
(* the artifact adapter and the contract tool, which Buck rules start).    *)
(* What the properties do not tell apart is a member of a small set: a     *)
(* value is one that parses or one that does not, in range or not.         *)
(* AdapterLine and ExecutorLine read lines of these arguments.             *)
(***************************************************************************)
EXTENDS Integers, Sequences, SequencesExt, FiniteSets, FiniteSetsExt, TLC

\* An argument is a text, or a number when it parses as one.
Text(t) == [text |-> t, number |-> -1]
Number(n) == [text |-> "", number |-> n]
IsNumber(a) == a.number >= 0
Is(a, t) == a = Text(t)
Dashed(a) == a \in {Text(t) : t \in {"--", "--buck-trace-id", "--config-entry", "--executor-fd", "--orchestrator-fd",
  "--executor-addr", "--orchestrator-addr", "--buck-test-info", "--timeout", "--junit-dir", "--manifest", "--record-count",
  "--declared-input", "--suite-env", "--cargo-nextest-argv", "--end-argv", "--bundle-json", "--bundle-resources",
  "--end-bundle-resources", "--profile", "--filter", "--no-tests", "--report-skipped", "--timeout-seconds",
  "--build-mode", "--artifact", "--junit-report", "--runtime-resource", "--help", "--unknown", "--cargo-baseline",
  "--binary-baseline", "--tests-baseline", "--runtime-environment", "--target-triple", "--output", "--runtime-input",
  "--runtime-source"}}

\* An argument that is no UTF-8; for the executor also one with a NUL.
Unreadable == Text("unreadable")
-------------------------------------------------------------------------------
\* A program is described by the options it takes once (flagged: those it
\* remembers with a flag of their own), those of which the last counts, those
\* of which all do, and the modes of which it takes one; by the words that
\* stand alone and the options with a list behind them; by what is pushed
\* onto a vector; by the options whose value is a number or must be UTF-8;
\* by whether a value may begin with "--", the vector of resources may be
\* empty and --help is asked for first.
Controls == {"--profile", "--filter", "--no-tests", "--report-skipped", "--timeout-seconds"}
Lists == {"--cargo-nextest-argv", "--bundle-resources"}
EndOf == [o \in Lists |-> IF o = "--cargo-nextest-argv" THEN "--end-argv" ELSE "--end-bundle-resources"]

RunnerLine ==
  [once |-> {"--manifest", "--record-count", "--cargo-nextest-argv", "--bundle-json", "--bundle-resources"} \cup Controls,
   flagged |-> {"--bundle-resources"} \cup Controls,
   last |-> {}, all |-> {"--declared-input", "--suite-env"}, modes |-> {}, flags |-> {}, lists |-> Lists,
   pushed |-> {"--declared-input", "--bundle-resources"},
   numbers |-> {"--record-count", "--timeout-seconds"}, texts |-> {"--suite-env", "--bundle-json"} \cup Controls,
   dashedValues |-> FALSE, emptyResources |-> TRUE, help |-> TRUE]
ContractLine ==
  [once |-> {"--manifest", "--record-count"}, flagged |-> {}, last |-> {}, all |-> {"--declared-input"},
   modes |-> {}, flags |-> {}, lists |-> {}, pushed |-> {"--declared-input"},
   numbers |-> {"--record-count"}, texts |-> {}, dashedValues |-> FALSE, emptyResources |-> TRUE, help |-> FALSE]
ArtifactLine ==
  [once |-> {"--build-mode", "--artifact", "--manifest", "--junit-report", "--cargo-nextest-argv", "--runtime-resource",
             "--output", "--runtime-input", "--runtime-source"},
   flagged |-> {},
   last |-> Controls \cup {"--cargo-baseline", "--binary-baseline", "--tests-baseline", "--bundle-json",
                           "--runtime-environment", "--target-triple"},
   all |-> {"--bundle-resources"}, modes |-> {"buck-artifact", "emit-manifest", "digest"},
   flags |-> {"buck-artifact", "emit-manifest", "--build-mode"}, lists |-> Lists, pushed |-> {"--bundle-resources"},
   numbers |-> {"--timeout-seconds"},
   texts |-> Controls \cup {"--bundle-json", "--runtime-input", "--runtime-environment", "--target-triple"},
   dashedValues |-> TRUE, emptyResources |-> FALSE, help |-> TRUE]
Takes == [runner |-> RunnerLine, contract |-> ContractLine, artifact |-> ArtifactLine]
Known(p) == p.once \cup p.last \cup p.all \cup p.modes

\* What a program needs to go on.
Required ==
  [runner |-> {"--manifest", "--record-count", "--cargo-nextest-argv"},
   contract |-> {"--manifest", "--record-count", "--declared-input"},
   artifact |-> {"buck-artifact", "--artifact", "--manifest", "--junit-report", "--cargo-baseline", "--binary-baseline",
                 "--tests-baseline", "--build-mode", "--cargo-nextest-argv", "--bundle-json", "--bundle-resources",
                 "--runtime-resource"}]

\* validate_controls, and the same checks at the start of run_buck_artifact.
SoundValue(o, a) ==
  \/ o = "--filter" /\ ~Is(a, "")
  \/ o = "--profile" /\ a \in {Text("ci"), Text("p_1")}
  \/ o = "--no-tests" /\ a \in {Text("auto"), Text("pass"), Text("warn"), Text("fail")}
  \/ o = "--report-skipped" /\ a \in {Text("default"), Text("ignored")}
  \/ o = "--timeout-seconds" /\ a.number <= 86400
===============================================================================

------------------------------- MODULE MCInputs -------------------------------
(***************************************************************************)
(* What the programs read before they start anything, each over all        *)
(* bounded inputs.  Of the seven that are read step by step (ReportNames,  *)
(* JunitXml, RunnerStaging, RunnerEnvironment, ArtifactStaging,            *)
(* ExecutorLine, AdapterLine) one takes its steps and the others stay      *)
(* where they begin.                                                       *)
(***************************************************************************)
EXTENDS ReportNames, JunitXml, RunnerStaging, RunnerEnvironment, ArtifactStaging, ExecutorLine, AdapterLine

CONSTANTS MaxRounds, MaxIdentities

VARIABLES kind,      \* which of them takes its steps
          needs      \* whether a line begins with what its program needs

mcVars == <<kind, needs>>
vars == <<mcVars, nameVars, xmlVars, stagingVars, environmentVars, artifactVars, lineVars, optionVars>>
-------------------------------------------------------------------------------
\* BUCK_PROJECT_ROOT, then the alphabets.
Project == <<"root">>

\* "", "p", "P", "/" and a Greek letter.
Texts == {<<>>, <<112>>, <<80>>, <<47>>, <<206, 177>>}
AnIdentity == {<<cell, package, target, <<103>>>> : cell \in Texts, package \in Texts, target \in {<<>>, <<116>>}}

StagedRecords ==
  [package : {"A", "B"}, owner : {"o"}, binary : {"b1", "b2"}, executable : {<<"a", "x">>, <<"x">>, <<"y">>},
   cwd : {<<"p">>, <<"p", "src">>, <<"Cargo.toml">>, <<".config">>}, sound : {TRUE}]
StagedInputs == <<<<"a", "x">>, <<"y">>>>
Resources ==
  [source : {<<"x">>, <<"l", "x">>, <<"y">>},
   path : {<<"lib">>, <<"lib", "x">>, <<"home">>, <<"meta", "x">>}, sound : {TRUE}]
BundleLists == BoundedSeq(Resources, 2)
StagedDeclared == <<<<"l", "x">>, <<"y">>>>
NameOf(id) == "test " \o id[1] \o " " \o id[2] \o " " \o id[3]

VariableNames == {"HOME", "TMPDIR", "FOO", "BAR", "BUCK2_NEXTEST_EXTRA"}
SuiteItems == [name : VariableNames, value : {<<"v">>, <<"w">>}, sound : {TRUE}]
BundleItems == [name : VariableNames, kind : {"literal", "relative_path"}, value : {<<"v">>, <<"lib", "x">>}, sound : {TRUE}]
EnvironmentDeclared == <<<<"l", "x">>>>
EnvironmentBundles ==
  {<<[source |-> <<"l", "x">>, path |-> p, sound |-> TRUE]>> : p \in {<<"lib", "x">>, <<"lib">>, <<"meta">>}} \cup {<<>>}

\* Manifests whose staging differs, then manifests the validators tell apart.
AdapterManifests ==
  [fields : {"exact"}, identity : {"contract"},
   executable : {<<"bin", "t">>, <<"bin", "", "t">>, <<"t", "">>, <<"workspace", "Cargo.toml">>, Dispatched},
   working_directory : {<<"work">>, <<"bin", ".">>},
   runtime_inputs : {<<>>, <<<<"r">>>>, <<<<"r", "x">>>>, <<<<"bin", "t">>>>, <<<<"r", "", "x">>, <<"r", "x">>, <<"probe.log">>>>},
   environment : {<<>>}]
  \cup
  [fields : {"exact", "loose", "missing"}, identity : {"contract", "other", "no_cases"},
   executable : {<<"bin", "t">>, <<"bin", "", "t">>, <<"work", "t">>}, working_directory : {<<"work">>},
   runtime_inputs : {<<>>, <<<<"r">>, <<"r">>>>, <<<<"..", "r">>>>},
   environment : {<<>>, [n \in {"FOO"} |-> WithNul]}
                 \cup UNION {[{n} -> {<<"m">>}] : n \in {"", "a-b", "HOME", "PATH", "BUCK2_NEXTEST_DISPATCH_ALLOWED"}}]
AdapterResources ==
  [source : {<<"x">>, <<"l", "x">>},
   path : {<<"lib">>, <<"lib", "x">>, <<"lib", "", "x">>, <<"r", "x">>, <<"bin">>, <<"meta", "tests-metadata.json">>},
   digest : {<<"l", "x">>, <<"k", "x">>}]
AdapterVariables == [name : {"FOO", "PATH"}, kind : {"literal", "relative_path"}, value : {<<"lib">>}]
AdapterDeclared == {<<<<"l", "x">>>>, <<<<"l", "x">>, <<"y">>>>, <<<<"l", "x">>, <<"k", "x">>>>}

Option1(o, v) == [option |-> o, values |-> <<v>>, ended |-> FALSE]
Word(o) == [option |-> o, values |-> <<>>, ended |-> FALSE]
Listed(o, vs) == [option |-> o, values |-> vs, ended |-> TRUE]
Suite(n, v) == [option |-> "--suite-env", values |-> <<n, v>>, ended |-> FALSE]
ControlRounds ==
  {Option1("--profile", Text("ci")), Option1("--profile", Text("a/b")), Option1("--filter", Text("")),
   Option1("--no-tests", Text("pass")), Option1("--report-skipped", Text("all")),
   Option1("--timeout-seconds", Number(5)), Option1("--timeout-seconds", Number(86401)), Option1("--timeout-seconds", Text("x"))}
SharedRounds ==
  {Option1("--manifest", Text("m")), Option1("--manifest", Text("n")), Option1("--manifest", Unreadable), Word("--unknown")}
BundleRounds ==
  {Listed("--cargo-nextest-argv", <<Text("c")>>), Listed("--cargo-nextest-argv", <<>>), Word("--cargo-nextest-argv"),
   Listed("--cargo-nextest-argv", <<Text("two\nlines")>>), Listed("--bundle-resources", <<Text("r")>>),
   Listed("--bundle-resources", <<>>), Option1("--bundle-json", Text("b")), Option1("--bundle-json", Unreadable)}
RecordRounds ==
  {Option1("--record-count", Number(1)), Option1("--record-count", Text("x")), Word("--record-count"),
   Option1("--declared-input", Text("a")), Option1("--declared-input", Text("b")), Option1("--declared-input", Text("--manifest"))}
SuiteRounds == {Suite(Text("A"), Text("v")), Suite(Text("A"), Text("w")), Suite(Text("B"), Text("v")), Option1("--suite-env", Text("A"))}
ArtifactRounds ==
  {Word("buck-artifact"), Word("emit-manifest"), Option1("digest", Text("f")), Word("--build-mode"),
   Option1("--artifact", Text("a")), Option1("--junit-report", Text("--artifact"))}
ArtifactNeeds ==
  <<Word("buck-artifact"), Word("--build-mode"), Listed("--cargo-nextest-argv", <<Text("c")>>),
    Listed("--bundle-resources", <<Text("r")>>)>>
  \o [i \in 1 .. 8 |-> Option1(<<"--artifact", "--manifest", "--junit-report", "--cargo-baseline", "--binary-baseline",
                                "--tests-baseline", "--bundle-json", "--runtime-resource">>[i], Text("v"))]
LineRounds ==
  [runner |-> SharedRounds \cup RecordRounds \cup SuiteRounds \cup BundleRounds \cup ControlRounds,
   contract |-> SharedRounds \cup RecordRounds \cup {Word("--help")},
   artifact |-> SharedRounds \cup BundleRounds \cup ControlRounds \cup ArtifactRounds \cup Range(ArtifactNeeds)]
\* The options a program needs.
Needed ==
  [runner |-> <<Option1("--manifest", Text("m")), Option1("--record-count", Number(1)), Listed("--cargo-nextest-argv", <<Text("c")>>)>>,
   contract |-> <<Option1("--manifest", Text("m")), Option1("--record-count", Number(1)), Option1("--declared-input", Text("a"))>>,
   artifact |-> ArtifactNeeds]

ExecutorWords == {"--buck-trace-id", "--config-entry", "--executor-fd", "--orchestrator-fd", "--executor-addr",
                  "--orchestrator-addr", "--", "--buck-test-info", "--timeout", "--junit-dir"}
ExecutorValues == {"ignored", "", "unreadable", "/out/junit", "127.0.0.1:1", "127.0.0.1:2", "10.0.0.1:1"}
ExecutorArguments ==
  {Text(t) : t \in ExecutorWords \cup ExecutorValues}
  \cup {Number(n) : n \in {0, I32Max, I64Max, I64Max + 1, U64Max + 1}}
-------------------------------------------------------------------------------
Init ==
  /\ kind \in {"names", "environment", "document", "staging", "artifact", "executor line", "line"}
  /\ needs \in IF kind = "line" THEN BOOLEAN ELSE {FALSE}
  /\ NamesInit /\ XmlInit /\ StagingInit /\ EnvironmentInit /\ ArtifactInit /\ LineInit /\ OptionsInit
  /\ kind # "line" => program = "runner"

MeetIdentity ==
  /\ kind = "names"
  /\ Cardinality(named \cup duplicates) < MaxIdentities
  /\ NamesNext
  /\ UNCHANGED <<mcVars, xmlVars, stagingVars, environmentVars, artifactVars, lineVars, optionVars>>
ReadDocument ==
  kind = "document" /\ XmlNext /\ UNCHANGED <<mcVars, nameVars, stagingVars, environmentVars, artifactVars, lineVars, optionVars>>
Stage ==
  kind = "staging" /\ StagingNext /\ UNCHANGED <<mcVars, nameVars, xmlVars, environmentVars, artifactVars, lineVars, optionVars>>
MakeEnvironment ==
  kind = "environment" /\ EnvironmentNext /\ UNCHANGED <<mcVars, nameVars, xmlVars, stagingVars, artifactVars, lineVars, optionVars>>
StageArtifact ==
  kind = "artifact" /\ ArtifactNext /\ UNCHANGED <<mcVars, nameVars, xmlVars, stagingVars, environmentVars, lineVars, optionVars>>
\* The trace id and the entries go unused: a few values stand for all.
UnusedValues == {Text(t) : t \in {"ignored", "", "unreadable", "--", "--timeout"}} \cup {Number(0)}
ReadLine ==
  /\ kind = "executor line" /\ LineNext
  /\ option \in {"--buck-trace-id", "--config-entry"} => Last(line') \in UnusedValues
  /\ UNCHANGED <<mcVars, nameVars, xmlVars, stagingVars, environmentVars, artifactVars, optionVars>>
\* A line that begins with the needed options goes on for a round less.
ReadOptions ==
  /\ kind = "line" /\ OptionsNext
  /\ Len(rounds') <= IF needs THEN Len(Needed[program]) + MaxRounds - 1 ELSE MaxRounds
  /\ needs /\ rounds' # rounds /\ Len(rounds) < Len(Needed[program]) => Last(rounds') = Needed[program][Len(rounds')]
  /\ UNCHANGED <<mcVars, nameVars, xmlVars, stagingVars, environmentVars, artifactVars, lineVars>>

Next ==
  \/ MeetIdentity \/ ReadDocument \/ Stage \/ MakeEnvironment \/ StageArtifact \/ ReadLine
  \/ ReadOptions
Spec == Init /\ [][Next]_vars
===============================================================================

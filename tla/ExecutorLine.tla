----------------------------- MODULE ExecutorLine -----------------------------
(***************************************************************************)
(* How the executor reads the command line Buck starts it with             *)
(* (executor/src/cli.rs), one argument at a time, and what it makes of it  *)
(* (transport.rs, orchestrator.rs).  place is where parse is and option    *)
(* the option whose value comes next; an Option of the code is a sequence. *)
(***************************************************************************)
EXTENDS CommandLines

CONSTANTS Arguments,                  \* the arguments a line may have
          I32Max, I64Max, U64Max,     \* the integer ranges of descriptors and the timeout
          MaxEntries                  \* bound on --config-entry

ASSUME WidthsAssumption == I32Max \in Nat /\ I64Max \in Nat /\ U64Max \in Nat
ASSUME ArgumentsAssumption == Arguments \subseteq [text : STRING, number : Int]

VARIABLES line,            \* the arguments read
          place, option,
          traceId, configEntries,
          ends,            \* the transport's executor and orchestrator ends
          words,           \* how many of the fixed words were read
          timeout, junitDir

parsed == <<traceId, configEntries, ends, words, timeout, junitDir>>
lineVars == <<line, place, option, parsed>>
-------------------------------------------------------------------------------
\* What may stand for a value (take_value), for a descriptor, and for an
\* address.
NoText == Text("")
Value(a) == ~Dashed(a) /\ a # Unreadable
Descriptor(a) == a.number \in 0 .. I32Max
Loopback == {Text("127.0.0.1:1"), Text("127.0.0.1:2")}
Address == Loopback \cup {Text("10.0.0.1:1")}

\* The words between the transport and the executor's own options.
FixedWords == <<Text("--"), Text("ignored"), Text("--buck-test-info"), Text("ignored")>>

\* A bug the check could have: the bound of the type that parses the value.
AnyU64(n) == n \in 0 .. U64Max
TimeoutFits(n) == n \in 0 .. U64Max /\ n <= I64Max
-------------------------------------------------------------------------------
LineInit ==
  /\ line = <<>> /\ place = "preamble" /\ option = "none"
  /\ traceId = <<>> /\ configEntries = <<>> /\ ends = <<>>
  /\ words = 0 /\ timeout = <<>> /\ junitDir = <<>>

\* Argument a is read; parse goes on at p and wants the value of o.
Advance(a, p, o) == line' = Append(line, a) /\ place' = p /\ option' = o
RefuseArgument(a) == Advance(a, "refused", "none") /\ UNCHANGED parsed

\* The options each place takes, most of them once.  A transport's second
\* end is of the kind of its first.
OptionFits(a) ==
  \/ place = "preamble" /\ \/ Is(a, "--buck-trace-id") /\ traceId = <<>>
                           \/ a \in {Text(o) : o \in {"--config-entry", "--executor-fd", "--executor-addr"}}
  \/ place = "transport" /\ Is(a, IF Descriptor(ends[1]) THEN "--orchestrator-fd" ELSE "--orchestrator-addr")
  \/ place = "options" /\ \/ Is(a, "--timeout") /\ timeout = <<>>
                          \/ Is(a, "--junit-dir") /\ junitDir = <<>>

ReadOption(a) ==
  /\ option = "none" /\ place \in {"preamble", "transport", "options"}
  /\ Is(a, "--config-entry") => Len(configEntries) < MaxEntries
  /\ \/ OptionFits(a) /\ Advance(a, place, a.text) /\ UNCHANGED parsed
     \/ ~OptionFits(a) /\ RefuseArgument(a)

\* The values each option takes.  The trace id is asked for when the
\* transport is complete.
ValueFits(a) ==
  /\ Value(a)
  /\ \/ option = "--buck-trace-id" /\ a # NoText
     \/ option = "--config-entry"
     \/ option = "--executor-fd" /\ Descriptor(a)
     \/ option = "--executor-addr" /\ a \in Address
     \/ option = "--orchestrator-fd" /\ Descriptor(a) /\ a # ends[1] /\ traceId # <<>>
     \/ option = "--orchestrator-addr" /\ a # ends[1] /\ {ends[1], a} \subseteq Loopback /\ traceId # <<>>
     \/ option = "--timeout" /\ TimeoutFits(a.number)
     \/ option = "--junit-dir" /\ Is(a, "/out/junit")

ReadTraceId(a) ==
  /\ option = "--buck-trace-id" /\ ValueFits(a)
  /\ Advance(a, "preamble", "none")
  /\ traceId' = <<a>>
  /\ UNCHANGED <<configEntries, ends, words, timeout, junitDir>>
ReadConfigEntry(a) ==
  /\ option = "--config-entry" /\ ValueFits(a)
  /\ Advance(a, "preamble", "none")
  /\ configEntries' = Append(configEntries, a)
  /\ UNCHANGED <<traceId, ends, words, timeout, junitDir>>
ReadExecutorEnd(a) ==
  /\ option \in {"--executor-fd", "--executor-addr"} /\ ValueFits(a)
  /\ Advance(a, "transport", "none")
  /\ ends' = <<a>>
  /\ UNCHANGED <<traceId, configEntries, words, timeout, junitDir>>
ReadOrchestratorEnd(a) ==
  /\ option \in {"--orchestrator-fd", "--orchestrator-addr"} /\ ValueFits(a)
  /\ Advance(a, "words", "none")
  /\ ends' = <<ends[1], a>>
  /\ UNCHANGED <<traceId, configEntries, words, timeout, junitDir>>
ReadTimeout(a) ==
  /\ option = "--timeout" /\ ValueFits(a)
  /\ Advance(a, "options", "none")
  /\ timeout' = <<a.number>>
  /\ UNCHANGED <<traceId, configEntries, ends, words, junitDir>>
ReadJunitDir(a) ==
  /\ option = "--junit-dir" /\ ValueFits(a)
  /\ Advance(a, "options", "none")
  /\ junitDir' = <<a>>
  /\ UNCHANGED <<traceId, configEntries, ends, words, timeout>>
RefuseValue(a) == option # "none" /\ ~ValueFits(a) /\ RefuseArgument(a)

ReadWord(a) ==
  /\ place = "words"
  /\ \/ /\ a = FixedWords[words + 1]
        /\ Advance(a, IF words = 3 THEN "options" ELSE "words", "none")
        /\ words' = words + 1
        /\ UNCHANGED <<traceId, configEntries, ends, timeout, junitDir>>
     \/ a # FixedWords[words + 1] /\ RefuseArgument(a)

LineNext ==
  \E a \in Arguments :
    \/ ReadOption(a) \/ ReadTraceId(a) \/ ReadConfigEntry(a) \/ ReadExecutorEnd(a) \/ ReadOrchestratorEnd(a)
    \/ ReadWord(a) \/ ReadTimeout(a) \/ ReadJunitDir(a) \/ RefuseValue(a)

LineSpec == LineInit /\ [][LineNext]_lineVars
-------------------------------------------------------------------------------
\* parse returns Ok when the line ends here.
Accepted == place = "options" /\ option = "none" /\ junitDir # <<>>

\* connect: which end speaks which protocol.
Connect == [executor |-> ends[1], orchestrator |-> ends[2]]

\* The cast of orchestrator.rs: a u64 read as an i64 of the same width.
AsI64(n) == IF n <= I64Max THEN n ELSE n - (U64Max + 1)
-------------------------------------------------------------------------------
\* Buck's line without a loop: p pairs of trace id and config entries, one
\* of them the trace id, then a transport, the fixed words and the
\* executor's options, k pairs in all.
PreamblePair(o, v) == Value(v) /\ \/ Is(o, "--buck-trace-id") /\ v # NoText
                                  \/ Is(o, "--config-entry")
Transport(e, a, o, b) ==
  /\ a # b
  /\ \/ Is(e, "--executor-fd") /\ Is(o, "--orchestrator-fd") /\ Descriptor(a) /\ Descriptor(b)
     \/ Is(e, "--executor-addr") /\ Is(o, "--orchestrator-addr") /\ {a, b} \subseteq Loopback
OptionPair(o, v) ==
  \/ Is(o, "--timeout") /\ v.number \in 0 .. U64Max /\ AsI64(v.number) >= 0
  \/ Is(o, "--junit-dir") /\ Is(v, "/out/junit")
BucksLineAt(l, p, k) ==
  /\ Len(l) = 2 * k /\ p + 5 <= k
  /\ \A i \in 1 .. p : PreamblePair(l[2 * i - 1], l[2 * i])
  /\ \E i \in 1 .. p : \A j \in 1 .. p : Is(l[2 * j - 1], "--buck-trace-id") <=> i = j
  /\ Transport(l[2 * p + 1], l[2 * p + 2], l[2 * p + 3], l[2 * p + 4])
  /\ \A i \in 1 .. 4 : l[2 * p + 4 + i] = FixedWords[i]
  /\ \A i \in (p + 5) .. k : OptionPair(l[2 * i - 1], l[2 * i])
  /\ \A i, j \in (p + 5) .. k : l[2 * i - 1] = l[2 * j - 1] => i = j
  /\ \E i \in (p + 5) .. k : Is(l[2 * i - 1], "--junit-dir")
BucksLine(l) == \E p, k \in 0 .. Len(l) : BucksLineAt(l, p, k)

\* What the executor goes on with: the value behind each option.
Behind(o, v) == \A i \in DOMAIN line : Is(line[i], o) => i < Len(line) /\ line[i + 1] = v
TakenAsGiven ==
  /\ Behind("--executor-fd", Connect.executor) /\ Behind("--executor-addr", Connect.executor)
  /\ Behind("--orchestrator-fd", Connect.orchestrator) /\ Behind("--orchestrator-addr", Connect.orchestrator)
  /\ Behind("--junit-dir", junitDir[1])
  /\ timeout # <<>> => AsI64(timeout[1]) \in 0 .. I64Max
  /\ \A i \in DOMAIN line : Is(line[i], "--timeout") => timeout = <<line[i + 1].number>>

\* The executor takes exactly the lines Buck writes, and goes on with the
\* values they give; the timeout is not negative as the i64 the request
\* carries (parse, connect, Orchestrator::process).
ExecutorLineIsBucks == (Accepted <=> BucksLine(line)) /\ (Accepted => TakenAsGiven)
===============================================================================

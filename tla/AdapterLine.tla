----------------------------- MODULE AdapterLine ------------------------------
(***************************************************************************)
(* How the adapter's programs read their command lines: the loop of parse, *)
(* one round at a time.  A round is the option it meets and the arguments  *)
(* that take_value or take_vec take for it, fewer when the line ends       *)
(* there.  given and seen are the struct Args and the flags of the loop.   *)
(***************************************************************************)
EXTENDS CommandLines

CONSTANT Rounds    \* the rounds that the line of each program may have

\* The arguments that an option has behind it, unless it has a list.
Wanted(p, o) == IF o \in p.flags \/ o \notin Known(p) THEN 0 ELSE IF o = "--suite-env" THEN 2 ELSE 1

\* How a line is cut into rounds: a list ends at its end marker, and where
\* the program has --help, a line with one is not cut.
WellCut(p, r) ==
  /\ IF r.option \in p.lists THEN \A i \in DOMAIN r.values : ~Is(r.values[i], EndOf[r.option])
     ELSE Len(r.values) <= Wanted(p, r.option)
  /\ p.help => Text("--help") \notin {Text(r.option)} \cup Range(r.values)
ASSUME RoundsAssumption ==
  \A n \in DOMAIN Takes : \A r \in Rounds[n] :
    r \in [option : STRING, values : Seq([text : STRING, number : Int]), ended : BOOLEAN] /\ WellCut(Takes[n], r)

VARIABLES program,     \* which of the programs reads
          rounds,      \* the rounds made
          given,       \* the fields of Args: none, a value, or what was pushed
          seen,        \* the _seen flags that are set
          suiteEnv,    \* suite_env: the names with their values
          outcome      \* "reading", "refused" or "usage"

optionVars == <<program, rounds, given, seen, suiteEnv, outcome>>
Program == Takes[program]
-------------------------------------------------------------------------------
\* What take_value, take_vec and the conversions behind them let pass.
ItemFits(o, a) == o = "--cargo-nextest-argv" => ~Is(a, "two\nlines")
ArgumentFits(p, o, a) ==
  /\ Dashed(a) => p.dashedValues
  /\ o \in p.numbers => IsNumber(a)
  /\ o \in p.texts => a # Unreadable
RoundFits(p, r) ==
  /\ r.option \in Known(p)
  /\ IF r.option \in p.lists THEN r.ended /\ \A i \in DOMAIN r.values : ItemFits(r.option, r.values[i])
     ELSE Len(r.values) = Wanted(p, r.option) /\ \A i \in DOMAIN r.values : ArgumentFits(p, r.option, r.values[i])

\* A bug the flags are there against: an option counts as given when its
\* field is not empty, and the list of resources may be.
AgainWhenNotEmpty(o) ==
  \/ o \in Program.once /\ given[o] # <<>>
  \/ o \in Program.modes /\ \E m \in Program.modes : given[m] # <<>>
Again(o) ==
  \/ o \in Program.once /\ (IF o \in Program.flagged THEN o \in seen ELSE given[o] # <<>>)
  \/ o \in Program.modes /\ \E m \in Program.modes : given[m] # <<>>

\* What a round makes of the field of its option.
FieldOf(p, r) ==
  IF r.option \in p.flags THEN <<Text(r.option)>>
  ELSE IF r.option = "--cargo-nextest-argv" THEN <<r.values>> ELSE r.values
Stored(r) == IF r.option \in Program.pushed THEN given[r.option] \o r.values ELSE FieldOf(Program, r)

Takeable(r) ==
  /\ RoundFits(Program, r) /\ ~Again(r.option)
  /\ r.option = "--suite-env" => \A v \in suiteEnv : v[1] # r.values[1]
  /\ r.option = "--bundle-resources" /\ ~Program.emptyResources => Stored(r) # <<>>
-------------------------------------------------------------------------------
OptionsInit ==
  /\ program \in DOMAIN Takes
  /\ rounds = <<>> /\ given = [o \in Known(Program) |-> <<>>] /\ seen = {} /\ suiteEnv = {}
  /\ outcome = "reading"

Round(r) == outcome = "reading" /\ rounds' = Append(rounds, r) /\ UNCHANGED program

ReadSuiteVariable(r) ==
  /\ Round(r) /\ Takeable(r) /\ r.option = "--suite-env"
  /\ suiteEnv' = suiteEnv \cup {r.values}
  /\ UNCHANGED <<given, seen, outcome>>
ReadField(r) ==
  /\ Round(r) /\ Takeable(r) /\ r.option # "--suite-env"
  /\ given' = [given EXCEPT ![r.option] = Stored(r)]
  /\ seen' = seen \cup ({r.option} \cap Program.flagged)
  /\ UNCHANGED <<suiteEnv, outcome>>
RefuseRound(r) == Round(r) /\ ~Takeable(r) /\ outcome' = "refused" /\ UNCHANGED <<given, seen, suiteEnv>>

\* --help anywhere on the line, also where a value is meant.
AskHelp ==
  /\ Program.help /\ rounds = <<>> /\ outcome = "reading"
  /\ outcome' = "usage" /\ UNCHANGED <<program, rounds, given, seen, suiteEnv>>

OptionsNext == AskHelp \/ \E r \in Rounds[program] : ReadSuiteVariable(r) \/ ReadField(r) \/ RefuseRound(r)
OptionsSpec == OptionsInit /\ [][OptionsNext]_optionVars
-------------------------------------------------------------------------------
\* What the program does when the line ends here: a control that is absent
\* has its default, which is sound.
SoundControls == \A o \in Controls : \A i \in DOMAIN given[o] : SoundValue(o, given[o][i])
GoesOn ==
  /\ outcome = "reading"
  /\ \A o \in Required[program] : given[o] \notin {<<>>, <<<<>>>>}
  /\ program # "contract" => SoundControls
-------------------------------------------------------------------------------
\* The meaning of a line without a loop: which two rounds exclude each other,
\* wherever they stand, and which round is the last of its option.
Exclude(p, x, y) ==
  \/ x.option = y.option /\ x.option \in p.once
  \/ {x.option, y.option} \subseteq p.modes
  \/ {x.option, y.option} = {"--suite-env"} /\ x.values[1] = y.values[1]
LastOf(rs, i) == \A j \in (i + 1) .. Len(rs) : rs[j].option # rs[i].option
RoundsOf(rs, o) == {i \in DOMAIN rs : rs[i].option = o}

\* Every round is sound and none excludes another.  The order matters once:
\* the artifact adapter wants the first list of resources not empty.
SoundRounds(p, rs) ==
  /\ \A i \in DOMAIN rs : RoundFits(p, rs[i])
  /\ \A i, j \in DOMAIN rs : i # j => ~Exclude(p, rs[i], rs[j])
  /\ ~p.emptyResources =>
       \A i \in RoundsOf(rs, "--bundle-resources") : \E j \in RoundsOf(rs, "--bundle-resources") : j <= i /\ rs[j].values # <<>>

\* A field has what the last round of its option gave, or what all gave.
GivenAsRead(p, rs) ==
  /\ \A o \in Known(p) : given[o] # <<>> => RoundsOf(rs, o) # {}
  /\ \A i \in DOMAIN rs : rs[i].option \notin p.all /\ LastOf(rs, i) => given[rs[i].option] = FieldOf(p, rs[i])
  /\ \A o \in p.all \cap p.pushed : Range(given[o]) = UNION {Range(rs[i].values) : i \in RoundsOf(rs, o)}
  /\ suiteEnv = {rs[i].values : i \in RoundsOf(rs, "--suite-env")}

\* The order of a program's options carries no meaning: it refuses a line
\* exactly when a round by itself or two rounds wherever they stand make it
\* unsound, it goes on with the values that the rounds give, and no control
\* out of range is passed on unless a later one replaces it (parse,
\* parse_args, take_value, take_vec, main, validate_controls,
\* run_buck_artifact).
OptionsMeanOneThing ==
  outcome # "usage" =>
    /\ outcome = "reading" <=> SoundRounds(Program, rounds)
    /\ outcome = "reading" => GivenAsRead(Program, rounds)
    /\ GoesOn => \A i \in DOMAIN rounds :
                   program # "contract" /\ rounds[i].option \in Controls /\ LastOf(rounds, i) =>
                     SoundValue(rounds[i].option, rounds[i].values[1])
===============================================================================

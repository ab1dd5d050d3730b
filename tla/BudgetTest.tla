----------------------------- MODULE BudgetTest -----------------------------
(***************************************************************************)
(* The life of a test with a budget attribute (budget-macros, lib.rs): the *)
(* attribute is written and parsed, the macro expands it into assertions   *)
(* where the compiler runs, and the test reads its limits and measures     *)
(* its costs where the test runs, perhaps later and in another world; or,  *)
(* for budget_scaling, it measures its body at one size after another.     *)
(*                                                                         *)
(* The world is what both read: an environment variable, a KEY=VALUE file, *)
(* by the place it lies at, and budget.json.  Values are sequences of      *)
(* length zero or one; what no u64 parses from is a negative number.       *)
(***************************************************************************)
EXTENDS BudgetAttribute, Integers

CONSTANTS
  Pieces,     \* what an attribute is put together from, for each parser
  MaxPieces,  \* bound: pieces of an attribute
  Max64,      \* u64::MAX
  Costs,      \* bound: the costs that are measured
  Values,     \* bound: the values of the variable, the file's key and the config's
  Baseline    \* what a baseline expression evaluates to

ASSUME LiteralsAssumption ==
  /\ IntValue \in [DOMAIN IntValue -> Nat]
  /\ FloatValue \in [DOMAIN FloatValue -> Int]
  /\ SizeLists \in [DOMAIN SizeLists -> Seq(Nat)]
ASSUME PiecesAssumption ==
  \A k \in {"limit", "spec", "scaling"} : Pieces[k] \subseteq Seq(STRING)
ASSUME NumbersAssumption ==
  /\ Max64 \in Nat /\ MaxPieces \in Nat /\ Baseline \in Nat
  /\ Costs \subseteq 0..Max64
  /\ Values \subseteq Seq(Int) /\ \A v \in Values : Len(v) <= 1

\* Where a relative path leads to a file: nowhere, in the crate, in the
\* workspace root where the compiler runs, in budget-macros/ next to either, or
\* in a budget-macros/ further up.
Places == {"nowhere", "crate", "root", "budget-macros", "above"}
ExpansionPlaces == {"crate", "root", "budget-macros"}
RuntimePlaces == {"crate", "budget-macros", "above"}

Json == {<<>>} \cup {<<v>> : v \in Values}   \* absent, or its key's value
Worlds == [env : Values, place : Places, key : Values, json : Json]
Default == [env |-> <<>>, place |-> "nowhere", key |-> <<>>, json |-> <<>>]

Readable(value) == value # <<>> /\ value[1] >= 0

VARIABLES
  kind,      \* the parser: "limit", "spec" or "scaling"
  phase,     \* "writing", "parsed", "rejected", "panicked", "compiled",
             \* "measuring", "passed" or "failed"
  attr,      \* the tokens
  written,   \* the pieces they are made of
  found,     \* whether the file was there for the parser
  parsed,    \* what the parser made of them
  asserts,   \* the assertions of the expansion, in order
  at, later, \* the worlds of the expansion and of the test
  costs,     \* what was measured for each assertion, or at each size
  left       \* the body of a scaling test that left the function

testVars == <<kind, phase, attr, written, found, parsed, asserts, at, later, costs, left>>

-----------------------------------------------------------------------------
(* Expansion.                                                              *)

AssertionOf(metric, limit, baseline) == [metric |-> metric, limit |-> limit, baseline |-> baseline]

\* A standalone attribute has one limit, of the metric it is named for; the bytes
\* of the ledger are measured by the memory that the budget counts.
One(metric, spec) == <<AssertionOf(metric, spec.cpu[1], spec.cpu_baseline)>>
BudgetCpuLt(spec) == One("cpu", spec)
BudgetMemLt(spec) == One("mem", spec)
BytesProxy(spec) == One("mem", spec)
BudgetWriteBytesLt(spec) == BytesProxy(spec)
BudgetReadBytesLt(spec) == BytesProxy(spec)
BudgetEventsLt(spec) == One("events", spec)
BudgetLedgerEntriesLt(spec) == One("entries", spec)

Standalone(spec) ==
  {BudgetCpuLt(spec), BudgetMemLt(spec), BudgetWriteBytesLt(spec), BudgetReadBytesLt(spec),
   BudgetEventsLt(spec), BudgetLedgerEntriesLt(spec)}

BudgetLt(spec) ==
  (IF spec.cpu = <<>> THEN <<>> ELSE <<AssertionOf("cpu", spec.cpu[1], spec.cpu_baseline)>>) \o
  (IF spec.mem = <<>> THEN <<>> ELSE <<AssertionOf("mem", spec.mem[1], spec.mem_baseline)>>)

\* The source a limit is read from, behind its percentage.
Sourced(limit) == IF limit.kind = "pct" THEN limit.of ELSE limit

\* Mutant of ValidateEnvVars: a value that is no number will do.
ValidateSet(limit, w) ==
  LET s == Sourced(Sourced(limit)) IN s.kind = "env" => w.env # <<>>

\* A percentage of a percentage is validated through both.
ValidateEnvVars(limit, w) ==
  LET s == Sourced(Sourced(limit)) IN s.kind = "env" => Readable(w.env)

\* Every other reference of a percentage is unreachable!, a panic of the macro.
Expressible(limit) == limit.kind = "pct" => limit.of.kind = "env_file"

-----------------------------------------------------------------------------
(* The test.                                                               *)

\* Mutant of LimitAt: a variable that is not set means no limit.
LimitAtUnlimited(limit, w) ==
  CASE limit.kind = "int" -> {limit.value}
    [] limit.kind = "env" -> {IF Readable(w.env) THEN w.env[1] ELSE Max64}
    [] limit.kind = "config" -> {IF w.json # <<>> /\ Readable(w.json[1]) THEN w.json[1][1] ELSE Max64}
    [] OTHER -> IF w.place \in RuntimePlaces /\ Readable(w.key) THEN {w.key[1]} ELSE {}

\* The limit the test finds, or none when reading it panics.  Without a
\* budget.json there is no limit.  The product of a percentage is checked for
\* overflow, as tests are built.
LimitAt(limit, w) ==
  LET file == IF w.place \in RuntimePlaces /\ Readable(w.key) THEN {w.key[1]} ELSE {}
  IN  CASE limit.kind = "int" -> {limit.value}
        [] limit.kind = "env" -> IF Readable(w.env) THEN {w.env[1]} ELSE {}
        [] limit.kind = "config" ->
             IF w.json = <<>> THEN {Max64}
             ELSE IF Readable(w.json[1]) THEN {w.json[1][1]} ELSE {}
        [] limit.kind = "env_file" -> file
        [] limit.kind = "pct" ->
             {(n * limit.pct) \div 100 : n \in {f \in file : f * limit.pct <= Max64}}

\* Entries are counted as reads and writes.
Measures(metric) == IF metric = "entries" THEN Costs \X Costs ELSE {<<c>> : c \in Costs}

Saturated(n) == IF n > Max64 THEN Max64 ELSE n
Total(parts) == IF Len(parts) = 1 THEN parts[1] ELSE parts[1] + parts[2]
Less(n, b) == IF n > b THEN n - b ELSE 0

Holds(a, parts, w) ==
  \E limit \in LimitAt(a.limit, w) :
    Less(Saturated(Total(parts)), IF a.baseline THEN Baseline ELSE 0) < limit

-----------------------------------------------------------------------------
(* Scaling, in whole numbers: the ratio of two costs over the ratio of     *)
(* their sizes, or its square, deviates from one by the tolerance at most. *)
(* A cost after zero has no ratio, and fails.                              *)

Growth(model, n) == IF model = "linear" THEN n ELSE n * n

Near(config, s1, c1, s2, c2) ==
  LET model == config.model[1]
      observed == c2 * Growth(model, s1)
      expected == c1 * Growth(model, s2)
      apart == IF observed > expected THEN observed - expected ELSE expected - observed
  IN  c1 > 0 /\ 100 * apart <= config.tolerance[1] * expected

\* Mutant of ScalingHolds: sizes that were left out are not missed.
ScalingHoldsOfSome(config, c) ==
  \A j \in 1..(Len(c) - 1) :
    Near(config, config.sizes[1][j], c[j], config.sizes[1][j + 1], c[j + 1])

ScalingHolds(config, c) ==
  /\ Len(c) = Len(config.sizes[1])
  /\ \A j \in 1..(Len(c) - 1) :
       Near(config, config.sizes[1][j], c[j], config.sizes[1][j + 1], c[j + 1])

-----------------------------------------------------------------------------

TestInit ==
  /\ kind \in {"limit", "spec", "scaling"}
  /\ phase = "writing" /\ attr = <<>> /\ written = 0 /\ found = FALSE
  /\ parsed = <<>> /\ asserts = <<>> /\ costs = <<>> /\ left = FALSE
  /\ at = Default /\ later = Default

\* A comma stands between two pieces, unless the first one waits for a value.
Write(piece) ==
  /\ phase = "writing" /\ written < MaxPieces
  /\ attr' = IF attr = <<>> \/ attr[Len(attr)] = "=" THEN attr \o piece
             ELSE attr \o <<",">> \o piece
  /\ written' = written + 1
  /\ UNCHANGED <<kind, phase, found, parsed, asserts, at, later, costs, left>>

ParserOf(tokens, there) ==
  CASE kind = "limit" -> ParseStandalone(tokens, there)
    [] kind = "spec" -> ParseSpec(tokens, there)
    [] kind = "scaling" -> ParseScaling(tokens)

Parse ==
  /\ phase = "writing"
  /\ found' \in IF kind = "scaling" THEN {FALSE} ELSE BOOLEAN
  /\ LET r == ParserOf(attr, found')
     IN  IF r.ok
         THEN phase' = "parsed" /\ parsed' = r.value /\ UNCHANGED <<attr, written>>
         ELSE phase' = "rejected" /\ attr' = <<>> /\ written' = 0 /\ UNCHANGED parsed
  /\ UNCHANGED <<kind, asserts, at, later, costs, left>>

\* The parts of the world that a limit is read from; the others stay as they are.
Reads(limit) ==
  LET s == Sourced(Sourced(limit)).kind
  IN  CASE s = "env" -> {"env"}
        [] s = "config" -> {"json"}
        [] s = "env_file" -> {"place", "key"}
        [] OTHER -> {}

Relevant(made) ==
  LET read == UNION {Reads(made[j].limit) : j \in DOMAIN made}
  IN  {w \in Worlds : \A f \in DOMAIN w \ read : w[f] = Default[f]}

Expand ==
  /\ phase = "parsed" /\ kind # "scaling"
  /\ asserts' \in IF kind = "limit" THEN Standalone(parsed) ELSE {BudgetLt(parsed)}
  /\ LET limits == {asserts'[j].limit : j \in DOMAIN asserts'}
     IN  /\ at' \in {w \in Relevant(asserts') :
                       "place" \in UNION {Reads(l) : l \in limits}
                         => (w.place \in ExpansionPlaces) = found}
         /\ phase' = IF \E l \in limits : ~ValidateEnvVars(l, at') THEN "rejected"
                     ELSE IF \E l \in limits : ~Expressible(l) THEN "panicked" ELSE "compiled"
  /\ attr' = <<>> /\ written' = 0 /\ parsed' = <<>> /\ found' = FALSE
  /\ UNCHANGED <<kind, later, costs, left>>

\* The test runs in the world of the expansion or in another one.
Run ==
  /\ phase = "compiled"
  /\ later' \in Relevant(asserts)
  /\ costs' \in {c \in [DOMAIN asserts -> Costs \X Costs \cup {<<c>> : c \in Costs}] :
                   \A j \in DOMAIN asserts : c[j] \in Measures(asserts[j].metric)}
  /\ phase' = IF \A j \in DOMAIN asserts : Holds(asserts[j], costs'[j], later')
              THEN "passed" ELSE "failed"
  /\ UNCHANGED <<kind, attr, written, found, parsed, asserts, at, left>>

ExpandScaling ==
  /\ phase = "parsed" /\ kind = "scaling"
  /\ phase' = "measuring" /\ attr' = <<>> /\ written' = 0
  /\ UNCHANGED <<kind, found, parsed, asserts, at, later, costs, left>>

\* One size: the body reaches its end and its cost is taken.
MeasureSize(cost) ==
  /\ phase = "measuring" /\ ~left /\ Len(costs) < Len(parsed.sizes[1])
  /\ costs' = Append(costs, cost)
  /\ UNCHANGED <<kind, phase, attr, written, found, parsed, asserts, at, later, left>>

\* Every size measured, or a body that broke out of the loop or skipped sizes.
CheckScaling ==
  /\ phase = "measuring" /\ ~left
  /\ phase' = IF ScalingHolds(parsed, costs) THEN "passed" ELSE "failed"
  /\ UNCHANGED <<kind, attr, written, found, parsed, asserts, at, later, costs, left>>

\* A return of the body is a return of the test, in front of every check.
ReturnFromBody ==
  /\ phase = "measuring" /\ Len(costs) < Len(parsed.sizes[1])
  /\ left' = TRUE /\ phase' = "passed"
  /\ UNCHANGED <<kind, attr, written, found, parsed, asserts, at, later, costs>>

TestNext ==
  \/ \E piece \in Pieces[kind] : Write(piece)
  \/ Parse
  \/ Expand
  \/ Run
  \/ ExpandScaling
  \/ \E cost \in Costs : MeasureSize(cost)
  \/ CheckScaling
  \/ ReturnFromBody

TestSpec == TestInit /\ [][TestNext]_testVars

-----------------------------------------------------------------------------
(* Properties.                                                             *)

Ran == phase \in {"passed", "failed"} /\ kind # "scaling"

\* What the expansion can know, it knows: a test that runs in the world its macro
\* was expanded in does not die for a variable that is not set or not a number,
\* nor for a literal path without a file, unless the file is in the workspace root.
ExpansionForesees ==
  Ran /\ later = at /\ at.place # "root" =>
    \A j \in DOMAIN asserts :
      LET s == Sourced(asserts[j].limit)
      IN  /\ s.kind = "env" => LimitAt(s, later) # {}
          /\ s.kind = "env_file" /\ s.path \in Strings => later.place \in RuntimePlaces

\* A test that passes had a limit to pass: for every assertion a number was found
\* in its source, and the costs that were counted, entries up to u64::MAX, less the
\* baseline, are below the percentage of it.  Only a missing budget.json stands
\* for no limit: an env variable that is not set fails the expansion
\* (lib.rs:1377-1384), and never falls back to u64::MAX as derive.rs:226-228 says.
PassedWithinLimits ==
  Ran /\ phase = "passed" =>
    \A j \in DOMAIN asserts :
      LET a == asserts[j]
          s == Sourced(a.limit)
          pct == IF a.limit.kind = "pct" THEN a.limit.pct ELSE 100
          cost == Saturated(Total(costs[j])) - (IF a.baseline THEN Baseline ELSE 0)
          source == CASE s.kind = "int" -> <<s.value>>
                      [] s.kind = "env" -> later.env
                      [] s.kind = "env_file" -> later.key
                      [] s.kind = "config" -> IF later.json = <<>> THEN <<Max64>> ELSE later.json[1]
      IN  /\ Readable(source)
          /\ s.kind = "env_file" => later.place # "nowhere"
          /\ \/ s.kind = "config" /\ later.json = <<>>
             \/ 0 < source[1] * pct /\ 100 * cost < source[1] * pct

Power(b, n) == LET power[k \in 0..n] == IF k = 0 THEN 1 ELSE b * power[k - 1] IN power[n]

ScalingPassed == phase = "passed" /\ kind = "scaling"

\* A scaling test that passes has measured growth: two sizes or more, each of
\* them, and over the whole range the cost has grown as its model says, within
\* the tolerance of every step.  (A body that returns passes unmeasured.)
GrowthIsAsDeclared ==
  ScalingPassed /\ ~left =>
    LET sizes == parsed.sizes[1]
        n == Len(sizes)
        t == parsed.tolerance[1]
        observed == costs[n] * Growth(parsed.model[1], sizes[1])
        expected == costs[1] * Growth(parsed.model[1], sizes[n])
    IN  /\ n >= 2 /\ Len(costs) = n
        /\ observed * Power(100, n - 1) <= expected * Power(100 + t, n - 1)
        /\ observed * Power(100, n - 1) >= expected * Power(Less(100, t), n - 1)
        /\ \A j \in 1..(n - 1) : costs[j] > 0

=============================================================================

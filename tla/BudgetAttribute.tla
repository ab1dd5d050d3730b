-------------------------- MODULE BudgetAttribute --------------------------
(***************************************************************************)
(* The argument parsers of the budget macros (budget-macros, lib.rs): the  *)
(* recursive descent that turns the tokens of an attribute into limits and *)
(* baselines, or into the configuration of a scaling test, or rejects it.  *)
(*                                                                         *)
(* A token is an identifier, a punctuation mark, or a literal named by its *)
(* text.  A parser takes tokens and yields a value and the tokens left, or *)
(* an error; which error, and at which span, is left out.  Optional values *)
(* are sequences of length zero or one.  A loop of the code is a function  *)
(* over the number of tokens that are left: what it makes of these.        *)
(***************************************************************************)
EXTENDS Naturals, Sequences

CONSTANTS
  IntValue,    \* the values of the integer literals, by token
  FloatValue,  \* the values of the float literals in hundredths, by token
  SizeLists,   \* the values of the bracketed lists of integers, by token
  Strings,     \* the string literals
  Exprs        \* the other expressions: constants, paths

Err == [ok |-> FALSE]
Parsed(value, rest) == [ok |-> TRUE, value |-> value, rest |-> rest]

At(in, j) == IF j <= Len(in) THEN in[j] ELSE "end"
Drop(in, j) == SubSeq(in, j + 1, Len(in))
Suffix(in, k) == SubSeq(in, Len(in) - k + 1, Len(in))
SkipComma(in) == IF At(in, 1) = "," THEN Drop(in, 1) ELSE in

IsInt(token) == token \in DOMAIN IntValue
IsExpr(token) == token \in Exprs \cup Strings \cup DOMAIN IntValue

\* env and config take a string, env_file a string or another expression.
IsSourceValue(key, value) == value \in Strings \/ (key = "env_file" /\ IsExpr(value))

SourceKeys == {"env", "env_file", "config", "pct"}
IsSourceKey(token) == token \in SourceKeys

-----------------------------------------------------------------------------
(* BudgetLimit.                                                            *)

Literal(n) == [kind |-> "int", value |-> n]
EnvVar(var) == [kind |-> "env", var |-> var]
Config(key) == [kind |-> "config", key |-> key]
EnvFile(path, var) == [kind |-> "env_file", path |-> path, var |-> var]
Percentage(pct, of) == [kind |-> "pct", pct |-> pct, of |-> of]

NoSources == [env |-> <<>>, env_file |-> <<>>, config |-> <<>>, pct |-> <<>>, of |-> <<>>]

\* Mutant of Combine: a percentage does without its reference, and the sources
\* in front of it stand.
CombineSourcesFirst(seen, in, found) ==
  LET has == {key \in SourceKeys : seen[key] # <<>>}
  IN  CASE has = {"pct"} /\ seen.of # <<>> ->
             Parsed(Percentage(seen.pct[1], seen.of[1]), in)
        [] "env" \in has -> Parsed(EnvVar(seen.env[1]), in)
        [] "config" \in has -> Parsed(Config(seen.config[1]), in)
        [] OTHER -> Err

\* The combinations of sources that name one limit.  A literal path must be a
\* file when the macro expands; a constant is left to the test.
Combine(seen, in, found) ==
  LET has == {key \in SourceKeys : seen[key] # <<>>}
  IN  CASE "pct" \in has ->
             IF seen.of = <<>> THEN Err
             ELSE Parsed(Percentage(seen.pct[1], seen.of[1]), in)
        [] has = {"env_file", "env"} ->
             IF seen.env_file[1] \in Strings /\ ~found THEN Err
             ELSE Parsed(EnvFile(seen.env_file[1], seen.env[1]), in)
        [] has = {"env"} -> Parsed(EnvVar(seen.env[1]), in)
        [] has = {"config"} -> Parsed(Config(seen.config[1]), in)
        [] OTHER -> Err

\* A source and those behind it; one that is given again is refused.
Add(key, value, behind) ==
  IF behind.ok /\ behind.value[key] = <<>>
  THEN Parsed([behind.value EXCEPT ![key] = <<value>>], behind.rest)
  ELSE Err

\* A limit, given what the loop takes from these tokens.  A literal stands alone:
\* a source of the same limit may not follow.
LimitOf(in, sources, found) ==
  IF IsInt(At(in, 1))
  THEN IF IsSourceKey(At(SkipComma(Drop(in, 1)), 1)) THEN Err
       ELSE Parsed(Literal(IntValue[At(in, 1)]), Drop(in, 1))
  ELSE IF sources.ok THEN Combine(sources.value, sources.rest, found) ELSE Err

\* pct = N without a reference: an absolute source behind it is refused.  (The
\* look-ahead for a second `pct' behind it comes to the same: its key has no `='.)
AfterPct(n, in, behind) ==
  IF At(in, 1) = "," /\ At(in, 2) \in {"env", "config"} THEN Err
  ELSE Add("pct", n, behind[Len(in)])

\* pct = N, and its reference: a limit of any kind, which takes every source that
\* is next, so that none is left for the loop.
Pct(in, behind, found) ==
  LET rest == Drop(in, 1)
      of == Drop(rest, 3)
      nested == LimitOf(of, behind[Len(of)], found)
  IN  IF IsInt(At(in, 1)) /\ IntValue[At(in, 1)] \in 1..100
      THEN IF At(rest, 1) = "," /\ At(rest, 2) = "of"
           THEN IF At(rest, 3) = "=" /\ nested.ok
                THEN Parsed([NoSources EXCEPT !.pct = <<IntValue[At(in, 1)]>>, !.of = <<nested.value>>],
                            nested.rest)
                ELSE Err
           ELSE AfterPct(IntValue[At(in, 1)], rest, behind)
      ELSE Err

\* Source keys are taken as long as one is next, a comma in front of it or not;
\* what else is next is left, its comma included.  behind[k] is what is taken from
\* the last k tokens on.
Sources(in, behind, found) ==
  LET at == SkipComma(in)
      key == At(at, 1)
      rest == Drop(at, 2)
      value == At(rest, 1)
  IN  IF ~IsSourceKey(key) THEN Parsed(NoSources, in)
      ELSE IF At(at, 2) # "=" THEN Err
      ELSE IF key = "pct" THEN Pct(rest, behind, found)
      ELSE IF IsSourceValue(key, value) THEN Add(key, value, behind[Len(Drop(rest, 1))])
      ELSE Err

ParseLimit(in, found) ==
  LET sources[k \in 0..Len(in)] == Sources(Suffix(in, k), sources, found)
  IN  LimitOf(in, sources[Len(in)], found)

-----------------------------------------------------------------------------
(* StandaloneSpec: one limit, and a baseline behind a comma.               *)

NoSpec == [cpu |-> <<>>, mem |-> <<>>, cpu_baseline |-> FALSE, mem_baseline |-> FALSE]

ParseStandalone(in, found) ==
  LET limit == ParseLimit(in, found)
      rest == Drop(limit.rest, 1)
      ended == SkipComma(Drop(rest, 3))
      spec == [NoSpec EXCEPT !.cpu = <<limit.value>>]
  IN  IF ~limit.ok THEN Err
      ELSE IF limit.rest = <<>> \/ limit.rest = <<",">> THEN Parsed(spec, <<>>)
      ELSE IF /\ limit.rest[1] = ","
              /\ At(rest, 1) = "baseline" /\ At(rest, 2) = "=" /\ IsExpr(At(rest, 3))
              /\ ended = <<>>
        THEN Parsed([spec EXCEPT !.cpu_baseline = TRUE], <<>>)
      ELSE Err

-----------------------------------------------------------------------------
(* BudgetSpec: properties, each with a value, separated by commas.  A      *)
(* property given again replaces the first.                                *)

Limits == {"cpu", "mem"}
Baselines == {"cpu_baseline", "mem_baseline"}

\* A property and those behind it, the last of which stands.
Put(key, value, none, behind) ==
  IF behind.ok /\ behind.value[key] = none
  THEN Parsed([behind.value EXCEPT ![key] = value], behind.rest)
  ELSE behind

\* What the loop makes of the tokens behind a value: nothing, or a comma and more.
More(in, none, behind) ==
  IF in = <<>> THEN Parsed(none, <<>>)
  ELSE IF in[1] = "," THEN behind[Len(Drop(in, 1))] ELSE Err

Properties(in, behind, found) ==
  LET key == At(in, 1)
      value == Drop(in, 2)
      limit == ParseLimit(value, found)
      others == More(Drop(value, 1), NoSpec, behind)
  IN  IF in = <<>> THEN Parsed(NoSpec, <<>>)
      ELSE IF At(in, 2) # "=" THEN Err
      ELSE IF key \in Limits /\ limit.ok
        THEN Put(key, <<limit.value>>, <<>>, More(limit.rest, NoSpec, behind))
      ELSE IF key \in Baselines /\ IsExpr(At(value, 1)) THEN Put(key, TRUE, FALSE, others)
      ELSE IF key = "env_ident" /\ At(value, 1) \in Exprs THEN others
      ELSE Err

\* Some limit, and no baseline without its own.
HasLimits(spec) ==
  /\ spec.cpu # <<>> \/ spec.mem # <<>>
  /\ spec.cpu_baseline => spec.cpu # <<>>
  /\ spec.mem_baseline => spec.mem # <<>>

ParseSpec(in, found) ==
  LET properties[k \in 0..Len(in)] == Properties(Suffix(in, k), properties, found)
      r == properties[Len(in)]
  IN  IF r.ok THEN IF HasLimits(r.value) THEN r ELSE Err ELSE Err

-----------------------------------------------------------------------------
(* ScalingConfig.                                                          *)

NoConfig == [sizes |-> <<>>, model |-> <<>>, tolerance |-> <<>>]

\* The literal of a tolerance, an optional sign in front of it: infinite values
\* are not among FloatValue, a negative one fails the range check.
FieldValues == [sizes |-> DOMAIN SizeLists, model |-> {"linear", "quadratic"}, tolerance |-> DOMAIN FloatValue]

FieldValue(key, token) ==
  CASE key = "sizes" -> SizeLists[token]
    [] key = "model" -> token
    [] key = "tolerance" -> FloatValue[token]

Fields(in, behind) ==
  LET key == At(in, 1)
  IN  IF in = <<>> THEN Parsed(NoConfig, <<>>)
      ELSE IF key \in DOMAIN FieldValues /\ At(in, 2) = "="
        THEN IF At(in, 3) \in FieldValues[key]
             THEN Put(key, <<FieldValue(key, At(in, 3))>>, <<>>, More(Drop(in, 3), NoConfig, behind))
             ELSE Err
      ELSE Err

\* Two sizes or more, positive and ascending.
SizesOk(sizes) ==
  /\ Len(sizes) >= 2
  /\ \A j \in DOMAIN sizes : sizes[j] > 0
  /\ \A j \in 1..(Len(sizes) - 1) : sizes[j] < sizes[j + 1]

ScalingOk(c) ==
  /\ c.sizes # <<>> /\ SizesOk(c.sizes[1])
  /\ c.model # <<>>
  /\ c.tolerance # <<>> /\ c.tolerance[1] >= 0

ParseScaling(in) ==
  LET fields[k \in 0..Len(in)] == Fields(Suffix(in, k), fields)
      r == fields[Len(in)]
  IN  IF r.ok THEN IF ScalingOk(r.value) THEN r ELSE Err ELSE Err
=============================================================================

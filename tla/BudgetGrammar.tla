--------------------------- MODULE BudgetGrammar ---------------------------
(***************************************************************************)
(* The grammar of a limit as budget-macros documents it, against which the *)
(* recursive descent of BudgetAttribute is held.                           *)
(***************************************************************************)
EXTENDS BudgetTest

\* The documented forms of a limit, as they are written.
RECURSIVE Sentences(_)

Sentences(limit) ==
  LET key == <<"env", "=", limit.var>>
      file == <<"env_file", "=", limit.path>>
  IN  CASE limit.kind = "int" -> {<<t>> : t \in {t \in DOMAIN IntValue : IntValue[t] = limit.value}}
        [] limit.kind = "env" -> {key}
        [] limit.kind = "config" -> {<<"config", "=", limit.key>>}
        [] limit.kind = "env_file" -> {file \o <<",">> \o key, key \o <<",">> \o file}
        [] limit.kind = "pct" ->
             {<<"pct", "=", t, ",", "of", "=">> \o s :
                t \in {t \in DOMAIN IntValue : IntValue[t] = limit.pct}, s \in Sentences(limit.of)}

Absolute ==
  {Literal(n) : n \in {IntValue[t] : t \in DOMAIN IntValue}} \cup
  UNION {{EnvVar(s), Config(s)} : s \in Strings} \cup
  {EnvFile(p, s) : p \in Exprs \cup Strings, s \in Strings}

Documented == Absolute \cup {Percentage(50, l) : l \in {l \in Absolute : l.kind = "env_file"}}

\* What was written for one limit: behind its key, up to the next property.
Segment(key) ==
  LET property == Limits \cup Baselines \cup {"baseline", "env_ident"}
      starts == {j \in 1..(Len(attr) - 1) : attr[j] = key /\ attr[j + 1] = "="}
      from == IF kind = "limit" THEN 1 ELSE 2 + CHOOSE j \in starts : \A i \in starts : i <= j
      ends == {j \in from..(Len(attr) - 1) : attr[j] = "," /\ attr[j + 1] \in property}
                \cup {Len(attr) + 1}
  IN  SubSeq(attr, from, (CHOOSE j \in ends : \A i \in ends : j <= i) - 1)

\* The recursive descent parses the documented grammar: every documented form is
\* parsed into the limit it documents, and what is parsed for a limit was written
\* as a form of it, to the last token.  (Sources in front of a percentage are the
\* exception: BudgetLimit::parse forgets them.)
ParsesTheGrammar ==
  /\ phase = "writing" =>
       \A l \in Documented :
         /\ kind = "limit" /\ attr \in Sentences(l) =>
              ParseStandalone(attr, TRUE) = Parsed([NoSpec EXCEPT !.cpu = <<l>>], <<>>)
         /\ kind = "spec" /\ attr \in {<<"mem", "=">> \o s : s \in Sentences(l)} =>
              ParseSpec(attr, TRUE) = Parsed([NoSpec EXCEPT !.mem = <<l>>], <<>>)
  /\ phase = "parsed" /\ kind # "scaling" =>
       \A key \in {k \in Limits : parsed[k] # <<>>} :
         LET segment == Segment(key)
             limit == parsed[key][1]
         IN  \E j \in 1..Len(segment) :
               /\ SubSeq(segment, j, Len(segment)) \in Sentences(limit)
               /\ j > 1 => limit.kind = "pct"

=============================================================================

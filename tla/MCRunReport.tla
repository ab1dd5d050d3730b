---------------------------- MODULE MCRunReport ----------------------------
(***************************************************************************)
(* Two packages that export a function of the same name; costs on both     *)
(* sides of a limit and of a tolerance; and a budget.toml that is absent,  *)
(* flat (ambiguous when both packages build), qualified, or names no       *)
(* function.                                                               *)
(***************************************************************************)
EXTENDS ReportOutput

MCPackages == <<"p", "q">>
MCExports == [x \in {"p", "q"} |-> {"f"}]
MCInvocations ==
  {[mode |-> "report", check |-> c, validate |-> v] : c, v \in BOOLEAN}
  \cup {[mode |-> "record", check |-> FALSE, validate |-> FALSE],
        [mode |-> "check", check |-> TRUE, validate |-> FALSE]}

Limits(c, m, t) == [cpu |-> c, mem |-> m, tolerance |-> t]
MCConfigs == {
  [k \in {} |-> None],
  [k \in {<<"f">>} |-> Limits(11, 5, 0)],
  [k \in {<<"p", "f">>, <<"q", "f">>} |->
     IF k[1] = "p" THEN Limits(10, None, 0) ELSE Limits(12, 5, None)],
  [k \in {<<"h">>} |-> Limits(None, None, None)]}
NoLimits == {[k \in {} |-> None]}
Baselines ==
  {[mode |-> m, check |-> FALSE, validate |-> FALSE] : m \in {"record", "check"}}

\* max_allowed in f64: the products 10 * 1.10 and 10 * 1.00, like the others
\* here, truncate to what the exact product does.
MCMaxAllowed ==
  [x \in Costs \X Tolerances |-> (x[1] * (100 + x[2])) \div 100]

=============================================================================

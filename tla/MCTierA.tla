------------------------------ MODULE MCTierA ------------------------------
(***************************************************************************)
(* Two functions that make up a scenario.  Reports have both functions,    *)
(* both with other costs, one of them, both with a metric of one missing,  *)
(* none, or are no JSON; a cost may be zero.  One margin is valid, one is  *)
(* below 1, one is missing.                                                *)
(***************************************************************************)
EXTENDS TierA

MCFunction == {"deposit", "swap"}
MCMetricOrder == <<"cpu", "read">>
Cost(c, r) == [cpu |-> c, read |-> r]
Of(deposit, swap) == [f \in MCFunction |-> IF f = "deposit" THEN deposit ELSE swap]
MCReports == {
  None,
  Of(Cost(3, 1), Cost(5, 0)),
  Of(Cost(4, 0), Cost(3, 0)),
  Of(Cost(2, 1), Cost(None, None)),
  Of(Cost(2, 1), Cost(5, None)),
  Of(Cost(None, None), Cost(None, None))}
MCMargins == {Cost(150, 200), Cost(50, 200), None}
MCNetworkLimits == {Cost(20, 8)}

=============================================================================

----------------------------- MODULE MCAmmPool -----------------------------
(* The pool with a type of small width, so that sums and products overflow *)
(* within a few calls, and amounts whose ratios do not divide evenly.      *)
EXTENDS AmmPool

MCMaxInt == 47
MCAmounts == {0, 1, 3, 8}
MCMinimums == {0, 2}
============================================================================

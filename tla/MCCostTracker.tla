--------------------------- MODULE MCCostTracker ---------------------------
(***************************************************************************)
(* Three operations, so that an entry may lie before, at and behind the    *)
(* one recorded again; two values whose sums stay within, reach and exceed *)
(* the largest u64; a warmup that may exceed the benchmark's n.            *)
(***************************************************************************)
EXTENDS CostTracker

MCNames == <<"a", "b", "c">>
=============================================================================

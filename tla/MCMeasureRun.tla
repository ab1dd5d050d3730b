---------------------------- MODULE MCMeasureRun ----------------------------
(***************************************************************************)
(* A workspace of two contracts: one that exports three functions, so that *)
(* two workers compete for them and one claims twice, and one that exports *)
(* a single function, so that the pool shrinks to one worker.  Two         *)
(* attempts per request reach every branch of the retry loop.              *)
(***************************************************************************)
EXTENDS MeasureRun

CONSTANTS NoHang, Testnet, Futurenet

MCFunctions == <<3, 1>>
MCOneFunction == <<1>>
MCMayHang == {<<1, 1>>}
MCNoHang == {}
=============================================================================

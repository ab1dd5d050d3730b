------------------------------ MODULE MCWatch ------------------------------
(***************************************************************************)
(* Two packages; edits may fall on one package before, between and after   *)
(* the builds of a pass, and on both.                                      *)
(***************************************************************************)
EXTENDS Watch

MCPackages == <<"p", "q">>
=============================================================================

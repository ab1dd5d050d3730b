------------------------------ MODULE CostMap ------------------------------
(***************************************************************************)
(* What StateTracker (state_tracking.rs) promises of every backend: it is  *)
(* a map from operations to the snapshot recorded last.  It says nothing   *)
(* of the order in which `ops' names them.                                 *)
(***************************************************************************)
CONSTANTS Operations, Snapshots

VARIABLE map

Nothing == [op \in {} |-> {}]

Recorded(m, op, s) ==
  [o \in DOMAIN m \cup {op} |-> IF o = op THEN s ELSE m[o]]

Init == map = Nothing

Record(op, s) == map' = Recorded(map, op, s)

Clear == map' = Nothing

Next == (\E op \in Operations, s \in Snapshots : Record(op, s)) \/ Clear

Spec == Init /\ [][Next]_map
=============================================================================

--------------------------- MODULE SequentialRun ---------------------------
(***************************************************************************)
(* What the measuring part of `cargo budget-report` promises: whatever the *)
(* number of workers, the run reports the exported functions of one        *)
(* contract after the other, each function once and in the order of its    *)
(* index, exactly as a loop with a single worker would.  The comment above *)
(* the drain loop says so: "output and measured values are identical to a  *)
(* sequential run".  A deploy that fails ends the run before any function  *)
(* of that contract is reported.                                           *)
(***************************************************************************)
EXTENDS Naturals, Sequences

CONSTANTS
  NFunctions,   \* NFunctions[c]: how many functions contract c exports
  Outcome       \* what simulating one function can come to

VARIABLES
  contract,     \* the contract being reported
  measured,     \* how many of its functions are in the log
  log,          \* the reported outcomes, in order
  status        \* "running", "done" or "failed"

vars == <<contract, measured, log, status>>

Init ==
  /\ contract = 1
  /\ measured = 0
  /\ log = <<>>
  /\ status = "running"

\* The next function of the current contract comes to some outcome.
Measure ==
  /\ status = "running"
  /\ measured < NFunctions[contract]
  /\ \E o \in Outcome :
       log' = Append(log, [contract |-> contract, task |-> measured, outcome |-> o])
  /\ measured' = measured + 1
  /\ UNCHANGED <<contract, status>>

\* Every function of the current contract is in the log.
NextContract ==
  /\ status = "running"
  /\ measured = NFunctions[contract]
  /\ IF contract < Len(NFunctions)
     THEN /\ contract' = contract + 1
          /\ measured' = 0
          /\ UNCHANGED status
     ELSE /\ status' = "done"
          /\ UNCHANGED <<contract, measured>>
  /\ UNCHANGED log

\* The current contract cannot be deployed: nothing of it was reported.
DeployFails ==
  /\ status = "running"
  /\ measured = 0
  /\ status' = "failed"
  /\ UNCHANGED <<contract, measured, log>>

Next == Measure \/ NextContract \/ DeployFails

Spec == Init /\ [][Next]_vars
============================================================================

----------------------------- MODULE CostLimits -----------------------------
(***************************************************************************)
(* The two ways the core library judges a measured cost: BudgetAssert      *)
(* (traits.rs), which takes the limits as arguments and reports the first  *)
(* metric at fault, and BudgetBounds (impls.rs), whose limits are optional *)
(* and whose answer is a Boolean.                                          *)
(***************************************************************************)
EXTENDS Naturals

\* A limit that is not set (None of Option<u64>).
CONSTANT NoLimit

ASSUME NoLimitAssumption == NoLimit \notin Nat

Ok == [ok |-> TRUE]
Exceeded(metric, actual, limit) ==
  [ok |-> FALSE, metric |-> metric, actual |-> actual, limit |-> limit]

\* Mutant of CpuWithin: a cost equal to its limit passes.
CpuWithinOrAt(cost, limit) ==
  IF cost.cpu <= limit THEN Ok ELSE Exceeded("CPU Instructions", cost.cpu, limit)

CpuWithin(cost, limit) ==
  IF cost.cpu < limit THEN Ok ELSE Exceeded("CPU Instructions", cost.cpu, limit)

MemoryWithin(cost, limit) ==
  IF cost.memory < limit THEN Ok ELSE Exceeded("Memory Bytes", cost.memory, limit)

\* The `?' of the first assertion: the memory is not looked at.
WithinBudget(cost, cpuLimit, memoryLimit) ==
  LET first == CpuWithin(cost, cpuLimit)
  IN  IF first.ok THEN MemoryWithin(cost, memoryLimit) ELSE first

IsWithinBounds(cost, cpuLimit, memoryLimit) ==
  /\ cpuLimit = NoLimit \/ cost.cpu < cpuLimit
  /\ memoryLimit = NoLimit \/ cost.memory < memoryLimit

\* A metric is read by its name; the library knows the bytes of a call only as memory.
ValueFor(cost, metric) ==
  CASE metric = "CPU Instructions" -> cost.cpu
    [] metric \in {"Read Bytes", "Write Bytes", "Memory Bytes"} -> cost.memory
    [] metric = "WASM Bytes" -> 0
=============================================================================

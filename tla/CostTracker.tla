---------------------------- MODULE CostTracker ----------------------------
(***************************************************************************)
(* The two backends of StateTracker (state_tracking.rs), used side by side *)
(* by a caller that may swap one for the other, and by the benchmark that  *)
(* times them: compare_backends feeds both in lockstep to warm them up,    *)
(* then one after the other, and looks every name up in each.              *)
(*                                                                         *)
(* `linear' is a vector of entries that is scanned, `hashed' a hash map.   *)
(* Capacities and elapsed times are left out.                              *)
(***************************************************************************)
EXTENDS CostLimits, Sequences, FiniteSets, Functions

CONSTANTS
  Names,       \* the distinct operations, in the order the benchmark makes them
  Costs,       \* the values a metric of a snapshot takes
  MaxU64,      \* the largest u64
  MaxWarmup    \* bound on the benchmark's warmup argument

Operations == {Names[i] : i \in DOMAIN Names}
Snapshots == [cpu : Costs, memory : Costs]

ASSUME NamesAssumption ==
  /\ Names \in Seq(Operations)
  /\ \A i, j \in DOMAIN Names : Names[i] = Names[j] => i = j
  /\ Len(Names) <= MaxU64   \* a snapshot is made of the position, as a u64
ASSUME CostsAssumption == MaxU64 \in Nat /\ Costs \subseteq 0..MaxU64
ASSUME WarmupAssumption == MaxWarmup \in Nat

VARIABLES
  linear,   \* LinearStateTracker: the entries
  hashed,   \* HashedStateTracker: the map
  pc,       \* use, or the loop of compare_backends under way
  n,        \* the arguments of compare_backends
  warmup,
  i,        \* iterations of the loop under way
  missed,   \* history: a lookup of the benchmark found nothing
  verdict   \* the last judgment of a total: by BudgetAssert and by BudgetBounds

bench == <<n, warmup, i, missed>>
vars == <<linear, hashed, pc, bench, verdict>>

NoEntry == [cpu |-> MaxU64 + 1, memory |-> MaxU64 + 1]
NoVerdict == [ok |-> TRUE, blamed |-> "none", bounds |-> TRUE]
Empty == [op \in {} |-> {}]

-----------------------------------------------------------------------------
(* LinearStateTracker *)

Positions(entries, op) == {k \in DOMAIN entries : entries[k].op = op}

\* The scan stops at the first entry of that name.
First(entries, op) ==
  CHOOSE k \in Positions(entries, op) : \A l \in Positions(entries, op) : k <= l

\* The replay of into_hashed leaves the last one standing.
Last(entries, op) ==
  CHOOSE k \in Positions(entries, op) : \A l \in Positions(entries, op) : l <= k

LinearOps(entries) == {entries[k].op : k \in DOMAIN entries}

\* Mutant of LinearRecord: a full vector drops its oldest entry.
LinearRecordBounded(entries, op, s) ==
  IF Positions(entries, op) # {}
  THEN [entries EXCEPT ![First(entries, op)].snap = s]
  ELSE IF Len(entries) = 2 THEN Append(Tail(entries), [op |-> op, snap |-> s])
  ELSE Append(entries, [op |-> op, snap |-> s])

LinearRecord(entries, op, s) ==
  IF Positions(entries, op) # {}
  THEN [entries EXCEPT ![First(entries, op)].snap = s]
  ELSE Append(entries, [op |-> op, snap |-> s])

LinearLookup(entries, op) ==
  IF Positions(entries, op) # {} THEN entries[First(entries, op)].snap ELSE NoEntry

IntoHashed(entries) ==
  [op \in LinearOps(entries) |-> entries[Last(entries, op)].snap]

-----------------------------------------------------------------------------
(* HashedStateTracker *)

HashedRecord(m, op, s) ==
  [o \in DOMAIN m \cup {op} |-> IF o = op THEN s ELSE m[o]]

HashedLookup(m, op) == IF op \in DOMAIN m THEN m[op] ELSE NoEntry

-----------------------------------------------------------------------------
(* Totals: the sum of u64 panics on overflow, in every profile of the      *)
(* workspace (overflow-checks = true), whatever the order of the entries.  *)

LinearSum(entries, metric) ==
  SumFunction([k \in DOMAIN entries |-> entries[k].snap[metric]])
HashedSum(m, metric) == SumFunction([op \in DOMAIN m |-> m[op][metric]])

Panics(sum) == sum > MaxU64

-----------------------------------------------------------------------------
Init ==
  /\ linear = <<>>
  /\ hashed = Empty
  /\ pc = "use"
  /\ n = 0 /\ warmup = 0 /\ i = 0
  /\ missed = FALSE
  /\ verdict = NoVerdict

Record(op, s) ==
  /\ pc = "use"
  /\ linear' = LinearRecord(linear, op, s)
  /\ hashed' = HashedRecord(hashed, op, s)
  /\ UNCHANGED <<pc, bench, verdict>>

\* Mutant of Clear: the map is left as it is.
ClearVectorOnly ==
  /\ pc = "use"
  /\ linear' = <<>>
  /\ UNCHANGED <<hashed, pc, bench, verdict>>

Clear ==
  /\ pc = "use"
  /\ linear' = <<>>
  /\ hashed' = Empty
  /\ UNCHANGED <<pc, bench, verdict>>

\* The caller goes on with the hashed backend made of the linear one.
Convert ==
  /\ pc = "use"
  /\ hashed' = IntoHashed(linear)
  /\ UNCHANGED <<linear, pc, bench, verdict>>

\* What a caller asserts of the limits that are set.
Asserted(cost, cpuLimit, memoryLimit) ==
  CASE cpuLimit = NoLimit /\ memoryLimit = NoLimit -> Ok
    [] cpuLimit # NoLimit /\ memoryLimit = NoLimit -> CpuWithin(cost, cpuLimit)
    [] cpuLimit = NoLimit /\ memoryLimit # NoLimit -> MemoryWithin(cost, memoryLimit)
    [] OTHER -> WithinBudget(cost, cpuLimit, memoryLimit)

\* A caller measures with a tracker's totals and judges them; a total that
\* overflows ends the test before it is judged.
Judge(cpuLimit, memoryLimit) ==
  LET cost == [cpu |-> HashedSum(hashed, "cpu"), memory |-> LinearSum(linear, "memory")]
      asserted == Asserted(cost, cpuLimit, memoryLimit)
  IN  /\ pc = "use"
      /\ ~Panics(cost.cpu) /\ ~Panics(cost.memory)
      /\ verdict' = [ok |-> asserted.ok,
                     blamed |-> IF asserted.ok THEN "none"
                                ELSE IF asserted.actual = ValueFor(cost, asserted.metric)
                                     THEN asserted.metric ELSE "other",
                     bounds |-> IsWithinBounds(cost, cpuLimit, memoryLimit)]
      /\ UNCHANGED <<linear, hashed, pc, bench>>

(* compare_backends *)

BenchSnapshot(k) == [cpu |-> k - 1, memory |-> k - 1]

Start(count, warm) ==
  /\ pc = "use" /\ linear = <<>> /\ hashed = Empty
  /\ n' = count /\ warmup' = warm /\ i' = 0 /\ missed' = FALSE
  /\ pc' = "warmup"
  /\ UNCHANGED <<linear, hashed, verdict>>

\* names[i] is out of bounds when warmup exceeds n.
Warmup ==
  /\ pc = "warmup" /\ i < warmup
  /\ UNCHANGED <<n, warmup, missed, verdict>>
  /\ IF i < n
     THEN /\ linear' = LinearRecord(linear, Names[i + 1], BenchSnapshot(i + 1))
          /\ hashed' = HashedRecord(hashed, Names[i + 1], BenchSnapshot(i + 1))
          /\ i' = i + 1
          /\ pc' = pc
     ELSE pc' = "panicked" /\ UNCHANGED <<linear, hashed, i>>

TimeLinear ==
  /\ pc = "linear" /\ i < n
  /\ linear' = LinearRecord(linear, Names[i + 1], BenchSnapshot(i + 1))
  /\ i' = i + 1
  /\ UNCHANGED <<hashed, pc, n, warmup, missed, verdict>>

TimeHashed ==
  /\ pc = "hashed" /\ i < n
  /\ hashed' = HashedRecord(hashed, Names[i + 1], BenchSnapshot(i + 1))
  /\ i' = i + 1
  /\ UNCHANGED <<linear, pc, n, warmup, missed, verdict>>

TimeLookups ==
  /\ pc \in {"linear lookups", "hashed lookups"} /\ i < n
  /\ LET found == IF pc = "linear lookups" THEN LinearLookup(linear, Names[i + 1])
                                           ELSE HashedLookup(hashed, Names[i + 1])
     IN  missed' = (missed \/ found = NoEntry)
  /\ i' = i + 1
  /\ UNCHANGED <<linear, hashed, pc, n, warmup, verdict>>

After == [p \in {"warmup", "linear", "hashed", "linear lookups", "hashed lookups"} |->
            CASE p = "warmup" -> "linear"
              [] p = "linear" -> "hashed"
              [] p = "hashed" -> "linear lookups"
              [] p = "linear lookups" -> "hashed lookups"
              [] p = "hashed lookups" -> "done"]

\* Mutant of NextLoop: the counter is not set back.
NextLoopGoesOn ==
  /\ pc \in DOMAIN After
  /\ i = (IF pc = "warmup" THEN warmup ELSE n)
  /\ pc' = After[pc]
  /\ UNCHANGED <<linear, hashed, n, warmup, i, missed, verdict>>

NextLoop ==
  /\ pc \in DOMAIN After
  /\ i = (IF pc = "warmup" THEN warmup ELSE n)
  /\ pc' = After[pc] /\ i' = 0
  /\ UNCHANGED <<linear, hashed, n, warmup, missed, verdict>>

Next ==
  \/ \E op \in Operations, s \in Snapshots : Record(op, s)
  \/ Clear
  \/ Convert
  \/ \E c, m \in (1..MaxU64) \cup {NoLimit} : Judge(c, m)
  \/ \E count \in 0..Len(Names), warm \in 0..MaxWarmup : Start(count, warm)
  \/ Warmup
  \/ TimeLinear
  \/ TimeHashed
  \/ TimeLookups
  \/ NextLoop

Spec == Init /\ [][Next]_vars

-----------------------------------------------------------------------------
(* PROPERTIES *)

\* Swapping one backend for the other changes no answer: every lookup finds
\* the same snapshot and `len' is the same, as long as both were given the
\* same calls (they were not, between the two timed loops of the benchmark).
Paired == pc \notin {"linear", "hashed"}

SwapSafe ==
  Paired => \A op \in Operations : LinearLookup(linear, op) = HashedLookup(hashed, op)

\* A benchmark that comes to its end timed the same work on both backends:
\* each holds every name once, with its own snapshot, and no lookup missed.
\* Only a warmup that exceeds n ends it in a panic.
BenchIsFair ==
  /\ pc = "panicked" => warmup > n
  /\ pc = "done" =>
       /\ ~missed
       /\ Len(linear) = n /\ Cardinality(DOMAIN hashed) = n
       /\ \A k \in 1..n :
            BenchSnapshot(k) = LinearLookup(linear, Names[k])
              /\ BenchSnapshot(k) = HashedLookup(hashed, Names[k])

\* What a caller judges has one answer: both backends have the same totals and
\* the same `len', overflow included, the library's two judgments of one measured
\* cost do not contradict each other, and an assertion that fails names a metric
\* that it read.
VerdictsAgree ==
  /\ verdict.ok = verdict.bounds /\ verdict.blamed # "other"
  /\ Paired => /\ Len(linear) = Cardinality(DOMAIN hashed)
               /\ \A metric \in {"cpu", "memory"} :
                    LinearSum(linear, metric) = HashedSum(hashed, metric)

\* The scanned vector implements the map of the trait, through every call
\* of a caller and of the benchmark.
Abstract == INSTANCE CostMap WITH
  Snapshots <- Snapshots \cup {BenchSnapshot(k) : k \in 1..Len(Names)},
  map <- [op \in LinearOps(linear) |-> LinearLookup(linear, op)]

ImplementsMap == Abstract!Spec
=============================================================================

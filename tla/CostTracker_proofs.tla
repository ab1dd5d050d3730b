------------------------- MODULE CostTracker_proofs -------------------------
(***************************************************************************)
(* What CostTracker promises, for all operations, costs and benchmarks.    *)
(*                                                                         *)
(* The first invariant holds the vector against the map, in and out of the *)
(* timed loops; Bench says what each loop of compare_backends has recorded *)
(* so far.  The totals are folds over a set; what is needed of them comes  *)
(* by induction over the subsets of a finite set.                          *)
(***************************************************************************)
EXTENDS CostTracker, FiniteSetTheorems, TLAPS

----------------------------------------------------------------------------
(* The vector: entries of distinct operations.                             *)

Snapshot == Snapshots \cup {BenchSnapshot(k) : k \in 1..Len(Names)}
Entry == [op : Operations, snap : Snapshot]

Distinct(entries) ==
  \A k, l \in DOMAIN entries : entries[k].op = entries[l].op => k = l

(* The scan finds the one entry of a name.                                 *)
LEMMA OneEntry ==
  ASSUME NEW e \in Seq(Entry), Distinct(e), NEW k \in DOMAIN e
  PROVE  /\ Positions(e, e[k].op) = {k}
         /\ First(e, e[k].op) = k
         /\ Last(e, e[k].op) = k
<1>1. Positions(e, e[k].op) = {k}
  BY DEF Positions, Distinct
<1>2. k <= k
  BY DEF Entry
<1> QED
  BY <1>1, <1>2, Zenon DEF First, Last

(* A name has an entry or none.                                            *)
LEMMA NoPosition ==
  ASSUME NEW e \in Seq(Entry), NEW op
  PROVE  op \notin LinearOps(e) <=> Positions(e, op) = {}
BY DEF LinearOps, Positions

(* Recording keeps the entries well formed and their names distinct.       *)
LEMMA RecordDistinct ==
  ASSUME NEW e \in Seq(Entry), Distinct(e), NEW op \in Operations, NEW s \in Snapshot
  PROVE  /\ LinearRecord(e, op, s) \in Seq(Entry)
         /\ Distinct(LinearRecord(e, op, s))
         /\ LinearOps(LinearRecord(e, op, s)) = LinearOps(e) \cup {op}
         /\ \A o \in Operations :
              LinearLookup(LinearRecord(e, op, s), o)
                = (IF o = op THEN s ELSE LinearLookup(e, o))
<1> DEFINE r == LinearRecord(e, op, s)
<1>1. CASE op \in LinearOps(e)
  <2>1. PICK k \in DOMAIN e : e[k].op = op
    BY <1>1 DEF LinearOps
  <2>2. Positions(e, op) = {k} /\ First(e, op) = k
    BY <2>1, OneEntry
  <2>3. r = [e EXCEPT ![k].snap = s]
    BY <2>2 DEF LinearRecord
  <2>a. e[k] \in Entry
    BY <2>1
  <2>b. e[k] = [op |-> e[k].op, snap |-> e[k].snap] /\ e[k].op \in Operations
    BY <2>a DEF Entry
  <2>c. r = [e EXCEPT ![k] = [op |-> e[k].op, snap |-> s]]
    BY <2>1, <2>3, <2>b
  <2>d. [op |-> e[k].op, snap |-> s] \in Entry
    BY <2>b DEF Entry
  <2> HIDE DEF r
  <2>4. r \in Seq(Entry) /\ Len(r) = Len(e)
    BY <2>1, <2>c, <2>d
  <2>5. DOMAIN r = DOMAIN e
    BY <2>c
  <2>6. \A l \in DOMAIN e : r[l].op = e[l].op /\ (l # k => r[l] = e[l])
    BY <2>1, <2>c
  <2>7. r[k].snap = s
    BY <2>1, <2>c
  <2>8. Distinct(r)
    BY <2>5, <2>6 DEF Distinct
  <2>9. LinearOps(r) = LinearOps(e) \cup {op}
    BY <2>5, <2>6, <1>1 DEF LinearOps
  <2>10. ASSUME NEW o \in Operations
         PROVE  LinearLookup(r, o) = (IF o = op THEN s ELSE LinearLookup(e, o))
    <3>1. Positions(r, o) = Positions(e, o)
      BY <2>5, <2>6 DEF Positions
    <3>2. First(r, o) = First(e, o)
      BY <3>1 DEF First
    <3>3. CASE o = op
      BY <3>1, <3>2, <3>3, <2>2, <2>7 DEF LinearLookup
    <3>4. CASE o # op /\ Positions(e, o) = {}
      BY <3>1, <3>4 DEF LinearLookup
    <3>5. CASE o # op /\ Positions(e, o) # {}
      <4>1. PICK l \in DOMAIN e : e[l].op = o
        BY <3>5 DEF Positions
      <4>2. First(e, o) = l /\ l # k
        BY <4>1, <2>1, <3>5, OneEntry
      <4> QED
        BY <4>1, <4>2, <3>1, <3>2, <3>5, <2>6 DEF LinearLookup
    <3> QED
      BY <3>3, <3>4, <3>5
  <2> QED
    BY <2>4, <2>8, <2>9, <2>10 DEF r
<1>2. CASE op \notin LinearOps(e)
  <2>1. Positions(e, op) = {}
    BY <1>2, NoPosition
  <2>2. r = Append(e, [op |-> op, snap |-> s])
    BY <2>1 DEF LinearRecord
  <2>3. /\ r \in Seq(Entry)
        /\ Len(r) = Len(e) + 1
        /\ \A l \in DOMAIN e : r[l] = e[l]
        /\ r[Len(e) + 1] = [op |-> op, snap |-> s]
    BY <2>2 DEF Entry
  <2> HIDE DEF r
  <2>4. DOMAIN r = DOMAIN e \cup {Len(e) + 1}
    BY <2>3
  <2>5. \A l \in DOMAIN e : e[l].op # op
    BY <1>2 DEF LinearOps
  <2>6. Distinct(r)
    BY <2>3, <2>4, <2>5 DEF Distinct
  <2>7. LinearOps(r) = LinearOps(e) \cup {op}
    BY <2>3, <2>4 DEF LinearOps
  <2>8. ASSUME NEW o \in Operations
        PROVE  LinearLookup(r, o) = (IF o = op THEN s ELSE LinearLookup(e, o))
    <3>1. CASE o = op
      <4>1. Len(e) + 1 \in DOMAIN r /\ r[Len(e) + 1].op = op
        BY <2>3, <2>4
      <4>2. Positions(r, op) = {Len(e) + 1} /\ First(r, op) = Len(e) + 1
        BY <4>1, <2>3, <2>6, OneEntry
      <4> QED
        BY <3>1, <4>2, <2>3 DEF LinearLookup
    <3>2. CASE o # op
      <4>1. Positions(r, o) = Positions(e, o)
        BY <3>2, <2>3, <2>4 DEF Positions
      <4>2. First(r, o) = First(e, o)
        BY <4>1 DEF First
      <4>3. CASE Positions(e, o) = {}
        BY <4>1, <4>3, <3>2 DEF LinearLookup
      <4>4. CASE Positions(e, o) # {}
        <5>1. PICK l \in DOMAIN e : e[l].op = o
          BY <4>4 DEF Positions
        <5>2. First(e, o) = l
          BY <5>1, OneEntry
        <5> QED
          BY <5>1, <5>2, <4>1, <4>2, <4>4, <3>2, <2>3 DEF LinearLookup
      <4> QED
        BY <4>3, <4>4
    <3> QED
      BY <3>1, <3>2
  <2> QED
    BY <2>3, <2>6, <2>7, <2>8 DEF r
<1> QED
  BY <1>1, <1>2

(* The map answers what was recorded last.                                 *)
LEMMA RecordHashed ==
  ASSUME NEW m, NEW op, NEW s, NEW o
  PROVE  HashedLookup(HashedRecord(m, op, s), o)
           = (IF o = op THEN s ELSE HashedLookup(m, o))
BY DEF HashedLookup, HashedRecord

(* The conversion loses and changes nothing.                               *)
LEMMA ConvertKeeps ==
  ASSUME NEW e \in Seq(Entry), Distinct(e), NEW o \in Operations
  PROVE  HashedLookup(IntoHashed(e), o) = LinearLookup(e, o)
<1>1. CASE o \in LinearOps(e)
  <2>1. PICK k \in DOMAIN e : e[k].op = o
    BY <1>1 DEF LinearOps
  <2>2. Positions(e, o) = {k} /\ First(e, o) = k /\ Last(e, o) = k
    BY <2>1, OneEntry
  <2> QED
    BY <1>1, <2>2 DEF HashedLookup, IntoHashed, LinearLookup
<1>2. CASE o \notin LinearOps(e)
  <2>1. Positions(e, o) = {}
    BY <1>2, NoPosition
  <2> QED
    BY <1>2, <2>1 DEF HashedLookup, IntoHashed, LinearLookup
<1> QED
  BY <1>1, <1>2

----------------------------------------------------------------------------
(* The inductive invariant: outside the timed loops the backends agree;    *)
(* inside, the vector is ahead of the map by the names timed so far.       *)

Agree(op) == LinearLookup(linear, op) = HashedLookup(hashed, op)
Timed(k) == LinearLookup(linear, Names[k]) = BenchSnapshot(k)

Counters ==
  /\ n \in 0..Len(Names)
  /\ i \in Nat
  /\ pc \in {"use", "warmup", "panicked", "linear", "hashed",
             "linear lookups", "hashed lookups", "done"}

Ahead ==
  /\ pc = "linear" =>
       /\ i <= n
       /\ \A k \in 1..i : Timed(k)
       /\ \A op \in Operations : (\A k \in 1..i : op # Names[k]) => Agree(op)
  /\ pc = "hashed" =>
       /\ i <= n
       /\ \A k \in 1..n : Timed(k)
       /\ \A op \in Operations : (\A k \in (i+1)..n : op # Names[k]) => Agree(op)

IInv ==
  /\ linear \in Seq(Entry)
  /\ Distinct(linear)
  /\ Counters
  /\ Ahead
  /\ SwapSafe

(* A name of the benchmark is an operation, its snapshot one of the bench. *)
LEMMA BenchNames ==
  ASSUME NEW k \in 1..Len(Names)
  PROVE  Names[k] \in Operations /\ BenchSnapshot(k) \in Snapshot
BY NamesAssumption DEF Operations, Snapshot

LEMMA IInvInit == Init => IInv
<1> SUFFICES ASSUME Init PROVE IInv
  OBVIOUS
<1>1. linear \in Seq(Entry) /\ Distinct(linear)
  BY DEF Init, Distinct
<1>2. \A op \in Operations : Agree(op)
  BY DEF Init, Agree, LinearLookup, HashedLookup, Positions, Empty
<1>3. Counters /\ Ahead
  BY NamesAssumption DEF Init, Counters, Ahead
<1> QED
  BY <1>1, <1>2, <1>3 DEF IInv, SwapSafe, Agree

LEMMA IInvStep == IInv /\ [Next]_vars => IInv'
<1> SUFFICES ASSUME IInv, [Next]_vars PROVE IInv'
  OBVIOUS
<1>A. Len(Names) \in Nat
  BY NamesAssumption
<1>1. ASSUME NEW op \in Operations, NEW s \in Snapshots, Record(op, s)
      PROVE  IInv'
  <2>1. s \in Snapshot
    BY DEF Snapshot
  <2>2. linear' \in Seq(Entry) /\ Distinct(linear')
    BY <1>1, <2>1, RecordDistinct DEF IInv, Record
  <2>3. \A o \in Operations : Agree(o)'
    BY <1>1, <2>1, RecordDistinct, RecordHashed DEF IInv, Record, Agree, SwapSafe, Paired
  <2> QED
    BY <1>1, <2>2, <2>3 DEF IInv, Record, Counters, Ahead, SwapSafe, Agree, bench
<1>2. CASE Clear
  <2>1. linear' \in Seq(Entry) /\ Distinct(linear')
    BY <1>2 DEF Clear, Distinct
  <2>2. \A op \in Operations : Agree(op)'
    BY <1>2 DEF Clear, Agree, LinearLookup, HashedLookup, Positions, Empty
  <2> QED
    BY <1>2, <2>1, <2>2 DEF IInv, Clear, Counters, Ahead, SwapSafe, Agree, bench
<1>3. CASE Convert
  <2>1. \A op \in Operations : Agree(op)'
    BY <1>3, ConvertKeeps DEF IInv, Convert, Agree
  <2> QED
    BY <1>3, <2>1 DEF IInv, Convert, Counters, Ahead, SwapSafe, Agree, bench
<1>4. ASSUME NEW c, NEW m, Judge(c, m)
      PROVE  IInv'
  <2>1. UNCHANGED <<linear, hashed, pc, bench>>
    BY <1>4 DEF Judge
  <2> QED
    BY <2>1 DEF IInv, Counters, Ahead, SwapSafe, Agree, Timed, Paired, bench
<1>5. ASSUME NEW count \in 0..Len(Names), NEW warm \in 0..MaxWarmup, Start(count, warm)
      PROVE  IInv'
  BY <1>5 DEF IInv, Start, Counters, Ahead, SwapSafe, Paired
<1>6. CASE Warmup
  <2>1. CASE i < n
    <3>1. Names[i + 1] \in Operations /\ BenchSnapshot(i + 1) \in Snapshot
      <4>0. n \in 0..Len(Names) /\ i \in Nat
        BY DEF IInv, Counters
      <4>1. i + 1 \in 1..Len(Names)
        BY <4>0, <2>1, <1>A
      <4> QED
        BY <4>1, BenchNames
    <3>2. linear' \in Seq(Entry) /\ Distinct(linear')
      BY <1>6, <2>1, <3>1, RecordDistinct DEF IInv, Warmup
    <3>3. \A o \in Operations : Agree(o)'
      BY <1>6, <2>1, <3>1, RecordDistinct, RecordHashed
      DEF IInv, Warmup, Agree, SwapSafe, Paired
    <3> QED
      BY <1>6, <2>1, <3>2, <3>3 DEF IInv, Warmup, Counters, Ahead, SwapSafe, Agree
  <2>2. CASE ~(i < n)
    BY <1>6, <2>2 DEF IInv, Warmup, Counters, Ahead, SwapSafe, Paired
  <2> QED
    BY <2>1, <2>2
<1>7. CASE TimeLinear
  <2>1. Names[i + 1] \in Operations /\ BenchSnapshot(i + 1) \in Snapshot
    <3>1. i + 1 \in 1..Len(Names)
      BY <1>7, <1>A DEF IInv, Counters, TimeLinear
    <3> QED
      BY <3>1, BenchNames
  <2>2. linear' \in Seq(Entry) /\ Distinct(linear')
    BY <1>7, <2>1, RecordDistinct DEF IInv, TimeLinear
  <2>3. \A o \in Operations :
          LinearLookup(linear', o)
            = (IF o = Names[i + 1] THEN BenchSnapshot(i + 1) ELSE LinearLookup(linear, o))
    BY <1>7, <2>1, RecordDistinct DEF IInv, TimeLinear
  <2>4. i' = i + 1 /\ i' <= n' /\ i \in Nat /\ n \in 0..Len(Names) /\ n' = n
    BY <1>7, <1>A DEF IInv, Counters, TimeLinear
  <2>5. ASSUME NEW k \in 1..i'
        PROVE  Timed(k)'
    <3>1. k \in 1..Len(Names) /\ Names[k] \in Operations
      BY <2>4, <1>A, BenchNames
    <3>2. CASE k = i + 1
      BY <3>1, <3>2, <2>1, <2>3 DEF Timed
    <3>3. CASE k # i + 1
      <4>1. k \in 1..i /\ i + 1 \in 1..Len(Names)
        BY <2>4, <3>3, <1>A
      <4>2. Names[k] # Names[i + 1]
        BY <4>1, <3>1, <3>3, <1>A, NamesAssumption
      <4>3. Timed(k)
        BY <4>1, <1>7 DEF IInv, Ahead, TimeLinear
      <4> QED
        BY <4>2, <4>3, <3>1, <2>3 DEF Timed
    <3> QED
      BY <3>2, <3>3
  <2>6. ASSUME NEW op \in Operations, \A k \in 1..i' : op # Names[k]
        PROVE  Agree(op)'
    <3>1. op # Names[i + 1] /\ \A k \in 1..i : op # Names[k]
      BY <2>4, <2>6
    <3>2. Agree(op)
      BY <3>1, <1>7 DEF IInv, Ahead, TimeLinear
    <3> QED
      BY <3>1, <3>2, <2>3, <1>7 DEF Agree, TimeLinear
  <2>7. Ahead'
    BY <2>4, <2>5, <2>6, <1>7 DEF Ahead, TimeLinear
  <2> QED
    BY <1>7, <2>2, <2>4, <2>7 DEF IInv, Counters, SwapSafe, Paired, TimeLinear
<1>8. CASE TimeHashed
  <2>1. Names[i + 1] \in Operations
    <3>1. i + 1 \in 1..Len(Names)
      BY <1>8, <1>A DEF IInv, Counters, TimeHashed
    <3> QED
      BY <3>1, BenchNames
  <2>2. \A o \in Operations :
          HashedLookup(hashed', o)
            = (IF o = Names[i + 1] THEN BenchSnapshot(i + 1) ELSE HashedLookup(hashed, o))
    BY <1>8, RecordHashed DEF TimeHashed
  <2>3. i' = i + 1 /\ i' <= n' /\ i \in Nat /\ n \in 0..Len(Names) /\ n' = n
    BY <1>8, <1>A DEF IInv, Counters, TimeHashed
  <2>4. \A k \in 1..n : Timed(k)'
    BY <1>8 DEF IInv, Ahead, TimeHashed, Timed
  <2>5. ASSUME NEW op \in Operations, \A k \in (i' + 1)..n' : op # Names[k]
        PROVE  Agree(op)'
    <3>1. CASE op = Names[i + 1]
      <4>1. i + 1 \in 1..n
        BY <2>3
      <4>2. LinearLookup(linear', Names[i + 1]) = BenchSnapshot(i + 1)
        BY <2>4, <4>1 DEF Timed
      <4>3. HashedLookup(hashed', op) = BenchSnapshot(i + 1)
        BY <3>1, <2>2
      <4> QED
        BY <3>1, <4>2, <4>3 DEF Agree
    <3>2. CASE op # Names[i + 1]
      <4>1. \A k \in (i + 1)..n : op # Names[k]
        BY <3>2, <2>3, <2>5
      <4>2. Agree(op)
        BY <4>1, <1>8 DEF IInv, Ahead, TimeHashed
      <4> QED
        BY <4>2, <3>2, <2>2, <1>8 DEF Agree, TimeHashed
    <3> QED
      BY <3>1, <3>2
  <2>6. Ahead'
    BY <2>3, <2>4, <2>5, <1>8 DEF Ahead, TimeHashed
  <2> QED
    BY <1>8, <2>3, <2>6 DEF IInv, Counters, SwapSafe, Paired, TimeHashed
<1>9. CASE TimeLookups
  <2>0. i \in Nat
    BY DEF IInv, Counters
  <2>a. UNCHANGED <<linear, hashed, pc, n>> /\ i' = i + 1
    BY <1>9, Zenon DEF TimeLookups
  <2>1. UNCHANGED <<linear, hashed, pc, n>> /\ i' \in Nat
    BY <2>0, <2>a
  <2>2. pc \in {"linear lookups", "hashed lookups"}
    BY <1>9 DEF TimeLookups
  <2> QED
    BY <2>1, <2>2 DEF IInv, Counters, Ahead, SwapSafe, Paired
<1>10. CASE NextLoop
  <2>1. /\ UNCHANGED <<linear, hashed, n>>
        /\ i' = 0
        /\ \/ pc = "warmup" /\ pc' = "linear"
           \/ pc = "linear" /\ pc' = "hashed" /\ i = n
           \/ pc = "hashed" /\ pc' = "linear lookups" /\ i = n
           \/ pc = "linear lookups" /\ pc' = "hashed lookups"
           \/ pc = "hashed lookups" /\ pc' = "done"
    BY <1>10 DEF NextLoop, After
  <2>2. n \in 0..Len(Names) /\ i \in Nat
    BY DEF IInv, Counters
  <2>3. Ahead'
    <3>1. CASE pc = "warmup"
      <4>1. \A op \in Operations : Agree(op)
        BY <3>1 DEF IInv, SwapSafe, Paired, Agree
      <4> QED
        BY <3>1, <4>1, <2>1, <2>2, <1>A DEF Ahead, Agree
    <3>2. CASE pc = "linear"
      <4>1. /\ pc' = "hashed" /\ i' = 0 /\ n' = n
            /\ \A k \in 1..n : Timed(k)'
            /\ \A op \in Operations : (\A k \in 1..n : op # Names[k]) => Agree(op)'
        BY <3>2, <2>1, <2>2 DEF IInv, Ahead, Agree, Timed
      <4> QED
        BY <4>1, <2>2, <1>A DEF Ahead
    <3>3. CASE pc \notin {"warmup", "linear"}
      BY <3>3, <2>1 DEF Ahead
    <3> QED
      BY <3>1, <3>2, <3>3
  <2>4. SwapSafe'
    <3>1. CASE pc = "hashed"
      <4>0. n \in Nat
        BY <2>2, <1>A
      <4>1. i = n
        BY <3>1, <2>1
      <4>2. \A op \in Operations : \A k \in (i + 1)..n : op # Names[k]
        BY <4>0, <4>1
      <4>3. \A op \in Operations : Agree(op)
        BY <3>1, <4>2 DEF IInv, Ahead
      <4> QED
        BY <4>3, <2>1 DEF SwapSafe, Agree
    <3>2. CASE pc # "hashed"
      BY <3>2, <2>1 DEF IInv, SwapSafe, Paired
    <3> QED
      BY <3>1, <3>2
  <2> QED
    BY <2>1, <2>2, <2>3, <2>4 DEF IInv, Counters
<1>11. CASE UNCHANGED vars
  BY <1>11 DEF IInv, Counters, Ahead, SwapSafe, Paired, Agree, Timed, vars, bench
<1> QED
  BY <1>1, <1>2, <1>3, <1>4, <1>5, <1>6, <1>7, <1>8, <1>9, <1>10, <1>11 DEF Next

(* Swapping one backend for the other changes no answer, whatever the      *)
(* operations and the costs.                                               *)
THEOREM SwapIsSafe == Spec => []SwapSafe
<1>1. IInv => SwapSafe
  BY DEF IInv
<1> QED
  BY <1>1, IInvInit, IInvStep, PTL DEF Spec

----------------------------------------------------------------------------
(* The refinement.                                                         *)

View(entries) == [op \in LinearOps(entries) |-> LinearLookup(entries, op)]

(* Recording in the vector is recording in the map it stands for.          *)
LEMMA RecordMaps ==
  ASSUME NEW e \in Seq(Entry), Distinct(e), NEW op \in Operations, NEW s \in Snapshot
  PROVE  View(LinearRecord(e, op, s)) = Abstract!Recorded(View(e), op, s)
<1> DEFINE r == LinearRecord(e, op, s)
<1>1. LinearOps(r) = LinearOps(e) \cup {op}
  BY RecordDistinct
<1>2. LinearOps(r) \subseteq Operations
  <2>1. r \in Seq(Entry)
    BY RecordDistinct
  <2> HIDE DEF r
  <2>2. \A k \in DOMAIN r : r[k] \in Entry
    BY <2>1
  <2> QED
    BY <2>2 DEF LinearOps, Entry
<1>3. \A o \in LinearOps(r) :
        LinearLookup(r, o) = (IF o = op THEN s ELSE View(e)[o])
  <2> SUFFICES ASSUME NEW o \in LinearOps(r)
               PROVE  LinearLookup(r, o) = (IF o = op THEN s ELSE View(e)[o])
    OBVIOUS
  <2>1. LinearLookup(r, o) = (IF o = op THEN s ELSE LinearLookup(e, o))
    BY <1>2, RecordDistinct
  <2> QED
    BY <2>1, <1>1 DEF View
<1>4. DOMAIN View(e) = LinearOps(e)
  BY DEF View
<1>5. View(r) = [o \in LinearOps(r) |-> LinearLookup(r, o)]
  BY DEF View
<1>6. Abstract!Recorded(View(e), op, s)
        = [o \in LinearOps(r) |-> IF o = op THEN s ELSE View(e)[o]]
  BY <1>1, <1>4 DEF Abstract!Recorded
<1> HIDE DEF r
<1>7. View(r) = Abstract!Recorded(View(e), op, s)
  BY <1>3, <1>5, <1>6
<1> QED
  BY <1>7 DEF r

LEMMA MapsInit == Init => Abstract!Init
BY DEF Init, Abstract!Init, Abstract!Nothing, LinearOps

LEMMA MapsStep == IInv /\ [Next]_vars => [Abstract!Next]_(View(linear))
<1> SUFFICES ASSUME IInv, [Next]_vars
             PROVE  Abstract!Next \/ View(linear)' = View(linear)
  OBVIOUS
<1>A. Len(Names) \in Nat
  BY NamesAssumption
<1>R. ASSUME NEW op \in Operations, NEW s \in Snapshot, linear' = LinearRecord(linear, op, s)
      PROVE  Abstract!Next
  <2>1. View(linear)' = Abstract!Recorded(View(linear), op, s)
    BY <1>R, RecordMaps DEF IInv, View
  <2>2. Abstract!Record(op, s)
    BY <2>1 DEF Abstract!Record, View
  <2> QED
    BY <2>2 DEF Abstract!Next, Snapshot
<1>B. ASSUME i < n
      PROVE  Names[i + 1] \in Operations /\ BenchSnapshot(i + 1) \in Snapshot
  <2>0. n \in 0..Len(Names) /\ i \in Nat
    BY DEF IInv, Counters
  <2>1. i + 1 \in 1..Len(Names)
    BY <2>0, <1>A, <1>B
  <2> QED
    BY <2>1, BenchNames
<1>1. ASSUME NEW op \in Operations, NEW s \in Snapshots, Record(op, s)
      PROVE  Abstract!Next
  BY <1>1, <1>R DEF Record, Snapshot
<1>2. CASE Clear
  <2>1. LinearOps(linear') = {}
    BY <1>2 DEF Clear, LinearOps
  <2>2. Abstract!Clear
    BY <2>1 DEF Abstract!Clear, Abstract!Nothing
  <2> QED
    BY <2>2 DEF Abstract!Next
<1>3. CASE linear' = linear
  BY <1>3 DEF View
<1>4. CASE Warmup
  BY <1>4, <1>R, <1>B, <1>3 DEF Warmup
<1>5. CASE TimeLinear
  BY <1>5, <1>R, <1>B DEF TimeLinear
<1>6. ASSUME NEW count, NEW warm, Start(count, warm)
      PROVE  linear' = linear
  BY <1>6 DEF Start
<1>7. ASSUME NEW c, NEW m, Judge(c, m)
      PROVE  linear' = linear
  BY <1>7 DEF Judge
<1>8. CASE Convert \/ TimeHashed \/ TimeLookups \/ NextLoop \/ UNCHANGED vars
  <2>1. linear' = linear
    BY <1>8 DEF Convert, TimeHashed, TimeLookups, NextLoop, vars
  <2> QED
    BY <2>1, <1>3
<1> QED
  BY <1>1, <1>2, <1>3, <1>4, <1>5, <1>6, <1>7, <1>8 DEF Next

(* The scanned vector implements the map of the trait, through every call  *)
(* of a caller and of the benchmark.                                       *)
THEOREM VectorImplementsMap == Spec => ImplementsMap
<1>1. Init => Abstract!Init
  BY MapsInit
<1>2. IInv /\ [Next]_vars
        => [Abstract!Next]_([op \in LinearOps(linear) |-> LinearLookup(linear, op)])
  BY MapsStep DEF View
<1> QED
  BY <1>1, <1>2, IInvInit, IInvStep, PTL DEF Spec, ImplementsMap, Abstract!Spec
----------------------------------------------------------------------------
(* The benchmark: what it has put into each backend, and how far it is.    *)

BenchNamed == {Names[k] : k \in 1..n}

HashedShape ==
  /\ DOMAIN hashed \subseteq Operations
  /\ \A op \in DOMAIN hashed : hashed[op] \in Snapshot

Bench ==
  /\ HashedShape
  /\ verdict.ok = verdict.bounds /\ verdict.blamed # "other"
  /\ warmup \in Nat
  /\ ~missed
  /\ pc # "use" => LinearOps(linear) \subseteq BenchNamed /\ DOMAIN hashed \subseteq BenchNamed
  /\ pc = "warmup" => i <= n
  /\ pc = "panicked" => warmup > n
  /\ pc \in {"linear lookups", "hashed lookups", "done"} => \A k \in 1..n : Timed(k)

\* No snapshot is taken for the lack of one.
LEMMA SnapshotIsEntry ==
  ASSUME NEW s \in Snapshot
  PROVE  /\ s # NoEntry
         /\ s.cpu \in Nat /\ s.memory \in Nat
<1>1. CASE s \in Snapshots
  <2>1. s.cpu \in 0..MaxU64 /\ s.memory \in 0..MaxU64 /\ MaxU64 \in Nat
    BY <1>1, CostsAssumption DEF Snapshots
  <2>2. NoEntry.cpu = MaxU64 + 1
    BY DEF NoEntry
  <2>3. s.cpu # NoEntry.cpu
    BY <2>1, <2>2
  <2> QED
    BY <2>1, <2>3
<1>2. CASE s \in {BenchSnapshot(k) : k \in 1..Len(Names)}
  <2>1. Len(Names) \in Nat /\ Len(Names) <= MaxU64 /\ MaxU64 \in Nat
    BY NamesAssumption, CostsAssumption
  <2>2. PICK k \in 1..Len(Names) : s = BenchSnapshot(k)
    BY <1>2
  <2>3. s.cpu = k - 1 /\ s.memory = k - 1
    BY <2>2 DEF BenchSnapshot
  <2>4. NoEntry.cpu = MaxU64 + 1
    BY DEF NoEntry
  <2> QED
    BY <2>1, <2>3, <2>4
<1> QED
  BY <1>1, <1>2 DEF Snapshot

\* A lookup finds an entry where there is one, and only there.
LEMMA FoundWhereThere ==
  ASSUME NEW e \in Seq(Entry), Distinct(e), NEW op
  PROVE  /\ op \in LinearOps(e) <=> LinearLookup(e, op) # NoEntry
         /\ op \in LinearOps(e) => LinearLookup(e, op) \in Snapshot /\ op \in Operations
<1>1. CASE op \in LinearOps(e)
  <2>1. PICK k \in DOMAIN e : e[k].op = op
    BY <1>1 DEF LinearOps
  <2>2. Positions(e, op) # {} /\ First(e, op) = k /\ e[k] \in Entry
    BY <2>1, OneEntry
  <2>3. LinearLookup(e, op) = e[k].snap
    BY <2>2 DEF LinearLookup
  <2> QED
    BY <1>1, <2>1, <2>2, <2>3, SnapshotIsEntry DEF Entry
<1>2. CASE op \notin LinearOps(e)
  <2>1. Positions(e, op) = {}
    BY <1>2, NoPosition
  <2> QED
    BY <1>2, <2>1 DEF LinearLookup
<1> QED
  BY <1>1, <1>2

\* Backends that answer alike know the same names.
LEMMA SameNames ==
  ASSUME IInv, HashedShape, Paired
  PROVE  LinearOps(linear) = DOMAIN hashed
<1>1. linear \in Seq(Entry) /\ Distinct(linear)
  BY DEF IInv
<1>2. LinearOps(linear) \subseteq Operations
  BY <1>1, FoundWhereThere
<1>3. \A op \in Operations : op \in LinearOps(linear) <=> op \in DOMAIN hashed
  <2> SUFFICES ASSUME NEW op \in Operations
               PROVE  op \in LinearOps(linear) <=> op \in DOMAIN hashed
    OBVIOUS
  <2>1. LinearLookup(linear, op) = HashedLookup(hashed, op)
    BY DEF IInv, SwapSafe
  <2>2. op \in DOMAIN hashed <=> HashedLookup(hashed, op) # NoEntry
    BY SnapshotIsEntry DEF HashedShape, HashedLookup
  <2> QED
    BY <1>1, <2>1, <2>2, FoundWhereThere
<1> QED
  BY <1>2, <1>3 DEF HashedShape

LEMMA BenchInit == Init => Bench
BY DEF Init, Bench, HashedShape, NoVerdict, Empty, LinearOps

(* One step of a judgment: it does not contradict the other library's.     *)
LEMMA JudgmentsAgree ==
  ASSUME NEW cost, NEW c, NEW m
  PROVE  LET asserted == Asserted(cost, c, m)
         IN  /\ asserted.ok = IsWithinBounds(cost, c, m)
             /\ ~asserted.ok => asserted.actual = ValueFor(cost, asserted.metric)
BY DEF Asserted, IsWithinBounds, WithinBudget, CpuWithin, MemoryWithin, Ok, Exceeded, ValueFor

LEMMA BenchStep == IInv /\ Bench /\ [Next]_vars => Bench'
<1> SUFFICES ASSUME IInv, Bench, [Next]_vars PROVE Bench'
  OBVIOUS
<1>A. n \in Nat /\ n \in 0..Len(Names) /\ Len(Names) \in Nat /\ i \in Nat
  <2>1. Len(Names) \in Nat
    BY NamesAssumption
  <2>2. n \in 0..Len(Names) /\ i \in Nat
    BY DEF IInv, Counters
  <2> QED
    BY <2>1, <2>2
<1>N. ASSUME i < n
      PROVE  /\ i + 1 \in 1..n
             /\ Names[i + 1] \in Operations /\ BenchSnapshot(i + 1) \in Snapshot
             /\ Names[i + 1] \in BenchNamed
  <2>1. i + 1 \in 1..n /\ i + 1 \in 1..Len(Names)
    BY <1>A, <1>N
  <2> QED
    BY <2>1, BenchNames DEF BenchNamed
<1>1. ASSUME NEW op \in Operations, NEW s \in Snapshots, Record(op, s)
      PROVE  Bench'
  <2>1. s \in Snapshot
    BY DEF Snapshot
  <2>2. HashedShape'
    BY <1>1, <2>1 DEF Bench, HashedShape, Record, HashedRecord
  <2> QED
    BY <1>1, <2>2 DEF Bench, Record, bench
<1>2. CASE Clear
  BY <1>2 DEF Bench, HashedShape, Clear, Empty, bench
<1>3. CASE Convert
  <2>1. ASSUME NEW op \in LinearOps(linear)
        PROVE  op \in Operations /\ linear[Last(linear, op)].snap \in Snapshot
    <3>1. PICK k \in DOMAIN linear : linear[k].op = op
      BY DEF LinearOps
    <3>2. Last(linear, op) = k /\ linear[k] \in Entry
      BY <3>1, OneEntry DEF IInv
    <3> QED
      BY <3>1, <3>2 DEF Entry
  <2>2. HashedShape'
    BY <1>3, <2>1 DEF HashedShape, Convert, IntoHashed
  <2> QED
    BY <1>3, <2>2 DEF Bench, Convert, bench
<1>4. ASSUME NEW c, NEW m, Judge(c, m)
      PROVE  Bench'
  <2>1. verdict'.ok = verdict'.bounds /\ verdict'.blamed # "other"
    <3> DEFINE cost == [cpu |-> HashedSum(hashed, "cpu"),
                        memory |-> LinearSum(linear, "memory")]
               asserted == Asserted(cost, c, m)
    <3>1. /\ verdict'.ok = asserted.ok
          /\ verdict'.bounds = IsWithinBounds(cost, c, m)
          /\ verdict'.blamed = IF asserted.ok THEN "none"
                               ELSE IF asserted.actual = ValueFor(cost, asserted.metric)
                                    THEN asserted.metric ELSE "other"
      BY <1>4 DEF Judge
    <3>2. /\ asserted.ok = IsWithinBounds(cost, c, m)
          /\ ~asserted.ok => asserted.actual = ValueFor(cost, asserted.metric)
      BY JudgmentsAgree
    <3>3. ~asserted.ok => asserted.metric # "other"
      BY DEF Asserted, WithinBudget, CpuWithin, MemoryWithin, Ok, Exceeded
    <3> HIDE DEF cost, asserted
    <3> QED
      BY <3>1, <3>2, <3>3
  <2>2. UNCHANGED <<linear, hashed, pc, bench>>
    BY <1>4 DEF Judge
  <2> QED
    BY <2>1, <2>2 DEF Bench, HashedShape, BenchNamed, Timed, bench
<1>5. ASSUME NEW count \in 0..Len(Names), NEW warm \in 0..MaxWarmup, Start(count, warm)
      PROVE  Bench'
  <2>1. warm \in Nat /\ count \in Nat
    BY <1>A, WarmupAssumption
  <2>2. LinearOps(linear') = {} /\ DOMAIN hashed' = {}
    BY <1>5 DEF Start, LinearOps, Empty
  <2>3. 0 <= count
    BY <2>1
  <2>4. HashedShape'
    BY <2>2 DEF HashedShape
  <2> QED
    BY <1>5, <2>1, <2>2, <2>3, <2>4 DEF Bench, Start
<1>6. CASE Warmup
  <2>1. CASE i < n
    <3>1. LinearOps(linear') = LinearOps(linear) \cup {Names[i + 1]}
      BY <1>6, <1>N, <2>1, RecordDistinct DEF Warmup, IInv
    <3>2. DOMAIN hashed' = DOMAIN hashed \cup {Names[i + 1]}
      BY <1>6, <2>1 DEF Warmup, HashedRecord
    <3>3. HashedShape'
      BY <1>6, <1>N, <2>1 DEF Bench, HashedShape, Warmup, HashedRecord
    <3>4. i' <= n' /\ pc' = "warmup" /\ pc = "warmup" /\ UNCHANGED <<n, warmup, missed, verdict>>
      BY <1>6, <1>A, <2>1 DEF Warmup
    <3> QED
      BY <1>N, <2>1, <3>1, <3>2, <3>3, <3>4 DEF Bench, BenchNamed
  <2>2. CASE ~(i < n)
    <3>1. i <= n /\ i < warmup /\ warmup \in Nat /\ pc = "warmup"
      BY <1>6 DEF Warmup, Bench
    <3>2. warmup > n
      BY <1>A, <2>2, <3>1
    <3>3. pc' = "panicked" /\ UNCHANGED <<linear, hashed, n, warmup, missed, verdict>>
      BY <1>6, <2>2 DEF Warmup
    <3> QED
      BY <3>1, <3>2, <3>3 DEF Bench, HashedShape, BenchNamed
  <2> QED
    BY <2>1, <2>2
<1>7. CASE TimeLinear
  <2>0. i < n /\ pc = "linear"
    BY <1>7 DEF TimeLinear
  <2>1. LinearOps(linear') = LinearOps(linear) \cup {Names[i + 1]}
    BY <1>7, <1>N, <2>0, RecordDistinct DEF TimeLinear, IInv
  <2> QED
    BY <1>7, <1>N, <2>0, <2>1 DEF Bench, HashedShape, BenchNamed, TimeLinear
<1>8. CASE TimeHashed
  <2>0. i < n /\ pc = "hashed"
    BY <1>8 DEF TimeHashed
  <2>1. DOMAIN hashed' = DOMAIN hashed \cup {Names[i + 1]}
    BY <1>8 DEF TimeHashed, HashedRecord
  <2>2. HashedShape'
    BY <1>8, <1>N, <2>0 DEF Bench, HashedShape, TimeHashed, HashedRecord
  <2> QED
    BY <1>8, <1>N, <2>0, <2>1, <2>2 DEF Bench, BenchNamed, TimeHashed
<1>9. CASE TimeLookups
  <2>0. i < n /\ pc \in {"linear lookups", "hashed lookups"}
    BY <1>9 DEF TimeLookups
  <2>1. /\ UNCHANGED <<linear, hashed, pc, n, warmup, verdict>>
        /\ missed' = (missed \/ (IF pc = "linear lookups"
                                 THEN LinearLookup(linear, Names[i + 1])
                                 ELSE HashedLookup(hashed, Names[i + 1])) = NoEntry)
    BY <1>9, Zenon DEF TimeLookups
  <2>2. LinearLookup(linear, Names[i + 1]) = BenchSnapshot(i + 1)
    BY <1>N, <2>0 DEF Bench, Timed
  <2>3. HashedLookup(hashed, Names[i + 1]) = BenchSnapshot(i + 1)
    BY <1>N, <2>0, <2>2 DEF IInv, SwapSafe, Paired
  <2>4. BenchSnapshot(i + 1) # NoEntry
    BY <1>N, <2>0, SnapshotIsEntry
  <2>5. ~missed'
    BY <2>1, <2>2, <2>3, <2>4 DEF Bench
  <2> QED
    BY <2>0, <2>1, <2>5 DEF Bench, HashedShape, BenchNamed, Timed
<1>10. CASE NextLoop
  <2>1. /\ UNCHANGED <<linear, hashed, n, warmup, missed, verdict>>
        /\ \/ pc = "warmup" /\ pc' = "linear"
           \/ pc = "linear" /\ pc' = "hashed"
           \/ pc = "hashed" /\ pc' = "linear lookups"
           \/ pc = "linear lookups" /\ pc' = "hashed lookups"
           \/ pc = "hashed lookups" /\ pc' = "done"
    BY <1>10 DEF NextLoop, After
  <2>2. pc = "hashed" => \A k \in 1..n : Timed(k)
    BY DEF IInv, Ahead
  <2> QED
    BY <2>1, <2>2 DEF Bench, HashedShape, BenchNamed, Timed
<1>11. CASE UNCHANGED vars
  BY <1>11 DEF Bench, HashedShape, BenchNamed, Timed, vars, bench
<1> QED
  BY <1>1, <1>2, <1>3, <1>4, <1>5, <1>6, <1>7, <1>8, <1>9, <1>10, <1>11 DEF Next

----------------------------------------------------------------------------
(* Sums.  The library adds up a function by taking one element of its      *)
(* domain after the other, in an order of its own; an induction over the   *)
(* subsets of the domain shows that the order makes no difference.         *)

Chosen(s) == CHOOSE x \in s : TRUE

\* The fold of v over the subsets of S, as the library sums.
IsFold(it, v, S) ==
  it = [s \in SUBSET S |-> IF s = {} THEN 0 ELSE v[Chosen(s)] + it[s \ {Chosen(s)}]]

(* Induction over the subsets of a finite set: a set of subsets that holds *)
(* each one whose strict subsets it holds is all of them.                  *)
LEMMA SubsetInduction ==
  ASSUME NEW S, IsFiniteSet(S), NEW T \in SUBSET SUBSET S,
         \A s \in SUBSET S : (\A t \in SUBSET s : t # s => t \in T) => s \in T
  PROVE  T = SUBSET S
<1> SUFFICES ASSUME T # SUBSET S PROVE FALSE
  OBVIOUS
<1> DEFINE Bad == (SUBSET S) \ T
<1>1. IsWellFoundedOn(StrictSubsetOrdering(S), SUBSET S)
  <2>1. FiniteSubsetsOf(S) = SUBSET S
    BY FS_FiniteSubsetsOfFinite
  <2>2. IsWellFoundedOn(StrictSubsetOrdering(S), FiniteSubsetsOf(S))
    BY FS_StrictSubsetOrderingWellFounded
  <2> QED
    BY <2>1, <2>2
<1>2. PICK s \in Bad : \A t \in Bad : ~(<<t, s>> \in StrictSubsetOrdering(S))
  <2>1. Bad \subseteq SUBSET S /\ Bad # {}
    OBVIOUS
  <2> HIDE DEF Bad
  <2> QED
    BY <1>1, <2>1, WFMin
<1>3. \A t \in SUBSET s : t # s => t \in T
  BY <1>2 DEF StrictSubsetOrdering
<1> QED
  BY <1>2, <1>3

(* What is taken out of a set next is in it.                               *)
LEMMA ChosenIn == ASSUME NEW s, s # {} PROVE Chosen(s) \in s
BY DEF Chosen

Folded(it, v, s) == IF s = {} THEN 0 ELSE v[Chosen(s)] + it[s \ {Chosen(s)}]

(* There is a fold: the one that is right on the subsets of at most a      *)
(* given size is made of one that is right on the smaller ones.            *)
LEMMA FoldExists ==
  ASSUME NEW S, IsFiniteSet(S), NEW v \in [S -> Nat]
  PROVE  \E it \in [SUBSET S -> Nat] : IsFold(it, v, S)
<1> DEFINE Upto(it, bound) ==
             \A s \in SUBSET S : Cardinality(s) <= Cardinality(bound) => it[s] = Folded(it, v, s)
           T == {bound \in SUBSET S : \E it \in [SUBSET S -> Nat] : Upto(it, bound)}
<1>0. \A s \in SUBSET S :
        IsFiniteSet(s) /\ Cardinality(s) \in Nat /\ Cardinality(s) <= Cardinality(S)
BY FS_Subset, FS_CardinalityType
<1>1. ASSUME NEW bound \in SUBSET S, \A t \in SUBSET bound : t # bound => t \in T
      PROVE  bound \in T
  <2>1. CASE bound = {}
    <3> DEFINE zero == [s \in SUBSET S |-> 0]
    <3>1. ASSUME NEW s \in SUBSET S, Cardinality(s) <= Cardinality(bound)
          PROVE  zero[s] = Folded(zero, v, s)
      <4>1. s = {}
        BY <2>1, <3>1, <1>0, FS_EmptySet
      <4> QED
        BY <4>1 DEF Folded
    <3>2. zero \in [SUBSET S -> Nat]
      OBVIOUS
    <3> HIDE DEF zero
    <3> QED
      BY <3>1, <3>2
  <2>2. CASE bound # {}
    <3>0. Chosen(bound) \in bound
      BY <2>2, ChosenIn
    <3> DEFINE less == bound \ {Chosen(bound)}
    <3>1. PICK it \in [SUBSET S -> Nat] : Upto(it, less)
      BY <1>1, <3>0
    <3>2. Cardinality(less) = Cardinality(bound) - 1
      BY <1>0, <3>0, FS_RemoveElement
    <3> DEFINE next == [s \in SUBSET S |-> Folded(it, v, s)]
    <3>3. next \in [SUBSET S -> Nat]
      BY ChosenIn DEF Folded
    <3>4. ASSUME NEW s \in SUBSET S, Cardinality(s) <= Cardinality(bound)
          PROVE  next[s] = Folded(next, v, s)
      <4>1. CASE s = {}
        BY <4>1 DEF Folded
      <4>2. CASE s # {}
        <5>1. Chosen(s) \in s /\ s \ {Chosen(s)} \in SUBSET S
          BY <4>2, ChosenIn
        <5>2. Cardinality(s \ {Chosen(s)}) = Cardinality(s) - 1
          BY <1>0, <5>1, FS_RemoveElement
        <5>3. Cardinality(s \ {Chosen(s)}) <= Cardinality(less)
          BY <1>0, <3>2, <3>4, <5>2
        <5>4. next[s \ {Chosen(s)}] = it[s \ {Chosen(s)}]
          <6> HIDE DEF less
          <6> QED
            BY <3>1, <5>1, <5>3
        <5> QED
          BY <4>2, <5>4 DEF Folded
      <4> QED
        BY <4>1, <4>2
    <3> HIDE DEF next
    <3> QED
      BY <3>3, <3>4
  <2> QED
    BY <2>1, <2>2
<1>2. T = SUBSET S
  <2>1. T \in SUBSET SUBSET S
    OBVIOUS
  <2> HIDE DEF T
  <2> QED
    BY <1>1, <2>1, SubsetInduction
<1>3. PICK it \in [SUBSET S -> Nat] : Upto(it, S)
  <2>1. S \in T
    BY <1>2
  <2> QED
    BY <2>1
<1>4. it = [s \in SUBSET S |-> Folded(it, v, s)]
BY <1>0, <1>3
<1> QED
BY <1>4 DEF IsFold, Folded

(* One step of the fold.                                                   *)
LEMMA FoldUnfolds ==
  ASSUME NEW S, NEW v, NEW it, IsFold(it, v, S), NEW s \in SUBSET S
  PROVE  it[s] = Folded(it, v, s)
BY DEF IsFold, Folded

(* What is added up is a number.                                           *)
LEMMA FoldType ==
  ASSUME NEW S, IsFiniteSet(S), NEW v \in [S -> Nat], NEW it, IsFold(it, v, S)
  PROVE  it \in [SUBSET S -> Nat]
<1> DEFINE T == {s \in SUBSET S : it[s] \in Nat}
<1>1. ASSUME NEW s \in SUBSET S, \A t \in SUBSET s : t # s => t \in T
      PROVE  s \in T
  <2>1. CASE s = {}
    <3>1. it[s] = Folded(it, v, s)
      BY FoldUnfolds
    <3> QED
      BY <2>1, <3>1 DEF Folded
  <2>2. CASE s # {}
    <3>1. Chosen(s) \in s
      BY <2>2, ChosenIn
    <3>2. it[s \ {Chosen(s)}] \in Nat
      BY <1>1, <3>1
    <3>3. it[s] = v[Chosen(s)] + it[s \ {Chosen(s)}]
      BY <2>2, FoldUnfolds DEF Folded
    <3> QED
      BY <3>1, <3>2, <3>3
  <2> QED
    BY <2>1, <2>2
<1>2. T = SUBSET S
  <2>1. T \in SUBSET SUBSET S
    OBVIOUS
  <2> HIDE DEF T
  <2> QED
    BY <1>1, <2>1, SubsetInduction
<1>3. it = [s \in SUBSET S |-> it[s]]
  BY DEF IsFold
<1> QED
  BY <1>2, <1>3

(* The sum of a function is the fold over its whole domain.                *)
LEMMA SumIs ==
  ASSUME NEW S, IsFiniteSet(S), NEW v \in [S -> Nat]
  PROVE  \E it \in [SUBSET S -> Nat] : IsFold(it, v, S) /\ SumFunction(v) = it[S]
<1>1. PICK g : IsFold(g, v, S)
  BY FoldExists
<1> DEFINE it == CHOOSE h : IsFold(h, v, S)
<1>2. IsFold(it, v, S)
  BY <1>1
<1>3. DOMAIN v = S
  OBVIOUS
<1>4. SumFunction(v) = it[S]
  BY <1>3 DEF SumFunction, SumFunctionOnSet, FoldFunctionOnSet, MapThenFoldSet, IsFold, Chosen
<1> HIDE DEF it
<1>5. it \in [SUBSET S -> Nat]
  BY <1>2, FoldType
<1> QED
  BY <1>2, <1>4, <1>5

(* Any element may be taken first.                                         *)
LEMMA AnyFirst ==
  ASSUME NEW S, IsFiniteSet(S), NEW v \in [S -> Nat], NEW it, IsFold(it, v, S)
  PROVE  \A s \in SUBSET S : \A x \in s : it[s] = v[x] + it[s \ {x}]
<1> DEFINE T == {s \in SUBSET S : \A x \in s : it[s] = v[x] + it[s \ {x}]}
<1>0. it \in [SUBSET S -> Nat]
  BY FoldType
<1>1. ASSUME NEW s \in SUBSET S, \A t \in SUBSET s : t # s => t \in T
      PROVE  s \in T
  <2> SUFFICES ASSUME NEW x \in s PROVE it[s] = v[x] + it[s \ {x}]
    OBVIOUS
  <2> DEFINE c == Chosen(s)
  <2>1. c \in s
    BY ChosenIn
  <2>2. it[s] = v[c] + it[s \ {c}]
    BY FoldUnfolds DEF Folded
  <2> HIDE DEF c
  <2>3. CASE x = c
    BY <2>2, <2>3
  <2>4. CASE x # c
    <3>1. it[s \ {c}] = v[x] + it[(s \ {c}) \ {x}]
      <4>1. s \ {c} \in T
        BY <1>1, <2>1
      <4> QED
        BY <4>1, <2>4
    <3>2. it[s \ {x}] = v[c] + it[(s \ {x}) \ {c}]
      <4>1. s \ {x} \in T
        BY <1>1
      <4> QED
        BY <4>1, <2>1, <2>4
    <3> DEFINE rest == it[(s \ {x}) \ {c}]
    <3>3. (s \ {c}) \ {x} = (s \ {x}) \ {c}
      OBVIOUS
    <3>4. v[c] \in Nat /\ v[x] \in Nat /\ rest \in Nat
      BY <1>0, <2>1
    <3>5. it[s] = v[c] + (v[x] + rest) /\ it[s \ {x}] = v[c] + rest
      BY <2>2, <3>1, <3>2, <3>3
    <3> HIDE DEF rest, T
    <3> QED
      BY <3>4, <3>5
  <2> QED
    BY <2>3, <2>4
<1>2. T = SUBSET S
  <2>1. T \in SUBSET SUBSET S
    OBVIOUS
  <2> HIDE DEF T
  <2> QED
    BY <1>1, <2>1, SubsetInduction
<1> QED
  BY <1>2

(* Two functions whose values correspond one to one have the same sum.     *)
LEMMA SameSum ==
  ASSUME NEW S, IsFiniteSet(S), NEW v \in [S -> Nat],
         NEW R, IsFiniteSet(R), NEW w \in [R -> Nat],
         NEW b \in Bijection(S, R), \A x \in S : w[b[x]] = v[x]
  PROVE  SumFunction(v) = SumFunction(w)
<1>1. PICK f \in [SUBSET S -> Nat] : IsFold(f, v, S) /\ SumFunction(v) = f[S]
  BY SumIs
<1>2. PICK g \in [SUBSET R -> Nat] : IsFold(g, w, R) /\ SumFunction(w) = g[R]
  BY SumIs
<1> DEFINE Image(s) == {b[x] : x \in s}
           T == {s \in SUBSET S : f[s] = g[Image(s)]}
<1>3. b \in [S -> R] /\ (\A x, y \in S : b[x] = b[y] => x = y) /\ (\A z \in R : \E x \in S : b[x] = z)
  BY DEF Bijection, Injection, Surjection, IsInjective
<1>4. ASSUME NEW s \in SUBSET S, \A t \in SUBSET s : t # s => t \in T
      PROVE  s \in T
  <2>1. CASE s = {}
    <3>1. Image(s) = {}
      BY <2>1
    <3>2. f[{}] = Folded(f, v, {}) /\ g[{}] = Folded(g, w, {})
      BY <1>1, <1>2, FoldUnfolds
    <3> QED
      BY <2>1, <3>1, <3>2 DEF Folded
  <2>2. CASE s # {}
    <3>1. PICK x \in s : TRUE
      BY <2>2
    <3>2. f[s] = v[x] + f[s \ {x}]
      BY <1>1, <3>1, AnyFirst
    <3>3. Image(s \ {x}) = Image(s) \ {b[x]}
      BY <1>3, <3>1
    <3>4. b[x] \in Image(s) /\ Image(s) \in SUBSET R
      BY <1>3, <3>1
    <3>5. g[Image(s)] = w[b[x]] + g[Image(s) \ {b[x]}]
      <4> HIDE DEF Image
      <4> QED
        BY <1>2, <3>4, AnyFirst
    <3>6. f[s \ {x}] = g[Image(s \ {x})]
      <4>1. s \ {x} \in T
        BY <1>4, <3>1
      <4> QED
        BY <4>1
    <3> QED
      BY <3>1, <3>2, <3>3, <3>5, <3>6
  <2> QED
    BY <2>1, <2>2
<1>5. T = SUBSET S
  <2>1. T \in SUBSET SUBSET S
    OBVIOUS
  <2>2. \A s \in SUBSET S : (\A t \in SUBSET s : t # s => t \in T) => s \in T
    BY <1>4
  <2> HIDE DEF T
  <2> QED
    BY <2>1, <2>2, SubsetInduction
<1>6. Image(S) = R
  BY <1>3
<1> QED
  BY <1>1, <1>2, <1>5, <1>6

----------------------------------------------------------------------------
(* What is counted and added up in the two backends.                       *)

(* A vector of distinct names has as many entries as names, one for each.  *)
LEMMA EntryOfName ==
  ASSUME NEW e \in Seq(Entry), Distinct(e)
  PROVE  /\ [k \in DOMAIN e |-> e[k].op] \in Bijection(DOMAIN e, LinearOps(e))
         /\ IsFiniteSet(DOMAIN e) /\ IsFiniteSet(LinearOps(e))
         /\ Cardinality(LinearOps(e)) = Len(e)
<1> DEFINE b == [k \in DOMAIN e |-> e[k].op]
<1>1. b \in Bijection(DOMAIN e, LinearOps(e))
  BY DEF Distinct, LinearOps, Bijection, Injection, Surjection, IsInjective
<1>2. Len(e) \in Nat /\ DOMAIN e = 1..Len(e)
  OBVIOUS
<1>3. IsFiniteSet(DOMAIN e) /\ Cardinality(DOMAIN e) = Len(e)
  BY <1>2, FS_Interval
<1>4. ExistsBijection(DOMAIN e, LinearOps(e))
  BY <1>1 DEF ExistsBijection
<1> QED
  BY <1>1, <1>3, <1>4, FS_Bijection

(* The names of the benchmark are n.                                       *)
LEMMA BenchNamedCount ==
  ASSUME n \in 0..Len(Names)
  PROVE  Cardinality(BenchNamed) = n
<1> DEFINE b == [k \in 1..n |-> Names[k]]
<1>1. n \in Nat /\ 1..n \subseteq DOMAIN Names
  BY NamesAssumption
<1>2. b \in Bijection(1..n, BenchNamed)
  <2>1. \A k, l \in 1..n : b[k] = b[l] => k = l
    BY <1>1, NamesAssumption
  <2>2. b \in [1..n -> BenchNamed]
    BY DEF BenchNamed
  <2>3. \A name \in BenchNamed : \E k \in 1..n : b[k] = name
    BY DEF BenchNamed
  <2> HIDE DEF b
  <2> QED
    BY <2>1, <2>2, <2>3 DEF Bijection, Injection, Surjection, IsInjective
<1>3. ExistsBijection(1..n, BenchNamed)
  BY <1>2 DEF ExistsBijection
<1> QED
  BY <1>1, <1>3, FS_CountingElements

(* Backends that answer alike have the same totals.                        *)
LEMMA SameTotals ==
  ASSUME IInv, HashedShape, Paired, NEW metric \in {"cpu", "memory"}
  PROVE  LinearSum(linear, metric) = HashedSum(hashed, metric)
<1> DEFINE v == [k \in DOMAIN linear |-> linear[k].snap[metric]]
           w == [op \in DOMAIN hashed |-> hashed[op][metric]]
           b == [k \in DOMAIN linear |-> linear[k].op]
<1>0. linear \in Seq(Entry) /\ Distinct(linear)
  BY DEF IInv
<1>1. DOMAIN hashed = LinearOps(linear)
  BY SameNames
<1>2. /\ b \in Bijection(DOMAIN linear, DOMAIN hashed)
      /\ IsFiniteSet(DOMAIN linear) /\ IsFiniteSet(DOMAIN hashed)
  BY <1>0, <1>1, EntryOfName
<1>3. \A s \in Snapshot : s[metric] \in Nat
  BY SnapshotIsEntry
<1>4. \A k \in DOMAIN linear :
        linear[k].op \in Operations /\ linear[k].snap \in Snapshot
  <2>1. \A k \in DOMAIN linear : linear[k] \in Entry
    BY <1>0
  <2> QED
    BY <2>1 DEF Entry
<1>5. v \in [DOMAIN linear -> Nat]
  BY <1>3, <1>4
<1>6. w \in [DOMAIN hashed -> Nat]
  BY <1>3 DEF HashedShape
<1>7. ASSUME NEW k \in DOMAIN linear PROVE w[b[k]] = v[k]
  <2>1. linear[k].op \in DOMAIN hashed
    BY <1>1 DEF LinearOps
  <2>2. LinearLookup(linear, linear[k].op) = hashed[linear[k].op]
    BY <1>4, <2>1 DEF IInv, SwapSafe, HashedLookup
  <2>3. LinearLookup(linear, linear[k].op) = linear[k].snap
    BY <1>0, OneEntry DEF LinearLookup
  <2> QED
    BY <2>1, <2>2, <2>3
<1> HIDE DEF v, w, b
<1>8. SumFunction(v) = SumFunction(w)
  BY <1>2, <1>5, <1>6, <1>7, SameSum
<1> QED
  BY <1>8 DEF LinearSum, HashedSum, v, w

----------------------------------------------------------------------------
(* A benchmark that ends timed the same work on both backends, and found   *)
(* every name in each (compare_backends).                                  *)
THEOREM BenchmarkIsFair == Spec => []BenchIsFair
<1>1. IInv /\ Bench => BenchIsFair
  <2> SUFFICES ASSUME IInv, Bench, pc = "done"
               PROVE  /\ Len(linear) = n /\ Cardinality(DOMAIN hashed) = n
                      /\ \A k \in 1..n :
                           BenchSnapshot(k) = LinearLookup(linear, Names[k])
                             /\ BenchSnapshot(k) = HashedLookup(hashed, Names[k])
    BY DEF BenchIsFair, Bench
  <2>0. n \in 0..Len(Names) /\ linear \in Seq(Entry) /\ Distinct(linear)
    BY DEF IInv, Counters
  <2>1. ASSUME NEW k \in 1..n
        PROVE  /\ Names[k] \in Operations /\ Names[k] \in LinearOps(linear)
               /\ LinearLookup(linear, Names[k]) = BenchSnapshot(k)
    <3>1. k \in 1..Len(Names)
      BY <2>0, NamesAssumption
    <3>2. Names[k] \in Operations /\ BenchSnapshot(k) # NoEntry
      BY <3>1, BenchNames, SnapshotIsEntry
    <3>3. LinearLookup(linear, Names[k]) = BenchSnapshot(k)
      BY DEF Bench, Timed
    <3> QED
      BY <2>0, <3>2, <3>3, FoundWhereThere
  <2>2. LinearOps(linear) = BenchNamed
    <3>1. LinearOps(linear) \subseteq BenchNamed
      BY DEF Bench
    <3> QED
      BY <2>1, <3>1 DEF BenchNamed
  <2>3. Paired
    BY DEF Paired
  <2>4. DOMAIN hashed = BenchNamed
    BY <2>2, <2>3, SameNames DEF Bench
  <2>5. \A k \in 1..n : HashedLookup(hashed, Names[k]) = BenchSnapshot(k)
    BY <2>1, <2>3 DEF IInv, SwapSafe
  <2> QED
    BY <2>0, <2>1, <2>2, <2>4, <2>5, EntryOfName, BenchNamedCount
<1> QED
  BY <1>1, IInvInit, IInvStep, BenchInit, BenchStep, PTL DEF Spec

(* What a caller judges has one answer: both backends have as many entries *)
(* and the same totals, and the two judgments of a cost do not contradict  *)
(* each other.                                                             *)
THEOREM JudgedAlike == Spec => []VerdictsAgree
<1>1. IInv /\ Bench => VerdictsAgree
  <2> SUFFICES ASSUME IInv, Bench, Paired
               PROVE  /\ Len(linear) = Cardinality(DOMAIN hashed)
                      /\ \A metric \in {"cpu", "memory"} :
                           LinearSum(linear, metric) = HashedSum(hashed, metric)
    BY DEF VerdictsAgree, Bench
  <2>1. Len(linear) = Cardinality(DOMAIN hashed)
    BY SameNames, EntryOfName DEF IInv, Bench
  <2> QED
    BY <2>1, SameTotals DEF Bench
<1> QED
  BY <1>1, IInvInit, IInvStep, BenchInit, BenchStep, PTL DEF Spec
=============================================================================

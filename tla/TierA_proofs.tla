---------------------------- MODULE TierA_proofs ----------------------------
(***************************************************************************)
(* Proofs about TierA, for any functions, reports, margins and costs: the  *)
(* files hold the limits of one derivation each, the sidecar follows the   *)
(* limits, a test that passed was within a margin of a measurement, and a  *)
(* scenario's limit covers its functions.                                  *)
(*                                                                         *)
(* The invariant follows a derivation through its writes: what it renames  *)
(* is the whole of what it derived, and the env file comes first.          *)
(***************************************************************************)
EXTENDS TierA, FiniteSetTheorems, TLAPS

Source == [report : Reports, margin : Margins]
Test == [pc : {"idle", "asserting", "passed", "failed"}, target : Target,
         next : DOMAIN MetricOrder, cost : [Metric -> Nat], since : Nat]

\* What a derivation that began had settled.
Settled(s) == s.report # None /\ ValidMargin(s.margin) /\ ~ScenarioIncomplete(s.report)

Where == {Idle} \cup ({"env", "md"} \X {"write", "fill", "rename"})

Shape ==
  /\ report \in Reports
  /\ sources \in Seq(Source)
  /\ \A n \in DOMAIN sources : Settled(sources[n])
  /\ DOMAIN files \subseteq {"env", "md"}
  /\ DOMAIN tmp = {"env", "md"}
  /\ pc \in Where
  /\ pc # Idle <=> exit = "running"
  /\ test \in Test

Writing ==
  pc # Idle =>
    /\ Len(sources) \in DOMAIN sources
    /\ out = [stamp |-> Len(sources), limits |-> Derived(Len(sources))]
    /\ pc[2] = "rename" => tmp[pc[1]] = out
    /\ pc[1] = "md" => "env" \in DOMAIN files /\ files["env"].stamp = Len(sources)

Records ==
  \A f \in DOMAIN files : files[f] = [stamp |-> files[f].stamp, limits |-> files[f].limits]

Stamp == IF "env" \in DOMAIN files THEN files["env"].stamp ELSE 0

\* A measurement as recent as the test's start covers the cost of m.
Covered(m) ==
  \E n \in DOMAIN sources :
    n >= test.since /\ WithinMargin(<<test.target, m>>, test.cost[m], sources[n])

Asserted ==
  test.pc \in {"asserting", "passed"} /\ test.target # Network =>
    /\ test.since <= Stamp
    /\ \A i \in DOMAIN MetricOrder :
         i < test.next \/ test.pc = "passed" => Covered(MetricOrder[i])

IInv ==
  /\ Shape
  /\ Writing
  /\ Records
  /\ FilesAreWhole
  /\ ProvenanceFollowsLimits
  /\ Asserted

----------------------------------------------------------------------------
(* Stamps and derivations. *)

LEMMA Steps ==
  ASSUME NEW f \in {"env", "md"}, NEW s \in {"write", "fill", "rename"}
  PROVE  /\ <<f, s>> # Idle
         /\ <<f, s>> \in Where /\ Idle \in Where
  BY DEF Idle, Where

LEMMA Stamps ==
  ASSUME IInv
  PROVE  /\ \A f \in DOMAIN files :
              /\ files[f].stamp \in DOMAIN sources
              /\ files[f].stamp \in Nat /\ files[f].stamp <= Len(sources)
         /\ Stamp \in Nat /\ Stamp <= Len(sources)
  <1>1. sources \in Seq(Source)
    BY DEF IInv, Shape
  <1>2. \A f \in DOMAIN files : files[f].stamp \in DOMAIN sources
    BY DEF IInv, FilesAreWhole, Published
  <1> QED
    BY <1>1, <1>2 DEF Stamp

\* What was derived stays derived.
LEMMA Longer ==
  ASSUME sources \in Seq(Source), NEW s \in Source, sources' = Append(sources, s)
  PROVE  /\ sources' \in Seq(Source)
         /\ Len(sources') = Len(sources) + 1
         /\ sources'[Len(sources) + 1] = s
         /\ DOMAIN sources \subseteq DOMAIN sources'
         /\ \A n \in DOMAIN sources : sources'[n] = sources[n] /\ Derived(n)' = Derived(n)
  BY DEF Derived

----------------------------------------------------------------------------
(* The parts of the invariant that a step leaves alone. *)

LEMMA SameTest ==
  ASSUME IInv, UNCHANGED <<sources, test>>, Stamp' >= Stamp, Stamp' \in Nat
  PROVE  Asserted'
  <1>1. test \in Test /\ test.since \in Nat
    BY DEF IInv, Shape, Test
  <1>2. \A m : Covered(m)' <=> Covered(m)
    BY DEF Covered
  <1>3. Stamp \in Nat
    BY Stamps
  <1>4. test.pc \in {"asserting", "passed"} /\ test.target # Network => test.since <= Stamp'
    BY <1>1, <1>3 DEF IInv, Asserted
  <1> QED
    BY <1>2, <1>4 DEF IInv, Asserted

LEMMA SameFiles ==
  ASSUME IInv, UNCHANGED <<files, sources>>
  PROVE  Records' /\ FilesAreWhole' /\ Stamp' = Stamp
         /\ (exit' # "ok" \/ exit' = exit => ProvenanceFollowsLimits')
  BY DEF IInv, Records, FilesAreWhole, Published, Derived, Stamp, ProvenanceFollowsLimits

\* A rename: the file is the whole of what this derivation derived.
LEMMA Renamed ==
  ASSUME IInv, NEW f \in {"env", "md"}, Rename(f)
  PROVE  /\ DOMAIN files' = DOMAIN files \cup {f}
         /\ \A g \in DOMAIN files' : files'[g] = IF g = f THEN out ELSE files[g]
         /\ out = [stamp |-> Len(sources), limits |-> Derived(Len(sources))]
         /\ Len(sources) \in DOMAIN sources
         /\ UNCHANGED sources
  <1>1. pc = <<f, "rename">> /\ pc # Idle
    BY DEF Rename, Idle
  <1>2. tmp[f] = out
    BY <1>1 DEF IInv, Writing
  <1> QED
    BY <1>1, <1>2 DEF IInv, Writing, Rename, With

----------------------------------------------------------------------------
(* The derivation. *)

LEMMA BeginStep ==
  ASSUME IInv, NEW margin \in Margins, BeginDerive(margin)
  PROVE  IInv'
  <1> DEFINE s == [report |-> report, margin |-> margin]
  <1>1. /\ sources' = Append(sources, s)
        /\ out' = [stamp |-> Len(sources) + 1, limits |-> Derive(report, margin)]
        /\ pc' = <<"env", "write">> /\ exit' = "running"
        /\ UNCHANGED <<files, tmp, test>>
    BY DEF BeginDerive, WriteOrder
  <1>2. report \in Reports
    BY DEF IInv, Shape
  <1>3. s \in Source /\ sources \in Seq(Source)
    BY <1>2 DEF IInv, Shape, Source
  <1>4. /\ sources' \in Seq(Source)
        /\ Len(sources') = Len(sources) + 1
        /\ sources'[Len(sources) + 1] = s
        /\ DOMAIN sources \subseteq DOMAIN sources'
        /\ \A n \in DOMAIN sources : sources'[n] = sources[n] /\ Derived(n)' = Derived(n)
    BY <1>1, <1>3, Longer
  <1>5. Shape'
    <2>1. pc' # Idle /\ pc' \in Where
      BY <1>1, Steps
    <2>2. Settled(s)
      BY DEF BeginDerive, Derivable, Settled
    <2>3. \A n \in DOMAIN sources' : Settled(sources'[n])
      <3>1. \A n \in DOMAIN sources' : n \in DOMAIN sources \/ n = Len(sources) + 1
        BY <1>3, <1>4
      <3> HIDE DEF s
      <3> QED
        BY <1>4, <2>2, <3>1 DEF IInv, Shape
    <2> QED
      BY <1>1, <1>4, <2>1, <2>3 DEF IInv, Shape, BeginDerive
  <1>6. Writing'
    <2>1. Derived(Len(sources))' = Derive(report, margin)
      BY <1>4 DEF Derived
    <2>2. Len(sources') \in DOMAIN sources'
      BY <1>3, <1>4
    <2>3. out' = [stamp |-> Len(sources'), limits |-> Derived(Len(sources))']
      BY <1>1, <1>4, <2>1
    <2>4. pc'[1] # "md" /\ pc'[2] # "rename"
      BY <1>1
    <2> QED
      BY <2>2, <2>3, <2>4 DEF Writing
  <1>7. Records' /\ ProvenanceFollowsLimits'
    BY <1>1 DEF IInv, Records, ProvenanceFollowsLimits, Published
  <1>8. FilesAreWhole'
    BY <1>1, <1>4 DEF IInv, FilesAreWhole, Published, Derived
  <1>9. Asserted'
    <2>1. \A m : Covered(m) => Covered(m)'
      BY <1>1, <1>4 DEF Covered
    <2> QED
      BY <1>1, <2>1 DEF IInv, Asserted, Stamp
  <1> QED
    BY <1>5, <1>6, <1>7, <1>8, <1>9 DEF IInv

\* A derivation that ends, or never begins, leaves the files alone.
LEMMA EndStep ==
  ASSUME IInv, NEW status \in {"error", "killed"}, Done(status),
         UNCHANGED <<report, files, tmp, sources, test>>
  PROVE  IInv'
  <1>1. Idle \in Where
    BY Steps
  <1>2. Shape' /\ Writing'
    BY <1>1 DEF IInv, Shape, Writing, Done
  <1>3. Records' /\ FilesAreWhole' /\ ProvenanceFollowsLimits' /\ Stamp' = Stamp
    BY SameFiles DEF Done
  <1>4. Asserted'
    BY <1>3, Stamps, SameTest
  <1> QED
    BY <1>2, <1>3, <1>4 DEF IInv

LEMMA WriteStep ==
  ASSUME IInv, NEW f \in {"env", "md"}, StartWrite(f) \/ FinishWrite(f)
  PROVE  IInv'
  <1>1. /\ UNCHANGED <<report, files, sources, test, exit, out>>
        /\ \/ pc = <<f, "write">> /\ pc' = <<f, "fill">> /\ tmp' = [tmp EXCEPT ![f] = Torn]
           \/ pc = <<f, "fill">> /\ pc' = <<f, "rename">> /\ tmp' = [tmp EXCEPT ![f] = out]
    BY DEF StartWrite, FinishWrite, Forward
  <1>2. pc # Idle /\ pc' # Idle
    BY <1>1 DEF Idle
  <1>3. Shape'
    <2>1. pc' \in Where
      BY <1>1, Steps
    <2> QED
      BY <1>1, <1>2, <2>1 DEF IInv, Shape
  <1>4. Writing'
    <2>1. Derived(Len(sources))' = Derived(Len(sources))
      BY <1>1 DEF Derived
    <2>2. pc'[1] = pc[1] /\ pc[1] = f
      BY <1>1
    <2>3. pc'[2] = "rename" => tmp'[f] = out
      BY <1>1 DEF IInv, Shape
    <2> QED
      BY <1>1, <1>2, <2>1, <2>2, <2>3 DEF IInv, Writing
  <1>5. Records' /\ FilesAreWhole' /\ ProvenanceFollowsLimits' /\ Stamp' = Stamp
    BY <1>1, SameFiles
  <1>6. Asserted'
    BY <1>1, <1>5, Stamps, SameTest
  <1> QED
    BY <1>3, <1>4, <1>5, <1>6 DEF IInv

LEMMA RenameStep ==
  ASSUME IInv, NEW f \in {"env", "md"}, Rename(f)
  PROVE  IInv'
  <1>1. /\ DOMAIN files' = DOMAIN files \cup {f}
        /\ \A g \in DOMAIN files' : files'[g] = IF g = f THEN out ELSE files[g]
        /\ out = [stamp |-> Len(sources), limits |-> Derived(Len(sources))]
        /\ Len(sources) \in DOMAIN sources
        /\ UNCHANGED sources
    BY Renamed
  <1>2. UNCHANGED test /\ pc = <<f, "rename">> /\ pc # Idle /\ exit = "running"
    BY DEF Rename, IInv, Shape, Idle
  <1>3. sources \in Seq(Source) /\ Len(sources) \in Nat
    BY DEF IInv, Shape
  <1>4. Records'
    BY <1>1 DEF IInv, Records
  <1>5. FilesAreWhole'
    BY <1>1 DEF IInv, FilesAreWhole, Published, Derived
  <1>6. Stamp' >= Stamp /\ Stamp' \in Nat
    BY <1>1, <1>3, Stamps DEF Stamp
  <1>7. Asserted'
    BY <1>1, <1>2, <1>6, SameTest
  <1>8. CASE f = "env"
    <2>1. pc' = <<"md", "write">> /\ UNCHANGED <<exit, out>> /\ tmp' = [tmp EXCEPT ![f] = Torn]
      BY <1>8 DEF Rename, NextFile, WriteOrder, Forward
    <2>2. Shape'
      <3>1. pc' # Idle /\ pc' \in Where
        BY <2>1, Steps
      <3>2. DOMAIN files' \subseteq {"env", "md"} /\ DOMAIN tmp' = {"env", "md"}
        BY <1>1, <2>1 DEF IInv, Shape
      <3> QED
        BY <1>1, <1>2, <2>1, <3>1, <3>2 DEF IInv, Shape, Rename
    <2>3. Derived(Len(sources))' = Derived(Len(sources))
      BY <1>1 DEF Derived
    <2>4. Writing'
      <3>1. pc'[1] = "md" /\ pc'[2] # "rename"
        BY <2>1
      <3>2. "env" \in DOMAIN files' /\ files'["env"].stamp = Len(sources)
        BY <1>1, <1>8
      <3> QED
        BY <1>1, <2>1, <2>3, <3>1, <3>2 DEF Writing
    <2>5. ProvenanceFollowsLimits'
      <3>1. "env" \in DOMAIN files' /\ files'["env"].stamp = Len(sources) /\ exit' # "ok"
        BY <1>1, <1>2, <1>8, <2>1
      <3>2. "md" \in DOMAIN files' => files'["md"].stamp <= Len(sources)
        BY <1>1, <1>8, Stamps
      <3> QED
        BY <3>1, <3>2 DEF ProvenanceFollowsLimits, Published
    <2> QED
      BY <1>4, <1>5, <1>7, <2>2, <2>4, <2>5 DEF IInv
  <1>9. CASE f = "md"
    <2>1. pc' = Idle /\ exit' = "ok" /\ tmp' = [tmp EXCEPT ![f] = Torn]
      BY <1>9 DEF Rename, NextFile, WriteOrder, Done
    <2>2. Shape'
      <3>1. pc' = Idle /\ pc' \in Where
        BY <2>1, Steps
      <3>2. DOMAIN files' \subseteq {"env", "md"} /\ DOMAIN tmp' = {"env", "md"}
        BY <1>1, <2>1 DEF IInv, Shape
      <3> QED
        BY <1>1, <1>2, <2>1, <3>1, <3>2 DEF IInv, Shape, Rename
    <2>3. Writing'
      BY <2>1 DEF Writing
    <2>4. "env" \in DOMAIN files /\ files["env"].stamp = Len(sources)
      BY <1>2, <1>9 DEF IInv, Writing
    <2>5. ProvenanceFollowsLimits'
      <3>1. files'["env"].stamp = Len(sources) /\ files'["md"].stamp = Len(sources)
        BY <1>1, <1>9, <2>4
      <3>2. DOMAIN files' = {"env", "md"}
        BY <1>1, <1>9, <2>4 DEF IInv, Shape
      <3> QED
        BY <1>3, <3>1, <3>2 DEF ProvenanceFollowsLimits, Published
    <2> QED
      BY <1>4, <1>5, <1>7, <2>2, <2>3, <2>5 DEF IInv
  <1> QED
    BY <1>8, <1>9

----------------------------------------------------------------------------
(* The network's limits, and tests. *)

LEMMA RefreshStep ==
  ASSUME IInv, NEW limits, RefreshNetwork(limits)
  PROVE  IInv'
  <1> DEFINE old == files["env"]
             new == [k \in Key |-> IF k[1] = Network THEN limits[k[2]] ELSE old.limits[k]]
  <1>1. /\ pc = Idle /\ "env" \in DOMAIN files
        /\ UNCHANGED <<report, tmp, pc, out, exit, sources, test>>
        /\ files' = With("env", [old EXCEPT !.limits = new])
    BY DEF RefreshNetwork
  <1>2. old = [stamp |-> old.stamp, limits |-> old.limits]
    BY <1>1 DEF IInv, Records
  <1>3. [old EXCEPT !.limits = new] = [stamp |-> old.stamp, limits |-> new]
    BY <1>2
  <1> HIDE DEF new
  <1>4. /\ DOMAIN files' = DOMAIN files
        /\ files'["env"] = [stamp |-> old.stamp, limits |-> new]
        /\ \A g \in DOMAIN files : g # "env" => files'[g] = files[g]
    BY <1>1, <1>3 DEF With
  <1>5. \A f \in DOMAIN files : files'[f].stamp = files[f].stamp
    BY <1>4
  <1>6. Shape' /\ Writing'
    BY <1>1, <1>4 DEF IInv, Shape, Writing
  <1>7. Records'
    BY <1>4 DEF IInv, Records
  <1>8. FilesAreWhole'
    <2>1. \A k \in Key : k[1] # Network => new[k] = Derived(old.stamp)[k]
      BY <1>1 DEF new, IInv, FilesAreWhole, Published
    <2>2. \A n : Derived(n)' = Derived(n)
      BY <1>1 DEF Derived
    <2> QED
      BY <1>1, <1>4, <1>5, <2>1, <2>2 DEF IInv, FilesAreWhole, Published
  <1>9. ProvenanceFollowsLimits'
    BY <1>1, <1>4, <1>5 DEF IInv, ProvenanceFollowsLimits, Published
  <1>10. Asserted'
    <2>1. Stamp' = Stamp
      BY <1>4, <1>5 DEF Stamp
    <2> QED
      BY <1>1, <2>1, Stamps, SameTest
  <1> QED
    BY <1>6, <1>7, <1>8, <1>9, <1>10 DEF IInv

\* What does not touch the derivation or the files.
LEMMA OtherStep ==
  ASSUME IInv, UNCHANGED <<files, tmp, pc, out, exit, sources>>, report' \in Reports,
         test' \in Test, Asserted'
  PROVE  IInv'
  <1>1. Shape' /\ Writing'
    BY DEF IInv, Shape, Writing, Derived
  <1> QED
    BY <1>1, SameFiles DEF IInv

LEMMA BeginTestStep ==
  ASSUME IInv, NEW target \in Target, NEW cost \in [Metric -> Costs], BeginTest(target, cost)
  PROVE  IInv'
  <1>1. test' = [pc |-> "asserting", target |-> target, next |-> 1, cost |-> cost, since |-> Stamp]
    BY DEF BeginTest, Stamp
  <1>2. test' \in Test
    <2>1. 1 \in DOMAIN MetricOrder
      BY MetricsAssumption
    <2>2. cost \in [Metric -> Nat]
      BY NumbersAssumption
    <2>3. Stamp \in Nat
      BY Stamps
    <2> QED
      BY <1>1, <2>1, <2>2, <2>3 DEF Test
  <1>3. Asserted'
    <2>1. test'.next = 1 /\ test'.pc = "asserting" /\ test'.since = Stamp /\ Stamp' = Stamp
      BY <1>1 DEF BeginTest, Stamp
    <2>2. \A i \in DOMAIN MetricOrder : ~(i < 1)
      BY MetricsAssumption
    <2> QED
      BY <2>1, <2>2, Stamps DEF Asserted
  <1> QED
    BY <1>2, <1>3, OtherStep DEF BeginTest, IInv, Shape

\* An assertion that holds had a limit, and it was a derived one.
LEMMA HoldsCovers ==
  ASSUME IInv, NEW m \in Metric, test.target # Network, test.since <= Stamp,
         Holds(<<test.target, m>>, test.cost[m])
  PROVE  Covered(m)
  <1> DEFINE k == <<test.target, m>>
             n == files["env"].stamp
  <1>1. "env" \in DOMAIN files /\ files["env"].limits[k] # None
        /\ Marginal(test.cost[m]) < files["env"].limits[k]
    BY DEF Holds, HasLimit, Limit
  <1>2. k \in Key /\ k[1] # Network /\ k[2] = m
    BY DEF IInv, Shape, Test, Key
  <1>3. n \in DOMAIN sources /\ files["env"].limits[k] = Derived(n)[k]
    BY <1>1, <1>2 DEF IInv, FilesAreWhole, Published
  <1>4. Derived(n)[k] = IF TierB(sources[n].report, k) = None THEN None
                        ELSE CeilApply(TierB(sources[n].report, k), sources[n].margin[m])
    BY <1>2 DEF Derived, Derive
  <1>5. WithinMargin(k, test.cost[m], sources[n])
    BY <1>1, <1>2, <1>3, <1>4 DEF WithinMargin
  <1>6. n >= test.since
    BY <1>1, <1>3, Stamps DEF Stamp, IInv, Shape, Test
  <1> QED
    BY <1>3, <1>5, <1>6 DEF Covered

LEMMA AssertStep == ASSUME IInv, Assert PROVE IInv'
  <1> DEFINE m == MetricOrder[test.next]
  <1>1. /\ test.pc = "asserting" /\ test \in Test
        /\ UNCHANGED <<report, files, tmp, pc, out, exit, sources>>
    BY DEF Assert, IInv, Shape
  <1>2. m \in Metric /\ test.next \in DOMAIN MetricOrder /\ test.next \in Nat
    BY <1>1, MetricsAssumption DEF Test, Metric
  <1>3. Stamp' = Stamp
    BY <1>1 DEF Stamp
  <1>4. CASE ~Holds(<<test.target, m>>, test.cost[m])
    <2>1. test' = [test EXCEPT !.pc = "failed"]
      BY <1>4 DEF Assert
    <2> QED
      BY <1>1, <2>1, OtherStep DEF Test, Asserted, IInv, Shape
  <1>5. CASE Holds(<<test.target, m>>, test.cost[m])
    <2>1. test.target # Network => Covered(m)
      BY <1>1, <1>2, <1>5, HoldsCovers DEF IInv, Asserted
    <2>2. \/ test.next = Len(MetricOrder) /\ test' = [test EXCEPT !.pc = "passed"]
          \/ test.next # Len(MetricOrder) /\ test' = [test EXCEPT !.next = test.next + 1]
      BY <1>5 DEF Assert
    <2>3. test' \in Test
      BY <1>1, <1>2, <2>2, MetricsAssumption DEF Test
    <2>4. test'.target = test.target /\ test'.since = test.since /\ test'.cost = test.cost
      BY <1>1, <2>2 DEF Test
    <2>5. \A x : Covered(x)' <=> Covered(x)
      BY <1>1, <2>4 DEF Covered
    <2>6. \A i \in DOMAIN MetricOrder :
            i < test'.next \/ test'.pc = "passed" => i < test.next \/ i = test.next
      BY <1>1, <1>2, <2>2, MetricsAssumption DEF Test
    <2>7. Asserted'
      BY <1>1, <1>3, <2>1, <2>4, <2>5, <2>6 DEF IInv, Asserted
    <2> QED
      BY <1>1, <2>3, <2>7, OtherStep DEF IInv, Shape
  <1> QED
    BY <1>4, <1>5

----------------------------------------------------------------------------
(* What the invariant gives. *)

LEMMA IInvInit == Init => IInv
  <1> SUFFICES ASSUME Init PROVE IInv
    OBVIOUS
  <1> USE DEF Init
  <1>1. DOMAIN files = {}
    OBVIOUS
  <1>2. Shape
    <2>1. test \in Test
      <3>1. 1 \in DOMAIN MetricOrder
        BY MetricsAssumption
      <3> QED
        BY <3>1 DEF NoTest, Test, Target
    <2>2. Idle \in Where
      BY Steps
    <2>3. sources \in Seq(Source)
      OBVIOUS
    <2> QED
      BY <1>1, <2>1, <2>2, <2>3 DEF Shape
  <1>3. Asserted
    BY DEF Asserted, NoTest
  <1> QED
    BY <1>1, <1>2, <1>3
    DEF IInv, Writing, Records, FilesAreWhole, ProvenanceFollowsLimits, Published

LEMMA IInvStep == IInv /\ [Next]_vars => IInv'
  <1> SUFFICES ASSUME IInv, [Next]_vars PROVE IInv'
    OBVIOUS
  <1>1. ASSUME NEW margin \in Margins, RefuseDerive(margin) PROVE IInv'
    BY <1>1, EndStep DEF RefuseDerive
  <1>2. CASE WriteFails \/ Kill
    BY <1>2, EndStep DEF WriteFails, Kill
  <1>3. CASE DeriveStep
    BY <1>1, <1>2, <1>3, BeginStep, WriteStep, RenameStep DEF DeriveStep
  <1>4. ASSUME NEW r \in Reports, Measure(r) PROVE IInv'
    <2>1. UNCHANGED <<sources, test>> /\ Stamp' = Stamp
      BY <1>4 DEF Measure, Stamp
    <2>2. Asserted'
      BY <2>1, Stamps, SameTest
    <2> QED
      BY <1>4, <2>2, OtherStep DEF Measure, IInv, Shape
  <1>5. CASE UNCHANGED vars
    <2>1. UNCHANGED <<sources, test>> /\ Stamp' = Stamp
      BY <1>5 DEF vars, Stamp
    <2>2. Asserted'
      BY <2>1, Stamps, SameTest
    <2> QED
      BY <1>5, <2>2, OtherStep DEF vars, IInv, Shape
  <1> QED
    BY <1>3, <1>4, <1>5, RefreshStep, BeginTestStep, AssertStep DEF Next

LEMMA IInvAlways == Spec => []IInv
  BY IInvInit, IInvStep, PTL DEF Spec

\* Whatever failed, was killed or was edited, each file holds all the limits of
\* one derivation (atomic_write).
THEOREM WholeFiles == Spec => []FilesAreWhole
  <1>1. IInv => FilesAreWhole
    BY DEF IInv
  <1> QED
    BY <1>1, IInvAlways, PTL

\* The sidecar never explains limits that are not in force (write_outputs).
THEOREM SidecarFollows == Spec => []ProvenanceFollowsLimits
  <1>1. IInv => ProvenanceFollowsLimits
    BY DEF IInv
  <1> QED
    BY <1>1, IInvAlways, PTL

\* A test that passed was within the margin of a measurement no older than the
\* limits it began with (generate_limit_expr, generate_metric_assert).
THEOREM NoPassWithoutMeasurement == Spec => []PassedWithinMargin
  <1>1. IInv => PassedWithinMargin
    <2> SUFFICES ASSUME IInv, test.pc = "passed", test.target # Network, NEW m \in Metric
                 PROVE  Covered(m)
      BY DEF PassedWithinMargin, Covered
    <2>1. PICK i \in DOMAIN MetricOrder : MetricOrder[i] = m
      BY DEF Metric
    <2> QED
      BY <2>1 DEF IInv, Asserted
  <1> QED
    BY <1>1, IInvAlways, PTL

----------------------------------------------------------------------------
(* Sums.  The library adds up a function by taking one element of its domain
   after the other; what a sum is larger and smaller than is an induction
   over the subsets of that domain. *)

Chosen(s) == CHOOSE x \in s : TRUE

\* The fold of v over the subsets of S, as the library sums.
IsFold(it, v, S) ==
  it = [s \in SUBSET S |-> IF s = {} THEN 0 ELSE v[Chosen(s)] + it[s \ {Chosen(s)}]]

\* Induction over the subsets of a finite set: a set of subsets that holds
\* each one whose strict subsets it holds is all of them.
LEMMA SubsetInduction ==
  ASSUME NEW S, IsFiniteSet(S), NEW T \in SUBSET SUBSET S,
         \A s \in SUBSET S : (\A t \in SUBSET s : t # s => t \in T) => s \in T
  PROVE  T = SUBSET S
  <1> SUFFICES ASSUME T # SUBSET S PROVE FALSE
    OBVIOUS
  <1> DEFINE Bad == (SUBSET S) \ T
  <1>1. IsWellFoundedOn(StrictSubsetOrdering(S), SUBSET S)
    <2>1. FiniteSubsetsOf(S) = SUBSET S
      BY FS_FiniteSubsetsOfFinite
    <2>2. IsWellFoundedOn(StrictSubsetOrdering(S), FiniteSubsetsOf(S))
      BY FS_StrictSubsetOrderingWellFounded
    <2> QED
      BY <2>1, <2>2
  <1>2. PICK s \in Bad : \A t \in Bad : ~(<<t, s>> \in StrictSubsetOrdering(S))
    <2>1. Bad \subseteq SUBSET S /\ Bad # {}
      OBVIOUS
    <2> HIDE DEF Bad
    <2> QED
      BY <1>1, <2>1, WFMin
  <1>3. \A t \in SUBSET s : t # s => t \in T
    BY <1>2 DEF StrictSubsetOrdering
  <1> QED
    BY <1>2, <1>3

\* What is taken out of a set next is in it.
LEMMA ChosenIn == ASSUME NEW s, s # {} PROVE Chosen(s) \in s
  BY DEF Chosen

Folded(it, v, s) == IF s = {} THEN 0 ELSE v[Chosen(s)] + it[s \ {Chosen(s)}]

\* There is a fold: the one that is right on the subsets of at most a
\* given size is made of one that is right on the smaller ones.
LEMMA FoldExists ==
  ASSUME NEW S, IsFiniteSet(S), NEW v \in [S -> Nat]
  PROVE  \E it \in [SUBSET S -> Nat] : IsFold(it, v, S)
  <1> DEFINE Upto(it, bound) ==
               \A s \in SUBSET S : Cardinality(s) <= Cardinality(bound) => it[s] = Folded(it, v, s)
             T == {bound \in SUBSET S : \E it \in [SUBSET S -> Nat] : Upto(it, bound)}
  <1>0. \A s \in SUBSET S :
          IsFiniteSet(s) /\ Cardinality(s) \in Nat /\ Cardinality(s) <= Cardinality(S)
  BY FS_Subset, FS_CardinalityType
  <1>1. ASSUME NEW bound \in SUBSET S, \A t \in SUBSET bound : t # bound => t \in T
        PROVE  bound \in T
    <2>1. CASE bound = {}
      <3> DEFINE zero == [s \in SUBSET S |-> 0]
      <3>1. ASSUME NEW s \in SUBSET S, Cardinality(s) <= Cardinality(bound)
            PROVE  zero[s] = Folded(zero, v, s)
        <4>1. s = {}
          BY <2>1, <3>1, <1>0, FS_EmptySet
        <4> QED
          BY <4>1 DEF Folded
      <3>2. zero \in [SUBSET S -> Nat]
        OBVIOUS
      <3> HIDE DEF zero
      <3> QED
        BY <3>1, <3>2
    <2>2. CASE bound # {}
      <3>0. Chosen(bound) \in bound
        BY <2>2, ChosenIn
      <3> DEFINE less == bound \ {Chosen(bound)}
      <3>1. PICK it \in [SUBSET S -> Nat] : Upto(it, less)
        BY <1>1, <3>0
      <3>2. Cardinality(less) = Cardinality(bound) - 1
        BY <1>0, <3>0, FS_RemoveElement
      <3> DEFINE next == [s \in SUBSET S |-> Folded(it, v, s)]
      <3>3. next \in [SUBSET S -> Nat]
        BY ChosenIn DEF Folded
      <3>4. ASSUME NEW s \in SUBSET S, Cardinality(s) <= Cardinality(bound)
            PROVE  next[s] = Folded(next, v, s)
        <4>1. CASE s = {}
          BY <4>1 DEF Folded
        <4>2. CASE s # {}
          <5>1. Chosen(s) \in s /\ s \ {Chosen(s)} \in SUBSET S
            BY <4>2, ChosenIn
          <5>2. Cardinality(s \ {Chosen(s)}) = Cardinality(s) - 1
            BY <1>0, <5>1, FS_RemoveElement
          <5>3. Cardinality(s \ {Chosen(s)}) <= Cardinality(less)
            BY <1>0, <3>2, <3>4, <5>2
          <5>4. next[s \ {Chosen(s)}] = it[s \ {Chosen(s)}]
            <6> HIDE DEF less
            <6> QED
              BY <3>1, <5>1, <5>3
          <5> QED
            BY <4>2, <5>4 DEF Folded
        <4> QED
          BY <4>1, <4>2
      <3> HIDE DEF next
      <3> QED
        BY <3>3, <3>4
    <2> QED
      BY <2>1, <2>2
  <1>2. T = SUBSET S
    <2>1. T \in SUBSET SUBSET S
      OBVIOUS
    <2> HIDE DEF T
    <2> QED
      BY <1>1, <2>1, SubsetInduction
  <1>3. PICK it \in [SUBSET S -> Nat] : Upto(it, S)
    <2>1. S \in T
      BY <1>2
    <2> QED
      BY <2>1
  <1>4. it = [s \in SUBSET S |-> Folded(it, v, s)]
  BY <1>0, <1>3
  <1> QED
  BY <1>4 DEF IsFold, Folded

\* One step of the fold.
LEMMA FoldUnfolds ==
  ASSUME NEW S, NEW v, NEW it, IsFold(it, v, S), NEW s \in SUBSET S
  PROVE  it[s] = Folded(it, v, s)
  BY DEF IsFold, Folded

\* What is added up is a number.
LEMMA FoldType ==
  ASSUME NEW S, IsFiniteSet(S), NEW v \in [S -> Nat], NEW it, IsFold(it, v, S)
  PROVE  it \in [SUBSET S -> Nat]
  <1> DEFINE T == {s \in SUBSET S : it[s] \in Nat}
  <1>1. ASSUME NEW s \in SUBSET S, \A t \in SUBSET s : t # s => t \in T
        PROVE  s \in T
    <2>1. CASE s = {}
      <3>1. it[s] = Folded(it, v, s)
        BY FoldUnfolds
      <3> QED
        BY <2>1, <3>1 DEF Folded
    <2>2. CASE s # {}
      <3>1. Chosen(s) \in s
        BY <2>2, ChosenIn
      <3>2. it[s \ {Chosen(s)}] \in Nat
        BY <1>1, <3>1
      <3>3. it[s] = v[Chosen(s)] + it[s \ {Chosen(s)}]
        BY <2>2, FoldUnfolds DEF Folded
      <3> QED
        BY <3>1, <3>2, <3>3
    <2> QED
      BY <2>1, <2>2
  <1>2. T = SUBSET S
    <2>1. T \in SUBSET SUBSET S
      OBVIOUS
    <2> HIDE DEF T
    <2> QED
      BY <1>1, <2>1, SubsetInduction
  <1>3. it = [s \in SUBSET S |-> it[s]]
    BY DEF IsFold
  <1> QED
    BY <1>2, <1>3

\* The sum of a function is the fold over its whole domain.
LEMMA SumIs ==
  ASSUME NEW S, IsFiniteSet(S), NEW v \in [S -> Nat]
  PROVE  \E it \in [SUBSET S -> Nat] : IsFold(it, v, S) /\ SumFunction(v) = it[S]
  <1>1. PICK g : IsFold(g, v, S)
    BY FoldExists
  <1> DEFINE it == CHOOSE h : IsFold(h, v, S)
  <1>2. IsFold(it, v, S)
    BY <1>1
  <1>3. DOMAIN v = S
    OBVIOUS
  <1>4. SumFunction(v) = it[S]
    BY <1>3 DEF SumFunction, SumFunctionOnSet, FoldFunctionOnSet, MapThenFoldSet, IsFold, Chosen
  <1> HIDE DEF it
  <1>5. it \in [SUBSET S -> Nat]
    BY <1>2, FoldType
  <1> QED
    BY <1>2, <1>4, <1>5

\* Each element is part of the sum.
LEMMA PartOfSum ==
  ASSUME NEW S, IsFiniteSet(S), NEW v \in [S -> Nat]
  PROVE  /\ SumFunction(v) \in Nat
         /\ \A x \in S : v[x] <= SumFunction(v)
         /\ S = {} => SumFunction(v) = 0
  <1>1. PICK it \in [SUBSET S -> Nat] : IsFold(it, v, S) /\ SumFunction(v) = it[S]
    BY SumIs
  <1> DEFINE T == {s \in SUBSET S : \A x \in s : v[x] <= it[s]}
  <1>2. ASSUME NEW s \in SUBSET S, \A t \in SUBSET s : t # s => t \in T
        PROVE  s \in T
    <2> SUFFICES ASSUME NEW x \in s PROVE v[x] <= it[s]
      OBVIOUS
    <2> DEFINE c == Chosen(s)
    <2>1. c \in s
      BY ChosenIn
    <2>2. it[s] = v[c] + it[s \ {c}]
      BY <1>1, FoldUnfolds DEF Folded
    <2> HIDE DEF c
    <2>3. v[c] \in Nat /\ v[x] \in Nat /\ it[s \ {c}] \in Nat
      BY <2>1
    <2>4. x # c => v[x] <= it[s \ {c}]
      <3>1. s \ {c} \in T
        BY <1>2, <2>1
      <3> QED
        BY <3>1
    <2> QED
      BY <2>2, <2>3, <2>4
  <1>3. T = SUBSET S
    <2>1. T \in SUBSET SUBSET S
      OBVIOUS
    <2> HIDE DEF T
    <2> QED
      BY <1>2, <2>1, SubsetInduction
  <1>4. it[{}] = 0
    BY <1>1, FoldUnfolds DEF Folded
  <1> QED
    BY <1>1, <1>3, <1>4

----------------------------------------------------------------------------
(* Limits rounded up. *)

\* (value as f64 * margin).ceil() as the least limit that is enough.
LEMMA CeilOfNat ==
  ASSUME NEW x \in Nat
  PROVE  /\ (x + 99) \div 100 \in Nat
         /\ 100 * ((x + 99) \div 100) >= x
         /\ 100 * ((x + 99) \div 100) < x + 100
  OBVIOUS

\* A larger value has no smaller a limit, and a sum no larger a limit than its
\* parts have together.
LEMMA CeilOfSum ==
  ASSUME NEW a \in Nat, NEW b \in Nat, NEW p \in Nat
  PROVE  /\ CeilApply(a, p) \in Nat
         /\ a <= b => CeilApply(a, p) <= CeilApply(b, p)
         /\ CeilApply(a + b, p) <= CeilApply(a, p) + CeilApply(b, p)
         /\ CeilApply(0, p) = 0
  <1> DEFINE x == a * p
             y == b * p
  <1>1. x \in Nat /\ y \in Nat /\ (a + b) * p = x + y /\ 0 * p = 0
    OBVIOUS
  <1>2. a <= b => x <= y
    OBVIOUS
  <1> HIDE DEF x, y
  <1>3. /\ (x + 99) \div 100 \in Nat
        /\ x <= y => (x + 99) \div 100 <= (y + 99) \div 100
        /\ (x + y + 99) \div 100 <= (x + 99) \div 100 + (y + 99) \div 100
    BY <1>1, CeilOfNat
  <1> QED
    BY <1>1, <1>2, <1>3 DEF CeilApply, x, y

\* A total's limit is at most what its parts' limits add up to.
LEMMA CeilOfTotal ==
  ASSUME NEW S, IsFiniteSet(S), NEW v \in [S -> Nat], NEW p \in Nat
  PROVE  CeilApply(SumFunction(v), p) <= SumFunction([x \in S |-> CeilApply(v[x], p)])
  <1> DEFINE w == [x \in S |-> CeilApply(v[x], p)]
  <1>0. w \in [S -> Nat]
    BY CeilOfSum
  <1>1. PICK f \in [SUBSET S -> Nat] : IsFold(f, v, S) /\ SumFunction(v) = f[S]
    BY SumIs
  <1> HIDE DEF w
  <1>2. PICK g \in [SUBSET S -> Nat] : IsFold(g, w, S) /\ SumFunction(w) = g[S]
    BY <1>0, SumIs
  <1> DEFINE T == {s \in SUBSET S : CeilApply(f[s], p) <= g[s]}
  <1>3. ASSUME NEW s \in SUBSET S, \A t \in SUBSET s : t # s => t \in T
        PROVE  s \in T
    <2>1. f[s] = Folded(f, v, s) /\ g[s] = Folded(g, w, s)
      BY <1>1, <1>2, FoldUnfolds
    <2>2. CASE s = {}
      BY <2>1, <2>2, CeilOfSum DEF Folded
    <2>3. CASE s # {}
      <3> DEFINE c == Chosen(s)
      <3>1. c \in s
        BY <2>3, ChosenIn
      <3>2. f[s] = v[c] + f[s \ {c}] /\ g[s] = w[c] + g[s \ {c}]
        BY <2>1, <2>3 DEF Folded
      <3> HIDE DEF c
      <3>3. CeilApply(f[s \ {c}], p) <= g[s \ {c}]
        <4>1. s \ {c} \in T
          BY <1>3, <3>1
        <4> QED
          BY <4>1
      <3>4. v[c] \in Nat /\ f[s \ {c}] \in Nat /\ g[s \ {c}] \in Nat /\ w[c] \in Nat
        BY <1>0, <3>1
      <3>5. w[c] = CeilApply(v[c], p)
        BY <3>1 DEF w
      <3>6. /\ CeilApply(v[c] + f[s \ {c}], p) <= CeilApply(v[c], p) + CeilApply(f[s \ {c}], p)
            /\ CeilApply(f[s \ {c}], p) \in Nat /\ CeilApply(f[s], p) \in Nat
        BY <3>4, CeilOfSum
      <3> QED
        BY <3>2, <3>3, <3>4, <3>5, <3>6
    <2> QED
      BY <2>2, <2>3
  <1>4. T = SUBSET S
    <2>1. T \in SUBSET SUBSET S
      OBVIOUS
    <2> HIDE DEF T
    <2> QED
      BY <1>3, <2>1, SubsetInduction
  <1> QED
    BY <1>1, <1>2, <1>4 DEF w

\* A scenario's limit is no looser than its functions' limits together and no
\* tighter than any of them (derive_limits, atomic_write).
THEOREM ScenarioIsCovered == Spec => []ScenarioCoversParts
  <1>1. IInv => ScenarioCoversParts
    <2> SUFFICES ASSUME IInv, "env" \in Published, NEW m \in Metric,
                        files["env"].limits[<<Scenario, m>>] # None
                 PROVE  LET limits == files["env"].limits IN
                        /\ \A f \in Components : f \in Function /\ limits[<<f, m>>] # None
                        /\ \A f \in Components : limits[<<f, m>>] <= limits[<<Scenario, m>>]
                        /\ limits[<<Scenario, m>>]
                             <= SumFunction([f \in Components |-> limits[<<f, m>>]])
      BY DEF ScenarioCoversParts
    <2> DEFINE limits == files["env"].limits
               s == sources[files["env"].stamp]
               r == s.report
               p == s.margin[m]
    <2>1. s \in Source /\ Settled(s)
      BY DEF IInv, Shape, FilesAreWhole
    <2>2. \A k \in Key : k[1] # Network => limits[k] = Derive(r, s.margin)[k]
      BY DEF IInv, FilesAreWhole, Derived
    <2> HIDE DEF limits, s
    <2>3. r \in Report /\ s.margin \in [Metric -> Nat] /\ p \in Nat
      BY <2>1, ReportsAssumption, NumbersAssumption DEF Source, Settled, ValidMargin
    <2>4. \A f \in Function \cup {Scenario} :
            limits[<<f, m>>] = IF TierB(r, <<f, m>>) = None THEN None
                               ELSE CeilApply(TierB(r, <<f, m>>), p)
      BY <2>2, TargetsAssumption DEF Key, Target, Derive
    <2> DEFINE v == [f \in Present(r, m) |-> r[f][m]]
    <2>5. v \in [Present(r, m) -> Nat] /\ IsFiniteSet(Present(r, m))
      <3>1. \A f \in Present(r, m) : r[f][m] \in Nat
        BY <2>3 DEF Present, Measured, Report
      <3> QED
        BY <3>1, TargetsAssumption, FS_Subset DEF Present
    <2> HIDE DEF v
    <2>6. /\ ScenarioTotal(r, m) = SumFunction(v) /\ ScenarioTotal(r, m) \in Nat
          /\ ScenarioTotal(r, m) > 0 /\ Present(r, m) # {}
          /\ limits[<<Scenario, m>>] = CeilApply(SumFunction(v), p)
      <3>1. ScenarioTotal(r, m) = SumFunction(v)
        BY DEF ScenarioTotal, v
      <3>2. SumFunction(v) \in Nat /\ (Present(r, m) = {} => SumFunction(v) = 0)
        BY <2>5, PartOfSum
      <3>3. TierB(r, <<Scenario, m>>)
              = IF ScenarioTotal(r, m) > 0 THEN ScenarioTotal(r, m) ELSE None
        BY DEF TierB
      <3>4. limits[<<Scenario, m>>] # None
        BY DEF limits
      <3>5. ScenarioTotal(r, m) > 0
        BY <2>4, <3>3, <3>4
      <3>6. TierB(r, <<Scenario, m>>) # None
        BY <2>4, <3>4
      <3> QED
        BY <2>4, <3>1, <3>2, <3>3, <3>5, <3>6
    <2>7. Present(r, m) = Components
      BY <2>1, <2>6 DEF Settled, ScenarioIncomplete
    <2>8. \A f \in Components :
            /\ f \in Function
            /\ v[f] \in Nat /\ v[f] <= SumFunction(v)
            /\ limits[<<f, m>>] = CeilApply(v[f], p)
      <3> SUFFICES ASSUME NEW f \in Components
                   PROVE  /\ f \in Function
                          /\ v[f] \in Nat /\ v[f] <= SumFunction(v)
                          /\ limits[<<f, m>>] = CeilApply(v[f], p)
        OBVIOUS
      <3>1. f \in Measured(r, m) /\ f \in Function /\ f # Scenario
        BY <2>7, TargetsAssumption DEF Present, Measured
      <3>2. TierB(r, <<f, m>>) = v[f]
        BY <3>1, <2>7 DEF TierB, v
      <3>3. v[f] \in Nat /\ v[f] <= SumFunction(v)
        BY <2>5, <2>7, PartOfSum
      <3> QED
        BY <2>4, <3>1, <3>2, <3>3, MarkersAssumption
    <2>9. \A f \in Components : CeilApply(v[f], p) \in Nat
                                /\ CeilApply(v[f], p) <= CeilApply(SumFunction(v), p)
      BY <2>3, <2>6, <2>8, CeilOfSum
    <2>10. CeilApply(SumFunction(v), p) <= SumFunction([f \in Components |-> CeilApply(v[f], p)])
      BY <2>3, <2>5, <2>7, CeilOfTotal
    <2>11. [f \in Components |-> CeilApply(v[f], p)] = [f \in Components |-> limits[<<f, m>>]]
      BY <2>8
    <2> QED
      BY <2>6, <2>8, <2>9, <2>10, <2>11, MarkersAssumption, ZenonT(60) DEF limits
  <1> QED
    BY <1>1, IInvAlways, PTL

=============================================================================

-------------------------- MODULE RunReport_proofs --------------------------
(***************************************************************************)
(* Proofs about RunReport and ReportOutput, for every workspace,           *)
(* budget.toml, command line and cost: the types; that exit code 0 of a    *)
(* report means it is clean and 6 that a retry may help; that a check      *)
(* judges against the last completed recording; and that what is shown, in *)
(* every format, agrees with the exit code.                                *)
(*                                                                         *)
(* The invariant says what the flags of a run stand for at any moment: of  *)
(* the functions whose outcomes it has drained, which are those of the     *)
(* prepared packages that are not to do any more, some failed, some        *)
(* disagreed, some broke their limits.  RowsTell adds that the rows are    *)
(* those of the same outcomes.                                             *)
(***************************************************************************)
EXTENDS ReportOutput, FiniteSetTheorems, TLAPS

OverLimit(f, o) ==
  \E m \in {"cpu", "mem"} :
    o[m] # None /\ LimitOf(f, m) # None /\ ~(o[m] <= LimitOf(f, m))

\* What Breaks comes to.
Broken(f, o) ==
  \/ o = Failed /\ args.check /\ SectionOf(f) # None
  \/ o # Failed /\ OverLimit(f, o)

Drained ==
  /\ \A i \in todo : Packages[i] \in prepared
  /\ DOMAIN outcomes =
       {f \in Function : f[1] \in prepared /\ \A i \in todo : Packages[i] # f[1]}
  /\ DOMAIN measured = {f \in DOMAIN outcomes : outcomes[f] # Failed}

FlagsTell ==
  /\ pc \in {"measure", "rename", "renamed", "returned"} =>
       (has_errors <=> prepared # Package \/ \E f \in DOMAIN outcomes : outcomes[f] = Failed)
  /\ checks_failed <=> \E f \in DOMAIN outcomes : Broken(f, outcomes[f])
  /\ validation_failed <=> \E f \in DOMAIN outcomes : Mismatches(outcomes[f])

Unbuilt ==
  pc = "build" =>
    /\ prepared = {} /\ todo = {} /\ measured = Nothing /\ outcomes = Nothing
    /\ ~has_errors /\ ~checks_failed /\ ~validation_failed

Recorded ==
  /\ baseline = recorded
  /\ recorded # None => DOMAIN recorded # {}
  /\ pc \in {"rename", "renamed"} => todo = {} /\ args.mode = "record" /\ measured # Nothing
  /\ pc = "renamed" => recorded = measured

Returned ==
  pc = "returned" =>
    /\ todo = {}
    /\ code = Classified \/ (args.mode # "report" /\ code \in {0, 5})
    /\ args.mode = "check" /\ measured # Nothing =>
         baseline # None /\ (code = 5 <=> HasRegressions)
    /\ args.mode = "record" /\ measured # Nothing => recorded = measured

IInv == TypeOK /\ Drained /\ FlagsTell /\ Unbuilt /\ Recorded /\ Returned

----------------------------------------------------------------------------
(* Lemmas about the operators. *)

LEMMA PackageAt == ASSUME NEW i \in DOMAIN Packages PROVE Packages[i] \in Package
  BY DEF Package

LEMMA FunctionsOfPackage ==
  ASSUME NEW p \in Package
  PROVE  FunctionsOf(p) = {f \in Function : f[1] = p}
  BY DEF FunctionsOf, Function

LEMMA SectionType ==
  ASSUME config \in Configs, NEW f
  PROVE  SectionOf(f) = None \/ SectionOf(f) \in Section
  BY ConfigsAssumption DEF SectionOf

LEMMA LimitType ==
  ASSUME config \in Configs, NEW f, NEW m \in {"cpu", "mem"}
  PROVE  LimitOf(f, m) \in Nat \cup {None}
  BY SectionType DEF LimitOf, Section

LEMMA OutcomeType ==
  ASSUME NEW o \in Outcome, o # Failed, NEW m \in {"cpu", "mem"}
  PROVE  o[m] \in Nat \cup {None}
  BY NumbersAssumption DEF Outcome, Metrics

LEMMA VerdictType ==
  ASSUME NEW v \in Nat, NEW limit \in Nat \cup {None}
  PROVE  /\ Verdict(v, limit) \in BOOLEAN \cup {None}
         /\ Verdict(v, limit) = FALSE <=> limit # None /\ ~(v <= limit)
  <1>1. CASE limit = None
    BY <1>1, MarkersAssumption DEF Verdict
  <1>2. CASE limit # None
    <2>1. Verdict(v, limit) = (v <= limit)
      BY <1>2 DEF Verdict
    <2>2. (v <= limit) \in BOOLEAN
      OBVIOUS
    <2> QED
      BY <1>2, <2>1, <2>2
  <1> QED
    BY <1>1, <1>2

LEMMA RowsType ==
  ASSUME config \in Configs, NEW f \in Function, NEW o \in Outcome
  PROVE  RowsOf(f, o) \subseteq Row
  <1>1. CASE o = Failed
    <2>1. FALSE \in BOOLEAN \cup {None}
      OBVIOUS
    <2>2. [function |-> f, metric |-> "cpu", value |-> None, pass |-> FALSE] \in Row
      BY <2>1 DEF Row
    <2> QED
      BY <1>1, <2>2 DEF RowsOf, FailedRows
  <1>2. CASE o # Failed
    <2>1. ASSUME NEW m \in {"cpu", "mem"}, o[m] # None
          PROVE  [function |-> f, metric |-> m, value |-> o[m],
                  pass |-> Verdict(o[m], LimitOf(f, m))] \in Row
      <3>1. o[m] \in Nat
        BY <1>2, <2>1, OutcomeType
      <3>2. Verdict(o[m], LimitOf(f, m)) \in BOOLEAN \cup {None}
        BY <3>1, LimitType, VerdictType
      <3> QED
        BY <3>1, <3>2 DEF Row
    <2> QED
      BY <1>2, <2>1 DEF RowsOf, MetricRows
  <1> QED
    BY <1>1, <1>2

\* A row fails exactly when its value is over its limit.
LEMMA BreaksMeans ==
  ASSUME config \in Configs, NEW f, NEW o \in Outcome
  PROVE  Breaks(f, o) <=> Broken(f, o)
  <1>1. ASSUME o # Failed
        PROVE  (\E r \in MetricRows(f, o) : r.pass = FALSE) <=> OverLimit(f, o)
    <2>1. ASSUME NEW m \in {"cpu", "mem"}, o[m] # None
          PROVE  Verdict(o[m], LimitOf(f, m)) = FALSE
                   <=> LimitOf(f, m) # None /\ ~(o[m] <= LimitOf(f, m))
      BY <1>1, <2>1, OutcomeType, LimitType, VerdictType
    <2>2. (\E r \in MetricRows(f, o) : r.pass = FALSE)
            <=> \E m \in {"cpu", "mem"} : o[m] # None /\ Verdict(o[m], LimitOf(f, m)) = FALSE
      <3> DEFINE R(m) == [function |-> f, metric |-> m, value |-> o[m],
                          pass |-> Verdict(o[m], LimitOf(f, m))]
      <3>1. \A m : R(m).pass = Verdict(o[m], LimitOf(f, m))
        OBVIOUS
      <3>2. MetricRows(f, o) = {R(m) : m \in {k \in {"cpu", "mem"} : o[k] # None}}
        BY DEF MetricRows
      <3> HIDE DEF R
      <3> QED
        BY <3>1, <3>2, Zenon
    <2> QED
      BY <2>1, <2>2 DEF OverLimit
  <1> QED
    BY <1>1 DEF Breaks, Broken

LEMMA NothingMeans ==
  ASSUME NEW S \in SUBSET Function, NEW e \in [S -> Costs]
  PROVE  e = Nothing <=> S = {}
  BY DEF Nothing

LEMMA MeasuredNothing ==
  ASSUME measured \in Entries
  PROVE  measured = Nothing <=> DOMAIN measured = {}
  <1>1. PICK S \in SUBSET Function : measured \in [S -> Costs]
    BY DEF Entries
  <1> QED
    BY <1>1 DEF Nothing

LEMMA NothingTypes ==
  /\ Nothing \in Entries
  /\ Nothing \in UNION {[S -> Outcome] : S \in SUBSET Function}
  /\ DOMAIN Nothing = {}
  BY DEF Nothing, Entries

----------------------------------------------------------------------------
(* The steps of a run. *)

\* What a run has drained is told alike until it drains more.
LEMMA SameResults ==
  ASSUME IInv, UNCHANGED <<args, config, prepared, todo, results>>,
         pc' \in {"measure", "rename", "renamed", "returned"} =>
           pc \in {"measure", "rename", "renamed", "returned"}
  PROVE  Drained' /\ FlagsTell'
  <1> USE DEF results, flags
  <1>1. Drained'
    BY DEF IInv, Drained
  <1>2. FlagsTell'
    <2>1. \A f, o : Broken(f, o)' <=> Broken(f, o)
      BY DEF Broken, OverLimit, LimitOf, SectionOf
    <2>2. (\E f \in DOMAIN outcomes : Broken(f, outcomes[f]))'
            <=> \E f \in DOMAIN outcomes : Broken(f, outcomes[f])
      BY DEF Broken, OverLimit, LimitOf, SectionOf
    <2>3. (\E f \in DOMAIN outcomes : Mismatches(outcomes[f]))'
            <=> \E f \in DOMAIN outcomes : Mismatches(outcomes[f])
      BY DEF Mismatches
    <2> QED
      BY <2>2, <2>3 DEF IInv, FlagsTell
  <1> QED
    BY <1>1, <1>2

\* Start and Crash: a new process.
LEMMA FreshStep ==
  ASSUME IInv, Fresh, pc' \in {"idle", "build"}, args' \in Invocations, config' \in Configs,
         UNCHANGED <<baseline, recorded>>
  PROVE  IInv'
  <1>1. TypeOK'
    BY NothingTypes DEF IInv, TypeOK, Fresh, Code
  <1>2. Drained'
    BY NothingTypes DEF Drained, Fresh
  <1>3. FlagsTell'
    BY NothingTypes DEF FlagsTell, Fresh
  <1>4. Unbuilt'
    BY DEF Unbuilt, Fresh, Nothing
  <1>5. Recorded' /\ Returned'
    BY DEF IInv, Recorded, Returned
  <1> QED
    BY <1>1, <1>2, <1>3, <1>4, <1>5 DEF IInv

\* Every way to leave the run with an error.
LEMMA FailStep ==
  ASSUME IInv, NEW c \in Code, Fail(c),
         UNCHANGED <<baseline, args, config, prepared, todo, results, recorded>>
  PROVE  IInv'
  <1> USE DEF Fail, results, flags
  <1>1. TypeOK'
    BY DEF IInv, TypeOK
  <1>2. Drained' /\ FlagsTell'
    BY SameResults
  <1>3. Unbuilt' /\ Recorded' /\ Returned'
    BY DEF IInv, Unbuilt, Recorded, Returned
  <1> QED
    BY <1>1, <1>2, <1>3 DEF IInv

\* Every way to return with an exit code from a run that writes nothing.
LEMMA ReturnStep ==
  ASSUME IInv, AllMeasured, NEW c \in Code, Return(c),
         c = Classified \/ (args.mode # "report" /\ c \in {0, 5}),
         args.mode = "check" /\ measured # Nothing =>
           baseline # None /\ (c = 5 <=> HasRegressions),
         args.mode = "record" => measured = Nothing,
         UNCHANGED <<baseline, args, config, prepared, todo, results, recorded>>
  PROVE  IInv'
  <1> USE DEF Return, AllMeasured, results, flags
  <1>1. TypeOK'
    BY DEF IInv, TypeOK
  <1>2. Drained' /\ FlagsTell'
    BY SameResults
  <1>3. Unbuilt' /\ Recorded'
    BY DEF IInv, Unbuilt, Recorded
  <1>4. Returned'
    <2>1. Classified' = Classified
      BY DEF Classified
    <2>2. HasRegressions' <=> HasRegressions
      BY DEF HasRegressions, Regresses, ToleranceOf
    <2> QED
      BY <2>1, <2>2 DEF Returned
  <1> QED
    BY <1>1, <1>2, <1>3, <1>4 DEF IInv

LEMMA ClassifiedType == Classified \in Code
  BY DEF Classified, Classify, Code

LEMMA BuildStep == ASSUME IInv, Build PROVE IInv'
  <1> USE DEF Build
  <1>1. PICK S \in SUBSET Package :
          /\ prepared' = S
          /\ has_errors' = (S # Package)
          /\ todo' = {i \in DOMAIN Packages : Packages[i] \in S}
    OBVIOUS
  <1>2. TypeOK'
    BY <1>1 DEF IInv, TypeOK
  <1>3. DOMAIN outcomes = {} /\ DOMAIN measured = {}
    BY NothingTypes DEF IInv, Unbuilt
  <1>4. Drained'
    <2>1. \A f \in Function : f[1] \in S => \E i \in todo' : Packages[i] = f[1]
      BY <1>1 DEF Package
    <2> QED
      BY <1>1, <1>3, <2>1 DEF Drained
  <1>5. FlagsTell'
    BY <1>1, <1>3 DEF IInv, FlagsTell, Unbuilt
  <1>6. Unbuilt' /\ Recorded' /\ Returned'
    BY DEF IInv, Unbuilt, Recorded, Returned
  <1> QED
    BY <1>2, <1>4, <1>5, <1>6 DEF IInv

\* The next package's outcomes are drained: none of its functions has been.
LEMMA MeasureStep == ASSUME IInv, Measure PROVE IInv'
  <1>1. PICK i \in DOMAIN Packages : \E o \in [FunctionsOf(Packages[i]) -> Outcome] :
          /\ NextPackage(i)
          /\ todo' = todo \ {i}
          /\ Drain(o)
          /\ outcomes' = [f \in DOMAIN outcomes \cup DOMAIN o |->
                            IF f \in DOMAIN o THEN o[f] ELSE outcomes[f]]
    BY DEF Measure
  <1>2. PICK o \in [FunctionsOf(Packages[i]) -> Outcome] :
          /\ NextPackage(i)
          /\ todo' = todo \ {i}
          /\ Drain(o)
          /\ outcomes' = [f \in DOMAIN outcomes \cup DOMAIN o |->
                            IF f \in DOMAIN o THEN o[f] ELSE outcomes[f]]
    BY <1>1
  <1>3. UNCHANGED <<baseline, pc, args, config, prepared, code, recorded>>
    BY DEF Measure
  <1>4. /\ pc = "measure" /\ i \in todo /\ Packages[i] \in prepared
        /\ config \in Configs
    BY <1>2 DEF NextPackage, IInv, Drained, TypeOK
  <1>5. DOMAIN o = {f \in Function : f[1] = Packages[i]}
    BY <1>2, PackageAt, FunctionsOfPackage
  <1>6. DOMAIN o \cap DOMAIN outcomes = {}
    BY <1>4, <1>5 DEF IInv, Drained
  <1>7. /\ DOMAIN outcomes' = DOMAIN outcomes \cup DOMAIN o
        /\ \A f \in DOMAIN o : outcomes'[f] = o[f] /\ o[f] \in Outcome
        /\ \A f \in DOMAIN outcomes : outcomes'[f] = outcomes[f]
    BY <1>2, <1>6
  <1>8. DOMAIN outcomes \subseteq Function /\ \A f \in DOMAIN outcomes : outcomes[f] \in Outcome
    BY DEF IInv, TypeOK
  <1>9. DOMAIN measured \subseteq DOMAIN outcomes /\ \A f \in DOMAIN measured : measured[f] \in Costs
    <2>1. PICK T \in SUBSET Function : measured \in [T -> Costs]
      BY DEF IInv, TypeOK, Entries
    <2> QED
      BY <2>1 DEF IInv, Drained
  <1>10. measured' = [f \in DOMAIN measured \cup {g \in DOMAIN o : o[g] # Failed} |->
                        IF f \in DOMAIN o THEN o[f].cpu ELSE measured[f]]
    BY <1>2 DEF Drain
  <1>11. TypeOK'
    <2>1. measured' \in Entries
      <3> DEFINE D == DOMAIN measured \cup {g \in DOMAIN o : o[g] # Failed}
      <3>1. D \in SUBSET Function
        BY <1>5, <1>8, <1>9
      <3>2. ASSUME NEW f \in D PROVE (IF f \in DOMAIN o THEN o[f].cpu ELSE measured[f]) \in Costs
        <4>1. CASE f \in DOMAIN o
          <5>1. o[f] # Failed
            BY <1>6, <1>9, <4>1
          <5>2. o[f] \in Metrics
            BY <1>7, <4>1, <5>1 DEF Outcome
          <5> QED
            BY <4>1, <5>2 DEF Metrics
        <4>2. CASE f \notin DOMAIN o
          BY <1>9, <4>2
        <4> QED
          BY <4>1, <4>2
      <3>3. measured' \in [D -> Costs]
        BY <1>10, <3>2
      <3> QED
        BY <3>1, <3>3 DEF Entries
    <2>2. outcomes' \in UNION {[S -> Outcome] : S \in SUBSET Function}
      <3>1. DOMAIN outcomes \cup DOMAIN o \in SUBSET Function
        BY <1>5, <1>8
      <3>2. outcomes' \in [DOMAIN outcomes \cup DOMAIN o -> Outcome]
        BY <1>2, <1>7, <1>8
      <3> QED
        BY <3>1, <3>2
    <2>3. rows' \subseteq Row
      <3>1. rows' = rows \cup UNION {RowsOf(f, o[f]) : f \in DOMAIN o}
        BY <1>2 DEF Drain
      <3>2. \A f \in DOMAIN o : RowsOf(f, o[f]) \subseteq Row
        BY <1>4, <1>5, <1>7, RowsType
      <3> QED
        BY <3>1, <3>2 DEF IInv, TypeOK
    <2>4. /\ has_errors' \in BOOLEAN
          /\ checks_failed' \in BOOLEAN
          /\ validation_failed' \in BOOLEAN
      BY <1>2 DEF Drain, IInv, TypeOK
    <2> QED
      BY <1>2, <1>3, <2>1, <2>2, <2>3, <2>4 DEF IInv, TypeOK
  <1>12. Drained'
    <2>1. \A j \in todo' : Packages[j] \in prepared'
      BY <1>2, <1>3 DEF IInv, Drained
    <2>2. ASSUME NEW f \in Function
          PROVE  f \in DOMAIN outcomes'
                   <=> f[1] \in prepared' /\ \A j \in todo' : Packages[j] # f[1]
      <3>1. CASE f[1] = Packages[i]
        <4>1. \A j \in todo' : Packages[j] # Packages[i]
          BY <1>2, <1>4, PackagesAssumption DEF IInv, TypeOK
        <4> QED
          BY <1>3, <1>4, <1>5, <1>7, <3>1, <4>1
      <3>2. CASE f[1] # Packages[i]
        BY <1>2, <1>3, <1>5, <1>7, <3>2 DEF IInv, Drained
      <3> QED
        BY <3>1, <3>2
    <2>3. DOMAIN outcomes' \subseteq Function
      BY <1>5, <1>7, <1>8
    <2>4. DOMAIN measured' = {f \in DOMAIN outcomes' : outcomes'[f] # Failed}
      BY <1>6, <1>7, <1>10 DEF IInv, Drained
    <2> QED
      BY <2>1, <2>2, <2>3, <2>4 DEF Drained
  <1>13. FlagsTell'
    <2>1. has_errors' <=> prepared' # Package \/ \E f \in DOMAIN outcomes' : outcomes'[f] = Failed
      BY <1>2, <1>3, <1>4, <1>7 DEF Drain, IInv, FlagsTell
    <2>2. checks_failed' <=> (\E f \in DOMAIN outcomes : Broken(f, outcomes[f])) \/ \E f \in DOMAIN o : Broken(f, o[f])
      BY <1>2, <1>4, <1>7, BreaksMeans DEF Drain, IInv, FlagsTell
    <2>3. (\E f \in DOMAIN outcomes : Broken(f, outcomes[f]))'
            <=> (\E f \in DOMAIN outcomes : Broken(f, outcomes[f])) \/ \E f \in DOMAIN o : Broken(f, o[f])
      BY <1>3, <1>7, ZenonT(60) DEF Broken, OverLimit, LimitOf, SectionOf
    <2>4. validation_failed' <=> (\E f \in DOMAIN outcomes : Mismatches(outcomes[f])) \/ \E f \in DOMAIN o : Mismatches(o[f])
      BY <1>2, Zenon DEF Drain, IInv, FlagsTell
    <2>5. (\E f \in DOMAIN outcomes : Mismatches(outcomes[f]))'
            <=> (\E f \in DOMAIN outcomes : Mismatches(outcomes[f])) \/ \E f \in DOMAIN o : Mismatches(o[f])
      BY <1>3, <1>7 DEF Mismatches
    <2> QED
      BY <2>1, <2>2, <2>3, <2>4, <2>5 DEF FlagsTell
  <1>14. Unbuilt' /\ Recorded' /\ Returned'
    BY <1>3, <1>4 DEF IInv, Unbuilt, Recorded, Returned
  <1> QED
    BY <1>11, <1>12, <1>13, <1>14 DEF IInv

LEMMA CompareStep == ASSUME IInv, CompareBaseline PROVE IInv'
  <1> USE DEF CompareBaseline, Ready
  <1>1. (IF HasRegressions THEN 5 ELSE 0) \in Code
    BY DEF Code
  <1>2. (IF HasRegressions THEN 5 ELSE 0) \in {0, 5}
    OBVIOUS
  <1>3. (IF HasRegressions THEN 5 ELSE 0) = 5 <=> HasRegressions
    OBVIOUS
  <1> QED
    BY <1>1, <1>2, <1>3, ReturnStep

\* A recording: until the rename, the file is the old one.
LEMMA RecordStep == ASSUME IInv, WriteBaseline \/ RenameBaseline \/ RecordReturns PROVE IInv'
  <1> USE DEF results, flags
  <1>1. CASE WriteBaseline
    <2> USE <1>1 DEF WriteBaseline, Ready, AllMeasured
    <2>1. TypeOK'
      BY DEF IInv, TypeOK
    <2>2. Drained' /\ FlagsTell'
      BY SameResults
    <2>3. Unbuilt' /\ Recorded' /\ Returned'
      BY DEF IInv, Unbuilt, Recorded, Returned
    <2> QED
      BY <2>1, <2>2, <2>3 DEF IInv
  <1>2. CASE RenameBaseline
    <2> USE <1>2 DEF RenameBaseline, Return
    <2>1. TypeOK'
      BY DEF IInv, TypeOK, Code
    <2>2. Drained' /\ FlagsTell'
      BY SameResults
    <2>3. Unbuilt' /\ Returned'
      BY DEF IInv, Unbuilt, Recorded, Returned
    <2>4. Recorded'
      BY MeasuredNothing DEF IInv, TypeOK, Recorded
    <2> QED
      BY <2>1, <2>2, <2>3, <2>4 DEF IInv
  <1>3. CASE RecordReturns
    <2> USE <1>3 DEF RecordReturns, Return
    <2>1. TypeOK'
      BY DEF IInv, TypeOK, Code
    <2>2. Drained' /\ FlagsTell'
      BY SameResults
    <2>3. Unbuilt' /\ Recorded' /\ Returned'
      BY DEF IInv, Unbuilt, Recorded, Returned
    <2> QED
      BY <2>1, <2>2, <2>3 DEF IInv
  <1> QED
    BY <1>1, <1>2, <1>3

LEMMA IInvInit == Init => IInv
  <1> SUFFICES ASSUME Init PROVE IInv
    OBVIOUS
  <1> USE DEF Init
  <1>1. TypeOK
    BY NothingTypes DEF TypeOK, Code
  <1>2. Drained
    BY NothingTypes DEF Drained
  <1>3. FlagsTell /\ Unbuilt /\ Recorded /\ Returned
    BY NothingTypes DEF FlagsTell, Unbuilt, Recorded, Returned
  <1> QED
    BY <1>1, <1>2, <1>3 DEF IInv

LEMMA IInvStep == IInv /\ [Next]_vars => IInv'
  <1> SUFFICES ASSUME IInv, [Next]_vars PROVE IInv'
    OBVIOUS
  <1>1. ASSUME NEW a \in Invocations, NEW c \in Configs, Start(a, c) PROVE IInv'
    BY <1>1, FreshStep DEF Start
  <1>2. CASE Crash
    BY <1>2, FreshStep DEF Crash, IInv, TypeOK
  <1>3. CASE BuildFails \/ DeployFails \/ InvalidConfig \/ OutputFails \/ SaveFails \/ NoBaseline
    <2>1. 1 \in Code
      BY DEF Code
    <2> QED
      BY <1>3, <2>1, FailStep
      DEF BuildFails, DeployFails, InvalidConfig, OutputFails, SaveFails, NoBaseline
  <1>4. CASE Misconfigured
    <2>1. 3 \in Code
      BY DEF Code
    <2> QED
      BY <1>4, <2>1, FailStep DEF Misconfigured
  <1>5. CASE NothingMeasured
    BY <1>5, ReturnStep, ClassifiedType DEF NothingMeasured
  <1>6. CASE Report
    BY <1>6, ReturnStep, ClassifiedType DEF Report, Ready
  <1>7. CASE UNCHANGED vars
    <2> USE <1>7 DEF vars, results, flags
    <2>1. TypeOK'
      BY DEF IInv, TypeOK
    <2>2. Drained' /\ FlagsTell'
      BY SameResults
    <2>3. Unbuilt' /\ Recorded'
      BY DEF IInv, Unbuilt, Recorded
    <2>4. Returned'
      <3>1. Classified' = Classified
        BY DEF Classified
      <3>2. HasRegressions' <=> HasRegressions
        BY DEF HasRegressions, Regresses, ToleranceOf
      <3> QED
        BY <3>1, <3>2 DEF IInv, Returned
    <2> QED
      BY <2>1, <2>2, <2>3, <2>4 DEF IInv
  <1> QED
    BY <1>1, <1>2, <1>3, <1>4, <1>5, <1>6, <1>7,
       BuildStep, MeasureStep, RecordStep, CompareStep DEF Next

LEMMA IInvAlways == Spec => []IInv
  BY IInvInit, IInvStep, PTL DEF Spec

----------------------------------------------------------------------------
(* What the invariant gives. *)

\* Every variable of a run has its type, for every workspace and budget.toml.
THEOREM TypeCorrect == Spec => []TypeOK
  <1>1. IInv => TypeOK
    BY DEF IInv
  <1> QED
    BY <1>1, IInvAlways, PTL

\* A returned run has drained the outcomes of all the prepared packages.
LEMMA ReturnedHasDrained ==
  ASSUME IInv, pc = "returned"
  PROVE  DOMAIN outcomes = {f \in Function : f[1] \in prepared}
  BY DEF IInv, Returned, Drained

LEMMA ClassifyGives ==
  ASSUME NEW r \in BOOLEAN, NEW e \in BOOLEAN, NEW v \in BOOLEAN, NEW n \in BOOLEAN
  PROVE  /\ Classify(r, e, v, n) = 0 => ~r /\ ~e /\ ~v /\ ~n
         /\ Classify(r, e, v, n) = 6 => ~r /\ ~e /\ ~v /\ n
  BY DEF Classify

\* A breached function is one whose outcome broke its limits.
LEMMA BreachedBreaks ==
  ASSUME IInv, ~checks_failed
  PROVE  Breached = {}
  <1> SUFFICES ASSUME NEW f \in DOMAIN outcomes \ Unmeasured, NEW m \in {"cpu", "mem"},
                      Exceeds(f, m)
               PROVE  FALSE
    BY DEF Breached
  <1>1. f \in Function /\ outcomes[f] \in Outcome /\ outcomes[f] # Failed /\ config \in Configs
    BY DEF IInv, TypeOK, Unmeasured
  <1>2. outcomes[f][m] \in Nat /\ LimitOf(f, m) \in Nat
    BY <1>1, OutcomeType, LimitType DEF Exceeds
  <1>3. Broken(f, outcomes[f])
    BY <1>1, <1>2 DEF Exceeds, Broken, OverLimit
  <1> QED
    BY <1>3 DEF IInv, FlagsTell

LEMMA CodeTells ==
  ASSUME IInv, pc = "returned", code = Classified
  PROVE  /\ code \in {0, 6} => Mismatched = {} /\ (args.check => Breached = {})
         /\ code = 0 => Unmeasured = {}
         /\ code = 6 => prepared # Package \/ Unmeasured # {}
  <1>1. args.check \in BOOLEAN /\ checks_failed \in BOOLEAN
        /\ validation_failed \in BOOLEAN /\ has_errors \in BOOLEAN
    BY InvocationsAssumption DEF IInv, TypeOK, Args
  <1>2. (args.check /\ checks_failed) \in BOOLEAN /\ FALSE \in BOOLEAN
    BY <1>1
  <1>3. /\ code = 0 => ~(args.check /\ checks_failed) /\ ~validation_failed /\ ~has_errors
        /\ code = 6 => ~(args.check /\ checks_failed) /\ ~validation_failed /\ has_errors
    BY <1>1, <1>2, ClassifyGives DEF Classified
  <1>4. ~validation_failed => Mismatched = {}
    BY DEF IInv, FlagsTell, Mismatched
  <1>5. has_errors <=> prepared # Package \/ \E f \in DOMAIN outcomes : outcomes[f] = Failed
    BY DEF IInv, FlagsTell
  <1>6. ~has_errors => Unmeasured = {}
    BY <1>5, ReturnedHasDrained DEF Unmeasured, Function
  <1>7. has_errors => prepared # Package \/ Unmeasured # {}
    BY <1>5, ReturnedHasDrained DEF Unmeasured
  <1> QED
    BY <1>3, <1>4, <1>6, <1>7, BreachedBreaks

\* A report that exits 0 measured everything, found no mismatch and, under
\* --check, no breached limit: the flags lose nothing of what was drained.
THEOREM ZeroExitIsClean == Spec => []ZeroMeansClean
  <1>1. IInv => ZeroMeansClean
    BY CodeTells DEF IInv, Returned, ZeroMeansClean
  <1> QED
    BY <1>1, IInvAlways, PTL

\* Exit code 6 hides no mismatch and no breached limit, and something was
\* really not measured.
THEOREM RetryableIsInfrastructure == Spec => []RetryOnlyInfrastructure
  <1>1. IInv => RetryOnlyInfrastructure
    BY CodeTells DEF IInv, Returned, RetryOnlyInfrastructure
  <1> QED
    BY <1>1, IInvAlways, PTL

\* A check judges against the last recording that completed, whatever was
\* killed or failed since.
THEOREM JudgedByLastRecording == Spec => []RegressionsSinceRecording
  <1>1. IInv => RegressionsSinceRecording
    BY DEF IInv, Returned, Recorded, HasRegressions, RegressionsSinceRecording
  <1> QED
    BY <1>1, IInvAlways, PTL

----------------------------------------------------------------------------
(* The rows: those of every outcome that was drained, and no others. *)

RowsTell == rows = UNION {RowsOf(f, outcomes[f]) : f \in DOMAIN outcomes}

LEMMA SameRowsOf ==
  ASSUME UNCHANGED <<args, config>>
  PROVE  \A f, o : RowsOf(f, o)' = RowsOf(f, o)
  BY DEF RowsOf, FailedRows, MetricRows, Verdict, LimitOf, SectionOf

LEMMA RowsTellInit == Init => RowsTell
  BY NothingTypes DEF Init, RowsTell

LEMMA RowsTellStep == IInv /\ RowsTell /\ [Next]_vars => RowsTell'
  <1> SUFFICES ASSUME IInv, RowsTell, [Next]_vars PROVE RowsTell'
    OBVIOUS
  <1>1. CASE Fresh
    BY <1>1, NothingTypes DEF Fresh, RowsTell
  <1>2. CASE UNCHANGED <<args, config, rows, outcomes>>
    BY <1>2, SameRowsOf DEF RowsTell
  <1>3. CASE Measure
    <2>1. PICK i \in DOMAIN Packages : \E o \in [FunctionsOf(Packages[i]) -> Outcome] :
            /\ NextPackage(i)
            /\ rows' = rows \cup UNION {RowsOf(f, o[f]) : f \in DOMAIN o}
            /\ outcomes' = [f \in DOMAIN outcomes \cup DOMAIN o |->
                              IF f \in DOMAIN o THEN o[f] ELSE outcomes[f]]
      BY <1>3 DEF Measure, Drain
    <2>2. PICK o \in [FunctionsOf(Packages[i]) -> Outcome] :
            /\ NextPackage(i)
            /\ rows' = rows \cup UNION {RowsOf(f, o[f]) : f \in DOMAIN o}
            /\ outcomes' = [f \in DOMAIN outcomes \cup DOMAIN o |->
                              IF f \in DOMAIN o THEN o[f] ELSE outcomes[f]]
      BY <2>1
    <2>3. DOMAIN o = {f \in Function : f[1] = Packages[i]}
      BY <2>2, PackageAt, FunctionsOfPackage
    <2>4. DOMAIN o \cap DOMAIN outcomes = {}
      BY <2>2, <2>3 DEF NextPackage, IInv, Drained
    <2>5. \A f, x : RowsOf(f, x)' = RowsOf(f, x)
      <3>1. UNCHANGED <<args, config>>
        BY <1>3 DEF Measure
      <3> QED
        BY <3>1, SameRowsOf
    <2>6. UNION {RowsOf(f, outcomes'[f]) : f \in DOMAIN outcomes'}
            = rows \cup UNION {RowsOf(f, o[f]) : f \in DOMAIN o}
      BY <2>2, <2>4 DEF RowsTell
    <2>7. rows' = UNION {RowsOf(f, outcomes'[f]) : f \in DOMAIN outcomes'}
      BY <2>2, <2>6
    <2>8. \A f \in DOMAIN outcomes' : RowsOf(f, outcomes[f])' = RowsOf(f, outcomes'[f])
      BY <2>5
    <2> QED
      BY <2>7, <2>8 DEF RowsTell
  <1>4. CASE Build \/ BuildFails \/ DeployFails \/ Misconfigured \/ InvalidConfig
               \/ NothingMeasured \/ OutputFails \/ Report
    BY <1>2, <1>4 DEF Build, BuildFails, DeployFails, Misconfigured, InvalidConfig,
                      NothingMeasured, OutputFails, Report, results, flags
  <1>5. CASE WriteBaseline \/ RenameBaseline \/ RecordReturns \/ SaveFails
               \/ CompareBaseline \/ NoBaseline \/ UNCHANGED vars
    BY <1>2, <1>5 DEF WriteBaseline, RenameBaseline, RecordReturns, SaveFails,
                      CompareBaseline, NoBaseline, vars, results, flags
  <1>6. CASE Crash \/ \E a \in Invocations, c \in Configs : Start(a, c)
    BY <1>1, <1>6 DEF Crash, Start
  <1> QED
    BY <1>3, <1>4, <1>5, <1>6 DEF Next

\* The checks fail exactly when a row does.
LEMMA BreaksShow ==
  ASSUME NEW f, NEW o
  PROVE  Breaks(f, o) <=> \E r \in RowsOf(f, o) : r.pass = FALSE
  BY Zenon DEF Breaks, RowsOf, FailedRows

LEMMA FailingRow ==
  ASSUME IInv, RowsTell
  PROVE  checks_failed <=> \E r \in rows : r.pass = FALSE
  <1>1. \A f \in DOMAIN outcomes : outcomes[f] \in Outcome
    BY DEF IInv, TypeOK
  <1>2. \A f \in DOMAIN outcomes : Broken(f, outcomes[f]) <=> Breaks(f, outcomes[f])
    BY <1>1, BreaksMeans DEF IInv, TypeOK
  <1>3. checks_failed <=> \E f \in DOMAIN outcomes : Breaks(f, outcomes[f])
    BY <1>2 DEF IInv, FlagsTell
  <1>4. (\E r \in rows : r.pass = FALSE)
          <=> \E f \in DOMAIN outcomes : \E r \in RowsOf(f, outcomes[f]) : r.pass = FALSE
    BY Zenon DEF RowsTell
  <1> QED
    BY <1>3, <1>4, BreaksShow

\* A run has finitely many rows: at most one of each metric of a function.
LEMMA RowsFinite ==
  ASSUME IInv, RowsTell
  PROVE  IsFiniteSet(rows)
  <1> DEFINE RowAt(f, m) ==
        IF outcomes[f] = Failed
        THEN [function |-> f, metric |-> "cpu", value |-> None, pass |-> FALSE]
        ELSE [function |-> f, metric |-> m, value |-> outcomes[f][m],
              pass |-> Verdict(outcomes[f][m], LimitOf(f, m))]
             D == (DOMAIN outcomes) \X {"cpu", "mem"}
             g == [x \in D |-> RowAt(x[1], x[2])]
             R == {g[x] : x \in D}
  <1>1. IsFiniteSet(D)
    <2>1. IsFiniteSet(DOMAIN outcomes)
      BY PackagesAssumption, FS_Subset DEF IInv, TypeOK
    <2>2. IsFiniteSet({"cpu", "mem"})
      <3>1. IsFiniteSet({"cpu"})
        BY FS_Singleton
      <3>2. {"cpu", "mem"} = {"cpu"} \cup {"mem"}
        OBVIOUS
      <3> QED
        BY <3>1, <3>2, FS_AddElement
    <2>3. IsFiniteSet((DOMAIN outcomes) \X {"cpu", "mem"})
      <3> HIDE DEF D, g, R
      <3> QED
        BY <2>1, <2>2, FS_Product
    <2> QED
      BY <2>3
  <1>2. g \in Surjection(D, R)
    BY DEF Surjection
  <1>3. IsFiniteSet(R)
    <2> HIDE DEF D, g, R
    <2> QED
      BY <1>1, <1>2, FS_Surjection
  <1>4. rows \subseteq R
    <2> SUFFICES ASSUME NEW r \in rows PROVE r \in R
      OBVIOUS
    <2>1. PICK f \in DOMAIN outcomes : r \in RowsOf(f, outcomes[f])
      BY DEF RowsTell
    <2>2. PICK m \in {"cpu", "mem"} : r = RowAt(f, m)
      BY <2>1 DEF RowsOf, FailedRows, MetricRows
    <2>3. <<f, m>> \in D /\ g[<<f, m>>] = RowAt(f, m)
      <3> HIDE DEF RowAt
      <3> QED
        BY <2>1
    <2> HIDE DEF D, g, RowAt
    <2> QED
      BY <2>2, <2>3
  <1> QED
    BY <1>3, <1>4, FS_Subset

----------------------------------------------------------------------------
(* The outputs of a report. *)

CostReport == [function : Function, metric : {"cpu", "mem"}, value : Nat \cup {None},
               limit : Nat \cup {None}, pass : BOOLEAN \cup {None}]

LEMMA CostReportsType ==
  ASSUME IInv
  PROVE  CostReports \subseteq CostReport
  <1> SUFFICES ASSUME NEW r \in rows
               PROVE  [function |-> r.function, metric |-> r.metric, value |-> r.value,
                       limit |-> LimitOf(r.function, r.metric), pass |-> r.pass] \in CostReport
    BY DEF CostReports
  <1>1. r \in Row /\ config \in Configs
    BY DEF IInv, TypeOK
  <1>2. LimitOf(r.function, r.metric) \in Nat \cup {None}
    BY <1>1, LimitType DEF Row
  <1> QED
    BY <1>1, <1>2 DEF Row, CostReport

LEMMA CostReportsFinite ==
  ASSUME IInv, RowsTell
  PROVE  IsFiniteSet(CostReports)
  <1> DEFINE g == [r \in rows |->
               [function |-> r.function, metric |-> r.metric, value |-> r.value,
                limit |-> LimitOf(r.function, r.metric), pass |-> r.pass]]
  <1>1. g \in Surjection(rows, CostReports)
    BY DEF Surjection, CostReports
  <1> QED
    BY <1>1, RowsFinite, FS_Surjection

\* No column of a Markdown table is left out that says something.
LEMMA MarkdownShowsAll ==
  ASSUME NEW R \in SUBSET CostReport
  PROVE  MarkdownLines(R) = R
  <1>1. CASE \E r \in R : r.limit # None \/ r.pass # None
    BY <1>1 DEF MarkdownLines
  <1>2. CASE \A r \in R : r.limit = None /\ r.pass = None
    <2>1. \A r \in R : WithoutLimit(r) = r
      BY <1>2 DEF WithoutLimit, CostReport
    <2> QED
      BY <1>2, <2>1 DEF MarkdownLines
  <1> QED
    BY <1>1, <1>2

LEMMA FormatIsOne ==
  ASSUME NEW asked \in SUBSET FormatFlags
  PROVE  Format(asked) \in {"csv", "json", "markdown", "html", "text"}
  BY DEF Format, FormatFlags

\* Every format shows a failing row when there is one, and no other, and each
\* row with a value, with the verdict it has.
LEMMA LinesTell ==
  ASSUME args.check, NEW R \in SUBSET CostReport,
         NEW format \in {"csv", "json", "markdown", "html", "text"}
  PROVE  /\ (\E l \in LinesOf(format, R) : l.pass = FALSE) <=> \E r \in R : r.pass = FALSE
         /\ \A r \in R : r.value # None =>
              \E l \in LinesOf(format, R) :
                /\ l.function = r.function /\ l.metric = r.metric /\ l.value = r.value
                /\ l.pass = FALSE <=> r.pass = FALSE
  <1>1. CASE format # "text"
    <2>1. LinesOf(format, R) = R
      BY <1>1, MarkdownShowsAll DEF LinesOf, CsvLines, JsonLines, HtmlLines
    <2> QED
      BY <2>1
  <1>2. CASE format = "text"
    <2> DEFINE Marked(r) == [r EXCEPT !.pass = r.pass # FALSE]
    <2>1. LinesOf(format, R)
            = {Marked(r) : r \in Valued(R)} \cup {r \in R : r.pass # None}
      BY <1>2 DEF LinesOf, TableLines, CheckLines
    <2>2. ASSUME NEW r \in R
          PROVE  /\ Marked(r).function = r.function /\ Marked(r).metric = r.metric
                 /\ Marked(r).value = r.value
                 /\ Marked(r).pass = FALSE <=> r.pass = FALSE
      <3>1. r \in CostReport
        OBVIOUS
      <3>2. Marked(r).pass = (r.pass # FALSE)
        BY <3>1 DEF CostReport
      <3> QED
        BY <3>1, <3>2 DEF CostReport
    <2> HIDE DEF Marked
    <2>3. ASSUME NEW r \in R, r.pass = FALSE
          PROVE  \E l \in LinesOf(format, R) : l.pass = FALSE
      <3>1. r.pass # None
        BY <2>3, MarkersAssumption
      <3> QED
        BY <2>1, <2>3, <3>1
    <2>4. ASSUME NEW l \in LinesOf(format, R), l.pass = FALSE
          PROVE  \E r \in R : r.pass = FALSE
      BY <2>1, <2>2, <2>4 DEF Valued
    <2>5. ASSUME NEW r \in R, r.value # None
          PROVE  \E l \in LinesOf(format, R) :
                   /\ l.function = r.function /\ l.metric = r.metric /\ l.value = r.value
                   /\ l.pass = FALSE <=> r.pass = FALSE
      <3>1. Marked(r) \in LinesOf(format, R)
        BY <2>1, <2>5 DEF Valued
      <3> QED
        BY <2>2, <3>1
    <2> QED
      BY <2>3, <2>4, <2>5
  <1> QED
    BY <1>1, <1>2

\* A metric that was measured has a row, with its value and its verdict.
LEMMA MeasuredRow ==
  ASSUME IInv, RowsTell, NEW f \in DOMAIN outcomes \ Unmeasured, NEW m \in {"cpu", "mem"},
         outcomes[f][m] # None
  PROVE  \E r \in CostReports :
           /\ r.function = f /\ r.metric = m /\ r.value = outcomes[f][m]
           /\ LimitOf(f, m) # None => (r.pass = FALSE <=> Exceeds(f, m))
  <1>1. f \in Function /\ outcomes[f] \in Outcome /\ outcomes[f] # Failed /\ config \in Configs
    BY DEF IInv, TypeOK, Unmeasured
  <1>2. outcomes[f][m] \in Nat /\ LimitOf(f, m) \in Nat \cup {None}
    BY <1>1, OutcomeType, LimitType
  <1> DEFINE v == Verdict(outcomes[f][m], LimitOf(f, m))
             row == [function |-> f, metric |-> m, value |-> outcomes[f][m], pass |-> v]
             shown == [function |-> f, metric |-> m, value |-> outcomes[f][m],
                       limit |-> LimitOf(f, m), pass |-> v]
  <1>3. v = FALSE <=> LimitOf(f, m) # None /\ ~(outcomes[f][m] <= LimitOf(f, m))
    BY <1>2, VerdictType
  <1>4. LimitOf(f, m) # None => (v = FALSE <=> Exceeds(f, m))
    BY <1>2, <1>3 DEF Exceeds
  <1>5. row \in RowsOf(f, outcomes[f])
    BY <1>1 DEF RowsOf, MetricRows
  <1>6. row \in rows
    BY <1>1, <1>5 DEF RowsTell
  <1>7. shown \in CostReports
    <2> HIDE DEF v
    <2>1. row.function = f /\ row.metric = m /\ row.value = outcomes[f][m] /\ row.pass = v
      OBVIOUS
    <2> HIDE DEF row
    <2> QED
      BY <1>6, <2>1 DEF CostReports
  <1> HIDE DEF v
  <1> QED
    BY <1>4, <1>7

\* A report exits 4 exactly when a row of it fails.
LEMMA FailingReport ==
  ASSUME IInv, RowsTell, Reported, args.check
  PROVE  code = 4 <=> \E r \in CostReports : r.pass = FALSE
  <1>1. code = Classified
    BY DEF IInv, Returned, Reported
  <1>2. checks_failed \in BOOLEAN /\ validation_failed \in BOOLEAN /\ has_errors \in BOOLEAN
    BY DEF IInv, TypeOK
  <1>3. Classified = 4 <=> checks_failed
    BY <1>2 DEF Classified, Classify
  <1>4. (\E r \in CostReports : r.pass = FALSE) <=> \E r \in rows : r.pass = FALSE
    <2> DEFINE Listed(r) ==
          [function |-> r.function, metric |-> r.metric, value |-> r.value,
           limit |-> LimitOf(r.function, r.metric), pass |-> r.pass]
    <2>1. \A r : Listed(r).pass = r.pass
      OBVIOUS
    <2>2. CostReports = {Listed(r) : r \in rows}
      BY DEF CostReports
    <2> HIDE DEF Listed
    <2> QED
      BY <2>1, <2>2
  <1> QED
    BY <1>1, <1>3, <1>4, FailingRow

\* Whatever formats are asked for, what a report under --check shows agrees with
\* its exit code, and what was measured is shown (the renderers of main.rs).
THEOREM OutputsAgreeWithCode == Spec => []OutputsTellTheExitCode
  <1>1. IInv /\ RowsTell => OutputsTellTheExitCode
    <2> SUFFICES ASSUME IInv, RowsTell, Reported, args.check,
                        NEW asked \in SUBSET FormatFlags,
                        measured # Nothing \/ Format(asked) \in {"csv", "json", "markdown"}
                 PROVE  /\ code = 4 <=> \E l \in Shown(asked) : l.pass = FALSE
                        /\ Format(asked) = "text" => (code = 4 <=> ChecksFailed(CostReports) > 0)
                        /\ \A f \in DOMAIN outcomes \ Unmeasured : \A m \in {"cpu", "mem"} :
                             outcomes[f][m] # None =>
                               \E l \in Shown(asked) :
                                 /\ l.function = f /\ l.metric = m /\ l.value = outcomes[f][m]
                                 /\ LimitOf(f, m) # None => (l.pass = FALSE <=> Exceeds(f, m))
      BY DEF OutputsTellTheExitCode
    <2> DEFINE lines == LinesOf(Format(asked), CostReports)
    <2>1. Shown(asked) = lines
      BY DEF Shown, ShownOfNothing
    <2>2. CostReports \in SUBSET CostReport
      BY CostReportsType
    <2>3. /\ (\E l \in lines : l.pass = FALSE) <=> \E r \in CostReports : r.pass = FALSE
          /\ \A r \in CostReports : r.value # None =>
               \E l \in lines :
                 /\ l.function = r.function /\ l.metric = r.metric /\ l.value = r.value
                 /\ l.pass = FALSE <=> r.pass = FALSE
      BY <2>2, FormatIsOne, LinesTell
    <2> HIDE DEF lines
    <2>4. code = 4 <=> \E r \in CostReports : r.pass = FALSE
      BY FailingReport
    <2>5. code = 4 <=> ChecksFailed(CostReports) > 0
      <3> DEFINE F == {r \in CheckLines(CostReports) : ~r.pass}
      <3>1. IsFiniteSet(F)
        BY CostReportsFinite, FS_Subset DEF CheckLines
      <3>2. Cardinality(F) \in Nat /\ (Cardinality(F) = 0 <=> F = {})
        BY <3>1, FS_CardinalityType, FS_EmptySet
      <3>3. F # {} <=> \E r \in CostReports : r.pass = FALSE
        <4>1. \A r \in CostReports : r.pass \in BOOLEAN \cup {None}
          BY <2>2 DEF CostReport
        <4>2. \A r \in CostReports : r.pass # None /\ ~r.pass <=> r.pass = FALSE
          BY <4>1, MarkersAssumption
        <4> QED
          BY <4>2 DEF CheckLines
      <3> HIDE DEF F
      <3>4. code = 4 <=> Cardinality(F) > 0
        BY <2>4, <3>2, <3>3
      <3> QED
        BY <3>4 DEF F, ChecksFailed
    <2>6. ASSUME NEW f \in DOMAIN outcomes \ Unmeasured, NEW m \in {"cpu", "mem"},
                 outcomes[f][m] # None
          PROVE  \E l \in Shown(asked) :
                   /\ l.function = f /\ l.metric = m /\ l.value = outcomes[f][m]
                   /\ LimitOf(f, m) # None => (l.pass = FALSE <=> Exceeds(f, m))
      <3>1. PICK r \in CostReports :
              /\ r.function = f /\ r.metric = m /\ r.value = outcomes[f][m]
              /\ LimitOf(f, m) # None => (r.pass = FALSE <=> Exceeds(f, m))
        BY <2>6, MeasuredRow, ZenonT(60)
      <3>2. PICK l \in lines :
              /\ l.function = r.function /\ l.metric = r.metric /\ l.value = r.value
              /\ l.pass = FALSE <=> r.pass = FALSE
        BY <2>3, <2>6, <3>1
      <3>3. l \in Shown(asked)
        BY <2>1, <3>2
      <3>4. LimitOf(f, m) # None => (l.pass = FALSE <=> Exceeds(f, m))
        BY <3>1, <3>2
      <3> QED
        BY <3>1, <3>2, <3>3, <3>4
    <2>7. code = 4 <=> \E l \in Shown(asked) : l.pass = FALSE
      BY <2>1, <2>3, <2>4
    <2> QED
      BY <2>5, <2>6, <2>7
  <1> QED
    BY <1>1, IInvAlways, IInvInit, IInvStep, RowsTellInit, RowsTellStep, PTL DEF Spec

----------------------------------------------------------------------------
(* The JSON document and its reader. *)

\* A row is read back from its snapshot.
LEMMA SnapshotReads ==
  ASSUME NEW r \in CostReport
  PROVE  LET s == Snapshot(r)
         IN  /\ {"function", "metric"} \subseteq DOMAIN s
             /\ [function |-> s.function, metric |-> s.metric, value |-> Field(s, "value"),
                 limit |-> Field(s, "limit"), pass |-> Field(s, "pass")] = r
  <1> DEFINE s == Snapshot(r)
  <1>1. DOMAIN r = {"function", "metric", "value", "limit", "pass"}
    BY DEF CostReport
  <1>2. DOMAIN s = {d \in DOMAIN r : d \in Optional => r[d] # None}
        /\ \A d \in DOMAIN s : s[d] = r[d]
    BY DEF Snapshot
  <1> HIDE DEF s
  <1>3. {"function", "metric"} \subseteq DOMAIN s
    BY <1>1, <1>2 DEF Optional
  <1>4. \A k \in {"value", "limit", "pass"} : Field(s, k) = r[k]
    BY <1>1, <1>2 DEF Field, Optional
  <1>5. s["function"] = r["function"] /\ s["metric"] = r["metric"]
    BY <1>2, <1>3
  <1>6. r = [function |-> r.function, metric |-> r.metric, value |-> r.value,
             limit |-> r.limit, pass |-> r.pass]
    BY DEF CostReport
  <1>7. [function |-> s.function, metric |-> s.metric, value |-> Field(s, "value"),
         limit |-> Field(s, "limit"), pass |-> Field(s, "pass")] = r
    BY <1>4, <1>5, <1>6
  <1> QED
    BY <1>3, <1>7 DEF s

\* ... and a document of them from its snapshots.
LEMMA DocumentReads ==
  ASSUME NEW R \in SUBSET CostReport, NEW doc,
         validate_report_schema(doc) = Ok({Snapshot(r) : r \in R})
  PROVE  load_cost_reports(doc) = Ok(R)
  <1> DEFINE S == {Snapshot(r) : r \in R}
             Read(s) == [function |-> s.function, metric |-> s.metric,
                         value |-> Field(s, "value"), limit |-> Field(s, "limit"),
                         pass |-> Field(s, "pass")]
  <1>1. Ok(S) # Err /\ Ok(S).ok = S
    <2>1. DOMAIN Ok(S) = {"ok"} /\ DOMAIN Err = {"err"}
      BY DEF Ok, Err
    <2> QED
      BY <2>1 DEF Ok
  <1>2. \A r \in R : {"function", "metric"} \subseteq DOMAIN Snapshot(r) /\ Read(Snapshot(r)) = r
    BY SnapshotReads
  <1>3. load_cost_reports(doc)
          = IF \E s \in S : ~({"function", "metric"} \subseteq DOMAIN s) THEN Err
            ELSE Ok({Read(s) : s \in S})
    <2>1. validate_report_schema(doc) = Ok(S)
      OBVIOUS
    <2> HIDE DEF S
    <2> QED
      BY <1>1, <2>1 DEF load_cost_reports
  <1> HIDE DEF Read
  <1>4. {Read(s) : s \in S} = R
    BY <1>2
  <1> QED
    BY <1>2, <1>3, <1>4

\* The JSON document of a report can be read back and gives its rows, and the
\* Markdown a later run makes of it fails exactly when this one does
\* (render_json, load_cost_reports).
THEOREM JsonIsReadBack == Spec => []ReportReadsBack
  <1>1. IInv /\ RowsTell => ReportReadsBack
    <2> SUFFICES ASSUME IInv, RowsTell, Reported
                 PROVE  ReportReadsBack
      BY DEF ReportReadsBack
    <2> DEFINE doc == render_json(CostReports)
               fields == [schema_version |-> SCHEMA_VERSION,
                          snapshots |-> {Snapshot(r) : r \in CostReports}]
    <2>1. CostReports \in SUBSET CostReport
      BY CostReportsType
    <2>2. doc = [object |-> fields] /\ doc.object = fields
      BY DEF render_json, Object
    <2>3. DOMAIN fields = {"schema_version", "snapshots"} /\ fields.schema_version = 1
      BY DEF SCHEMA_VERSION
    <2>4. validate_report_schema(doc) = Ok({Snapshot(r) : r \in CostReports})
      BY <2>2, <2>3 DEF validate_report_schema, ACCEPTED_SCHEMA_VERSIONS, SCHEMA_VERSION
    <2>5. validate_report_schema(Array(doc.object.snapshots))
            = Ok({Snapshot(r) : r \in CostReports})
      <3> DEFINE bare == Array(doc.object.snapshots)
      <3>1. doc.object.snapshots = {Snapshot(r) : r \in CostReports}
        BY <2>2
      <3>2. DOMAIN bare = {"array"} /\ bare.array = doc.object.snapshots
        BY DEF Array
      <3> HIDE DEF bare
      <3>3. validate_report_schema(bare) = Ok(bare.array)
        BY <3>2 DEF validate_report_schema
      <3> QED
        BY <3>1, <3>2, <3>3 DEF bare
    <2>6. load_cost_reports(doc) = Ok(CostReports)
          /\ load_cost_reports(Array(doc.object.snapshots)) = Ok(CostReports)
      BY <2>1, <2>4, <2>5, DocumentReads
    <2>7. ASSUME NEW other, ~(/\ {"schema_version", "snapshots"} \subseteq DOMAIN other
                              /\ other.schema_version \in ACCEPTED_SCHEMA_VERSIONS)
          PROVE  load_cost_reports(Object(other)) = Err
      <3>1. DOMAIN Object(other) = {"object"} /\ Object(other).object = other
        BY DEF Object
      <3>2. validate_report_schema(Object(other)) = Err
        BY <2>7, <3>1 DEF validate_report_schema
      <3> QED
        BY <3>2 DEF load_cost_reports
    <2>8. load_cost_reports(Object([doc.object EXCEPT !.schema_version = @ + 1])) = Err
      <3>1. [fields EXCEPT !.schema_version = @ + 1].schema_version = 2
        BY <2>3
      <3>2. 2 \notin ACCEPTED_SCHEMA_VERSIONS
        BY DEF ACCEPTED_SCHEMA_VERSIONS, SCHEMA_VERSION
      <3> QED
        BY <2>2, <2>7, <3>1, <3>2
    <2>9. ASSUME NEW k \in DOMAIN doc.object
          PROVE  load_cost_reports(Object([j \in DOMAIN doc.object \ {k} |-> doc.object[j]])) = Err
      <3>1. DOMAIN [j \in DOMAIN doc.object \ {k} |-> doc.object[j]] = DOMAIN fields \ {k}
        BY <2>2
      <3>2. k \in {"schema_version", "snapshots"}
        BY <2>2, <2>3
      <3> QED
        BY <2>7, <3>1, <3>2
    <2>10. args.check =>
             (code = 4 <=> \E l \in MarkdownLines(load_cost_reports(doc).ok) : l.pass = FALSE)
      <3>1. load_cost_reports(doc).ok = CostReports
        BY <2>6 DEF Ok
      <3>2. MarkdownLines(CostReports) = CostReports
        BY <2>1, MarkdownShowsAll
      <3> QED
        BY <3>1, <3>2, FailingReport
    <2> HIDE DEF doc
    <2> QED
      BY <2>6, <2>8, <2>9, <2>10 DEF ReportReadsBack, doc
  <1> QED
    BY <1>1, IInvAlways, IInvInit, IInvStep, RowsTellInit, RowsTellStep, PTL DEF Spec

----------------------------------------------------------------------------
(* A comparison with the baseline. *)

LEMMA Apart ==
  ASSUME NEW S, IsFiniteSet(S), NEW T, IsFiniteSet(T), S \cap T = {}
  PROVE  /\ IsFiniteSet(S \cup T)
         /\ Cardinality(S \cup T) = Cardinality(S) + Cardinality(T)
  <1>1. Cardinality(S \cap T) = 0
    BY FS_EmptySet
  <1>2. Cardinality(S) \in Nat /\ Cardinality(T) \in Nat
    BY FS_CardinalityType
  <1>3. /\ IsFiniteSet(S \cup T)
        /\ Cardinality(S \cup T) = Cardinality(S) + Cardinality(T) - Cardinality(S \cap T)
    BY FS_Union
  <1> QED
    BY <1>1, <1>2, <1>3

\* A run that compares, as it returns.
Comparing == pc = "returned" /\ args.mode = "check" /\ measured # Nothing

Both == DOMAIN baseline \cap DOMAIN measured

LEMMA Sides ==
  ASSUME IInv, Comparing
  PROVE  /\ DOMAIN baseline \subseteq Function /\ DOMAIN measured \subseteq Function
         /\ IsFiniteSet(DOMAIN baseline) /\ IsFiniteSet(DOMAIN measured)
         /\ DOMAIN measured # {}
         /\ \A f \in Both : /\ baseline[f] \in Nat /\ measured[f] \in Nat
                            /\ MaxAllowed[<<baseline[f], ToleranceOf(f)>>] \in Nat
         /\ code = 5 <=> HasRegressions
  <1>1. baseline # None /\ (code = 5 <=> HasRegressions)
    BY DEF IInv, Returned, Comparing
  <1>2. baseline \in Entries /\ measured \in Entries
    BY <1>1 DEF IInv, TypeOK
  <1>3. PICK B \in SUBSET Function : baseline \in [B -> Costs]
    BY <1>2 DEF Entries
  <1>4. PICK M \in SUBSET Function : measured \in [M -> Costs]
    BY <1>2 DEF Entries
  <1>5. IsFiniteSet(DOMAIN baseline) /\ IsFiniteSet(DOMAIN measured)
    BY <1>3, <1>4, PackagesAssumption, FS_Subset
  <1>6. DOMAIN measured # {}
    BY <1>2, MeasuredNothing DEF Comparing
  <1>7. ASSUME NEW f \in Both
        PROVE  /\ baseline[f] \in Costs /\ measured[f] \in Costs
               /\ ToleranceOf(f) \in Tolerances
    <2>1. baseline[f] \in Costs /\ measured[f] \in Costs
      BY <1>3, <1>4 DEF Both
    <2>2. config \in Configs
      BY DEF IInv, TypeOK
    <2>3. ToleranceOf(f) \in Tolerances
      BY <2>2, ConfigsAssumption, NumbersAssumption DEF ToleranceOf, Section
    <2> QED
      BY <2>1, <2>3
  <1> QED
    BY <1>1, <1>3, <1>4, <1>5, <1>6, <1>7, NumbersAssumption

\* One comparison of a function.
LEMMA OneComparison ==
  ASSUME IInv, Comparing, NEW f \in Both
  PROVE  LET m == MetricComparison(f) IN
         /\ m.function = f /\ m.baseline = baseline[f] /\ m.current = measured[f]
         /\ m.baseline \in Nat /\ m.current \in Nat /\ m.max_allowed \in Nat
         /\ m.verdict \in {"Pass", "Improvement", "Regression"}
         /\ m.verdict = "Regression" <=> Regresses(f, baseline)
         /\ m.verdict = "Regression" => m.baseline < m.current /\ m.max_allowed < m.current
         /\ m.verdict = "Improvement" <=> m.current < m.baseline
  <1>1. /\ baseline[f] \in Nat /\ measured[f] \in Nat
        /\ MaxAllowed[<<baseline[f], ToleranceOf(f)>>] \in Nat
    BY Sides
  <1>2. Regresses(f, baseline)
          <=> /\ measured[f] > baseline[f]
              /\ measured[f] > MaxAllowed[<<baseline[f], ToleranceOf(f)>>]
    BY DEF Regresses
  <1>3. /\ VerdictOf(f) \in {"Pass", "Improvement", "Regression"}
        /\ VerdictOf(f) = "Regression" <=> Regresses(f, baseline)
        /\ VerdictOf(f) = "Improvement" <=> measured[f] < baseline[f]
    <2>1. CASE measured[f] = baseline[f]
      BY <1>1, <1>2, <2>1 DEF VerdictOf
    <2>2. CASE measured[f] < baseline[f]
      BY <1>1, <1>2, <2>2 DEF VerdictOf
    <2>3. CASE measured[f] > baseline[f]
      <3>1. ~(measured[f] = baseline[f]) /\ ~(measured[f] < baseline[f])
        BY <1>1, <2>3
      <3> QED
        BY <3>1 DEF VerdictOf
    <2> QED
      BY <1>1, <2>1, <2>2, <2>3
  <1> QED
    BY <1>1, <1>2, <1>3 DEF MetricComparison

\* What all comparisons have in common.
LEMMA Comparisons ==
  ASSUME IInv, Comparing
  PROVE  /\ \A m \in Compared :
              /\ m.function \in Both /\ m = MetricComparison(m.function)
              /\ m.baseline = baseline[m.function] /\ m.current = measured[m.function]
              /\ m.baseline \in Nat /\ m.current \in Nat /\ m.max_allowed \in Nat
              /\ m.verdict \in {"Pass", "Improvement", "Regression"}
              /\ m.verdict = "Regression" => m.baseline < m.current /\ m.max_allowed < m.current
              /\ m.verdict = "Improvement" <=> m.current < m.baseline
         /\ \A f \in Both : MetricComparison(f) \in Compared /\ MetricComparison(f).function = f
         /\ HasRegressions <=> \E m \in Compared : m.verdict = "Regression"
         /\ IsFiniteSet(Compared) /\ IsFiniteSet(Both)
         /\ Cardinality(Compared) = Cardinality(Both)
  <1> DEFINE b == [f \in Both |-> MetricComparison(f)]
  <1>1. Compared = {MetricComparison(f) : f \in Both}
    BY DEF Compared, Both
  <1>2. \A m \in Compared :
          /\ m.function \in Both /\ m = MetricComparison(m.function)
          /\ m.baseline = baseline[m.function] /\ m.current = measured[m.function]
          /\ m.baseline \in Nat /\ m.current \in Nat /\ m.max_allowed \in Nat
          /\ m.verdict \in {"Pass", "Improvement", "Regression"}
          /\ m.verdict = "Regression" => m.baseline < m.current /\ m.max_allowed < m.current
          /\ m.verdict = "Improvement" <=> m.current < m.baseline
    BY <1>1, OneComparison
  <1>3. \A f \in Both : MetricComparison(f) \in Compared /\ MetricComparison(f).function = f
    BY <1>1, OneComparison
  <1>4. HasRegressions <=> \E m \in Compared : m.verdict = "Regression"
    <2>1. HasRegressions <=> \E f \in Both : Regresses(f, baseline)
      BY DEF HasRegressions, Both
    <2>2. \A f \in Both : MetricComparison(f).verdict = "Regression" <=> Regresses(f, baseline)
      BY OneComparison
    <2> QED
      BY <1>1, <2>1, <2>2
  <1>5. IsFiniteSet(Both)
    BY Sides, FS_Subset DEF Both
  <1>6. b \in Bijection(Both, Compared)
    BY <1>1, <1>3 DEF Bijection, Injection, Surjection, IsInjective
  <1>7. ExistsBijection(Both, Compared)
    BY <1>6 DEF ExistsBijection
  <1>8. IsFiniteSet(Compared) /\ Cardinality(Compared) = Cardinality(Both)
    BY <1>5, <1>7, FS_Bijection
  <1> QED
    BY <1>2, <1>3, <1>4, <1>5, <1>8

\* A line says what its comparison says.
LEMMA LineTells ==
  ASSUME IInv, Comparing, NEW m \in Compared
  PROVE  LET l == ComparisonLine(m) IN
         /\ l.function = m.function /\ l.current = m.current
         /\ l.status[1] = "BREACH" <=> m.verdict = "Regression"
         /\ l.status[1] = "BREACH" => l.dir = "^" /\ l.status[2] < l.current
  <1>1. /\ m.baseline \in Nat /\ m.current \in Nat
        /\ m.verdict \in {"Pass", "Improvement", "Regression"}
        /\ m.verdict = "Regression" => m.baseline < m.current /\ m.max_allowed < m.current
    BY Comparisons
  <1>2. CASE m.verdict = "Regression"
    <2>1. status_label(m) = <<"BREACH", m.max_allowed>>
      BY <1>2 DEF status_label
    <2>2. m.baseline < m.current /\ m.max_allowed < m.current
      BY <1>1, <1>2
    <2>3. direction(m) = "^"
      <3>1. abs_change(m) > 0 /\ ~(abs_change(m) = 0) /\ ~(abs_change(m) < 0)
        BY <1>1, <2>2 DEF abs_change
      <3> QED
        BY <3>1 DEF direction
    <2> QED
      BY <1>2, <2>1, <2>2, <2>3 DEF ComparisonLine
  <1>3. CASE m.verdict # "Regression"
    <2>1. /\ <<"improved">>[1] # "BREACH"
          /\ <<"unchanged">>[1] # "BREACH"
          /\ <<"within tolerance">>[1] # "BREACH"
      OBVIOUS
    <2>2. status_label(m)[1] # "BREACH"
      <3>1. CASE m.verdict = "Improvement"
        <4>1. status_label(m) = <<"improved">>
          BY <1>1, <3>1 DEF status_label
        <4> QED
          BY <4>1, <2>1
      <3>2. CASE m.verdict # "Improvement" /\ m.current = m.baseline
        <4>1. status_label(m) = <<"unchanged">>
          <5>1. m.verdict = "Pass" /\ is_unchanged(m)
            BY <1>1, <1>3, <3>2 DEF is_unchanged
          <5> QED
            BY <5>1 DEF status_label
        <4> QED
          BY <4>1, <2>1
      <3>3. CASE m.verdict # "Improvement" /\ m.current # m.baseline
        <4>1. status_label(m) = <<"within tolerance">>
          <5>1. m.verdict = "Pass" /\ ~is_unchanged(m)
            BY <1>1, <1>3, <3>3 DEF is_unchanged
          <5> QED
            BY <5>1 DEF status_label
        <4> QED
          BY <4>1, <2>1
      <3> QED
        BY <3>1, <3>2, <3>3
    <2> QED
      BY <1>3, <2>2 DEF ComparisonLine
  <1> QED
    BY <1>2, <1>3

\* The table of the text is that of the Markdown, with a line for each
\* comparison that is not dropped.
LEMMA Tables ==
  ASSUME IInv, Comparing, NEW hide \in BOOLEAN
  PROVE  LET table == {ComparisonLine(m) : m \in DropUnchanged(hide)} IN
         /\ render_report_text(hide).table = table
         /\ render_report_markdown(hide).table = table
         /\ Cardinality(table) = Cardinality(DropUnchanged(hide))
  <1> DEFINE table == {ComparisonLine(m) : m \in DropUnchanged(hide)}
             b == [m \in DropUnchanged(hide) |-> ComparisonLine(m)]
  <1>1. Changed \cup (IF hide THEN {} ELSE Unchanged) = DropUnchanged(hide)
    BY DEF Changed, Unchanged, DropUnchanged
  <1>2. DropUnchanged(hide) \subseteq Compared
    BY DEF DropUnchanged
  <1>3. ASSUME NEW m \in DropUnchanged(hide), NEW k \in DropUnchanged(hide),
               ComparisonLine(m) = ComparisonLine(k)
        PROVE  m = k
    <2>1. m.function = k.function
      BY <1>3 DEF ComparisonLine
    <2> QED
      BY <1>2, <2>1, Comparisons
  <1>4. b \in Bijection(DropUnchanged(hide), table)
    BY <1>3 DEF Bijection, Injection, Surjection, IsInjective
  <1>5. IsFiniteSet(DropUnchanged(hide))
    BY <1>2, Comparisons, FS_Subset
  <1>6. Cardinality(table) = Cardinality(DropUnchanged(hide))
    <2>1. ExistsBijection(DropUnchanged(hide), table)
      BY <1>4 DEF ExistsBijection
    <2> HIDE DEF table
    <2> QED
      BY <1>5, <2>1, FS_Bijection
  <1> QED
    BY <1>1, <1>6 DEF render_report_text, render_report_markdown

\* The four counts are those of a partition of what was compared.
LEMMA CountsAddUp ==
  ASSUME IInv, Comparing
  PROVE  ChangeCounts.regressions + ChangeCounts.improvements + ChangeCounts.moved_ok
           + ChangeCounts.unchanged = Cardinality(Compared)
  <1> DEFINE A == {m \in Compared : m.verdict = "Regression"}
             B == {m \in Compared : m.verdict = "Improvement"}
             C == {m \in Compared : m.verdict = "Pass" /\ ~is_unchanged(m)}
             D == {m \in Compared : is_unchanged(m)}
  <1>1. /\ A \cap B = {} /\ (A \cup B) \cap C = {}
        /\ (A \cup B \cup C) \cap D = {}
        /\ A \cup B \cup C \cup D = Compared
    BY Comparisons DEF is_unchanged
  <1>2. IsFiniteSet(A) /\ IsFiniteSet(B) /\ IsFiniteSet(C) /\ IsFiniteSet(D)
    BY Comparisons, FS_Subset
  <1>3. /\ ChangeCounts.regressions = Cardinality(A) /\ ChangeCounts.improvements = Cardinality(B)
        /\ ChangeCounts.moved_ok = Cardinality(C) /\ ChangeCounts.unchanged = Cardinality(D)
    BY DEF ChangeCounts
  <1> HIDE DEF A, B, C, D
  <1>4. IsFiniteSet(A \cup B) /\ Cardinality(A \cup B) = Cardinality(A) + Cardinality(B)
    BY <1>1, <1>2, Apart
  <1>5. /\ IsFiniteSet(A \cup B \cup C)
        /\ Cardinality(A \cup B \cup C) = Cardinality(A \cup B) + Cardinality(C)
    BY <1>1, <1>2, <1>4, Apart
  <1>6. Cardinality(A \cup B \cup C \cup D) = Cardinality(A \cup B \cup C) + Cardinality(D)
    BY <1>1, <1>2, <1>5, Apart
  <1> QED
    BY <1>1, <1>3, <1>4, <1>5, <1>6

\* What is dropped is what is counted as hidden.
LEMMA HiddenCount ==
  ASSUME IInv, Comparing, NEW hide \in BOOLEAN
  PROVE  /\ Cardinality(DropUnchanged(hide)) + Hidden(hide) = Cardinality(Compared)
         /\ Hidden(hide) \in {0, ChangeCounts.unchanged}
  <1> DEFINE kept == DropUnchanged(hide)
             dropped == Compared \ DropUnchanged(hide)
  <1>1. kept \cup dropped = Compared /\ kept \cap dropped = {}
    BY DEF DropUnchanged
  <1>2. IsFiniteSet(kept) /\ IsFiniteSet(dropped)
    BY <1>1, Comparisons, FS_Subset
  <1>3. dropped = IF hide THEN {m \in Compared : is_unchanged(m)} ELSE {}
    BY DEF DropUnchanged
  <1>4. Hidden(hide) = Cardinality(dropped)
    BY DEF Hidden
  <1> HIDE DEF kept, dropped
  <1>5. Cardinality(Compared) = Cardinality(kept) + Cardinality(dropped)
    BY <1>1, <1>2, Apart
  <1>6. Hidden(hide) \in {0, ChangeCounts.unchanged}
    BY <1>3, <1>4, FS_EmptySet DEF ChangeCounts
  <1> QED
    BY <1>4, <1>5, <1>6 DEF kept

\* Every function of either side is compared, new or stale, and only one of
\* them.
LEMMA SidesAddUp ==
  ASSUME IInv, Comparing
  PROVE  /\ {m.function : m \in Compared} \cup New \cup Stale = DOMAIN baseline \cup DOMAIN measured
         /\ Cardinality(Compared) + Cardinality(New) + Cardinality(Stale)
              = Cardinality(DOMAIN baseline \cup DOMAIN measured)
         /\ ~NoOverlap
  <1>1. {m.function : m \in Compared} = Both
    BY Comparisons
  <1>2. /\ Both \cup New \cup Stale = DOMAIN baseline \cup DOMAIN measured
        /\ Both \cap New = {} /\ (Both \cup New) \cap Stale = {}
    BY DEF Both, New, Stale
  <1>3. IsFiniteSet(Both) /\ IsFiniteSet(New) /\ IsFiniteSet(Stale)
    <2>1. New \subseteq DOMAIN measured /\ Stale \subseteq DOMAIN baseline
      BY DEF New, Stale
    <2> QED
      BY <2>1, Comparisons, Sides, FS_Subset
  <1>4. IsFiniteSet(Both \cup New)
        /\ Cardinality(Both \cup New) = Cardinality(Both) + Cardinality(New)
    BY <1>2, <1>3, Apart
  <1>5. Cardinality(Both \cup New \cup Stale) = Cardinality(Both \cup New) + Cardinality(Stale)
    BY <1>2, <1>3, <1>4, Apart
  <1>6. Cardinality(Compared) = Cardinality(Both)
    BY Comparisons
  <1>7. ~NoOverlap
    <2>1. PICK f \in DOMAIN measured : TRUE
      BY Sides
    <2>2. f \in Both \/ f \in New
      BY DEF Both, New
    <2> QED
      BY <2>2, Comparisons DEF NoOverlap
  <1> QED
    BY <1>1, <1>2, <1>4, <1>5, <1>6, <1>7

\* What a check shows, in whatever format, is what it exits with, and its counts
\* add up (check_against_baseline and the renderers of compare.rs and main.rs).
THEOREM ComparisonIsWhole == Spec => []ComparisonsAddUp
  <1>1. IInv => ComparisonsAddUp
    <2> SUFFICES ASSUME IInv, Comparing, NEW hide \in BOOLEAN
                 PROVE  LET text == render_report_text(hide)
                            markdown == render_report_markdown(hide)
                            json == render_check_report_json
                            counts == ChangeCounts
                        IN
                        /\ \A t \in {text.table, markdown.table} :
                             /\ code = 5 <=> \E l \in t : l.status[1] = "BREACH"
                             /\ \A l \in t : l.status[1] = "BREACH" =>
                                  l.dir = "^" /\ l.status[2] < l.current
                        /\ code = 5 <=> \E m \in CheckCsv(hide) : m.verdict = "Regression"
                        /\ code = 5 <=> json.has_regressions
                        /\ json.has_regressions <=> json.regression_count > 0
                        /\ json.regressions \cup json.improvements \cup json.passes = Compared
                        /\ text.table = markdown.table
                        /\ \A f \in DOMAIN baseline \cap DOMAIN measured :
                             measured[f] # baseline[f] => \E l \in text.table : l.function = f
                        /\ Cardinality(text.table) + text.hidden = Cardinality(Compared)
                        /\ text.hidden \in {0, counts.unchanged}
                        /\ counts.regressions + counts.improvements + counts.moved_ok
                             + counts.unchanged = Cardinality(Compared)
                        /\ {m.function : m \in Compared} \cup New \cup Stale
                             = DOMAIN baseline \cup DOMAIN measured
                        /\ Cardinality(Compared) + Cardinality(New) + Cardinality(Stale)
                             = Cardinality(DOMAIN baseline \cup DOMAIN measured)
                        /\ ~NoOverlap
      BY DEF ComparisonsAddUp, Comparing
    <2> DEFINE kept == DropUnchanged(hide)
               table == {ComparisonLine(m) : m \in kept}
               text == render_report_text(hide)
               markdown == render_report_markdown(hide)
               json == render_check_report_json
    <2>1. /\ text.table = table /\ markdown.table = table /\ text.hidden = Hidden(hide)
          /\ Cardinality(table) = Cardinality(kept)
      BY Tables DEF render_report_text
    <2>2. kept \subseteq Compared /\ \A m \in Compared : m \notin kept => m.current = m.baseline
      BY DEF DropUnchanged, is_unchanged
    <2>3. code = 5 <=> \E m \in kept : m.verdict = "Regression"
      <3>1. code = 5 <=> \E m \in Compared : m.verdict = "Regression"
        BY Sides, Comparisons
      <3>2. \A m \in Compared : m.verdict = "Regression" => m \in kept
        BY <2>2, Comparisons
      <3> QED
        BY <2>2, <3>1, <3>2
    <2> HIDE DEF kept
    <2>4. /\ code = 5 <=> \E l \in table : l.status[1] = "BREACH"
          /\ \A l \in table : l.status[1] = "BREACH" => l.dir = "^" /\ l.status[2] < l.current
      BY <2>2, <2>3, LineTells
    <2>5. code = 5 <=> \E m \in CheckCsv(hide) : m.verdict = "Regression"
      BY <2>3 DEF CheckCsv, kept
    <2>6. json.has_regressions = HasRegressions
          /\ json.regression_count = Cardinality({m \in Compared : m.verdict = "Regression"})
      BY DEF render_check_report_json, ChangeCounts
    <2>7. HasRegressions <=> Cardinality({m \in Compared : m.verdict = "Regression"}) > 0
      <3> DEFINE R == {m \in Compared : m.verdict = "Regression"}
      <3>1. IsFiniteSet(R)
        BY Comparisons, FS_Subset
      <3>2. HasRegressions <=> R # {}
        BY Comparisons
      <3> HIDE DEF R
      <3>3. Cardinality(R) \in Nat /\ (Cardinality(R) = 0 <=> R = {})
        BY <3>1, FS_CardinalityType, FS_EmptySet
      <3>4. HasRegressions <=> Cardinality(R) > 0
        BY <3>2, <3>3
      <3> QED
        BY <3>4 DEF R
    <2>8. code = 5 <=> HasRegressions
      BY Sides
    <2>9. json.regressions \cup json.improvements \cup json.passes = Compared
      BY Comparisons DEF render_check_report_json
    <2>10. ASSUME NEW f \in Both, measured[f] # baseline[f]
           PROVE  \E l \in table : l.function = f
      <3> DEFINE m == MetricComparison(f)
      <3>1. m \in Compared /\ m.function = f /\ m.current # m.baseline
        BY <2>10, Comparisons, OneComparison
      <3> HIDE DEF m
      <3>2. m \in kept /\ ComparisonLine(m).function = f
        BY <2>2, <3>1 DEF ComparisonLine
      <3> QED
        BY <3>2
    <2> HIDE DEF table, text, markdown, json
    <2>11. \A t \in {text.table, markdown.table} :
             /\ code = 5 <=> \E l \in t : l.status[1] = "BREACH"
             /\ \A l \in t : l.status[1] = "BREACH" => l.dir = "^" /\ l.status[2] < l.current
      BY <2>1, <2>4, Zenon
    <2>12. /\ code = 5 <=> json.has_regressions
           /\ json.has_regressions <=> json.regression_count > 0
      BY <2>6, <2>7, <2>8
    <2>13. /\ text.table = markdown.table
           /\ \A f \in DOMAIN baseline \cap DOMAIN measured :
                measured[f] # baseline[f] => \E l \in text.table : l.function = f
      BY <2>1, <2>10 DEF Both
    <2>14. /\ Cardinality(text.table) + text.hidden = Cardinality(Compared)
           /\ text.hidden \in {0, ChangeCounts.unchanged}
      BY <2>1, HiddenCount DEF kept
    <2> QED
      BY <2>5, <2>9, <2>11, <2>12, <2>13, <2>14, CountsAddUp, SidesAddUp, Zenon
      DEF text, markdown, json
  <1> QED
    BY <1>1, IInvAlways, PTL

=============================================================================

---------------------------- MODULE Watch_proofs ----------------------------
(***************************************************************************)
(* Proofs about Watch, for any packages, edits and watcher errors: its     *)
(* types, and that edits and passes answer one another.                    *)
(*                                                                         *)
(* Both halves rest on the channel.  As long as it holds no source event,  *)
(* what the pass under way has built and measured is what the sources are; *)
(* and every pass begun, source event queued or pass asked for has an edit *)
(* of its own, but for the first.                                          *)
(***************************************************************************)
EXTENDS Watch, FiniteSetTheorems, Functions, TLAPS

SourcesIn(q) == {i \in DOMAIN q : q[i] = "source"}

\* The packages before the one at hand.
Before == {Packages[i] : i \in 1..at - 1}

AsTheSourcesAre(m) == \A p \in DOMAIN m : m[p] = code[p]

PassIsCurrent ==
  /\ pc \in {"deploy", "simulate"} => wasm[Here] = code[Here]
  /\ pc \in {"build", "deploy", "simulate"} =>
       AsTheSourcesAre(current) /\ (has_errors \/ DOMAIN current = Before)
  /\ pc = "end" => AsTheSourcesAre(current) /\ (has_errors \/ DOMAIN current = Package)
  /\ pc = "wait" /\ ~failed => AsTheSourcesAre(prev) /\ (has_errors \/ DOMAIN prev = Package)

Asked == IF pc \in {"debounce", "start"} THEN 1 ELSE 0
PassesAccounted == passes + Cardinality(SourcesIn(queue)) + Asked <= edits + 1

IInv ==
  /\ TypeOK
  /\ SourcesIn(queue) = {} => PassIsCurrent
  /\ PassesAccounted

----------------------------------------------------------------------------
(* Lemmas about the channel. *)

LEMMA SourcesFinite ==
  ASSUME NEW q \in Seq(Event)
  PROVE  IsFiniteSet(SourcesIn(q)) /\ Cardinality(SourcesIn(q)) \in Nat
  <1>1. IsFiniteSet(1..Len(q))
    BY FS_Interval
  <1>2. SourcesIn(q) \subseteq 1..Len(q)
    BY DEF SourcesIn
  <1> QED
    BY <1>1, <1>2, FS_Subset, FS_CardinalityType

\* An event at the end of the channel ...
LEMMA SourcesAppend ==
  ASSUME NEW q \in Seq(Event), NEW e \in Event
  PROVE  /\ SourcesIn(Append(q, e)) = {} => SourcesIn(q) = {} /\ e # "source"
         /\ Cardinality(SourcesIn(Append(q, e))) =
              Cardinality(SourcesIn(q)) + (IF e = "source" THEN 1 ELSE 0)
  <1>1. SourcesIn(Append(q, e)) =
          SourcesIn(q) \cup (IF e = "source" THEN {Len(q) + 1} ELSE {})
    BY DEF SourcesIn
  <1>2. Len(q) + 1 \notin SourcesIn(q)
    BY DEF SourcesIn
  <1>3. CASE e = "source"
    BY <1>1, <1>2, <1>3, SourcesFinite, FS_AddElement
  <1>4. CASE e # "source"
    BY <1>1, <1>4, SourcesFinite
  <1> QED
    BY <1>3, <1>4

\* ... and one taken from its front.
LEMMA SourcesTail ==
  ASSUME NEW q \in Seq(Event), q # <<>>
  PROVE  /\ SourcesIn(Tail(q)) = {} /\ Head(q) # "source" => SourcesIn(q) = {}
         /\ Cardinality(SourcesIn(q)) =
              Cardinality(SourcesIn(Tail(q))) + (IF Head(q) = "source" THEN 1 ELSE 0)
  <1> DEFINE shift == [i \in SourcesIn(Tail(q)) |-> i + 1]
             Rest == SourcesIn(q) \ {1}
  <1>1. \A i \in SourcesIn(Tail(q)) : i \in Nat /\ i + 1 \in Rest
    BY DEF SourcesIn
  <1>2. \A j \in Rest : j - 1 \in SourcesIn(Tail(q)) /\ j \in Nat
    BY DEF SourcesIn
  <1>3. shift \in Bijection(SourcesIn(Tail(q)), Rest)
    <2>1. shift \in [SourcesIn(Tail(q)) -> Rest]
      BY <1>1
    <2>2. \A i, j \in SourcesIn(Tail(q)) : shift[i] = shift[j] => i = j
      BY <1>1
    <2>3. \A j \in Rest : \E i \in SourcesIn(Tail(q)) : shift[i] = j
      BY <1>2
    <2> QED
      BY <2>1, <2>2, <2>3 DEF Bijection, Injection, Surjection, IsInjective
  <1>4. Cardinality(Rest) = Cardinality(SourcesIn(Tail(q)))
    <2>1. ExistsBijection(SourcesIn(Tail(q)), Rest)
      BY <1>3 DEF ExistsBijection
    <2>2. Tail(q) \in Seq(Event)
      OBVIOUS
    <2> QED
      BY <2>1, <2>2, SourcesFinite, FS_Bijection
  <1>5. 1 \in SourcesIn(q) <=> Head(q) = "source"
    BY DEF SourcesIn
  <1>6. Cardinality(Rest) = IF 1 \in SourcesIn(q) THEN Cardinality(SourcesIn(q)) - 1
                            ELSE Cardinality(SourcesIn(q))
    BY SourcesFinite, FS_RemoveElement
  <1>7. Cardinality(SourcesIn(q)) \in Nat
    BY SourcesFinite
  <1>8. SourcesIn(Tail(q)) = {} => Rest = {}
    BY <1>2
  <1> QED
    BY <1>4, <1>5, <1>6, <1>7, <1>8

LEMMA NoSources == SourcesIn(<<>>) = {} /\ Cardinality(SourcesIn(<<>>)) = 0
  BY FS_EmptySet DEF SourcesIn

----------------------------------------------------------------------------
(* Types. *)

LEMMA HereIsPackage == ASSUME TypeOK PROVE Here \in Package
  BY DEF TypeOK, Here, Package

LEMMA PositionType ==
  ASSUME TypeOK
  PROVE  /\ at \in Nat /\ 1 <= at /\ at <= Len(Packages)
         /\ at # Len(Packages) => at + 1 \in DOMAIN Packages
  BY PackagesAssumption DEF TypeOK

LEMMA NothingType == Nothing \in Measured /\ DOMAIN Nothing = {}
  BY DEF Nothing, Measured

LEMMA TypeInit == Init => TypeOK
  <1>1. 1 \in DOMAIN Packages
    BY PackagesAssumption
  <1>2. 0 \in Version
    BY BoundsAssumption DEF Version
  <1>3. 0 \in 0..MaxErrors /\ 0 \in 0..TooMany
    BY BoundsAssumption DEF TooMany
  <1>4. <<>> \in Seq(Event)
    OBVIOUS
  <1>5. [p \in Package |-> 0] \in [Package -> Version]
    BY <1>2
  <1> QED
    BY <1>1, <1>2, <1>3, <1>4, <1>5, NothingType DEF Init, TypeOK

LEMMA TypeStep == ASSUME TypeOK, [Next]_vars PROVE TypeOK'
  <1> USE DEF TypeOK, loop
  <1>1. ASSUME NEW p \in Package, Edit(p) PROVE TypeOK'
    <2>1. edits + 1 \in Version
      BY <1>1, BoundsAssumption DEF Edit, Version
    <2>2. Append(queue, "source") \in Seq(Event)
      BY DEF Event
    <2> QED
      BY <1>1, <2>1, <2>2 DEF Edit
  <1>2. CASE WatcherError
    <2>1. errors + 1 \in 0..MaxErrors
      BY <1>2, BoundsAssumption DEF WatcherError
    <2>2. Append(queue, "error") \in Seq(Event)
      BY DEF Event
    <2> QED
      BY <1>2, <2>1, <2>2 DEF WatcherError
  <1>3. CASE Receive \/ Absorb
    <2>1. queue # <<>> => Tail(queue) \in Seq(Event)
      OBVIOUS
    <2> QED
      BY <1>3, <2>1 DEF Receive, Absorb
  <1>4. CASE WindowEnds
    BY <1>4 DEF WindowEnds
  <1>5. CASE StartPass
    <2>1. 1 \in DOMAIN Packages
      BY PackagesAssumption
    <2>2. passes' \in 0..TooMany
      BY <1>5, BoundsAssumption DEF StartPass, TooMany
    <2> QED
      BY <1>5, <2>1, <2>2, NothingType DEF StartPass
  <1>6. Append(queue, "excluded") \in Seq(Event)
    BY DEF Event
  <1>7. CASE BuildPackage
    BY <1>6, <1>7, HereIsPackage DEF BuildPackage
  <1>8. CASE BuildFails \/ DeployFails \/ TransportFails
    BY <1>6, <1>8 DEF BuildFails, DeployFails, TransportFails, FailPass
  <1>9. CASE SkipPackage \/ SimulateFails
    BY <1>9, PositionType DEF SkipPackage, SimulateFails, Advance
  <1>10. CASE Deploy
    BY <1>10 DEF Deploy
  <1>11. CASE Simulate
    <2>1. PICK S \in SUBSET Package : current \in [S -> Version]
      BY DEF Measured
    <2>2. current' \in [S \cup {Here} -> Version]
      BY <1>11, <2>1, HereIsPackage DEF Simulate
    <2>3. current' \in Measured
      <3>1. S \cup {Here} \in SUBSET Package
        BY HereIsPackage
      <3> QED
        BY <2>2, <3>1 DEF Measured
    <2> QED
      BY <1>11, <2>3, PositionType DEF Simulate, Advance
  <1>12. CASE EndPass
    BY <1>12 DEF EndPass
  <1>13. CASE UNCHANGED vars
    BY <1>13 DEF vars
  <1> QED
    BY <1>1, <1>2, <1>3, <1>4, <1>5, <1>7, <1>8, <1>9, <1>10, <1>11, <1>12, <1>13
    DEF Next, Loop, Work, Fail

\* Every variable of the watcher has its type.
THEOREM TypeCorrect == Spec => []TypeOK
  BY TypeInit, TypeStep, PTL DEF Spec

----------------------------------------------------------------------------
(* Passes and edits. *)

LEMMA NumbersType ==
  ASSUME TypeOK
  PROVE  /\ edits \in Nat /\ passes \in Nat
         /\ Cardinality(SourcesIn(queue)) \in Nat
  BY SourcesFinite, BoundsAssumption DEF TypeOK, Version, TooMany

LEMMA AccountedStep ==
  ASSUME TypeOK, TypeOK', PassesAccounted, [Next]_vars
  PROVE  PassesAccounted'
  <1> USE DEF PassesAccounted, Asked, loop
  <1>1. queue \in Seq(Event) /\ queue' \in Seq(Event)
    BY DEF TypeOK
  <1>2. /\ edits \in Nat /\ passes \in Nat
        /\ Cardinality(SourcesIn(queue)) \in Nat
    BY NumbersType
  <1>3. /\ "source" \in Event /\ "error" \in Event /\ "excluded" \in Event
    BY DEF Event
  <1>4. ASSUME NEW p \in Package, Edit(p) PROVE PassesAccounted'
    <2>1. Cardinality(SourcesIn(queue')) = Cardinality(SourcesIn(queue)) + 1
      BY <1>1, <1>3, <1>4, SourcesAppend DEF Edit
    <2> QED
      BY <1>2, <1>4, <2>1 DEF Edit
  <1>5. CASE WatcherError \/ BuildPackage \/ BuildFails
    <2>1. \E e \in Event : e # "source" /\ queue' = Append(queue, e)
      BY <1>3, <1>5 DEF WatcherError, BuildPackage, BuildFails
    <2>2. Cardinality(SourcesIn(queue')) = Cardinality(SourcesIn(queue))
      BY <1>1, <1>2, <2>1, SourcesAppend
    <2> QED
      BY <1>2, <1>5, <2>2 DEF WatcherError, BuildPackage, BuildFails, FailPass
  <1>6. CASE Receive \/ Absorb
    <2>1. queue # <<>> /\ queue' = Tail(queue)
      BY <1>6 DEF Receive, Absorb
    <2>2. Cardinality(SourcesIn(queue')) \in Nat
      BY <1>1, SourcesFinite
    <2>3. Cardinality(SourcesIn(queue)) =
            Cardinality(SourcesIn(queue')) + (IF Head(queue) = "source" THEN 1 ELSE 0)
      BY <1>1, <2>1, SourcesTail
    <2> QED
      BY <1>2, <1>6, <2>2, <2>3 DEF Receive, Absorb, Relevant
  <1>7. CASE WindowEnds
    BY <1>2, <1>7 DEF WindowEnds
  <1>8. CASE StartPass
    BY <1>2, <1>8 DEF StartPass
  <1>9. CASE Deploy \/ Simulate \/ EndPass \/ SkipPackage \/ DeployFails \/ SimulateFails \/ TransportFails
    BY <1>2, <1>9 DEF Deploy, Simulate, EndPass, SkipPackage, DeployFails, SimulateFails,
                      TransportFails, FailPass, Advance
  <1>10. CASE UNCHANGED vars
    BY <1>10 DEF vars
  <1> QED
    BY <1>4, <1>5, <1>6, <1>7, <1>8, <1>9, <1>10 DEF Next, Loop, Work, Fail

----------------------------------------------------------------------------
(* What is measured is what the sources are. *)

LEMMA BeforeNext ==
  ASSUME TypeOK
  PROVE  /\ at = 1 => Before = {}
         /\ at = Len(Packages) => Before \cup {Here} = Package
         /\ at' = at + 1 => Before' = Before \cup {Here}
  BY PositionType DEF Before, Here, Package

LEMMA CurrentStep ==
  ASSUME TypeOK, SourcesIn(queue) = {} => PassIsCurrent, [Next]_vars, SourcesIn(queue)' = {}
  PROVE  PassIsCurrent'
  <1> USE DEF PassIsCurrent, AsTheSourcesAre, loop
  <1>1. queue \in Seq(Event)
    BY DEF TypeOK
  <1>2. /\ "source" \in Event /\ "error" \in Event /\ "excluded" \in Event
    BY DEF Event
  <1>3. ASSUME NEW p \in Package, Edit(p) PROVE FALSE
    BY <1>1, <1>2, <1>3, SourcesAppend DEF Edit
  <1>4. CASE WatcherError
    <2>1. SourcesIn(queue) = {}
      BY <1>1, <1>2, <1>4, SourcesAppend DEF WatcherError
    <2> QED
      BY <1>4, <2>1 DEF WatcherError, Before, Here
  <1>5. CASE Receive
    <2>1. Head(queue) # "source" => SourcesIn(queue) = {}
      BY <1>1, <1>5, SourcesTail DEF Receive
    <2> QED
      BY <1>5, <2>1 DEF Receive, Relevant
  <1>6. CASE Absorb \/ WindowEnds
    BY <1>6 DEF Absorb, WindowEnds
  <1>7. CASE StartPass
    BY <1>7, NothingType, PackagesAssumption DEF StartPass, Before
  <1>8. CASE BuildPackage
    <2>1. SourcesIn(queue) = {}
      BY <1>1, <1>2, <1>8, SourcesAppend DEF BuildPackage
    <2> QED
      BY <1>8, <2>1, HereIsPackage DEF BuildPackage, Before, Here, TypeOK
  <1>9. CASE BuildFails \/ DeployFails \/ TransportFails
    BY <1>9 DEF BuildFails, DeployFails, TransportFails, FailPass
  <1>10. CASE SkipPackage \/ SimulateFails
    BY <1>10 DEF SkipPackage, SimulateFails, Advance
  <1>11. CASE Deploy
    BY <1>11 DEF Deploy, Before, Here
  <1>12. CASE Simulate
    <2>1. AsTheSourcesAre(current)'
      BY <1>12 DEF Simulate
    <2>2. DOMAIN current' = DOMAIN current \cup {Here}
      BY <1>12 DEF Simulate
    <2>3. CASE at = Len(Packages)
      BY <1>12, <2>1, <2>2, <2>3, BeforeNext DEF Simulate, Advance
    <2>4. CASE at # Len(Packages)
      BY <1>12, <2>1, <2>2, <2>4, BeforeNext DEF Simulate, Advance
    <2> QED
      BY <2>3, <2>4
  <1>13. CASE EndPass
    BY <1>13 DEF EndPass
  <1>14. CASE UNCHANGED vars
    BY <1>14 DEF vars, Before, Here
  <1> QED
    BY <1>3, <1>4, <1>5, <1>6, <1>7, <1>8, <1>9, <1>10, <1>11, <1>12, <1>13, <1>14
    DEF Next, Loop, Work, Fail

LEMMA IInvInit == Init => IInv
  <1> SUFFICES ASSUME Init PROVE IInv
    OBVIOUS
  <1>1. TypeOK
    BY TypeInit
  <1>2. PassIsCurrent
    BY DEF Init, PassIsCurrent
  <1>3. PassesAccounted
    BY NoSources DEF Init, PassesAccounted, Asked
  <1> QED
    BY <1>1, <1>2, <1>3 DEF IInv

\* No saved edit is lost while the watcher waits, and no pass is begun that no
\* edit asked for, whatever fails and whenever edits fall.
THEOREM EditsAndPasses == Spec => []EditsAnswered
  <1>1. IInv /\ [Next]_vars => IInv'
    BY TypeStep, AccountedStep, CurrentStep DEF IInv
  <1>2. IInv => EditsAnswered
    <2> SUFFICES ASSUME IInv PROVE EditsAnswered
      OBVIOUS
    <2>1. ShownIsCurrent
      BY DEF IInv, PassIsCurrent, AsTheSourcesAre, ShownIsCurrent, Queued, SourcesIn
    <2>2. PassesAnswerEdits
      BY NumbersType DEF IInv, PassesAccounted, Asked, PassesAnswerEdits
    <2> QED
      BY <2>1, <2>2 DEF EditsAnswered
  <1> QED
    BY <1>1, <1>2, IInvInit, PTL DEF Spec

=============================================================================

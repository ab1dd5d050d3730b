-------------------------- MODULE DeployRuns_proofs --------------------------
(***************************************************************************)
(* Proofs about DeployRuns, for every set of packages, builds, processes   *)
(* and command lines: its types; that, when no run replays a fixture and   *)
(* no source is edited during a run, every run measures its own build; and *)
(* when a label always names one network, its own network; under both,     *)
(* that the runs are those of a workspace without a cache; and, when no    *)
(* two packages build to one wasm, that what a save still holds is not     *)
(* deployed again.                                                         *)
(***************************************************************************)
EXTENDS DeployRuns, TLAPS

LEMMA AnyTypes == AnyInvocation \in Invocations /\ AnyBuild \in Build
  <1>1. AnyInvocation \in Invocations
    BY InvocationsAssumption DEF AnyInvocation
  <1>2. Packages[1] \in Package
    <2>1. 1 \in DOMAIN Packages
      BY PackagesAssumption
    <2> QED
      BY <2>1 DEF Package
  <1>3. PICK b : b \in BuildsOf[Packages[1]]
    BY <1>2, BuildsAssumption
  <1>4. b \in Build
    BY <1>2, <1>3 DEF Build
  <1> QED
    BY <1>1, <1>4 DEF AnyBuild

LEMMA HereType ==
  ASSUME NEW r \in Run, at[r] \in DOMAIN Packages
  PROVE  Here(r) \in Package
  BY DEF Here, Package

LEMMA KeyType ==
  ASSUME ProcessOK, NEW r \in Run
  PROVE  /\ inv[r].network \in Network /\ inv[r].target \in Target
         /\ inv[r].source \in Source /\ Key(r) \in Network \X Source
  BY DEF ProcessOK, Network, Target, Source, Key

LEMMA DeployedIdType ==
  ASSUME TypeOK, NEW r \in Run, at[r] \in DOMAIN Packages, DeployedId(r) # None
  PROVE  DeployedId(r) \in Id
  <1>1. Here(r) \in Package
    BY HereType
  <1>2. tape[r][Here(r)] \in Id \cup {None}
    BY <1>1 DEF TypeOK, ProcessOK, Tape
  <1>3. wasm[Here(r)] \in Build
    BY <1>1 DEF TypeOK, FilesOK
  <1> QED
    BY <1>2, <1>3, KeyType DEF DeployedId, Id, TypeOK

LEMMA PutType ==
  ASSUME TypeOK, NEW r \in Run, at[r] \in DOMAIN Packages, NEW id \in Id, Put(r, id)
  PROVE  mem' \in [Run -> SUBSET Entry] /\ dirty' \in [Run -> BOOLEAN]
  <1> DEFINE new == NewEntry(r, id)
             kept == {e \in mem[r] : ~Superseded(r, e)}
  <1>1. new \in Entry
    <2>1. hash[r] \in Build
      BY DEF TypeOK, ProcessOK
    <2> QED
      BY <2>1, HereType, KeyType DEF NewEntry, Entry, TypeOK
  <1>2. mem' = [mem EXCEPT ![r] = kept \cup {new}] /\ dirty' = [dirty EXCEPT ![r] = TRUE]
    BY DEF Put
  <1>3. mem \in [Run -> SUBSET Entry]
    BY DEF TypeOK, ProcessOK
  <1>4. mem' \in [Run -> SUBSET Entry]
    BY <1>1, <1>2, <1>3
  <1>5. dirty' \in [Run -> BOOLEAN]
    BY <1>2 DEF TypeOK, ProcessOK
  <1> QED
    BY <1>4, <1>5

LEMMA EndsType ==
  ASSUME ProcessOK, NEW r \in Run, Ends(r)
  PROVE  ProcessOK'
  <1>1. phase' \in [Run -> Phase] /\ inv' \in [Run -> Invocations]
    BY AnyTypes DEF Ends, ProcessOK, Phase
  <1>2. at' \in [Run -> 1 .. Len(Packages) + 1]
    BY PackagesAssumption DEF Ends, ProcessOK
  <1>3. mem' \in [Run -> SUBSET Entry]
    BY DEF Ends, ProcessOK
  <1>4. dirty' \in [Run -> BOOLEAN] /\ hash' \in [Run -> Build]
    BY AnyTypes DEF Ends, ProcessOK
  <1>5. tape' \in [Run -> Tape] /\ measured' \in [Run -> Tape]
    BY DEF Ends, ProcessOK, Tape, Blank
  <1>6. base' \in [Run -> SUBSET (Network \X Source)]
    BY DEF Ends, ProcessOK
  <1>7. \A q \in Run : phase'[q] = "deploy" => at'[q] \in DOMAIN Packages
    BY DEF Ends, ProcessOK
  <1> QED
    BY <1>1, <1>2, <1>3, <1>4, <1>5, <1>6, <1>7 DEF ProcessOK

LEMMA ContinueType ==
  ASSUME ProcessOK, NEW r \in Run, Continue(r)
  PROVE  ProcessOK'
  <1>1. CASE inv[r].transport = "record"
    <2>1. /\ phase' = [phase EXCEPT ![r] = "record"]
          /\ UNCHANGED <<inv, at, mem, dirty, hash, tape, measured, base>>
      BY <1>1 DEF Continue
    <2>2. /\ phase' \in [Run -> Phase]
          /\ \A q \in Run : phase'[q] = "deploy" => at'[q] \in DOMAIN Packages
      BY <2>1 DEF ProcessOK, Phase
    <2> QED
      BY <2>1, <2>2 DEF ProcessOK
  <1>2. CASE inv[r].transport # "record"
    BY <1>2, EndsType DEF Continue
  <1> QED
    BY <1>1, <1>2

LEMMA MeasureOnType ==
  ASSUME ProcessOK, NEW r \in Run, at[r] \in DOMAIN Packages, NEW id \in Id, MeasureOn(r, id)
  PROVE  /\ measured' \in [Run -> Tape]
         /\ at' \in [Run -> 1 .. Len(Packages) + 1]
         /\ phase' \in [Run -> Phase]
         /\ \A q \in Run : phase'[q] = "deploy" => at'[q] \in DOMAIN Packages
  <1>1. measured' \in [Run -> Tape]
    BY DEF MeasureOn, ProcessOK, Tape
  <1>2. DOMAIN Packages = 1 .. Len(Packages) /\ Len(Packages) \in Nat
    BY PackagesAssumption
  <1>3. at' \in [Run -> 1 .. Len(Packages) + 1]
    BY <1>2 DEF MeasureOn, ProcessOK
  <1>4. /\ phase' \in [Run -> Phase]
        /\ \A q \in Run : phase'[q] = "deploy" => at'[q] \in DOMAIN Packages
    BY DEF MeasureOn, ProcessOK, Phase
  <1> QED
    BY <1>1, <1>3, <1>4

LEMMA InitType == Init => TypeOK
  <1> SUFFICES ASSUME Init PROVE TypeOK
    OBVIOUS
  <1>1. FilesOK
    BY DEF Init, FilesOK
  <1>2. /\ phase \in [Run -> Phase] /\ inv \in [Run -> Invocations]
        /\ dirty \in [Run -> BOOLEAN] /\ hash \in [Run -> Build]
    BY AnyTypes DEF Init, Phase
  <1>3. at \in [Run -> 1 .. Len(Packages) + 1]
    BY PackagesAssumption DEF Init
  <1>4. /\ mem \in [Run -> SUBSET Entry]
        /\ base \in [Run -> SUBSET (Network \X Source)]
    BY DEF Init
  <1>5. tape \in [Run -> Tape] /\ measured \in [Run -> Tape]
    BY DEF Init, Tape, Blank
  <1>6. \A r \in Run : phase[r] = "deploy" => at[r] \in DOMAIN Packages
    BY DEF Init
  <1>7. ProcessOK
    BY <1>2, <1>3, <1>4, <1>5, <1>6 DEF ProcessOK
  <1>8. TidyOK
    BY DEF Init, TidyOK, OneEntryPerPackage, Saving
  <1> QED
    BY <1>1, <1>7, <1>8 DEF TypeOK

\* Every step keeps the types of the files.
LEMMA FilesStep == TypeOK /\ [Next]_vars => FilesOK'
  <1> SUFFICES ASSUME TypeOK, [Next]_vars PROVE FilesOK'
    OBVIOUS
  <1>1. ASSUME UNCHANGED <<files, settled>> PROVE FilesOK'
    BY <1>1 DEF TypeOK, FilesOK, files
  <1>2. CASE UNCHANGED vars
    BY <1>1, <1>2 DEF vars
  <1>3. ASSUME NEW p \in Package, Edit(p) PROVE FilesOK'
    <2>1. code' \in [Package -> Build]
      BY <1>3 DEF Edit, TypeOK, FilesOK, Build
    <2>2. UNCHANGED <<wasm, disk, empty, overlapped, fixture>> /\ settled' = {}
      BY <1>3 DEF Edit
    <2> QED
      BY <2>1, <2>2 DEF TypeOK, FilesOK
  <1>4. ASSUME NEW r \in Run, RunStep(r) PROVE FilesOK'
    <2>1. CASE \E i \in Invocations : Start(r, i)
      BY <1>1, <2>1 DEF Start
    <2>2. CASE BuildAll(r)
      BY <2>2 DEF BuildAll, TypeOK, FilesOK
    <2>3. CASE Load(r) \/ Reuse(r) \/ Miss(r) \/ Deploy(r) \/ SaveNothing(r) \/ Abort(r)
      BY <1>1, <2>3 DEF Load, Reuse, Miss, Deploy, SaveNothing, Abort
    <2>4. CASE Save(r)
      <3>1. disk' \subseteq Entry /\ empty' = FALSE
        BY <2>4 DEF Save, TypeOK, ProcessOK
      <3>2. settled' \subseteq Network \X Source
        BY <2>4, KeyType DEF Save, TypeOK, ProcessOK
      <3>3. UNCHANGED <<code, wasm, overlapped, fixture>>
        BY <2>4 DEF Save
      <3> QED
        BY <3>1, <3>2, <3>3 DEF TypeOK, FilesOK
    <2>5. CASE TornSave(r)
      <3>1. disk' \subseteq Entry /\ empty' = FALSE
        BY <2>5 DEF TornSave, Parts, TypeOK, FilesOK, ProcessOK
      <3>2. settled' = {} /\ UNCHANGED <<code, wasm, overlapped, fixture>>
        BY <2>5 DEF TornSave
      <3> QED
        BY <3>1, <3>2 DEF TypeOK, FilesOK
    <2>7. CASE SaveTruncates(r)
      BY <2>7 DEF SaveTruncates, TypeOK, FilesOK
    <2>6. CASE SaveFixture(r)
      <3>1. fixture' \in Tape \cup {None}
        BY <2>6 DEF SaveFixture, TypeOK, ProcessOK
      <3>2. UNCHANGED <<code, wasm, disk, empty, overlapped, settled>>
        BY <2>6 DEF SaveFixture
      <3> QED
        BY <3>1, <3>2 DEF TypeOK, FilesOK
    <2> QED
      BY <1>4, <2>1, <2>2, <2>3, <2>4, <2>5, <2>6, <2>7 DEF RunStep
  <1> QED
    BY <1>2, <1>3, <1>4 DEF Next

\* Every step keeps the types of the processes.
LEMMA ProcessStep == TypeOK /\ [Next]_vars => ProcessOK'
  <1> SUFFICES ASSUME TypeOK, [Next]_vars PROVE ProcessOK'
    OBVIOUS
  <1>1. ASSUME UNCHANGED <<process, base>> PROVE ProcessOK'
    BY <1>1 DEF TypeOK, ProcessOK, process
  <1>2. CASE UNCHANGED vars
    BY <1>1, <1>2 DEF vars
  <1>3. ASSUME NEW p \in Package, Edit(p) PROVE ProcessOK'
    BY <1>1, <1>3 DEF Edit
  <1>4. ASSUME NEW r \in Run, RunStep(r) PROVE ProcessOK'
    <2>1. ASSUME NEW i \in Invocations, Start(r, i) PROVE ProcessOK'
      <3>1. /\ phase' \in [Run -> Phase] /\ inv' \in [Run -> Invocations]
            /\ \A q \in Run : phase'[q] = "deploy" => at'[q] \in DOMAIN Packages
        BY <2>1 DEF Start, TypeOK, ProcessOK, Phase
      <3>2. (IF i.transport = "replay" THEN fixture ELSE Blank) \in Tape
        BY <2>1 DEF Start, TypeOK, FilesOK, Tape, Blank
      <3>3. tape' \in [Run -> Tape]
        BY <2>1, <3>2 DEF Start, TypeOK, ProcessOK
      <3>4. UNCHANGED <<at, mem, dirty, hash, measured, base>>
        BY <2>1 DEF Start
      <3> QED
        BY <3>1, <3>3, <3>4 DEF TypeOK, ProcessOK
    <2>2. CASE BuildAll(r)
      <3>1. phase' \in [Run -> Phase]
            /\ \A q \in Run : phase'[q] = "deploy" => at'[q] \in DOMAIN Packages
        BY <2>2 DEF BuildAll, TypeOK, ProcessOK, Phase
      <3>2. UNCHANGED <<inv, at, mem, dirty, hash, tape, measured, base>>
        BY <2>2 DEF BuildAll
      <3> QED
        BY <3>1, <3>2 DEF TypeOK, ProcessOK
    <2>3. CASE Load(r)
      <3>1. phase' \in [Run -> Phase]
            /\ \A q \in Run : phase'[q] = "deploy" => at'[q] \in DOMAIN Packages
        BY <2>3 DEF Load, TypeOK, ProcessOK, Phase
      <3>2. mem' \in [Run -> SUBSET Entry]
        <4>1. PICK entries \in {disk} \cup UNION {Parts(q) : q \in Saving} :
                mem' = [mem EXCEPT ![r] = entries]
          BY <2>3 DEF Load
        <4>2. entries \subseteq Entry
          BY <4>1 DEF Parts, Saving, TypeOK, FilesOK, ProcessOK
        <4> QED
          BY <4>1, <4>2 DEF TypeOK, ProcessOK
      <3>3. base' \in [Run -> SUBSET (Network \X Source)]
        BY <2>3 DEF Load, TypeOK, FilesOK, ProcessOK
      <3>4. UNCHANGED <<inv, at, dirty, hash, tape, measured>>
        BY <2>3 DEF Load
      <3> QED
        BY <3>1, <3>2, <3>3, <3>4 DEF TypeOK, ProcessOK
    <2>4. CASE Reuse(r)
      <3>1. PICK e \in mem[r] : MeasureOn(r, e.id)
        BY <2>4 DEF Reuse
      <3>2. e.id \in Id /\ at[r] \in DOMAIN Packages
        BY <2>4 DEF Reuse, TypeOK, ProcessOK, Entry
      <3>3. hash' \in [Run -> Build]
        BY <2>4, <3>2, HereType DEF Reuse, TypeOK, FilesOK, ProcessOK
      <3>4. UNCHANGED <<inv, mem, dirty, tape, base>>
        BY <2>4 DEF Reuse
      <3> QED
        BY <3>1, <3>2, <3>3, <3>4, MeasureOnType DEF TypeOK, ProcessOK
    <2>5. CASE Miss(r)
      <3>1. at[r] \in DOMAIN Packages
        BY <2>5 DEF Miss
      <3>2. phase' \in [Run -> Phase]
            /\ \A q \in Run : phase'[q] = "deploy" => at'[q] \in DOMAIN Packages
        BY <2>5 DEF Miss, TypeOK, ProcessOK, Phase
      <3>3. hash' \in [Run -> Build]
        BY <2>5, <3>1, HereType DEF Miss, TypeOK, FilesOK, ProcessOK
      <3>4. UNCHANGED <<inv, at, mem, dirty, tape, measured, base>>
        BY <2>5 DEF Miss
      <3> QED
        BY <3>2, <3>3, <3>4 DEF TypeOK, ProcessOK
    <2>6. CASE Deploy(r)
      <3>1. at[r] \in DOMAIN Packages
        BY <2>6 DEF Deploy, TypeOK, ProcessOK
      <3>2. DeployedId(r) \in Id
        BY <2>6, <3>1, DeployedIdType DEF Deploy
      <3>3. Put(r, DeployedId(r)) /\ MeasureOn(r, DeployedId(r))
        BY <2>6 DEF Deploy
      <3>4. tape' \in [Run -> Tape]
        <4>1. Here(r) \in Package /\ tape \in [Run -> Tape]
          BY <3>1, HereType DEF TypeOK, ProcessOK
        <4> QED
          BY <2>6, <3>2, <4>1 DEF Deploy, Tape
      <3>5. UNCHANGED <<inv, hash, base>>
        BY <2>6 DEF Deploy
      <3>6. mem' \in [Run -> SUBSET Entry] /\ dirty' \in [Run -> BOOLEAN]
        BY <3>1, <3>2, <3>3, PutType
      <3>7. /\ measured' \in [Run -> Tape]
            /\ at' \in [Run -> 1 .. Len(Packages) + 1]
            /\ phase' \in [Run -> Phase]
            /\ \A q \in Run : phase'[q] = "deploy" => at'[q] \in DOMAIN Packages
        BY <3>1, <3>2, <3>3, MeasureOnType DEF TypeOK
      <3> QED
        BY <3>4, <3>5, <3>6, <3>7 DEF TypeOK, ProcessOK
    <2>7. CASE SaveNothing(r) \/ Save(r) \/ TornSave(r)
      BY <2>7, ContinueType DEF SaveNothing, Save, TornSave, TypeOK
    <2>8. CASE SaveFixture(r) \/ Abort(r)
      BY <2>8, EndsType DEF SaveFixture, Abort, TypeOK
    <2>9. CASE SaveTruncates(r)
      <3>1. /\ phase' = [phase EXCEPT ![r] = "save"]
            /\ UNCHANGED <<inv, at, mem, dirty, hash, tape, measured, base>>
        BY <2>9 DEF SaveTruncates
      <3>2. /\ phase' \in [Run -> Phase]
            /\ \A q \in Run : phase'[q] = "deploy" => at'[q] \in DOMAIN Packages
        BY <3>1 DEF TypeOK, ProcessOK, Phase
      <3> QED
        BY <3>1, <3>2 DEF TypeOK, ProcessOK
    <2> QED
      BY <1>4, <2>1, <2>2, <2>3, <2>4, <2>5, <2>6, <2>7, <2>8, <2>9 DEF RunStep
  <1> QED
    BY <1>2, <1>3, <1>4 DEF Next

\* Only a save that begins makes another process one that saves.
LEMMA SavingStep ==
  ASSUME TypeOK, NEW r \in Run, RunStep(r), ~SaveTruncates(r)
  PROVE  Saving' \subseteq Saving
  <1> USE DEF TypeOK, ProcessOK, Saving
  <1>1. ASSUME NEW i \in Invocations, Start(r, i) PROVE Saving' \subseteq Saving
    BY <1>1 DEF Start
  <1>2. CASE BuildAll(r) \/ Load(r) \/ Miss(r)
    BY <1>2 DEF BuildAll, Load, Miss
  <1>3. CASE Reuse(r) \/ Deploy(r)
    BY <1>3 DEF Reuse, Deploy, MeasureOn
  <1>4. ASSUME Ends(r) \/ Continue(r) PROVE Saving' \subseteq Saving
    BY <1>4 DEF Continue, Ends
  <1>5. CASE SaveNothing(r) \/ Save(r) \/ TornSave(r) \/ SaveFixture(r) \/ Abort(r)
    BY <1>4, <1>5 DEF SaveNothing, Save, TornSave, SaveFixture, Abort
  <1> QED
    BY <1>1, <1>2, <1>3, <1>5 DEF RunStep

\* What ends, or goes on after the save, forgets its cache or keeps it.
LEMMA EndsTidy ==
  ASSUME ProcessOK, NEW r \in Run, Ends(r) \/ Continue(r), NEW q \in Run,
         OneEntryPerPackage(mem[q])
  PROVE  OneEntryPerPackage(mem'[q])
  <1>1. mem'[q] = mem[q] \/ mem'[q] = {}
    BY DEF Ends, Continue, ProcessOK
  <1> QED
    BY <1>1 DEF OneEntryPerPackage

LEMMA TidyStep == TypeOK /\ [Next]_vars => TidyOK'
  <1> SUFFICES ASSUME TypeOK, [Next]_vars, ~overlapped' PROVE TidyOK'
    BY DEF TidyOK
  <1> USE DEF TypeOK, ProcessOK
  <1>1. ~overlapped
    <2>1. CASE UNCHANGED overlapped
      BY <2>1
    <2>2. CASE overlapped' = (overlapped \/ Saving # {})
      BY <2>2
    <2>3. overlapped' = overlapped \/ overlapped' = (overlapped \/ Saving # {})
      BY DEF vars, files, Next, Edit, RunStep, Start, BuildAll, Load, Reuse, Miss, Deploy,
             SaveNothing, SaveTruncates, Save, TornSave, SaveFixture, Abort
    <2> QED
      BY <2>1, <2>2, <2>3
  <1>2. /\ OneEntryPerPackage(disk)
        /\ \A r \in Run : OneEntryPerPackage(mem[r])
        /\ \A r, q \in Saving : empty /\ r = q
    BY <1>1 DEF TidyOK
  <1>3. CASE UNCHANGED <<disk, empty, phase, mem>>
    BY <1>2, <1>3 DEF TidyOK, Saving
  <1>4. ASSUME NEW r \in Run, RunStep(r), ~SaveTruncates(r), UNCHANGED <<disk, empty>>,
               \A q \in Run : OneEntryPerPackage(mem'[q])
        PROVE  TidyOK'
    BY <1>2, <1>4, SavingStep DEF TidyOK
  <1>5. ASSUME NEW r \in Run, RunStep(r) PROVE TidyOK'
    <2>1. CASE SaveTruncates(r)
      <3>1. Saving = {} /\ disk' = {} /\ empty' = TRUE /\ mem' = mem
            /\ phase' = [phase EXCEPT ![r] = "save"]
        BY <2>1 DEF SaveTruncates
      <3>2. Saving' = {r}
        BY <3>1 DEF Saving
      <3>3. OneEntryPerPackage(disk')
        BY <3>1 DEF OneEntryPerPackage
      <3> QED
        BY <1>2, <3>1, <3>2, <3>3 DEF TidyOK
    <2>2. CASE Save(r) \/ TornSave(r)
      <3>1. r \in Saving /\ disk = {}
        BY <1>2, <2>2 DEF Save, TornSave, Saving, FilesOK
      <3>2. disk' \subseteq mem[r]
        BY <2>2, <3>1 DEF Save, TornSave, Parts
      <3>3. OneEntryPerPackage(disk')
        BY <1>2, <3>2 DEF OneEntryPerPackage
      <3>4. \A q \in Run : OneEntryPerPackage(mem'[q])
        BY <1>2, <2>2, EndsTidy DEF Save, TornSave
      <3>5. phase'[r] # "save"
        BY <2>2 DEF Save, TornSave, Continue, Ends
      <3>6. Saving' = {}
        <4>1. Saving' \subseteq Saving
          <5>1. ~SaveTruncates(r)
            BY <3>1 DEF SaveTruncates, AllMeasured, Saving
          <5> QED
            BY <1>5, <5>1, SavingStep
        <4>2. r \notin Saving'
          BY <3>5 DEF Saving
        <4> QED
          BY <1>2, <3>1, <4>1, <4>2
      <3> QED
        BY <3>3, <3>4, <3>6 DEF TidyOK
    <2>3. ASSUME ~SaveTruncates(r), UNCHANGED <<disk, empty, mem>> PROVE TidyOK'
      BY <1>2, <1>4, <1>5, <2>3
    <2>4. ASSUME ~SaveTruncates(r), UNCHANGED <<disk, empty>>, Ends(r) \/ Continue(r)
          PROVE  TidyOK'
      BY <1>2, <1>4, <1>5, <2>4, EndsTidy
    <2>5. ASSUME ~SaveTruncates(r), \E i \in Invocations : Start(r, i) PROVE TidyOK'
      BY <2>3, <2>5 DEF Start, files
    <2>6. ASSUME ~SaveTruncates(r), BuildAll(r) \/ Reuse(r) \/ Miss(r) PROVE TidyOK'
      BY <2>3, <2>6 DEF BuildAll, Reuse, Miss, files
    <2>7. ASSUME ~SaveTruncates(r), Load(r) PROVE TidyOK'
      <3>1. PICK entries \in {disk} \cup UNION {Parts(q) : q \in Saving} :
              mem' = [mem EXCEPT ![r] = entries]
        BY <2>7 DEF Load
      <3>2. CASE entries = disk
        <4>1. \A q \in Run : OneEntryPerPackage(mem'[q])
          BY <1>2, <3>1, <3>2
        <4> QED
          BY <1>4, <1>5, <2>7, <4>1 DEF Load, files
      <3>3. ASSUME NEW q \in Saving, entries \in Parts(q) PROVE TidyOK'
        <4>1. entries \subseteq mem[q] /\ q \in Run
          BY <1>2, <3>3 DEF Parts, FilesOK, Saving
        <4>2. OneEntryPerPackage(entries)
          BY <1>2, <4>1 DEF OneEntryPerPackage
        <4>3. \A p \in Run : OneEntryPerPackage(mem'[p])
          BY <1>2, <3>1, <4>2
        <4> QED
          BY <1>4, <1>5, <2>7, <4>3 DEF Load, files
      <3> QED
        BY <3>1, <3>2, <3>3
    <2>8. ASSUME ~SaveTruncates(r), Deploy(r) PROVE TidyOK'
      <3>1. mem' = [mem EXCEPT ![r] = {e \in mem[r] : ~Superseded(r, e)}
                                        \cup {NewEntry(r, DeployedId(r))}]
        BY <2>8 DEF Deploy, Put
      <3>2. OneEntryPerPackage({e \in mem[r] : ~Superseded(r, e)}
                                 \cup {NewEntry(r, DeployedId(r))})
        BY <1>2 DEF OneEntryPerPackage, NewEntry, Superseded
      <3>3. \A q \in Run : OneEntryPerPackage(mem'[q])
        BY <1>2, <3>1, <3>2
      <3> QED
        BY <1>4, <1>5, <2>8, <3>3 DEF Deploy, files
    <2>9. ASSUME ~SaveTruncates(r), SaveNothing(r) \/ SaveFixture(r) \/ Abort(r) PROVE TidyOK'
      BY <2>4, <2>9 DEF SaveNothing, SaveFixture, Abort, files
    <2> QED
      BY <1>5, <2>1, <2>2, <2>5, <2>6, <2>7, <2>8, <2>9 DEF RunStep
  <1> QED
    BY <1>3, <1>5 DEF Next, Edit, vars, files, process

\* The variables keep their types; and while no two saves have overlapped, a cache
\* holds one entry at most for a package, a network and a source (the retain in
\* DeployCache::put), however loads fall into saves.
THEOREM TypeCorrect == Spec => []TypeOK
  <1>1. TypeOK /\ [Next]_vars => TypeOK'
    BY FilesStep, ProcessStep, TidyStep DEF TypeOK
  <1> QED
    BY InitType, <1>1, PTL DEF Spec

----------------------------------------------------------------------------
(* What a run measures. *)

NoReplay == \A i \in Invocations : i.transport # "replay"

\* Each entry's contract was deployed from the wasm of its key; a run that has
\* built works on the current sources; one that has not measures nothing yet.
TrueBuilds(entries) == \A e \in entries : e.id.build = e.build

BuildInv ==
  /\ TrueBuilds(disk)
  /\ \A r \in Run : TrueBuilds(mem[r])
  /\ \A r \in Run : phase[r] \notin {"idle", "build"} => wasm = code
  /\ \A r \in Run : phase[r] = "deploy" => hash[r] = wasm[Here(r)]
  /\ \A r \in Run : phase[r] \in {"idle", "build", "load"} => Measured(r) = {}
  /\ \A r \in Run : \A p \in Measured(r) : measured[r][p].build = wasm[p]

\* The part of it that is about one process.
RunBuildInv(r) ==
  /\ TrueBuilds(mem[r])
  /\ phase[r] \notin {"idle", "build"} => wasm = code
  /\ phase[r] = "deploy" => hash[r] = wasm[Here(r)]
  /\ phase[r] \in {"idle", "build", "load"} => Measured(r) = {}
  /\ \A p \in Measured(r) : measured[r][p].build = wasm[p]

LEMMA BuildInvParts == BuildInv <=> TrueBuilds(disk) /\ \A r \in Run : RunBuildInv(r)
  BY DEF BuildInv, RunBuildInv

LEMMA BuildInvNext ==
  ASSUME TrueBuilds(disk)', \A r \in Run : RunBuildInv(r)'
  PROVE  BuildInv'
  BY DEF BuildInv, RunBuildInv

\* A step of one process leaves the variables of the others alone.
OtherUnchanged(q) ==
  /\ phase'[q] = phase[q] /\ inv'[q] = inv[q] /\ at'[q] = at[q]
  /\ mem'[q] = mem[q] /\ hash'[q] = hash[q] /\ measured'[q] = measured[q]
  /\ base'[q] = base[q]

LEMMA EndsOther ==
  ASSUME ProcessOK, NEW r \in Run, Ends(r) \/ Continue(r), NEW q \in Run, q # r
  PROVE  OtherUnchanged(q)
  BY DEF Ends, Continue, ProcessOK, OtherUnchanged

LEMMA OneAtATime ==
  ASSUME TypeOK, NEW r \in Run, RunStep(r), NEW q \in Run, q # r
  PROVE  OtherUnchanged(q)
  <1> USE DEF TypeOK, ProcessOK
  <1>1. ASSUME NEW i \in Invocations, Start(r, i) PROVE OtherUnchanged(q)
    BY <1>1 DEF Start, OtherUnchanged
  <1>2. CASE BuildAll(r) \/ Load(r) \/ Miss(r) \/ SaveTruncates(r)
    BY <1>2 DEF BuildAll, Load, Miss, SaveTruncates, OtherUnchanged
  <1>3. CASE Reuse(r)
    BY <1>3 DEF Reuse, MeasureOn, OtherUnchanged
  <1>4. CASE Deploy(r)
    BY <1>4 DEF Deploy, MeasureOn, Put, OtherUnchanged
  <1>5. CASE SaveNothing(r) \/ Save(r) \/ TornSave(r) \/ SaveFixture(r) \/ Abort(r)
    BY <1>5, EndsOther DEF SaveNothing, Save, TornSave, SaveFixture, Abort
  <1> QED
    BY <1>1, <1>2, <1>3, <1>4, <1>5 DEF RunStep

\* Whatever a run loads was in the file, or in the cache of one that saves.
LEMMA Loaded ==
  ASSUME TypeOK, NEW r \in Run, Load(r)
  PROVE  /\ \A e \in mem'[r] : e \in disk \/ \E q \in Run : e \in mem[q]
         /\ base'[r] = {} \/ (mem'[r] = disk /\ base'[r] = settled)
  <1>1. PICK entries \in {disk} \cup UNION {Parts(q) : q \in Saving} :
          mem' = [mem EXCEPT ![r] = entries]
    BY DEF Load
  <1>2. mem'[r] = entries
    BY <1>1 DEF TypeOK, ProcessOK
  <1>3. \A e \in entries : e \in disk \/ \E q \in Run : e \in mem[q]
    BY <1>1 DEF Parts, Saving
  <1>4. Saving = {} => entries = disk
    BY <1>1
  <1>5. base'[r] = IF Saving = {} THEN settled ELSE {}
    BY DEF Load, TypeOK, ProcessOK
  <1> QED
    BY <1>2, <1>3, <1>4, <1>5

\* Whatever a save writes is in its cache, or was in the file.
LEMMA Written ==
  ASSUME NEW r \in Run, Save(r) \/ TornSave(r)
  PROVE  disk' \subseteq mem[r] \cup disk
  BY DEF Save, TornSave, Parts

\* What ends or goes on after the save keeps its own part.
LEMMA EndsBuild ==
  ASSUME ProcessOK, NEW r \in Run, Ends(r) \/ Continue(r), phase[r] # "idle",
         phase[r] # "build" \/ Ends(r), phase[r] # "load" \/ Ends(r),
         RunBuildInv(r), wasm' = wasm, code' = code
  PROVE  RunBuildInv(r)'
  <1>1. CASE Ends(r)
    <2>1. phase'[r] = "idle" /\ mem'[r] = {} /\ measured'[r] = Blank
      BY <1>1 DEF Ends, ProcessOK
    <2> QED
      BY <2>1 DEF RunBuildInv, TrueBuilds, Measured, Blank
  <1>2. CASE ~Ends(r)
    <2>1. /\ phase'[r] = "record"
          /\ UNCHANGED <<inv, at, mem, dirty, hash, tape, measured, base>>
      BY <1>2 DEF Continue, ProcessOK
    <2> QED
      BY <1>2, <2>1 DEF RunBuildInv, TrueBuilds, Measured
  <1> QED
    BY <1>1, <1>2

\* The step to a measured package keeps it, when the contract has its wasm.
LEMMA MeasureOnBuild ==
  ASSUME ProcessOK, NEW r \in Run, at[r] \in DOMAIN Packages, phase[r] \in {"lookup", "deploy"},
         NEW id \in Id, id.build = wasm[Here(r)], MeasureOn(r, id),
         RunBuildInv(r), wasm' = wasm, code' = code, TrueBuilds(mem[r])'
  PROVE  RunBuildInv(r)'
  <1>1. Here(r) \in Package
    BY HereType
  <1>2. phase'[r] = "lookup"
    BY DEF MeasureOn, ProcessOK
  <1>3. measured'[r] = [measured[r] EXCEPT ![Here(r)] = id]
    BY DEF MeasureOn, ProcessOK
  <1>4. measured[r] \in [Package -> Id \cup {None}]
    BY DEF ProcessOK, Tape
  <1>5. \A p \in Package : measured'[r][p] = IF p = Here(r) THEN id ELSE measured[r][p]
    BY <1>1, <1>3, <1>4
  <1>6. \A p \in Measured(r)' : measured'[r][p].build = wasm[p]
    BY <1>5 DEF Measured, RunBuildInv
  <1> QED
    BY <1>2, <1>6 DEF RunBuildInv

LEMMA BuildStep ==
  ASSUME NoReplay, ~EditsDuringRuns
  PROVE  TypeOK /\ BuildInv /\ [Next]_vars => BuildInv'
  <1> SUFFICES ASSUME TypeOK, BuildInv, [Next]_vars PROVE BuildInv'
    OBVIOUS
  <1> USE BuildInvParts
  <1>1. CASE UNCHANGED vars
    BY <1>1 DEF vars, files, process, BuildInv, TrueBuilds, Measured, Here
  <1>2. ASSUME NEW p \in Package, Edit(p) PROVE BuildInv'
    <2>1. \A r \in Run : phase[r] = "idle"
      BY <1>2 DEF Edit, Idle
    <2>2. UNCHANGED <<wasm, disk, fixture, process, base>>
      BY <1>2 DEF Edit
    <2> QED
      BY <2>1, <2>2 DEF process, BuildInv, TrueBuilds, Measured, Here
  <1>3. ASSUME NEW r \in Run, RunStep(r) PROVE BuildInv'
    <2>1. ASSUME NEW q \in Run, q # r, wasm' = wasm, code' = code PROVE RunBuildInv(q)'
      BY <1>3, <2>1, OneAtATime DEF RunBuildInv, OtherUnchanged, TrueBuilds, Measured, Here
    <2>2. ASSUME UNCHANGED <<wasm, code>>, TrueBuilds(disk'), RunBuildInv(r)' PROVE BuildInv'
      <3>1. \A q \in Run : RunBuildInv(q)'
        BY <2>1, <2>2
      <3>2. TrueBuilds(disk)'
        BY <2>2 DEF TrueBuilds
      <3> QED
        BY <3>1, <3>2, BuildInvNext
    <2>3. ASSUME NEW i \in Invocations, Start(r, i) PROVE BuildInv'
      <3>1. /\ phase[r] = "idle" /\ phase'[r] = "build"
            /\ UNCHANGED <<files, at, mem, hash, measured>>
        BY <2>3 DEF Start, TypeOK, ProcessOK
      <3> QED
        BY <2>2, <3>1 DEF files, RunBuildInv, TrueBuilds, Measured
    <2>4. CASE BuildAll(r)
      <3>1. /\ phase[r] = "build" /\ phase'[r] = "load" /\ wasm' = code
            /\ UNCHANGED <<code, disk, at, mem, hash, measured>>
        BY <2>4 DEF BuildAll, TypeOK, ProcessOK
      <3>2. TrueBuilds(disk)' /\ RunBuildInv(r)'
        BY <3>1 DEF RunBuildInv, TrueBuilds, Measured
      <3>3. ASSUME NEW q \in Run, q # r PROVE RunBuildInv(q)'
        <4>1. OtherUnchanged(q)
          BY <1>3, <3>3, OneAtATime
        <4>2. CASE phase[q] \in {"idle", "build"}
          BY <3>1, <4>1, <4>2 DEF RunBuildInv, OtherUnchanged, TrueBuilds, Measured
        <4>3. CASE phase[q] \notin {"idle", "build"}
          <5>1. wasm' = wasm
            BY <3>1, <4>3 DEF RunBuildInv
          <5> QED
            BY <2>1, <3>1, <3>3, <5>1
        <4> QED
          BY <4>2, <4>3
      <3> QED
        BY <3>2, <3>3, BuildInvNext
    <2>5. CASE Load(r)
      <3>1. /\ phase[r] = "load" /\ phase'[r] = "lookup"
            /\ UNCHANGED <<files, at, hash, measured>>
        BY <2>5 DEF Load, TypeOK, ProcessOK
      <3>2. TrueBuilds(mem'[r])
        BY <2>5, Loaded DEF RunBuildInv, TrueBuilds
      <3> QED
        BY <2>2, <3>1, <3>2 DEF files, RunBuildInv, TrueBuilds, Measured
    <2>6. CASE Reuse(r)
      <3>1. PICK e \in mem[r] : Hits(r, e) /\ MeasureOn(r, e.id)
        BY <2>6 DEF Reuse
      <3>2. /\ UNCHANGED <<files, mem>> /\ phase[r] = "lookup" /\ at[r] \in DOMAIN Packages
        BY <2>6 DEF Reuse
      <3>3. e.id \in Id
        BY <3>1 DEF TypeOK, ProcessOK, Entry
      <3>4. e.id.build = wasm[Here(r)]
        BY <3>1 DEF Hits, RunBuildInv, TrueBuilds
      <3>5. TrueBuilds(mem[r])' /\ TrueBuilds(disk')
        BY <3>2 DEF files, RunBuildInv, TrueBuilds
      <3>6. RunBuildInv(r)'
        BY <3>1, <3>2, <3>3, <3>4, <3>5, MeasureOnBuild DEF TypeOK, files
      <3> QED
        BY <2>2, <3>2, <3>5, <3>6 DEF files
    <2>7. CASE Miss(r)
      <3>1. /\ phase[r] = "lookup" /\ phase'[r] = "deploy" /\ hash'[r] = wasm[Here(r)]
            /\ UNCHANGED <<files, at, mem, measured>>
        BY <2>7 DEF Miss, TypeOK, ProcessOK
      <3> QED
        BY <2>2, <3>1 DEF files, RunBuildInv, TrueBuilds, Measured, Here
    <2>8. CASE Deploy(r)
      <3>1. at[r] \in DOMAIN Packages /\ phase[r] = "deploy" /\ UNCHANGED files
        BY <2>8 DEF Deploy, TypeOK, ProcessOK
      <3>2. DeployedId(r) \in Id /\ Put(r, DeployedId(r)) /\ MeasureOn(r, DeployedId(r))
        BY <2>8, <3>1, DeployedIdType DEF Deploy
      <3>3. DeployedId(r).build = wasm[Here(r)]
        BY DEF DeployedId, NoReplay, TypeOK, ProcessOK
      <3>4. NewEntry(r, DeployedId(r)).build = hash[r]
            /\ NewEntry(r, DeployedId(r)).id = DeployedId(r)
        BY DEF NewEntry
      <3>5. hash[r] = wasm[Here(r)]
        BY <3>1 DEF RunBuildInv
      <3>6. mem'[r] = {e \in mem[r] : ~Superseded(r, e)} \cup {NewEntry(r, DeployedId(r))}
        BY <3>2 DEF Put, TypeOK, ProcessOK
      <3>7. TrueBuilds(mem[r])'
        BY <3>3, <3>4, <3>5, <3>6 DEF RunBuildInv, TrueBuilds
      <3>8. RunBuildInv(r)'
        BY <3>1, <3>2, <3>3, <3>7, MeasureOnBuild DEF TypeOK, files
      <3> QED
        BY <2>2, <3>1, <3>8 DEF files, TrueBuilds
    <2>9. ASSUME Ends(r) \/ (Continue(r) /\ phase[r] \in {"lookup", "save"}), phase[r] # "idle",
                 UNCHANGED <<wasm, code>>, disk' \subseteq mem[r] \cup disk
          PROVE  BuildInv'
      <3>1. RunBuildInv(r)'
        BY <2>9, EndsBuild DEF TypeOK
      <3>2. TrueBuilds(disk')
        BY <2>9 DEF RunBuildInv, TrueBuilds
      <3> QED
        BY <2>2, <2>9, <3>1, <3>2
    <2>10. CASE SaveNothing(r) \/ Save(r) \/ TornSave(r)
      BY <2>9, <2>10, Written DEF SaveNothing, Save, TornSave, AllMeasured, files
    <2>11. CASE SaveFixture(r) \/ Abort(r)
      BY <2>9, <2>11 DEF SaveFixture, Abort, files
    <2>12. CASE SaveTruncates(r)
      <3>1. /\ phase[r] = "lookup" /\ phase'[r] = "save" /\ disk' = {}
            /\ UNCHANGED <<code, wasm, at, mem, hash, measured>>
        BY <2>12 DEF SaveTruncates, AllMeasured, TypeOK, ProcessOK
      <3> QED
        BY <2>2, <3>1 DEF RunBuildInv, TrueBuilds, Measured
    <2> QED
      BY <1>3, <2>3, <2>4, <2>5, <2>6, <2>7, <2>8, <2>10, <2>11, <2>12 DEF RunStep
  <1> QED
    BY <1>1, <1>2, <1>3 DEF Next

\* When nothing is replayed and sources are left alone during runs, no run ever
\* measures another build, however runs interleave, die or tear the cache
\* (DeployCache::get compares the hash).
THEOREM ThisBuild ==
  ASSUME NoReplay, ~EditsDuringRuns
  PROVE  Spec => []MeasuresThisBuild
  <1>1. Init => BuildInv
    BY DEF Init, BuildInv, TrueBuilds, Measured, Blank
  <1>2. TypeOK /\ BuildInv /\ [Next]_vars => BuildInv'
    BY BuildStep
  <1>3. BuildInv => MeasuresThisBuild
    BY DEF BuildInv, MeasuresThisBuild
  <1> QED
    BY TypeCorrect, <1>1, <1>2, <1>3, PTL DEF Spec

----------------------------------------------------------------------------
(* Where a run measures. *)

\* Every command line that uses a label reaches the same network by it.
Labels(T) == \A i \in Invocations : i.transport # "replay" /\ i.target = T[i.network]

TrueNetworks(T, entries) ==
  \A e \in entries : e.id.target = T[e.network] /\ e.id.source = e.source

RunNetworkInv(T, r) ==
  /\ TrueNetworks(T, mem[r])
  /\ phase[r] \in {"idle", "build", "load"} => Measured(r) = {}
  /\ \A p \in Measured(r) : /\ measured[r][p].target = inv[r].target
                            /\ measured[r][p].source = inv[r].source

NetworkInv(T) == TrueNetworks(T, disk) /\ \A r \in Run : RunNetworkInv(T, r)

LEMMA MeasureOnNetwork ==
  ASSUME NEW CONSTANT T, ProcessOK, NEW r \in Run, at[r] \in DOMAIN Packages,
         NEW id \in Id, id.target = inv[r].target, id.source = inv[r].source,
         MeasureOn(r, id), RunNetworkInv(T, r), inv' = inv, TrueNetworks(T, mem[r])'
  PROVE  RunNetworkInv(T, r)'
  <1>1. Here(r) \in Package
    BY HereType
  <1>2. phase'[r] = "lookup"
    BY DEF MeasureOn, ProcessOK
  <1>3. measured'[r] = [measured[r] EXCEPT ![Here(r)] = id]
    BY DEF MeasureOn, ProcessOK
  <1>4. measured[r] \in [Package -> Id \cup {None}]
    BY DEF ProcessOK, Tape
  <1>5. \A p \in Package : measured'[r][p] = IF p = Here(r) THEN id ELSE measured[r][p]
    BY <1>1, <1>3, <1>4
  <1>6. \A p \in Measured(r)' : /\ measured'[r][p].target = inv[r].target
                                /\ measured'[r][p].source = inv[r].source
    BY <1>5 DEF Measured, RunNetworkInv
  <1> QED
    BY <1>2, <1>6 DEF RunNetworkInv

LEMMA EndsNetwork ==
  ASSUME NEW CONSTANT T, ProcessOK, NEW r \in Run, RunNetworkInv(T, r),
         Ends(r) \/ (Continue(r) /\ phase[r] \in {"lookup", "save"})
  PROVE  RunNetworkInv(T, r)'
  <1>1. CASE Ends(r)
    <2>1. phase'[r] = "idle" /\ mem'[r] = {} /\ measured'[r] = Blank
      BY <1>1 DEF Ends, ProcessOK
    <2> QED
      BY <2>1 DEF RunNetworkInv, TrueNetworks, Measured, Blank
  <1>2. CASE ~Ends(r)
    <2>1. /\ phase'[r] = "record"
          /\ UNCHANGED <<inv, at, mem, dirty, hash, tape, measured, base>>
      BY <1>2 DEF Continue, ProcessOK
    <2> QED
      BY <1>2, <2>1 DEF RunNetworkInv, TrueNetworks, Measured
  <1> QED
    BY <1>1, <1>2

LEMMA NetworkStep ==
  ASSUME NEW CONSTANT T, Labels(T)
  PROVE  TypeOK /\ NetworkInv(T) /\ [Next]_vars => NetworkInv(T)'
  <1> SUFFICES ASSUME TypeOK, NetworkInv(T), [Next]_vars PROVE NetworkInv(T)'
    OBVIOUS
  <1>1. ASSUME UNCHANGED <<disk, process>> PROVE NetworkInv(T)'
    BY <1>1 DEF process, NetworkInv, RunNetworkInv, TrueNetworks, Measured
  <1>2. CASE UNCHANGED vars
    BY <1>1, <1>2 DEF vars, files
  <1>3. ASSUME NEW p \in Package, Edit(p) PROVE NetworkInv(T)'
    BY <1>1, <1>3 DEF Edit
  <1>4. ASSUME NEW r \in Run, RunStep(r) PROVE NetworkInv(T)'
    <2>1. \A q \in Run : q # r => RunNetworkInv(T, q)'
      <3> SUFFICES ASSUME NEW q \in Run, q # r PROVE RunNetworkInv(T, q)'
        OBVIOUS
      <3>1. OtherUnchanged(q)
        BY <1>4, OneAtATime
      <3> QED
        BY <3>1 DEF OtherUnchanged, NetworkInv, RunNetworkInv, TrueNetworks, Measured
    <2>2. ASSUME disk' \subseteq mem[r] \cup disk, RunNetworkInv(T, r)'
          PROVE  NetworkInv(T)'
      <3>1. TrueNetworks(T, disk)'
        BY <2>2 DEF NetworkInv, RunNetworkInv, TrueNetworks
      <3> QED
        BY <2>1, <2>2, <3>1 DEF NetworkInv
    <2>3. RunNetworkInv(T, r) /\ TrueNetworks(T, disk)
      BY DEF NetworkInv
    <2>4. ASSUME NEW i \in Invocations, Start(r, i) PROVE NetworkInv(T)'
      <3>1. phase[r] = "idle" /\ phase'[r] = "build" /\ UNCHANGED <<files, mem, measured>>
        BY <2>4 DEF Start, TypeOK, ProcessOK
      <3> QED
        BY <2>2, <2>3, <3>1 DEF files, RunNetworkInv, TrueNetworks, Measured
    <2>5. CASE BuildAll(r)
      <3>1. /\ phase[r] = "build" /\ phase'[r] = "load" /\ UNCHANGED <<disk, inv, mem, measured>>
        BY <2>5 DEF BuildAll, TypeOK, ProcessOK
      <3> QED
        BY <2>2, <2>3, <3>1 DEF RunNetworkInv, TrueNetworks, Measured
    <2>6. CASE Load(r)
      <3>1. /\ phase[r] = "load" /\ phase'[r] = "lookup"
            /\ UNCHANGED <<files, inv, measured>>
        BY <2>6 DEF Load, TypeOK, ProcessOK
      <3>2. TrueNetworks(T, mem'[r])
        BY <2>6, Loaded DEF NetworkInv, RunNetworkInv, TrueNetworks
      <3> QED
        BY <2>2, <2>3, <3>1, <3>2 DEF files, RunNetworkInv, TrueNetworks, Measured
    <2>7. CASE Reuse(r)
      <3>1. PICK e \in mem[r] : Hits(r, e) /\ MeasureOn(r, e.id)
        BY <2>7 DEF Reuse
      <3>2. UNCHANGED <<files, inv, mem>> /\ at[r] \in DOMAIN Packages
        BY <2>7 DEF Reuse
      <3>3. e.id \in Id /\ inv[r] \in Invocations
        BY <3>1 DEF TypeOK, ProcessOK, Entry
      <3>4. e.id.target = inv[r].target /\ e.id.source = inv[r].source
        BY <2>3, <3>1, <3>3 DEF Hits, RunNetworkInv, TrueNetworks, Labels
      <3>5. TrueNetworks(T, mem[r])'
        BY <2>3, <3>2 DEF RunNetworkInv, TrueNetworks
      <3>6. RunNetworkInv(T, r)'
        BY <2>3, <3>1, <3>2, <3>3, <3>4, <3>5, MeasureOnNetwork DEF TypeOK
      <3> QED
        BY <2>2, <3>2, <3>6 DEF files
    <2>8. CASE Miss(r)
      <3>1. /\ phase[r] = "lookup" /\ phase'[r] = "deploy" /\ UNCHANGED <<files, inv, mem, measured>>
        BY <2>8 DEF Miss, TypeOK, ProcessOK
      <3> QED
        BY <2>2, <2>3, <3>1 DEF files, RunNetworkInv, TrueNetworks, Measured
    <2>9. CASE Deploy(r)
      <3>1. at[r] \in DOMAIN Packages /\ UNCHANGED <<files, inv>>
        BY <2>9 DEF Deploy, TypeOK, ProcessOK
      <3>2. DeployedId(r) \in Id /\ Put(r, DeployedId(r)) /\ MeasureOn(r, DeployedId(r))
        BY <2>9, <3>1, DeployedIdType DEF Deploy
      <3>3. inv[r] \in Invocations
        BY DEF TypeOK, ProcessOK
      <3>4. DeployedId(r).target = inv[r].target /\ DeployedId(r).source = inv[r].source
        BY <3>3 DEF DeployedId, Labels
      <3>5. mem'[r] = {e \in mem[r] : ~Superseded(r, e)} \cup {NewEntry(r, DeployedId(r))}
        BY <3>2 DEF Put, TypeOK, ProcessOK
      <3>6. TrueNetworks(T, {NewEntry(r, DeployedId(r))})
        BY <3>3, <3>4 DEF NewEntry, TrueNetworks, Labels
      <3>7. TrueNetworks(T, mem[r])'
        BY <2>3, <3>5, <3>6 DEF RunNetworkInv, TrueNetworks
      <3>8. RunNetworkInv(T, r)'
        BY <2>3, <3>1, <3>2, <3>4, <3>7, MeasureOnNetwork DEF TypeOK
      <3> QED
        BY <2>2, <3>1, <3>8 DEF files
    <2>10. CASE SaveNothing(r) \/ Save(r) \/ TornSave(r)
      BY <2>2, <2>3, <2>10, EndsNetwork, Written
      DEF SaveNothing, Save, TornSave, AllMeasured, files, TypeOK
    <2>11. CASE SaveFixture(r) \/ Abort(r)
      BY <2>2, <2>3, <2>11, EndsNetwork DEF SaveFixture, Abort, files, TypeOK
    <2>12. CASE SaveTruncates(r)
      <3>1. /\ phase[r] = "lookup" /\ phase'[r] = "save" /\ disk' = {}
            /\ UNCHANGED <<inv, mem, measured>>
        BY <2>12 DEF SaveTruncates, AllMeasured, TypeOK, ProcessOK
      <3> QED
        BY <2>2, <2>3, <3>1 DEF RunNetworkInv, TrueNetworks, Measured
    <2> QED
      BY <1>4, <2>4, <2>5, <2>6, <2>7, <2>8, <2>9, <2>10, <2>11, <2>12 DEF RunStep
  <1> QED
    BY <1>2, <1>3, <1>4 DEF Next

\* When nothing is replayed and a label always names one network, no run ever
\* measures on another network or with another account, sources edited during runs
\* included (DeployCache::get compares the label and the account).
THEOREM ThisNetwork ==
  ASSUME NEW CONSTANT T, Labels(T)
  PROVE  Spec => []MeasuresOnThisNetwork
  <1>1. Init => NetworkInv(T)
    BY DEF Init, NetworkInv, RunNetworkInv, TrueNetworks, Measured, Blank
  <1>2. TypeOK /\ NetworkInv(T) /\ [Next]_vars => NetworkInv(T)'
    BY NetworkStep
  <1>3. NetworkInv(T) => MeasuresOnThisNetwork
    BY DEF NetworkInv, RunNetworkInv, MeasuresOnThisNetwork
  <1> QED
    BY TypeCorrect, <1>1, <1>2, <1>3, PTL DEF Spec

----------------------------------------------------------------------------
(* What a run deploys again. *)

\* No two packages build to the same wasm.
OwnBuilds == \A p, q \in Package : p # q => BuildsOf[p] \cap BuildsOf[q] = {}

Owned(entries) == \A e \in entries : e.build \in BuildsOf[e.package]

\* The entries have a contract of the current build of every package of S, for
\* the network and account of k.
Warm(entries, k, S) ==
  \A p \in S : \E e \in entries :
    e.package = p /\ e.build = code[p] /\ e.network = k[1] /\ e.source = k[2]

Done(r) == {Packages[i] : i \in 1..at[r] - 1}

RunWarmInv(r) ==
  /\ Owned(mem[r])
  /\ phase[r] \notin {"idle", "build"} => wasm = code
  /\ phase[r] \in {"idle", "build", "load"} => base[r] = {} /\ at[r] = 1
  /\ \A k \in base[r] : Warm(mem[r], k, Package)
  /\ phase[r] \in {"lookup", "deploy"} => Warm(mem[r], Key(r), Done(r))
  /\ phase[r] = "save" => Warm(mem[r], Key(r), Package)
  /\ phase[r] = "deploy" =>
       hash[r] = wasm[Here(r)] /\ (inv[r].cache => \A e \in mem[r] : ~Hits(r, e))

FilesWarmInv ==
  /\ \A p \in Package : code[p] \in BuildsOf[p] /\ wasm[p] \in BuildsOf[p]
  /\ Owned(disk)
  /\ \A k \in settled : Warm(disk, k, Package)

WarmInv == FilesWarmInv /\ \A r \in Run : RunWarmInv(r)

LEMMA WarmInit == Init => WarmInv
  <1> SUFFICES ASSUME Init PROVE WarmInv
    OBVIOUS
  <1>1. FilesWarmInv
    BY DEF Init, FilesWarmInv, Owned
  <1>2. ASSUME NEW r \in Run PROVE RunWarmInv(r)
    BY DEF Init, RunWarmInv, Owned
  <1> QED
    BY <1>1, <1>2 DEF WarmInv

\* A process that does nothing keeps its part while the sources and wasm stay.
LEMMA WarmOther ==
  ASSUME NEW q \in Run, RunWarmInv(q), OtherUnchanged(q), UNCHANGED <<code, wasm>>
  PROVE  RunWarmInv(q)'
  BY DEF RunWarmInv, OtherUnchanged, Owned, Warm, Done, Key, Here, Hits

LEMMA EndsWarm ==
  ASSUME ProcessOK, NEW r \in Run, Ends(r)
  PROVE  RunWarmInv(r)'
  <1>1. phase'[r] = "idle" /\ mem'[r] = {} /\ base'[r] = {} /\ at'[r] = 1
    BY DEF Ends, ProcessOK
  <1> QED
    BY <1>1 DEF RunWarmInv, Owned

LEMMA ContinueWarm ==
  ASSUME ProcessOK, NEW r \in Run, RunWarmInv(r), phase[r] \in {"lookup", "save"}, Continue(r),
         UNCHANGED <<code, wasm>>
  PROVE  RunWarmInv(r)'
  <1>1. CASE Ends(r)
    BY <1>1, EndsWarm
  <1>2. CASE ~Ends(r)
    <2>1. /\ phase'[r] = "record"
          /\ UNCHANGED <<inv, at, mem, dirty, hash, tape, measured, base>>
      BY <1>2 DEF Continue, ProcessOK
    <2> QED
      BY <2>1 DEF RunWarmInv, Owned, Warm
  <1> QED
    BY <1>1, <1>2

LEMMA DoneNext ==
  ASSUME ProcessOK, NEW r \in Run, at[r] \in DOMAIN Packages, at'[r] = at[r] + 1
  PROVE  Done(r)' = Done(r) \cup {Here(r)}
  BY DEF ProcessOK, Done, Here

LEMMA DoneAll ==
  ASSUME ProcessOK, NEW r \in Run, AllMeasured(r)
  PROVE  Done(r) = Package
  BY PackagesAssumption DEF ProcessOK, Done, AllMeasured, Package

\* With builds of its own, a package only hits an entry of its own.
LEMMA HitsOwn ==
  ASSUME OwnBuilds, TypeOK, WarmInv, NEW r \in Run, at[r] \in DOMAIN Packages,
         phase[r] = "lookup", NEW e \in mem[r], Hits(r, e)
  PROVE  /\ e.package = Here(r) /\ e.build = code[Here(r)]
         /\ e.network = Key(r)[1] /\ e.source = Key(r)[2]
  <1>1. Here(r) \in Package /\ e.package \in Package
    BY HereType DEF TypeOK, ProcessOK, Entry
  <1>2. e.build \in BuildsOf[e.package] /\ wasm = code /\ wasm[Here(r)] \in BuildsOf[Here(r)]
    BY <1>1 DEF WarmInv, RunWarmInv, Owned, FilesWarmInv
  <1> QED
    BY <1>1, <1>2 DEF OwnBuilds, Hits, Key

\* What put drops, its own entry replaces.
LEMMA PutWarm ==
  ASSUME TypeOK, NEW r \in Run, at[r] \in DOMAIN Packages, NEW id, Put(r, id),
         hash[r] = code[Here(r)], NEW k, NEW S, Warm(mem[r], k, S), UNCHANGED code,
         NEW h, h = Here(r)
  PROVE  /\ Warm(mem[r], k, S)'
         /\ k = Key(r) => Warm(mem[r], k, S \cup {h})'
  <1> DEFINE new == NewEntry(r, id)
  <1>1. mem'[r] = {e \in mem[r] : ~Superseded(r, e)} \cup {new}
    BY DEF Put, TypeOK, ProcessOK
  <1>2. /\ new.package = Here(r) /\ new.build = code[Here(r)]
        /\ new.network = inv[r].network /\ new.source = inv[r].source
    BY DEF NewEntry
  <1>3. ASSUME NEW p \in S
        PROVE  \E e \in mem'[r] :
                 e.package = p /\ e.build = code[p] /\ e.network = k[1] /\ e.source = k[2]
    <2>1. PICK e \in mem[r] :
            e.package = p /\ e.build = code[p] /\ e.network = k[1] /\ e.source = k[2]
      BY DEF Warm
    <2> HIDE DEF new
    <2>2. CASE Superseded(r, e)
      BY <1>1, <1>2, <2>1, <2>2 DEF Superseded
    <2>3. CASE ~Superseded(r, e)
      BY <1>1, <2>1, <2>3
    <2> QED
      BY <2>2, <2>3
  <1>4. k = Key(r) => new.network = k[1] /\ new.source = k[2]
    BY <1>2 DEF Key
  <1>5. new \in mem'[r]
    BY <1>1
  <1> HIDE DEF new
  <1> QED
    BY <1>2, <1>3, <1>4, <1>5 DEF Warm

LEMMA WarmStep ==
  ASSUME OwnBuilds, ~EditsDuringRuns
  PROVE  TypeOK /\ WarmInv /\ [Next]_vars => WarmInv'
  <1> SUFFICES ASSUME TypeOK, WarmInv, [Next]_vars PROVE WarmInv'
    OBVIOUS
  <1>1. CASE UNCHANGED vars
    <2> USE <1>1 DEF vars, files, process
    <2>1. FilesWarmInv'
      BY DEF WarmInv, FilesWarmInv, Owned, Warm
    <2>2. ASSUME NEW q \in Run PROVE RunWarmInv(q)'
      BY WarmOther DEF WarmInv, OtherUnchanged
    <2> QED
      BY <2>1, <2>2 DEF WarmInv
  <1>2. ASSUME NEW p \in Package, Edit(p) PROVE WarmInv'
    <2>1. \A r \in Run : phase[r] = "idle"
      BY <1>2 DEF Edit, Idle
    <2>2. /\ UNCHANGED <<wasm, disk, fixture, process, base>> /\ settled' = {}
          /\ \A q \in Package : code'[q] \in BuildsOf[q]
      BY <1>2 DEF Edit, WarmInv, FilesWarmInv, TypeOK, FilesOK
    <2>3. FilesWarmInv'
      BY <2>2 DEF WarmInv, FilesWarmInv, Owned
    <2>4. ASSUME NEW r \in Run PROVE RunWarmInv(r)'
      BY <2>1, <2>2 DEF process, WarmInv, RunWarmInv, Owned
    <2> QED
      BY <2>3, <2>4 DEF WarmInv
  <1>3. ASSUME NEW r \in Run, RunStep(r) PROVE WarmInv'
    <2>1. ASSUME NEW q \in Run, q # r, wasm' = wasm, code' = code PROVE RunWarmInv(q)'
      BY <1>3, <2>1, OneAtATime, WarmOther DEF WarmInv
    <2>2. ASSUME UNCHANGED files, settled' \subseteq settled, RunWarmInv(r)' PROVE WarmInv'
      <3>1. FilesWarmInv'
        BY <2>2 DEF files, WarmInv, FilesWarmInv, Owned, Warm
      <3> QED
        BY <2>1, <2>2, <3>1 DEF files, WarmInv
    <2>3. RunWarmInv(r)
      BY DEF WarmInv
    <2>4. ASSUME NEW i \in Invocations, Start(r, i) PROVE WarmInv'
      <3>1. /\ phase[r] = "idle" /\ phase'[r] = "build"
            /\ UNCHANGED <<files, at, mem, hash, settled, base>>
        BY <2>4 DEF Start, TypeOK, ProcessOK
      <3> QED
        BY <2>2, <2>3, <3>1 DEF RunWarmInv, Owned
    <2>5. CASE BuildAll(r)
      <3>1. /\ phase[r] = "build" /\ phase'[r] = "load" /\ wasm' = code
            /\ UNCHANGED <<code, disk, at, mem, hash, settled, base>>
        BY <2>5 DEF BuildAll, TypeOK, ProcessOK
      <3>2. FilesWarmInv'
        BY <3>1 DEF WarmInv, FilesWarmInv, Owned, Warm
      <3>3. RunWarmInv(r)'
        BY <2>3, <3>1 DEF RunWarmInv, Owned
      <3>4. ASSUME NEW q \in Run, q # r PROVE RunWarmInv(q)'
        <4>1. OtherUnchanged(q) /\ RunWarmInv(q)
          BY <1>3, <3>4, OneAtATime DEF WarmInv
        <4>2. CASE phase[q] \in {"idle", "build"}
          BY <3>1, <4>1, <4>2 DEF RunWarmInv, OtherUnchanged, Owned
        <4>3. CASE phase[q] \notin {"idle", "build"}
          <5>1. wasm' = wasm
            BY <3>1, <4>1, <4>3 DEF RunWarmInv
          <5> QED
            BY <2>1, <3>1, <3>4, <5>1
        <4> QED
          BY <4>2, <4>3
      <3> QED
        BY <3>2, <3>3, <3>4 DEF WarmInv
    <2>6. CASE Load(r)
      <3>1. /\ phase[r] = "load" /\ phase'[r] = "lookup"
            /\ UNCHANGED <<files, inv, at, hash, settled>>
        BY <2>6 DEF Load, TypeOK, ProcessOK
      <3>2. Done(r)' = {}
        BY <2>3, <3>1 DEF RunWarmInv, Done
      <3>3. \A k \in settled : Warm(disk, k, Package)'
        BY <3>1 DEF files, WarmInv, FilesWarmInv, Warm
      <3>4. Owned(mem'[r])
        BY <2>6, Loaded DEF WarmInv, FilesWarmInv, RunWarmInv, Owned
      <3>5. \A k \in base'[r] : Warm(mem[r], k, Package)'
        <4>1. CASE base'[r] = {}
          BY <4>1
        <4>2. CASE mem'[r] = disk /\ base'[r] = settled
          <5>1. disk' = disk
            BY <3>1 DEF files
          <5> QED
            BY <3>3, <4>2, <5>1 DEF Warm
        <4> QED
          BY <2>6, <4>1, <4>2, Loaded
      <3>6. RunWarmInv(r)'
        BY <2>3, <3>1, <3>2, <3>4, <3>5 DEF files, RunWarmInv, Owned, Warm
      <3> QED
        BY <2>2, <3>1, <3>6
    <2>7. CASE Reuse(r)
      <3>1. PICK e \in mem[r] : Hits(r, e) /\ MeasureOn(r, e.id)
        BY <2>7 DEF Reuse
      <3>2. /\ UNCHANGED <<files, inv, mem, settled, base>> /\ phase[r] = "lookup"
            /\ at[r] \in DOMAIN Packages /\ phase'[r] = "lookup" /\ at'[r] = at[r] + 1
        BY <2>7, <3>1 DEF Reuse, MeasureOn, TypeOK, ProcessOK
      <3>3. /\ e.package = Here(r) /\ e.build = code[Here(r)]
            /\ e.network = Key(r)[1] /\ e.source = Key(r)[2]
        BY <3>1, <3>2, HitsOwn
      <3>4. Done(r)' = Done(r) \cup {Here(r)}
        BY <3>2, DoneNext DEF TypeOK
      <3>5. Warm(mem[r], Key(r), Done(r))
        BY <2>3, <3>2 DEF RunWarmInv
      <3>6. Warm(mem[r], Key(r), Done(r))'
        BY <3>2, <3>3, <3>4, <3>5 DEF files, Warm, Key
      <3>7. RunWarmInv(r)'
        BY <2>3, <3>2, <3>6 DEF files, RunWarmInv, Owned, Warm
      <3> QED
        BY <2>2, <3>2, <3>7
    <2>8. CASE Miss(r)
      <3>1. /\ phase[r] = "lookup" /\ phase'[r] = "deploy" /\ hash'[r] = wasm[Here(r)]
            /\ inv[r].cache => \A e \in mem[r] : ~Hits(r, e)
            /\ UNCHANGED <<files, inv, at, mem, settled, base>>
        BY <2>8 DEF Miss, TypeOK, ProcessOK
      <3>2. RunWarmInv(r)'
        BY <2>3, <3>1 DEF files, RunWarmInv, Owned, Warm, Key, Done, Here, Hits
      <3> QED
        BY <2>2, <3>1, <3>2
    <2>9. CASE Deploy(r)
      <3>1. /\ at[r] \in DOMAIN Packages /\ phase[r] = "deploy"
            /\ UNCHANGED <<files, inv, settled, base>>
            /\ Put(r, DeployedId(r)) /\ MeasureOn(r, DeployedId(r))
        BY <2>9 DEF Deploy, TypeOK, ProcessOK
      <3>2. phase'[r] = "lookup" /\ at'[r] = at[r] + 1
        BY <3>1 DEF MeasureOn, TypeOK, ProcessOK
      <3>3. hash[r] = code[Here(r)] /\ wasm = code /\ UNCHANGED <<code, wasm>>
        BY <2>3, <3>1 DEF files, RunWarmInv
      <3>4. \A k \in base[r] : Warm(mem[r], k, Package)'
        BY <2>3, <3>1, <3>3, PutWarm DEF RunWarmInv
      <3>5. Warm(mem[r], Key(r), Done(r))
        BY <2>3, <3>1 DEF RunWarmInv
      <3>6. ASSUME NEW k, NEW S, NEW h, k = Key(r), S = Done(r), h = Here(r)
            PROVE  Warm(mem[r], k, S \cup {h})'
        BY <3>1, <3>3, <3>5, <3>6, PutWarm
      <3>7. Done(r)' = Done(r) \cup {Here(r)} /\ Key(r)' = Key(r)
        BY <3>1, <3>2, DoneNext DEF TypeOK, Key
      <3>8. Warm(mem[r], Key(r), Done(r))'
        BY <3>6, <3>7 DEF Warm
      <3>9. Owned(mem[r])'
        <4>1. mem'[r] = {e \in mem[r] : ~Superseded(r, e)} \cup {NewEntry(r, DeployedId(r))}
          BY <3>1 DEF Put, TypeOK, ProcessOK
        <4>2. NewEntry(r, DeployedId(r)).package = Here(r)
              /\ NewEntry(r, DeployedId(r)).build = code[Here(r)]
          BY <3>3 DEF NewEntry
        <4>3. code[Here(r)] \in BuildsOf[Here(r)]
          BY <3>1, HereType DEF WarmInv, FilesWarmInv
        <4>4. Owned(mem[r])
          BY <2>3 DEF RunWarmInv
        <4> QED
          BY <4>1, <4>2, <4>3, <4>4 DEF Owned
      <3>10. RunWarmInv(r)'
        BY <3>1, <3>2, <3>3, <3>4, <3>8, <3>9 DEF RunWarmInv, Warm
      <3> QED
        BY <2>2, <3>1, <3>10
    <2>10. CASE SaveNothing(r)
      <3>1. Continue(r) /\ phase[r] = "lookup" /\ UNCHANGED <<files, settled>>
        BY <2>10 DEF SaveNothing, AllMeasured
      <3>2. RunWarmInv(r)'
        BY <2>3, <3>1, ContinueWarm DEF files, TypeOK
      <3> QED
        BY <2>2, <3>1, <3>2
    <2>11. CASE Save(r) \/ TornSave(r)
      <3>1. /\ Continue(r) /\ phase[r] = "save" /\ UNCHANGED <<code, wasm, fixture>>
            /\ settled' = {} \/ (disk' = mem[r] /\ settled' = base[r] \cup {Key(r)})
        BY <2>11 DEF Save, TornSave
      <3>2. RunWarmInv(r)'
        BY <2>3, <3>1, ContinueWarm DEF TypeOK
      <3>3. \A k \in base[r] \cup {Key(r)} : Warm(mem[r], k, Package)
        BY <2>3, <3>1 DEF RunWarmInv
      <3>4. FilesWarmInv'
        <4>1. Owned(disk)'
          BY <2>3, <2>11, Written DEF WarmInv, FilesWarmInv, RunWarmInv, Owned
        <4>2. \A k \in settled' : Warm(disk, k, Package)'
          BY <3>1, <3>3 DEF Warm
        <4> QED
          BY <3>1, <4>1, <4>2 DEF WarmInv, FilesWarmInv
      <3> QED
        BY <2>1, <3>1, <3>2, <3>4 DEF WarmInv
    <2>12. CASE SaveFixture(r) \/ Abort(r)
      <3>1. Ends(r) /\ UNCHANGED <<code, wasm, disk, settled>>
        BY <2>12 DEF SaveFixture, Abort, files
      <3>2. RunWarmInv(r)'
        BY <3>1, EndsWarm DEF TypeOK
      <3>3. FilesWarmInv'
        BY <3>1 DEF WarmInv, FilesWarmInv, Owned, Warm
      <3> QED
        BY <2>1, <3>1, <3>2, <3>3 DEF WarmInv
    <2>13. CASE SaveTruncates(r)
      <3>1. /\ AllMeasured(r) /\ phase[r] = "lookup" /\ phase'[r] = "save"
            /\ disk' = {} /\ settled' = {}
            /\ UNCHANGED <<code, wasm, inv, at, mem, hash, base>>
        BY <2>13 DEF SaveTruncates, AllMeasured, TypeOK, ProcessOK
      <3>2. Warm(mem[r], Key(r), Package)
        BY <2>3, <3>1, DoneAll DEF RunWarmInv, TypeOK
      <3>3. RunWarmInv(r)'
        BY <2>3, <3>1, <3>2 DEF RunWarmInv, Owned, Warm, Key
      <3>4. FilesWarmInv'
        BY <3>1 DEF WarmInv, FilesWarmInv, Owned
      <3> QED
        BY <2>1, <3>1, <3>3, <3>4 DEF WarmInv
    <2> QED
      BY <1>3, <2>4, <2>5, <2>6, <2>7, <2>8, <2>9, <2>10, <2>11, <2>12, <2>13 DEF RunStep
  <1> QED
    BY <1>1, <1>2, <1>3 DEF Next

\* When no two packages build to one wasm and sources are left alone during
\* runs, a network and account whose deployments were saved are not deployed to
\* again, whatever other runs put, tore or lost (DeployCache::get, put, save).
THEOREM NotRedeployed ==
  ASSUME OwnBuilds, ~EditsDuringRuns
  PROVE  Spec => []UnchangedNotRedeployed
  <1>1. TypeOK /\ WarmInv => UnchangedNotRedeployed
    <2> SUFFICES ASSUME TypeOK, WarmInv, NEW r \in Run, phase[r] = "deploy", inv[r].cache,
                        Key(r) \in base[r]
                 PROVE  FALSE
      BY DEF UnchangedNotRedeployed
    <2>1. RunWarmInv(r) /\ Here(r) \in Package
      BY HereType DEF WarmInv, TypeOK, ProcessOK
    <2>2. PICK e \in mem[r] : /\ e.build = code[Here(r)]
                              /\ e.network = Key(r)[1] /\ e.source = Key(r)[2]
      BY <2>1 DEF RunWarmInv, Warm
    <2>3. Hits(r, e)
      BY <2>1, <2>2 DEF RunWarmInv, Hits, Key
    <2> QED
      BY <2>1, <2>3 DEF RunWarmInv
  <1> QED
    BY TypeCorrect, WarmInit, WarmStep, <1>1, PTL DEF Spec

----------------------------------------------------------------------------
(* What a cache cannot be told from. *)

Ids(r) == [k \in 1..(at[r] - 1) |-> measured[r][Packages[k]]]

InvView == [r \in Active |-> inv[r]]
BuildsView == [r \in Built |-> wasm]
MeasuredView == [r \in Built |-> Ids(r)]
View == <<code, InvView, BuildsView, MeasuredView>>

\* A run that has not built is at its first package.
Begins == \A r \in Run : phase[r] \in {"idle", "build"} => at[r] = 1

LEMMA BeginsStep == TypeOK /\ Begins /\ [Next]_vars => Begins'
  <1> SUFFICES ASSUME TypeOK, Begins, [Next]_vars PROVE Begins'
    OBVIOUS
  <1>1. ASSUME UNCHANGED process PROVE Begins'
    BY <1>1 DEF process, Begins
  <1>2. ASSUME NEW r \in Run, RunStep(r) PROVE Begins'
    <2>1. \A q \in Run \ {r} : phase'[q] = phase[q] /\ at'[q] = at[q]
      BY <1>2, OneAtATime DEF OtherUnchanged
    <2>2. phase'[r] \in {"idle", "build"} => at'[r] = 1
      <3> USE DEF TypeOK, ProcessOK
      <3>1. CASE \E i \in Invocations : Start(r, i)
        BY <3>1 DEF Start, Begins
      <3>2. CASE BuildAll(r) \/ Load(r) \/ Miss(r) \/ SaveTruncates(r)
        BY <3>2 DEF BuildAll, Load, Miss, SaveTruncates
      <3>3. CASE Reuse(r) \/ Deploy(r)
        BY <3>3 DEF Reuse, Deploy, MeasureOn
      <3>4. CASE Ends(r)
        BY <3>4 DEF Ends
      <3>5. CASE SaveNothing(r) \/ Save(r) \/ TornSave(r)
        <4>1. Continue(r)
          BY <3>5 DEF SaveNothing, Save, TornSave
        <4> QED
          BY <3>4, <4>1 DEF Continue
      <3>6. CASE SaveFixture(r) \/ Abort(r)
        BY <3>4, <3>6 DEF SaveFixture, Abort
      <3> QED
        BY <1>2, <3>1, <3>2, <3>3, <3>5, <3>6 DEF RunStep
    <2> QED
      BY <2>1, <2>2 DEF Begins
  <1> QED
    BY <1>1, <1>2 DEF Next, Edit, vars

\* A step of one process shows nothing of the others.
LEMMA OthersSeen ==
  ASSUME TypeOK, NEW r \in Run, RunStep(r), NEW q \in Run, q # r
  PROVE  /\ (q \in Active)' <=> q \in Active
         /\ (q \in Built)' <=> q \in Built
         /\ inv'[q] = inv[q] /\ Ids(q)' = Ids(q)
  BY OneAtATime DEF OtherUnchanged, Active, Built, Ids

\* Nor does a step that leaves a run where it is.
LEMMA Unseen ==
  ASSUME TypeOK, NEW r \in Run, RunStep(r), UNCHANGED <<code, wasm>>,
         (r \in Active)' <=> r \in Active, (r \in Built)' <=> r \in Built,
         inv'[r] = inv[r], Ids(r)' = Ids(r)
  PROVE  View' = View
  <1>1. Active' = Active /\ Built' = Built
    BY OthersSeen DEF Active, Built
  <1>2. \A q \in Run : inv'[q] = inv[q] /\ Ids(q)' = Ids(q)
    BY OthersSeen
  <1>3. InvView' = InvView
    BY <1>1, <1>2 DEF InvView, Active
  <1>4. BuildsView' = BuildsView
    BY <1>1 DEF BuildsView
  <1>5. MeasuredView' = MeasuredView
    BY <1>1, <1>2 DEF MeasuredView, Built, Active
  <1> QED
    BY <1>3, <1>4, <1>5 DEF View

LEMMA AppendIs ==
  ASSUME NEW S, NEW s \in Seq(S), NEW x \in S
  PROVE  Append(s, x) = [k \in 1..(Len(s) + 1) |-> IF k <= Len(s) THEN s[k] ELSE x]
  <1> DEFINE a == Append(s, x)
  <1>1. /\ a \in Seq(S) /\ Len(a) = Len(s) + 1 /\ Len(s) \in Nat
        /\ \A k \in 1..Len(s) : a[k] = s[k]
        /\ a[Len(s) + 1] = x
    OBVIOUS
  <1> HIDE DEF a
  <1>2. a = [k \in 1..Len(a) |-> a[k]]
    BY <1>1
  <1>3. \A k \in 1..(Len(s) + 1) : a[k] = IF k <= Len(s) THEN s[k] ELSE x
    BY <1>1
  <1>4. a = [k \in 1..(Len(s) + 1) |-> IF k <= Len(s) THEN s[k] ELSE x]
    BY <1>1, <1>2, <1>3
  <1> QED
    BY <1>4 DEF a

\* The step to a measured package is one of the run without a cache, when the
\* contract is the run's own.
LEMMA MeasureSeen ==
  ASSUME TypeOK, NEW r \in Run, RunStep(r), UNCHANGED <<files, inv>>,
         phase[r] \in {"lookup", "deploy"}, at[r] \in DOMAIN Packages,
         NEW id \in Id, MeasureOn(r, id), id.build = wasm[Here(r)],
         id.target = inv[r].target, id.source = inv[r].source
  PROVE  Uncached!Measure(r)
  <1>1. /\ phase'[r] = "lookup" /\ at'[r] = at[r] + 1
        /\ measured'[r] = [measured[r] EXCEPT ![Here(r)] = id]
    BY DEF MeasureOn, TypeOK, ProcessOK
  <1>2. r \in Active /\ r \in Built /\ (r \in Active)' /\ (r \in Built)'
    BY <1>1 DEF Active, Built
  <1>3. Active' = Active /\ Built' = Built
    BY <1>2, OthersSeen DEF Active, Built
  <1>4. InvView' = InvView /\ BuildsView' = BuildsView /\ code' = code
    BY <1>3 DEF InvView, BuildsView, files
  <1>5. at[r] \in 1..Len(Packages) /\ Len(Packages) \in Nat
    BY PackagesAssumption
  <1>6. /\ Ids(r) \in Seq(Id \cup {None}) /\ Len(Ids(r)) = at[r] - 1
        /\ Len(Ids(r)) < Len(Packages) /\ Packages[Len(Ids(r)) + 1] = Here(r)
    <2>1. \A k \in 1..(at[r] - 1) : measured[r][Packages[k]] \in Id \cup {None}
      <3>1. \A k \in 1..(at[r] - 1) : Packages[k] \in Package
        BY <1>5 DEF Package
      <3> QED
        BY <3>1 DEF TypeOK, ProcessOK, Tape
    <2>2. at[r] - 1 \in Nat
      BY <1>5
    <2>3. Ids(r) \in Seq(Id \cup {None}) /\ Len(Ids(r)) = at[r] - 1
      BY <2>1, <2>2 DEF Ids
    <2> QED
      BY <1>5, <2>2, <2>3 DEF Here
  <1>7. id = [build |-> BuildsView[r][Here(r)], target |-> InvView[r].target,
              source |-> InvView[r].source]
    BY <1>2 DEF Id, BuildsView, InvView
  <1>8. Ids(r)' = Append(Ids(r), id)
    <2>1. \A k \in 1..at[r] : measured'[r][Packages[k]]
                               = IF k = at[r] THEN id ELSE measured[r][Packages[k]]
      <3>1. \A k \in 1..at[r] : Packages[k] \in Package /\ (Packages[k] = Here(r) <=> k = at[r])
        BY <1>5, PackagesAssumption DEF Package, Here
      <3>2. measured[r] \in [Package -> Id \cup {None}]
        BY DEF TypeOK, ProcessOK, Tape
      <3> QED
        BY <1>1, <3>1, <3>2
    <2>2. Ids(r)' = [k \in 1..at[r] |-> IF k = at[r] THEN id ELSE measured[r][Packages[k]]]
      <3>1. Ids(r)' = [k \in 1..(at'[r] - 1) |-> measured'[r][Packages[k]]]
        BY DEF Ids
      <3>2. at'[r] - 1 = at[r]
        BY <1>1, <1>5
      <3> QED
        BY <2>1, <3>1, <3>2
    <2>3. Append(Ids(r), id)
            = [k \in 1..(Len(Ids(r)) + 1) |-> IF k <= Len(Ids(r)) THEN Ids(r)[k] ELSE id]
      <3> DEFINE S == Id \cup {None}
      <3>1. Ids(r) \in Seq(S) /\ id \in S
        BY <1>6
      <3> HIDE DEF S
      <3> QED
        BY <3>1, AppendIs
    <2>4. \A k \in 1..(at[r] - 1) : Ids(r)[k] = measured[r][Packages[k]]
      BY DEF Ids
    <2>5. Len(Ids(r)) + 1 = at[r]
      BY <1>5, <1>6
    <2>6. \A k \in 1..at[r] : (IF k <= Len(Ids(r)) THEN Ids(r)[k] ELSE id)
                               = IF k = at[r] THEN id ELSE measured[r][Packages[k]]
      BY <1>5, <1>6, <2>4
    <2> QED
      BY <2>2, <2>3, <2>5, <2>6
  <1>9. MeasuredView' = [MeasuredView EXCEPT ![r] = Append(@, id)]
    <2>1. \A q \in Built : q # r => Ids(q)' = Ids(q)
      BY OthersSeen DEF Built, Active
    <2>2. MeasuredView' = [q \in Built |-> IF q = r THEN Append(Ids(r), id) ELSE Ids(q)]
      BY <1>3, <1>8, <2>1 DEF MeasuredView
    <2> QED
      BY <1>2, <2>2 DEF MeasuredView
  <1>10. MeasuredView[r] = Ids(r) /\ r \in DOMAIN BuildsView
    BY <1>2 DEF MeasuredView, BuildsView
  <1>11. MeasuredView' = [MeasuredView EXCEPT ![r] =
            Append(@, [build |-> BuildsView[r][Packages[Len(@) + 1]], target |-> InvView[r].target,
                       source |-> InvView[r].source])]
    BY <1>6, <1>7, <1>9, <1>10
  <1> QED
    BY <1>4, <1>6, <1>10, <1>11
    DEF Uncached!Measure, Uncached!Own, InvView, BuildsView, MeasuredView, Ids

LEMMA EndSeen ==
  ASSUME TypeOK, NEW r \in Run, RunStep(r), Ends(r), phase[r] # "idle", UNCHANGED <<code, wasm>>
  PROVE  Uncached!End(r)
  <1>1. phase'[r] = "idle"
    BY DEF Ends, TypeOK, ProcessOK
  <1>2. /\ Active' = Active \ {r} /\ Built' = Built \ {r} /\ r \in Active
        /\ \A q \in Active \ {r} : inv'[q] = inv[q] /\ Ids(q)' = Ids(q)
    BY <1>1, OthersSeen DEF Active, Built
  <1>3. DOMAIN InvView = Active /\ DOMAIN BuildsView = Built /\ DOMAIN MeasuredView = Built
    BY DEF InvView, BuildsView, MeasuredView
  <1>4. InvView' = [q \in Active \ {r} |-> InvView[q]]
    <2>1. InvView' = [q \in Active \ {r} |-> inv'[q]]
      BY <1>2 DEF InvView
    <2>2. \A q \in Active \ {r} : inv'[q] = InvView[q]
      BY <1>2 DEF InvView
    <2> QED
      BY <2>1, <2>2
  <1>5. BuildsView' = [q \in Built \ {r} |-> BuildsView[q]]
    <2>1. BuildsView' = [q \in Built \ {r} |-> wasm]
      BY <1>2 DEF BuildsView
    <2>2. \A q \in Built \ {r} : wasm = BuildsView[q]
      BY DEF BuildsView
    <2> QED
      BY <2>1, <2>2
  <1>6. MeasuredView' = [q \in Built \ {r} |-> MeasuredView[q]]
    <2>1. MeasuredView' = [q \in Built \ {r} |-> Ids(q)']
      BY <1>2 DEF MeasuredView
    <2>2. \A q \in Built \ {r} : Ids(q)' = MeasuredView[q]
      BY <1>2 DEF MeasuredView, Built
    <2> QED
      BY <2>1, <2>2
  <1> QED
    BY <1>2, <1>3, <1>4, <1>5, <1>6
    DEF Uncached!End, Uncached!Without, InvView, BuildsView, MeasuredView, Ids

LEMMA StartSeen ==
  ASSUME TypeOK, NEW r \in Run, NEW i \in Invocations, RunStep(r), Start(r, i)
  PROVE  Uncached!Start(r, i)
  <1>1. /\ phase[r] = "idle" /\ phase'[r] = "build" /\ inv'[r] = i
        /\ UNCHANGED <<code, wasm>>
    BY DEF Start, TypeOK, ProcessOK, files
  <1>2. /\ Active' = Active \cup {r} /\ Built' = Built /\ r \notin Active
        /\ \A q \in Active : inv'[q] = inv[q] /\ Ids(q)' = Ids(q)
    BY <1>1, OthersSeen DEF Active, Built
  <1>3. DOMAIN InvView = Active
    BY DEF InvView
  <1>4. InvView' = [q \in Active \cup {r} |-> IF q = r THEN i ELSE InvView[q]]
    <2>1. InvView' = [q \in Active \cup {r} |-> inv'[q]]
      BY <1>2 DEF InvView
    <2>2. \A q \in Active \cup {r} : inv'[q] = IF q = r THEN i ELSE InvView[q]
      BY <1>1, <1>2 DEF InvView
    <2> QED
      BY <2>1, <2>2
  <1>5. BuildsView' = BuildsView
    BY <1>1, <1>2 DEF BuildsView
  <1>6. MeasuredView' = MeasuredView
    BY <1>2 DEF MeasuredView, Built
  <1> QED
    BY <1>1, <1>2, <1>3, <1>4, <1>5, <1>6
    DEF Uncached!Start, Uncached!With, InvView, BuildsView, MeasuredView, Ids

\* Whoever has built before has built the same, as no source was edited since.
LEMMA BuildSeen ==
  ASSUME TypeOK, BuildInv, Begins, NEW r \in Run, RunStep(r), BuildAll(r)
  PROVE  Uncached!BuildAll(r)
  <1>1. /\ phase[r] = "build" /\ phase'[r] = "load" /\ wasm' = code /\ code' = code
        /\ UNCHANGED <<inv, at, measured>>
    BY DEF BuildAll, TypeOK, ProcessOK
  <1>2. /\ Active' = Active /\ Built' = Built \cup {r} /\ r \in Active \ Built
        /\ \A q \in Built : Ids(q)' = Ids(q)
    BY <1>1, OthersSeen DEF Active, Built
  <1>3. DOMAIN InvView = Active /\ DOMAIN BuildsView = Built /\ DOMAIN MeasuredView = Built
    BY DEF InvView, BuildsView, MeasuredView
  <1>4. InvView' = InvView
    BY <1>1, <1>2 DEF InvView
  <1>5. BuildsView' = [q \in Built \cup {r} |-> IF q = r THEN code ELSE BuildsView[q]]
    <2>1. BuildsView' = [q \in Built \cup {r} |-> code]
      BY <1>1, <1>2 DEF BuildsView
    <2>2. \A q \in Built : BuildsView[q] = code
      BY DEF BuildsView, BuildInv, Built, Active
    <2> QED
      BY <2>1, <2>2
  <1>6. Ids(r)' = <<>>
    <2>1. Ids(r)' = [k \in 1..(at[r] - 1) |-> measured[r][Packages[k]]]
      BY <1>1 DEF Ids
    <2>2. 1..(at[r] - 1) = {}
      BY <1>1 DEF Begins
    <2> QED
      BY <2>1, <2>2
  <1>7. MeasuredView' = [q \in Built \cup {r} |-> IF q = r THEN <<>> ELSE MeasuredView[q]]
    <2>1. MeasuredView' = [q \in Built \cup {r} |-> Ids(q)']
      BY <1>2 DEF MeasuredView
    <2>2. \A q \in Built \cup {r} : Ids(q)' = IF q = r THEN <<>> ELSE MeasuredView[q]
      BY <1>2, <1>6 DEF MeasuredView
    <2> QED
      BY <2>1, <2>2
  <1> QED
    BY <1>1, <1>2, <1>3, <1>4, <1>5, <1>7
    DEF Uncached!BuildAll, Uncached!With, InvView, BuildsView, MeasuredView, Ids

LEMMA EditSeen ==
  ASSUME NEW p \in Package, Edit(p), ~EditsDuringRuns
  PROVE  Uncached!Edit(p)
  <1>1. \A r \in Run : phase[r] = "idle"
    BY DEF Edit, Idle
  <1>2. UNCHANGED <<wasm, phase, inv, at, measured>>
    BY DEF Edit, process
  <1>3. Active = {} /\ Active' = {} /\ Built = {} /\ Built' = {}
    BY <1>1, <1>2 DEF Active, Built
  <1>4. InvView' = InvView /\ DOMAIN InvView = {}
    BY <1>3 DEF InvView
  <1>5. BuildsView' = BuildsView /\ MeasuredView' = MeasuredView
    BY <1>3 DEF BuildsView, MeasuredView
  <1>6. \E b \in BuildsOf[p] \ {code[p]} : code' = [code EXCEPT ![p] = b]
    BY DEF Edit
  <1> QED
    BY <1>4, <1>5, <1>6 DEF Uncached!Edit, InvView, BuildsView, MeasuredView, Ids

LEMMA UncachedInit == Init => Uncached!Init
  <1> SUFFICES ASSUME Init PROVE Uncached!Init
    OBVIOUS
  <1>1. Active = {} /\ Built = {}
    BY DEF Init, Active, Built
  <1>2. InvView = <<>> /\ BuildsView = <<>> /\ MeasuredView = <<>>
    BY <1>1 DEF InvView, BuildsView, MeasuredView
  <1>3. Uncached!Package = Package
    BY DEF Uncached!Package, Package
  <1>4. /\ code \in [Package -> UNION {BuildsOf[p] : p \in Package}]
        /\ \A p \in Package : code[p] \in BuildsOf[p]
    BY DEF Init, Build
  <1> QED
    BY <1>2, <1>3, <1>4 DEF Uncached!Init, InvView, BuildsView, MeasuredView, Ids

LEMMA UncachedStep ==
  ASSUME NEW CONSTANT T, Labels(T), ~EditsDuringRuns
  PROVE  TypeOK /\ BuildInv /\ NetworkInv(T) /\ Begins /\ [Next]_vars => [Uncached!Next]_View
  <1> SUFFICES ASSUME TypeOK, BuildInv, NetworkInv(T), Begins, [Next]_vars
               PROVE  Uncached!Next \/ View' = View
    OBVIOUS
  <1>1. CASE UNCHANGED vars
    BY <1>1 DEF vars, files, process, View, InvView, BuildsView, MeasuredView, Ids, Active, Built
  <1>2. ASSUME NEW p \in Package, Edit(p) PROVE Uncached!Next
    <2>1. Uncached!Package = Package
      BY DEF Uncached!Package, Package
    <2> QED
      BY <1>2, <2>1, EditSeen DEF Uncached!Next
  <1>3. ASSUME NEW r \in Run, RunStep(r) PROVE Uncached!Next \/ View' = View
    <2>1. ASSUME Uncached!BuildAll(r) \/ Uncached!Measure(r) \/ Uncached!End(r)
          PROVE  Uncached!Next
      BY <2>1 DEF Uncached!Next
    <2>2. ASSUME NEW i \in Invocations, Start(r, i) PROVE Uncached!Next
      BY <1>3, <2>2, StartSeen DEF Uncached!Next
    <2>3. CASE BuildAll(r)
      BY <1>3, <2>1, <2>3, BuildSeen
    <2>4. CASE Load(r) \/ Miss(r) \/ SaveTruncates(r)
      <3>1. /\ UNCHANGED <<code, wasm, inv, at, measured>>
            /\ phase[r] \in {"load", "lookup"} /\ phase'[r] \in {"lookup", "deploy", "save"}
        BY <2>4 DEF Load, Miss, SaveTruncates, AllMeasured, files, TypeOK, ProcessOK
      <3> QED
        BY <1>3, <3>1, Unseen DEF Active, Built, Ids
    <2>5. CASE Reuse(r)
      <3>1. PICK e \in mem[r] : Hits(r, e) /\ MeasureOn(r, e.id)
        BY <2>5 DEF Reuse
      <3>2. UNCHANGED <<files, inv>> /\ phase[r] = "lookup" /\ at[r] \in DOMAIN Packages
        BY <2>5 DEF Reuse
      <3>3. e.id \in Id /\ inv[r] \in Invocations
        BY <3>1 DEF TypeOK, ProcessOK, Entry
      <3>4. e.id.build = wasm[Here(r)]
        BY <3>1 DEF Hits, BuildInv, TrueBuilds
      <3>5. e.id.target = inv[r].target /\ e.id.source = inv[r].source
        BY <3>1, <3>3 DEF Hits, NetworkInv, RunNetworkInv, TrueNetworks, Labels
      <3> QED
        BY <1>3, <2>1, <3>1, <3>2, <3>3, <3>4, <3>5, MeasureSeen
    <2>6. CASE Deploy(r)
      <3>1. UNCHANGED <<files, inv>> /\ phase[r] = "deploy" /\ at[r] \in DOMAIN Packages
        BY <2>6 DEF Deploy, TypeOK, ProcessOK
      <3>2. DeployedId(r) \in Id /\ MeasureOn(r, DeployedId(r))
        BY <2>6, <3>1, DeployedIdType DEF Deploy
      <3>3. inv[r] \in Invocations
        BY DEF TypeOK, ProcessOK
      <3>4. /\ DeployedId(r).build = wasm[Here(r)]
            /\ DeployedId(r).target = inv[r].target /\ DeployedId(r).source = inv[r].source
        BY <3>3 DEF DeployedId, Labels
      <3> QED
        BY <1>3, <2>1, <3>1, <3>2, <3>4, MeasureSeen
    <2>7. ASSUME Ends(r), phase[r] # "idle", UNCHANGED <<code, wasm>> PROVE Uncached!Next
      BY <1>3, <2>1, <2>7, EndSeen
    <2>8. CASE SaveNothing(r) \/ Save(r) \/ TornSave(r)
      <3>1. /\ Continue(r) /\ phase[r] \in {"lookup", "save"} /\ UNCHANGED <<code, wasm>>
        BY <2>8 DEF SaveNothing, Save, TornSave, AllMeasured, files
      <3>2. CASE Ends(r)
        BY <2>7, <3>1, <3>2
      <3>3. CASE ~Ends(r)
        <4>1. phase'[r] = "record" /\ UNCHANGED <<inv, at, measured>>
          BY <3>1, <3>3 DEF Continue, TypeOK, ProcessOK
        <4> QED
          BY <1>3, <3>1, <4>1, Unseen DEF Active, Built, Ids
      <3> QED
        BY <3>2, <3>3
    <2>9. CASE SaveFixture(r) \/ Abort(r)
      BY <2>7, <2>9 DEF SaveFixture, Abort, files
    <2> QED
      BY <1>3, <2>2, <2>3, <2>4, <2>5, <2>6, <2>8, <2>9 DEF RunStep
  <1> QED
    BY <1>1, <1>2, <1>3 DEF Next

\* When nothing is replayed, a label always names one network and sources are left
\* alone during runs, the runs of a workspace are those of the same workspace
\* without a cache, whatever they saved, tore, overwrote or left unfinished
\* (DeployCache::get, put, load, save).
THEOREM CacheIsTransparent ==
  ASSUME NEW CONSTANT T, Labels(T), ~EditsDuringRuns
  PROVE  Spec => ImplementsUncached
  <1>1. Init => TypeOK /\ BuildInv /\ NetworkInv(T) /\ Begins
    <2>1. Init => BuildInv
      BY DEF Init, BuildInv, TrueBuilds, Measured, Blank
    <2>2. Init => NetworkInv(T)
      BY DEF Init, NetworkInv, RunNetworkInv, TrueNetworks, Measured, Blank
    <2>3. Init => Begins
      BY DEF Init, Begins
    <2> QED
      BY <2>1, <2>2, <2>3, InitType
  <1>2. TypeOK /\ BuildInv /\ NetworkInv(T) /\ Begins /\ [Next]_vars
          => (TypeOK /\ BuildInv /\ NetworkInv(T) /\ Begins)'
    <2>1. NoReplay
      BY DEF Labels, NoReplay
    <2>2. TypeOK /\ [Next]_vars => TypeOK'
      BY FilesStep, ProcessStep, TidyStep DEF TypeOK
    <2>3. TypeOK /\ BuildInv /\ [Next]_vars => BuildInv'
      BY <2>1, BuildStep
    <2>4. TypeOK /\ NetworkInv(T) /\ [Next]_vars => NetworkInv(T)'
      BY NetworkStep
    <2> QED
      BY <2>2, <2>3, <2>4, BeginsStep
  <1>3. TypeOK /\ BuildInv /\ NetworkInv(T) /\ Begins /\ [Next]_vars
          => [Uncached!Next]_<<code, [r \in Active |-> inv[r]], [r \in Built |-> wasm],
               [r \in Built |-> [k \in 1..(at[r] - 1) |-> measured[r][Packages[k]]]]>>
    BY UncachedStep DEF View, InvView, BuildsView, MeasuredView, Ids
  <1> QED
    BY <1>1, <1>2, <1>3, UncachedInit, PTL
    DEF Spec, ImplementsUncached, Uncached!Spec, Uncached!vars
=============================================================================

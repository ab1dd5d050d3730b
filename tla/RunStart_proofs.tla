-------------------------- MODULE RunStart_proofs --------------------------
(***************************************************************************)
(* Proofs about RunStart, for any command lines, machines and contents of  *)
(* budget.toml: the network guard cannot be got round but by an override,  *)
(* a run has one source for each of its settings, and its exit codes mean  *)
(* what CI takes them for.                                                 *)
(*                                                                         *)
(* The invariant says how far a run has come and what it has settled by    *)
(* then; nothing that happens to budget.toml afterwards unsettles it.      *)
(***************************************************************************)
EXTENDS RunStart, TLAPS

Under == {"run", "write", "fill", "load", "resolve", "target", "started"}

\* The keys of a file that came from an editor or from the tool.
Keys == {f.keys : f \in Beginnings} \cup {c.keys : c \in Contents}

Called ==
  /\ pc \in Under => args \in Invocations /\ ~Refused(args)
  /\ pc \in {"write", "fill"} => args.init
  /\ pc \in Under \ {"run", "write", "fill"} => ~Offline(args)

Warned ==
  pc \in {"load", "resolve", "target", "started"} /\ ~args.quiet /\ ~args.replay =>
    warned = Deviations(world.manifest)

Configured ==
  pc \in {"resolve", "target", "started"} => config \in Keys /\ Deserializes(config.tolerance)

Policed ==
  pc \in {"target", "started"} =>
    /\ ~PolicyFails
    /\ policy = [tolerance |-> ResolvedTolerance, attempts |-> ResolvedAttempts]

Targeted ==
  pc = "started" =>
    /\ target = [network |-> Label, source |-> Source]
    /\ ~TargetFails

IInv ==
  /\ pc \in {"idle", "exited"} \cup Under
  /\ toml.keys \in Keys
  /\ Called
  /\ Warned
  /\ Configured
  /\ Policed
  /\ Targeted

LEMMA KeysAre == \A k \in Keys : IsBudgetToml(k)
  <1>1. IsBudgetToml(Defaults)
    BY DEF Defaults, IsBudgetToml
  <1>2. /\ DOMAIN Template = DOMAIN Defaults
        /\ Template.attempts = None /\ Template.tolerance = None
    BY DEF Template, Defaults
  <1>3. IsBudgetToml(Template)
    BY <1>2 DEF IsBudgetToml
  <1>4. ASSUME NEW f \in Beginnings PROVE IsBudgetToml(f.keys)
    <2> DEFINE named == [Defaults EXCEPT !.network = "testnet"]
    <2>1. /\ DOMAIN named = DOMAIN Defaults
          /\ named.attempts = None /\ named.tolerance = None
      BY DEF Defaults
    <2>2. IsBudgetToml(named)
      BY <2>1 DEF IsBudgetToml
    <2>3. f.keys \in {Defaults, named, Template}
      BY DEF Beginnings, Blank, File
    <2> QED
      BY <1>1, <1>3, <2>2, <2>3
  <1> QED
    BY <1>4, ContentsAssumption DEF Keys

Parts == Called /\ Warned /\ Configured /\ Policed /\ Targeted

LEMMA NotUnder ==
  ASSUME pc \notin Under
  PROVE  Parts
  BY DEF Parts, Called, Warned, Configured, Policed, Targeted, Under

LEMMA FilesHaveKeys ==
  /\ NoFile.keys \in Keys /\ Blank.keys \in Keys /\ File("keys", Template).keys \in Keys
  /\ \A c \in Contents : c.keys \in Keys
  /\ \A f \in Beginnings : f.keys \in Keys
  <1>1. NoFile.keys = Blank.keys
    BY DEF NoFile, Blank, File
  <1>2. {Blank, File("keys", Template)} \subseteq Beginnings
    BY DEF Beginnings
  <1> QED
    BY <1>1, <1>2 DEF Keys

LEMMA IInvInit == Init => IInv
  <1>1. ASSUME Init PROVE pc \notin Under
    BY <1>1 DEF Init, Under
  <1> QED
    BY <1>1, NotUnder, FilesHaveKeys DEF Init, IInv, Parts

\* Leaving the run, whatever for.
LEMMA ExitStep ==
  ASSUME IInv, pc' \in {"idle", "exited"}, toml'.keys \in Keys
  PROVE  IInv'
  <1>1. (pc \notin Under)'
    BY DEF Under
  <1>2. Parts'
    BY <1>1 DEF Parts, Called, Warned, Configured, Policed, Targeted, Under
  <1> QED
    BY <1>2 DEF IInv, Parts

\* budget.toml changes, and nothing the run has settled.
LEMMA SettledStep ==
  ASSUME IInv, toml'.keys \in Keys,
         UNCHANGED <<pc, args, world, config, policy, warned, target>>
  PROVE  IInv'
  <1>1. Called' /\ Warned' /\ Configured'
    BY DEF IInv, Called, Warned, Configured, Deserializes, Parses
  <1>2. Policed'
    BY DEF IInv, Policed, PolicyFails, ResolvedTolerance, ResolvedAttempts
  <1>3. Targeted'
    BY DEF IInv, Targeted, Label, Source, Override, TargetFails, DeployAllowed,
           PassphraseOf, HasEndpoint
  <1> QED
    BY <1>1, <1>2, <1>3 DEF IInv

LEMMA IInvStep == IInv /\ [Next]_vars => IInv'
  <1> SUFFICES ASSUME IInv, [Next]_vars PROVE IInv'
    OBVIOUS
  <1> USE DEF At, Goto, Exit, Fail
  <1>1. ASSUME NEW a \in Invocations, NEW w \in Worlds, Call(a, w) PROVE IInv'
    <2>1. CASE Refused(a)
      BY <1>1, <2>1, ExitStep DEF Call, IInv
    <2>2. CASE ~Refused(a)
      BY <1>1, <2>2 DEF Call, IInv, Called, Warned, Configured, Policed, Targeted, Under
    <2> QED
      BY <2>1, <2>2
  <1>2. CASE InitRefused \/ DerivesLimits \/ RendersReport \/ NoTerminal
    <2>1. pc' = "exited" /\ toml' = toml
      BY <1>2 DEF InitRefused, DerivesLimits, RendersReport, NoTerminal
    <2> QED
      BY <2>1, ExitStep DEF IInv
  <1>3. CASE InitFails \/ End
    <2>1. toml'.keys \in Keys
      BY <1>3, FilesHaveKeys DEF InitFails, End, IInv
    <2> QED
      BY <1>3, <2>1, ExitStep DEF InitFails, End
  <1>4. CASE InitFills
    BY <1>4, ExitStep, FilesHaveKeys DEF InitFills
  <1>5. CASE InitChecked \/ InitTruncates
    BY <1>5, FilesHaveKeys
    DEF InitChecked, InitTruncates, IInv, Called, Warned, Configured, Policed, Targeted, Under
  <1>6. CASE Preflight
    <2>1. CASE pc' = "exited"
      BY <1>6, <2>1, ExitStep DEF Preflight, IInv
    <2>2. CASE pc' # "exited"
      <3>1. pc = "run" /\ pc' = "load" /\ ~Offline(args) /\ UNCHANGED <<toml, args, world>>
        BY <1>6, <2>2 DEF Preflight, Measures
      <3>2. ~args.quiet /\ ~args.replay => warned' = Deviations(world.manifest)
        BY <1>6 DEF Preflight
      <3>3. Warned'
        BY <3>1, <3>2 DEF Warned, Deviations
      <3> QED
        BY <3>1, <3>3 DEF IInv, Called, Configured, Policed, Targeted, Under
    <2> QED
      BY <2>1, <2>2
  <1>7. CASE Load
    <2>1. CASE pc' = "exited"
      BY <1>7, <2>1, ExitStep DEF Load, IInv
    <2>2. CASE pc' # "exited"
      <3>1. pc' = "resolve" /\ config' = toml.keys /\ pc = "load"
            /\ UNCHANGED <<toml, args, world, warned>>
        BY <1>7, <2>2 DEF Load, Loaded
      <3>2. Deserializes(toml.keys.tolerance)
        <4>1. LoadError = None
          BY <1>7, <2>2 DEF Load
        <4>2. "Io" # None /\ "Toml" # None
          BY NoneAssumption DEF ExitCode
        <4>3. CASE ~Deserializes(toml.keys.tolerance)
          <5>1. LoadError \in {"Io", "Toml"}
            BY <4>3 DEF LoadError
          <5> QED
            BY <4>1, <4>2, <5>1
        <4> QED
          BY <4>3
      <3>3. Configured'
        BY <3>1, <3>2 DEF IInv, Configured, Deserializes, Parses
      <3> QED
        BY <3>1, <3>3 DEF IInv, Called, Warned, Policed, Targeted, Under
    <2> QED
      BY <2>1, <2>2
  <1>8. CASE Resolve
    <2>1. CASE pc' = "exited"
      BY <1>8, <2>1, ExitStep DEF Resolve, IInv
    <2>2. CASE pc' # "exited"
      <3>1. pc' = "target" /\ ~PolicyFails /\ pc = "resolve"
            /\ policy' = [tolerance |-> ResolvedTolerance, attempts |-> ResolvedAttempts]
            /\ UNCHANGED <<toml, args, world, config, warned>>
        BY <1>8, <2>2 DEF Resolve
      <3>2. Policed'
        BY <3>1 DEF Policed, PolicyFails, ResolvedTolerance, ResolvedAttempts
      <3> QED
        BY <3>1, <3>2 DEF IInv, Called, Warned, Configured, Targeted, Under
    <2> QED
      BY <2>1, <2>2
  <1>9. CASE Target
    <2>1. CASE pc' = "exited"
      BY <1>9, <2>1, ExitStep DEF Target, IInv
    <2>2. CASE pc' # "exited"
      <3>1. pc' = "started" /\ ~TargetFails /\ pc = "target"
            /\ target' = [network |-> Label, source |-> Source]
            /\ UNCHANGED <<toml, args, world, config, policy, warned>>
        BY <1>9, <2>2 DEF Target
      <3>2. Policed'
        BY <3>1 DEF IInv, Policed, PolicyFails, ResolvedTolerance, ResolvedAttempts
      <3>3. Targeted'
        BY <3>1 DEF Targeted, Label, Source, Override, TargetFails, DeployAllowed,
                    PassphraseOf, HasEndpoint
      <3> QED
        BY <3>1, <3>2, <3>3 DEF IInv, Called, Warned, Configured, Under
    <2> QED
      BY <2>1, <2>2
  <1>10. ASSUME NEW c \in Contents, Edit(c) PROVE IInv'
    BY <1>10, SettledStep, FilesHaveKeys DEF Edit
  <1>11. CASE UNCHANGED vars
    BY <1>11, SettledStep DEF vars, IInv
  <1> QED
    BY <1>1, <1>2, <1>3, <1>4, <1>5, <1>6, <1>7, <1>8, <1>9, <1>10, <1>11 DEF Next

LEMMA IInvAlways == Spec => []IInv
  BY IInvInit, IInvStep, PTL DEF Spec

----------------------------------------------------------------------------
(* What the invariant gives. *)

\* Without an override, what a run deploys to is what the guard judged.
THEOREM GuardHolds == Spec => []ConsentUnlessOverridden
  <1>1. IInv => ConsentUnlessOverridden
    <2> SUFFICES ASSUME IInv, pc = "started", ~Override, ~Disposable(DeploysTo)
                 PROVE  args.allow_mainnet
      BY DEF ConsentUnlessOverridden, Live
    <2>1. Label # None /\ DeployAllowed(Label) /\ target.network = Label
      BY DEF IInv, Targeted, TargetFails
    <2>2. DeploysTo = PassphraseOf(Label)
      BY <2>1 DEF DeploysTo
    <2> QED
      BY <2>1, <2>2 DEF DeployAllowed
  <1> QED
    BY <1>1, IInvAlways, PTL

\* The attempts a run has resolved are a number, and not none at all.
LEMMA AttemptsResolved ==
  ASSUME IInv, pc = "started"
  PROVE  ResolvedAttempts \in Nat /\ ResolvedAttempts >= 1
  <1>1. args.attempts = None \/ args.attempts \in Nat
    BY InvocationsAssumption DEF IInv, Called, Under, HasTransportFlags
  <1>2. config.attempts = None \/ config.attempts \in Nat
    BY KeysAre DEF IInv, Configured, IsBudgetToml
  <1>3. ResolvedAttempts \in Nat
    BY <1>1, <1>2 DEF ResolvedAttempts, Prefer
  <1>4. ResolvedAttempts # 0
    BY DEF IInv, Policed, PolicyFails
  <1> QED
    BY <1>3, <1>4

\* A run that measures does so under the settings of its flags and of the
\* budget.toml it loaded, whatever became of the file since.
THEOREM ConfiguredOnce == Spec => []StartedAsConfigured
  <1>1. IInv => StartedAsConfigured
    <2> SUFFICES ASSUME IInv, pc = "started" PROVE StartedAsConfigured
      BY DEF StartedAsConfigured
    <2>1. /\ target.network = Label /\ target.source = Source
          /\ Label # None /\ Source # None
      BY DEF IInv, Targeted, TargetFails
    <2>2. /\ policy.tolerance = ResolvedTolerance /\ policy.attempts = ResolvedAttempts
          /\ ~PolicyFails
      BY DEF IInv, Policed
    <2>3. policy.attempts >= 1
      BY <2>2, AttemptsResolved
    <2>4. ~args.quiet /\ ~args.replay =>
            \A k \in ReleaseSettings \ warned :
              k \in DOMAIN world.manifest /\ world.manifest[k] = "measured"
      BY DEF IInv, Warned, Deviations
    <2>5. args.rpc # None => args.phrase # None
      BY DEF IInv, Called, Under, Refused
    <2>6. FromFirst(Label, args.network, config.network,
                    IF args.rpc # None /\ ~args.watch THEN args.phrase ELSE None)
      BY <2>5 DEF Label, Override, Prefer, FromFirst
    <2>7. FromFirst(Source, args.source, config.source, None)
      BY DEF Source, Prefer, FromFirst
    <2>8. FromFirst(ResolvedTolerance, args.tolerance,
                    IF config.tolerance = None THEN None ELSE config.tolerance.raw, "10%")
      BY DEF ResolvedTolerance, Prefer, FromFirst
    <2>9. FromFirst(ResolvedAttempts, args.attempts, config.attempts, 4)
      BY DEF ResolvedAttempts, Prefer, FromFirst
    <2>10. /\ args.tolerance # None => Parses(args.tolerance)
           /\ config.tolerance # None => config.tolerance.number \/ Parses(config.tolerance.raw)
      BY <2>2 DEF PolicyFails, IInv, Configured, Deserializes
    <2> QED
      BY <2>1, <2>2, <2>3, <2>4, <2>6, <2>7, <2>8, <2>9, <2>10 DEF StartedAsConfigured
  <1> QED
    BY <1>1, IInvAlways, PTL

\* A failed check is an error of the user's, or a broken machine; a missing
\* stellar is found before any other tool is looked at.
LEMMA PreflightCode ==
  ASSUME NEW i \in Failing, FirstFailing(i)
  PROVE  /\ ExitCode[Checks[i].error] \in {1, 6}
         /\ ExitCode[Checks[i].error] = 6 => Broken(world) /\ world.stellar # "missing"
  <1>1. DOMAIN Checks = 1..7
    BY DEF Checks
  <1>2. i \in 1..7 /\ Checks[i].fails
    BY <1>1 DEF Failing
  <1>3. /\ Checks[1].error = "Message" /\ Checks[2].error = "Message"
        /\ Checks[5].error = "Message" /\ Checks[6].error = "Message"
        /\ Checks[3].error = "CommandFailed" /\ Checks[4].error = "CommandFailed"
        /\ Checks[7].error = "CommandFailed"
    BY DEF Checks
  <1>4. CASE i \in {1, 2, 5, 6}
    <2>1. Checks[i].error = "Message"
      BY <1>4, <1>3
    <2> QED
      BY <2>1 DEF ExitCode
  <1>5. CASE i \in {3, 4, 7}
    <2>1. Checks[i].error = "CommandFailed"
      BY <1>5, <1>3
    <2>2. Broken(world)
      <3>1. CASE i = 3
        BY <1>2, <3>1 DEF Checks, Broken
      <3>2. CASE i = 4
        BY <1>2, <3>2 DEF Checks, Broken
      <3>3. CASE i = 7
        BY <1>2, <3>3 DEF Checks, Broken
      <3> QED
        BY <1>5, <3>1, <3>2, <3>3
    <2>3. world.stellar # "missing"
      <3> SUFFICES ASSUME world.stellar = "missing" PROVE FALSE
        OBVIOUS
      <3>1. Checks[2].fails
        BY DEF Checks
      <3>2. 2 \in Failing
        BY <1>1, <3>1 DEF Failing
      <3> QED
        BY <1>5, <3>2 DEF FirstFailing
    <2> QED
      BY <2>1, <2>2, <2>3 DEF ExitCode
  <1> QED
    BY <1>2, <1>4, <1>5

CodeIsRight ==
  pc' = "exited" /\ pc # "exited" =>
    /\ code' = 2 <=> Refused(args')
    /\ code' = 6 => ComesToTools /\ Broken(world) /\ world.stellar # "missing"
    /\ ComesToTools /\ Missing(world) => code' = 1 \/ Broken(world)
    /\ code' = 3 /\ ~Derives(args) =>
         IF Offline(args) THEN ~SchemaAccepted ELSE LoadError = "Toml"
    /\ code' = 0 => Offline(args)

\* 2 is clap's, 6 a broken machine's, 3 an unreadable file's, and 0 is never a
\* measuring run that did not measure, for every step of every run.
THEOREM CodesAreRight == Spec => CodeNamesTheFault
  <1>1. IInv /\ [Next]_vars => [CodeIsRight]_vars
    <2> SUFFICES ASSUME IInv, Next, pc' = "exited", pc # "exited"
                 PROVE  CodeIsRight
      BY DEF CodeIsRight, vars
    <2> USE DEF At, Goto, Exit, Fail, ComesToTools
    <2>1. ASSUME NEW a \in Invocations, NEW w \in Worlds, Call(a, w) PROVE CodeIsRight
      BY <2>1 DEF Call, CodeIsRight
    <2>2. pc \in Under => ~Refused(args)
      BY DEF IInv, Called
    <2>3. /\ ExitCode["Message"] = 1 /\ ExitCode["Io"] = 1
          /\ ExitCode["Json"] = 3 /\ ExitCode["Toml"] = 3
      BY DEF ExitCode
    <2>4. CASE InitRefused \/ InitFails \/ NoTerminal \/ Resolve \/ Target
      <3>1. pc \in Under /\ code' = 1 /\ UNCHANGED args
        BY <2>3, <2>4 DEF InitRefused, InitFails, NoTerminal, Resolve, Target, Contextual, Under
      <3> QED
        BY <2>2, <3>1 DEF CodeIsRight
    <2>5. CASE InitFills
      <3>1. pc = "fill" /\ code' = 0 /\ UNCHANGED args
        BY <2>5 DEF InitFills
      <3>2. args.init
        BY <3>1 DEF IInv, Called
      <3> QED
        BY <2>2, <3>1, <3>2 DEF CodeIsRight, Under, Offline
    <2>6. LoadError \in {"Io", "Toml", None}
      BY DEF LoadError
    <2>7. CASE DerivesLimits
      <3>1. pc = "run" /\ Derives(args) /\ code' \in {0, 1, 3} /\ UNCHANGED args
        BY <2>3, <2>6, <2>7 DEF DerivesLimits
      <3> QED
        BY <2>2, <3>1 DEF CodeIsRight, Under, Offline
    <2>8. CASE RendersReport
      <3>1. pc = "run" /\ Renders(args) /\ ~Derives(args) /\ UNCHANGED args
            /\ code' \in {0, 1, 3} /\ (code' = 3 => ~SchemaAccepted)
        BY <2>3, <2>8 DEF RendersReport
      <3> QED
        BY <2>2, <3>1 DEF CodeIsRight, Under, Offline
    <2>9. CASE Preflight
      <3>1. PICK i \in Failing : FirstFailing(i) /\ code' = ExitCode[Checks[i].error]
        BY <2>9 DEF Preflight
      <3>2. ComesToTools /\ UNCHANGED args
        BY <2>9 DEF Preflight, Measures
      <3> QED
        BY <2>2, <3>1, <3>2, PreflightCode DEF CodeIsRight, Under
    <2>10. CASE Load
      <3>1. pc = "load" /\ UNCHANGED args /\ LoadError # None /\ code' = ExitCode[LoadError]
        BY <2>10 DEF Load
      <3>2. ~Offline(args)
        BY <3>1 DEF IInv, Called, Under
      <3> QED
        BY <2>2, <2>3, <2>6, <3>1, <3>2 DEF CodeIsRight, Under
    <2>11. CASE InitChecked \/ InitTruncates \/ End
      BY <2>11 DEF InitChecked, InitTruncates, End
    <2>12. ASSUME NEW c \in Contents, Edit(c) PROVE CodeIsRight
      BY <2>12 DEF Edit
    <2> QED
      BY <2>1, <2>4, <2>5, <2>7, <2>8, <2>9, <2>10, <2>11, <2>12 DEF Next
  <1> QED
    BY <1>1, IInvAlways, PTL DEF Spec, CodeNamesTheFault, CodeIsRight

=============================================================================

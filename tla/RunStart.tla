------------------------------ MODULE RunStart ------------------------------
(***************************************************************************)
(* What cargo budget-report does before it measures anything: it parses    *)
(* its flags, leaves for the modes that need no network, checks the tools  *)
(* it will call, loads budget.toml, resolves its settings, asks the        *)
(* network guard for leave to deploy, and picks its transport.  Runs       *)
(* follow one another in one workspace; budget.toml may be edited under    *)
(* any of them, and any of them may be killed.                             *)
(*                                                                         *)
(* A network is named as the command line names it: an alias, or a         *)
(* passphrase.  The passphrases of the public networks are "Public",       *)
(* "Test", "Future" and "Standalone"; any other is a private network's.    *)
(***************************************************************************)
EXTENDS Naturals, Sequences, FiniteSets

CONSTANTS
  Invocations,   \* the command lines in use
  Contents,      \* what an editor may leave in budget.toml
  Worlds,        \* the machines the tool runs on
  Passphrases,   \* the network passphrases in use
  None           \* no file, no flag, no value

ASSUME PassphrasesAssumption == {"Public", "Test", "Future", "Standalone"} \subseteq Passphrases

VARIABLES
  toml,     \* budget.toml: missing, blank, malformed, or its keys
  pc,       \* where run() is
  args,     \* the flags of the run
  world,    \* the machine of the run
  config,   \* budget.toml as the run has loaded it
  policy,   \* the tolerance and the attempts the run has resolved
  warned,   \* the release settings the run has warned about
  target,   \* the network label and the source account
  code      \* the exit code

vars == <<toml, pc, args, world, config, policy, warned, target, code>>

----------------------------------------------------------------------------
(* Errors: main() exits with the code of the variant run() returns. *)

ExitCode == [Toml |-> 3, Json |-> 3, CommandFailed |-> 6, Message |-> 1, Io |-> 1]
ASSUME NoneAssumption == None \notin DOMAIN ExitCode

\* From<anyhow::Error>: .context(..) and bail! lose the variant.
Contextual(error) == "Message"

----------------------------------------------------------------------------
(* Command line. *)

\* BudgetReportArgs: the flags this module tells apart.
HasReportFlags(a) ==
  /\ {a.init, a.force, a.allow_mainnet, a.json, a.csv, a.markdown, a.quiet} \subseteq BOOLEAN
  /\ a.network = None \/ a.network \in STRING
  /\ a.source = None \/ a.source \in STRING
HasDeriveFlags(a) == a.from \in BOOLEAN /\ DOMAIN a.baseline = {"derive", "record", "check"}
HasTransportFlags(a) ==
  /\ {a.record, a.replay, a.watch} \subseteq BOOLEAN
  /\ a.attempts = None \/ a.attempts \in Nat
  /\ a.phrase = None \/ a.phrase \in Passphrases

ASSUME InvocationsAssumption ==
  \A a \in Invocations : HasReportFlags(a) /\ HasDeriveFlags(a) /\ HasTransportFlags(a)

\* conflicts_with and requires: clap refuses these before run() begins.
Refused(a) ==
  \/ a.json /\ a.csv
  \/ Cardinality({m \in {"derive", "record", "check"} : a.baseline[m]}) > 1
  \/ a.record /\ a.replay
  \/ a.rpc # None /\ a.phrase = None

\* Mode::from_args; --init comes before it.
Derives(a) == a.baseline["derive"]
Renders(a) == a.markdown /\ a.from
Offline(a) == a.init \/ Derives(a) \/ Renders(a)

----------------------------------------------------------------------------
(* budget.toml. *)

\* BudgetToml::default()
Defaults == [network |-> None, source |-> None, tolerance |-> None, attempts |-> None]

\* The keys of BudgetToml that are not about functions.
IsBudgetToml(keys) ==
  /\ DOMAIN keys = DOMAIN Defaults
  /\ keys.attempts = None \/ keys.attempts \in Nat
  /\ keys.tolerance # None => keys.tolerance.number \in BOOLEAN

ASSUME ContentsAssumption == \A c \in Contents : IsBudgetToml(c.keys)

\* The file; what its comments and blank lines amount to is a blank one.
File(form, keys) == [form |-> form, keys |-> keys]
NoFile == File("missing", Defaults)
Blank == File("blank", Defaults)

\* BUDGET_TOML_TEMPLATE: every other key is commented out.
Template == [Defaults EXCEPT !.network = "testnet", !.source = "alice"]

\* The beginnings of the template, which names the network first: none of it, or
\* comments; a line that is cut; the network; or all of the keys.
Beginnings ==
  {Blank, File("malformed", Defaults), File("keys", [Defaults EXCEPT !.network = "testnet"]),
   File("keys", Template)}

\* parse_tolerance: a number or a percentage, finite and not negative.
Parses(raw) == raw \in {"5%", "0.05"}

\* deserialize_tolerance: a string is parsed like the flag, a number is kept
\* whatever it is.
Deserializes(t) == t # None => t.number \/ Parses(t.raw)

\* load_budget_toml: no file, or one of comments alone, is the default; one
\* that is there and cannot be read is not.
LoadError ==
  IF toml.form = "denied" THEN "Io"
  ELSE IF toml.form = "malformed" \/ ~Deserializes(toml.keys.tolerance) THEN "Toml"
  ELSE None
Loaded == toml.keys

\* Fault: the file wins over the flag.
FileFirst(flag, key, default) ==
  IF key # None THEN key ELSE IF flag # None THEN flag ELSE default

\* A flag wins over its key, the key over the default.
Prefer(flag, key, default) ==
  IF flag # None THEN flag ELSE IF key # None THEN key ELSE default

\* resolve_tolerance, resolve_retry_config
ResolvedTolerance ==
  Prefer(args.tolerance, IF config.tolerance = None THEN None ELSE config.tolerance.raw, "10%")
ResolvedAttempts == Prefer(args.attempts, config.attempts, 4)

PolicyFails == (args.tolerance # None /\ ~Parses(args.tolerance)) \/ ResolvedAttempts = 0

----------------------------------------------------------------------------
(* Networks. *)

\* classify: an alias, or a passphrase that is matched as a whole.
Classify(n) ==
  CASE n \in {"testnet", "Test"} -> "Testnet"
    [] n \in {"futurenet", "Future"} -> "Futurenet"
    [] n \in {"local", "Standalone"} -> "Local"
    [] n \in {"mainnet", "Public"} -> "Mainnet"
    [] OTHER -> "Unknown"

Disposable(n) == Classify(n) \in {"Testnet", "Futurenet", "Local"}

\* resolve_passphrase_in: the first root of the Stellar configuration whose
\* file for this alias holds a passphrase ("blank" is a file without one).
PassphraseOf(n) ==
  LET holds == {i \in DOMAIN world.roots :
                  n \in DOMAIN world.roots[i] /\ world.roots[i][n] # "blank"}
  IN IF n \in Passphrases \/ holds = {} THEN n
     ELSE world.roots[CHOOSE i \in holds : \A j \in holds : i <= j][n]

\* Fault: what the alias is called decides.
AllowedBySpelling(n) == Disposable(n) \/ args.allow_mainnet

\* ensure_deploy_allowed
DeployAllowed(n) == Disposable(PassphraseOf(n)) \/ args.allow_mainnet

\* net_override: both flags, or neither.
Override == args.rpc # None /\ args.phrase # None

\* resolve_rpc_url: an override, or the built-in endpoint of an alias as it
\* is spelled, the Stellar configuration notwithstanding.
HasEndpoint(n) == Override \/ n \in {"testnet", "futurenet", "local", "mainnet"}

\* The label a run targets; a watched run has no passphrase to fall back on.
Label ==
  Prefer(args.network, config.network, IF Override /\ ~args.watch THEN args.phrase ELSE None)
Source == Prefer(args.source, config.source, None)

\* network_cli_args: what the deployments of the run reach.  The Stellar CLI
\* resolves a label with its own configuration.
DeploysTo == IF Override THEN args.phrase ELSE PassphraseOf(target.network)

----------------------------------------------------------------------------
(* Preflight. *)

\* Each check of run_preflight_checks with the error of its failure, in the
\* order they are made; a machine without rustup skips its check.
Checks == <<
  [fails |-> args.secret = "invalid", error |-> "Message"],
  [fails |-> world.stellar = "missing", error |-> "Message"],
  [fails |-> world.stellar = "failing", error |-> "CommandFailed"],
  [fails |-> world.rustup = "failing", error |-> "CommandFailed"],
  [fails |-> world.rustup = "no target", error |-> "Message"],
  [fails |-> world.curl = "missing", error |-> "Message"],
  [fails |-> world.curl = "failing", error |-> "CommandFailed"]>>

Failing == {i \in DOMAIN Checks : Checks[i].fails}
FirstFailing(i) == i \in Failing /\ \A j \in Failing : i <= j

\* The settings a measurement is comparable under.
ReleaseSettings == {"opt-level", "lto", "codegen-units", "panic", "strip", "debug",
                    "debug-assertions", "overflow-checks"}

\* release_profile_deviations: a setting that differs, or is not there.
Deviations(manifest) ==
  {k \in ReleaseSettings : k \notin DOMAIN manifest \/ manifest[k] # "measured"}

----------------------------------------------------------------------------
(* A run. *)

Unset == [tolerance |-> None, attempts |-> None]
NoTarget == [network |-> None, source |-> None]

Init ==
  /\ toml = NoFile
  /\ pc = "idle"
  /\ args = None
  /\ world = None
  /\ config = Defaults
  /\ policy = Unset
  /\ warned = {}
  /\ target = NoTarget
  /\ code = 0

Exit(c) == pc' = "exited" /\ code' = c
Fail(error) == Exit(ExitCode[error])
At(p) == pc = p
Goto(p) == pc' = p /\ UNCHANGED code

\* The tool is called, by cargo or directly: normalized_argv inserts the
\* subcommand's name where it lacks.
Call(a, w) ==
  /\ pc = "idle"
  /\ args' = a /\ world' = w
  /\ IF Refused(a) THEN Exit(2) ELSE Goto("run")
  /\ UNCHANGED <<toml, config, policy, warned, target>>

\* scaffold_init looks for the file ...
InitRefused ==
  /\ At("run") /\ args.init
  /\ toml # NoFile /\ ~args.force
  /\ Fail("Message")
  /\ UNCHANGED <<toml, args, world, config, policy, warned, target>>

InitChecked ==
  /\ At("run") /\ args.init
  /\ toml = NoFile \/ args.force
  /\ Goto("write")
  /\ UNCHANGED <<toml, args, world, config, policy, warned, target>>

\* ... and fs::write empties it before it fills it.
InitTruncates ==
  /\ At("write")
  /\ toml' = Blank
  /\ Goto("fill")
  /\ UNCHANGED <<args, world, config, policy, warned, target>>

InitFills ==
  /\ At("fill")
  /\ toml' = File("keys", Template)
  /\ Exit(0)
  /\ UNCHANGED <<args, world, config, policy, warned, target>>

\* The file cannot be opened, or the disk is full before all of it is there.
InitFails ==
  /\ \/ At("write") /\ UNCHANGED toml
     \/ At("fill") /\ toml' \in Beginnings
  /\ Fail("Message")
  /\ UNCHANGED <<args, world, config, policy, warned, target>>

\* --derive-limits: what run_derive_mode does is the module TierA.
DerivesLimits ==
  /\ At("run") /\ ~args.init /\ Derives(args)
  /\ IF LoadError # None THEN Fail(LoadError)
     ELSE Exit(0) \/ \E error \in {"Message", "Json", "Io"} : Fail(error)
  /\ UNCHANGED <<toml, args, world, config, policy, warned, target>>

\* validate_report_schema: a bare array, or an envelope of a known version.
SchemaAccepted == world.report \in {"bare", "wrapped"}

\* --markdown --from: load_cost_reports reads a report, which is printed.
RendersReport ==
  /\ At("run") /\ ~args.init /\ ~Derives(args) /\ Renders(args)
  /\ CASE world.report = "missing" -> Fail("Message")
       [] SchemaAccepted -> Exit(0)
       [] OTHER -> Fail("Json")
  /\ UNCHANGED <<toml, args, world, config, policy, warned, target>>

\* ensure_terminal
NoTerminal ==
  /\ At("run") /\ ~Offline(args)
  /\ args.watch /\ ~world.tty
  /\ Fail(Contextual("Message"))
  /\ UNCHANGED <<toml, args, world, config, policy, warned, target>>

Measures == At("run") /\ ~Offline(args) /\ (args.watch => world.tty)

\* Fault: a replayed run is checked like any other.
PreflightAlways ==
  /\ Measures
  /\ IF Failing # {} THEN \E i \in Failing : FirstFailing(i) /\ Fail(Checks[i].error)
     ELSE Goto("load")
  /\ warned' = IF args.quiet THEN {} ELSE Deviations(world.manifest)
  /\ UNCHANGED <<toml, args, world, config, policy, target>>

\* A replay needs no tools; otherwise the first check that fails ends the run.
\* The release profile is warned about before any of them.
Preflight ==
  /\ Measures
  /\ IF ~args.replay /\ Failing # {}
     THEN \E i \in Failing : FirstFailing(i) /\ Fail(Checks[i].error)
     ELSE Goto("load")
  /\ warned' = IF args.quiet \/ args.replay THEN {} ELSE Deviations(world.manifest)
  /\ UNCHANGED <<toml, args, world, config, policy, target>>

Load ==
  /\ At("load")
  /\ IF LoadError # None THEN Fail(LoadError) /\ UNCHANGED config
     ELSE config' = Loaded /\ Goto("resolve")
  /\ UNCHANGED <<toml, args, world, policy, warned, target>>

Resolve ==
  /\ At("resolve")
  /\ IF PolicyFails THEN Fail(Contextual("Message")) /\ UNCHANGED policy
     ELSE /\ policy' = [tolerance |-> ResolvedTolerance, attempts |-> ResolvedAttempts]
          /\ Goto("target")
  /\ UNCHANGED <<toml, args, world, config, warned, target>>

\* cargo metadata runs before the label is resolved in watch mode, and after
\* the endpoint otherwise; what goes wrong on the way is a Message all the same.
TargetFails ==
  \/ Label = None \/ Source = None
  \/ Label # None /\ (~DeployAllowed(Label) \/ ~HasEndpoint(Label))
  \/ ~world.cargo
  \/ args.replay /\ ~args.watch /\ ~world.fixture

Target ==
  /\ At("target")
  /\ IF TargetFails THEN Fail(Contextual("Message")) /\ UNCHANGED target
     ELSE target' = [network |-> Label, source |-> Source] /\ Goto("started")
  /\ UNCHANGED <<toml, args, world, config, policy, warned>>

\* The process ends: it has exited, it has measured (the modules MeasureRun,
\* RunReport and Watch), or it is killed wherever it is.
End ==
  /\ pc # "idle"
  /\ pc' = "idle" /\ code' = 0
  /\ args' = None /\ world' = None
  /\ config' = Defaults /\ policy' = Unset /\ warned' = {} /\ target' = NoTarget
  /\ UNCHANGED toml

\* Somebody edits, restores or deletes budget.toml, at any time.
Edit(c) ==
  /\ toml' = c
  /\ UNCHANGED <<pc, args, world, config, policy, warned, target, code>>

Next ==
  \/ \E a \in Invocations, w \in Worlds : Call(a, w)
  \/ InitRefused \/ InitChecked \/ InitTruncates \/ InitFills \/ InitFails
  \/ DerivesLimits \/ RendersReport
  \/ NoTerminal \/ Preflight \/ Load \/ Resolve \/ Target
  \/ End
  \/ \E c \in Contents : Edit(c)

Spec == Init /\ [][Next]_vars

----------------------------------------------------------------------------
(* Properties. *)

Live == pc = "started" /\ ~args.replay

\* A run that deploys to a network which is not a throwaway one was told
\* --allow-mainnet, whatever its alias is called and wherever the Stellar
\* configuration points it, unless it was given an endpoint and a passphrase
\* of its own: the gate of network_guard.rs, between the label it judges and
\* the network the deployments reach.
ConsentUnlessOverridden ==
  Live /\ ~Override /\ ~Disposable(DeploysTo) => args.allow_mainnet

Missing(w) == "missing" \in {w.stellar, w.curl}
Broken(w) == "failing" \in {w.stellar, w.rustup, w.curl}
ComesToTools == pc = "run" /\ ~Offline(args) /\ (args.watch => world.tty) /\ ~args.replay

\* What the exit codes tell CI apart before anything is measured: 2 is clap's
\* and nothing else's; 6, safe to retry, is a tool that is there and does not
\* work, and never a mode that needs none; 1 is a tool that is not there; 3 is a
\* file that cannot be read as what it is; and 0 is never a measuring run that
\* did not measure (main, run and run_preflight_checks).  For a missing stellar
\* the documents have 6 (error.rs:41, error.rs:65, ci_cd_integration.md:316):
\* here 6 is excluded, as in main.rs:1497.
CodeNamesTheFault ==
  [][pc' = "exited" /\ pc # "exited" =>
       /\ code' = 2 <=> Refused(args')
       /\ code' = 6 => ComesToTools /\ Broken(world) /\ world.stellar # "missing"
       /\ ComesToTools /\ Missing(world) => code' = 1 \/ Broken(world)
       /\ code' = 3 /\ ~Derives(args) =>
            IF Offline(args) THEN ~SchemaAccepted ELSE LoadError = "Toml"
       /\ code' = 0 => Offline(args)]_vars

\* A value comes from the first of its sources that says anything.
FromFirst(value, flag, key, default) ==
  \/ flag # None /\ value = flag
  \/ flag = None /\ key # None /\ value = key
  \/ flag = None /\ key = None /\ value = default

\* A run that measures has one source for each of its settings: the flag, else
\* the key of the one budget.toml it has loaded, however often that was edited
\* since, else the default, which is 10% of tolerance and 4 attempts, the
\* override's passphrase for the label unless the run watches, and nothing for
\* the account, without which no run gets here.  Its tolerance was validated
\* where it is text, it makes at least one attempt, and it has warned of every
\* release setting that makes its numbers incomparable (run, resolve_tolerance,
\* resolve_retry_config, warn_release_profile_deviations).
StartedAsConfigured ==
  pc = "started" =>
    /\ FromFirst(target.network, args.network, config.network,
                 IF args.rpc # None /\ ~args.watch THEN args.phrase ELSE None)
    /\ FromFirst(target.source, args.source, config.source, None)
    /\ target.network # None /\ target.source # None
    /\ FromFirst(policy.tolerance, args.tolerance,
                 IF config.tolerance = None THEN None ELSE config.tolerance.raw, "10%")
    /\ args.tolerance # None => Parses(args.tolerance)
    /\ config.tolerance # None => config.tolerance.number \/ Parses(config.tolerance.raw)
    /\ FromFirst(policy.attempts, args.attempts, config.attempts, 4)
    /\ policy.attempts >= 1
    /\ ~args.quiet /\ ~args.replay =>
         \A k \in ReleaseSettings \ warned :
           k \in DOMAIN world.manifest /\ world.manifest[k] = "measured"

=============================================================================

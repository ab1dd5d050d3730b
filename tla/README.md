# A TLA+ model of soroban-budget-assert

soroban-budget-assert keeps the resource costs of Soroban contracts under
budgets. `cargo budget-report` builds the contracts of a workspace, deploys them
to a test network and simulates every exported function (*Tier B*: what the
network charges). It compares the costs with limits and with a recorded
baseline, and its exit code gates CI. `--derive-limits` turns a Tier B report
into limits for local tests (*Tier A*), which the `#[budget_*]` macros assert.

The modules here are translated from that code. TLC checks them on small
instances; TLAPS proves most of their safety properties for every value of the
constants. `PROJECT.json` maps each definition to the lines it models, and lists
the runs, the mutants that show each property can fail, the theorems, the
hazards and the findings.

## The system

Paths are under `cargo-budget-report/src/` unless they say otherwise.

| Component | State | Operations | What is hard, and what must hold |
|---|---|---|---|
| Run start (`main.rs`, `cli/`, `network_guard.rs`) | flags, `budget.toml`, resolved settings, the target | refuse, leave for an offline mode, preflight, load, resolve, ask the guard, pick a transport | the order of refusals, edits and kills in between. No deployment without consent; an exit code names its fault |
| Measuring pool (`main.rs`, `run`) | prepared contracts, shared task counter, results, a transport behind a mutex | deploy with retries, claim, simulate, collect, join, drain in task order | interleaving of workers, transient errors, requests that never return. Every function once, in a sequential run's order; a record or replay transport has one user at a time |
| Transports (`live.rs`, `record.rs`, `replay.rs`, `transport.rs`) | network and RPC URL; captured or replayed responses | deploy, build invoke, simulate | each request must go where the run was told |
| Deploy cache (`deploy_cache.rs`) | `.budget-cache.toml`, a copy of it in each run | load, get, put, save | several runs, kills, edits; a file emptied before it is filled, loaded or saved by another run in between. Never measure another build, network or account; do not redeploy what is unchanged |
| Fixtures (`fixture.rs`) | the recorded responses | load, save, look up | a recording must replay |
| Report and exit codes (`main.rs`, `error.rs`) | measurements, rows, three flags | resolve limits, judge, finish a run in its mode | failures, breaches and mismatches in one run. Success means clean; "retry" hides nothing |
| Renderers (`json_output.rs`, `markdown.rs`, `html_output.rs`, `main.rs`) | none; the JSON document is read by later runs | choose a format, filter rows, wrap, read back | five renderers that each decide what they show. What is shown agrees with the exit code |
| Baseline and comparison (`compare.rs`) | the baseline file | record by write and rename, compare, render | kills between write and rename, failed simulations, hidden rows. A check judges against the last recording that was renamed into place, and shows why |
| Watch mode (`watch.rs`) | event channel, last measurements | filter, debounce, run a pass, show deltas | edits at any moment, its own builds' events, failing builds. No edit lost, no endless loop |
| Tier A derivation (`derive.rs`) | limits file and provenance sidecar, each with a `.tmp` | read a report, compute limits, replace two files | failure or kill between writes; partial reports. Files whole, the sidecar never ahead |
| Budget macros (`budget-macros/src/lib.rs`) | none of their own; the test's `Env`, the limit's sources | parse, expand, resolve a limit, assert on every exit path | free order of tokens; a source that differs between expansion and run. No test passes for want of a limit |
| Validation (`validate.rs`) | none | decode resources, compare with the CLI | a mismatch must reach the exit code |
| Core library (`src/src/`) | two cost trackers | record, look up, clear, convert, total, judge | both backends must agree; strict limits in four places |
| Pool contract (`amm-pool-contract/src/`) | reserves, shares, balances | initialize, deposit, swap, withdraw | rounding, drained pools. The subject of the macros' own tests |
| Diagnostics, man page, unused predicates | none | format | wording only |

**How they interact.** A run settles its flags, `budget.toml` and its target, builds
the packages, takes each contract's id from the deploy cache or its transport, and
hands the exported functions to the pool. The drained outcomes become rows, flags
and measurements, from which the mode (report, record, check) makes a file, an
output and an exit code. Watch mode is a loop around a pass of its own, without
cache and pool. A report written with `--json` is the input of `--markdown --from`
and of `--derive-limits`, whose output the macros read while tests run: runs,
derivations and tests share files and nothing else.

## Modules

Each component module has VARIABLES for the component's state, an action for each
step at which another actor, a failure or a kill can come in between, and its
properties at the end. An `MC` module gives the constants their values; a `.cfg`
names the instance; a `_proofs` module holds the theorems. Definitions introduced
as *mutant of X* or *fault* are not part of a specification: they are the plausible
bugs that the properties are shown to catch.

### RunStart: before anything is measured

`run` up to the first build, as a loop of runs in one workspace: `Call` parses the
command line (`Refused` is clap's `conflicts_with` and `requires`), `--init` writes
its template in two steps (`InitTruncates`, `InitFills`; a full disk leaves one of the
`Beginnings`), `DerivesLimits` and
`RendersReport` are the offline modes, then come `NoTerminal`, `Preflight`, `Load`,
`Resolve` and `Target`. `Fail(error)` exits with the code of the variant `run`
returns; what an `anyhow` context turns into `Message` exits 1. `Classify`,
`PassphraseOf` and `DeployAllowed` are the guard; `DeploysTo` is the network that
the `stellar` CLI reaches with the arguments it is then given. `End` also stands for
a kill, `Edit` for the editor of `budget.toml`.

### SequentialRun and MeasureRun: the pool

`SequentialRun` is the abstract specification, the promise in the comment above
the drain loop: contract by contract, function by function, one outcome each, and
a deploy that fails ends the run.

`MeasureRun` is `main.rs:2319-2646` with `run_with_retry`, `backoff_sleep` and
`worker_count`. `pc[t]` says where thread `t` is, `0` being the main thread;
`next_task` is the atomic counter, `holder` the transport's mutex, `collected` the
results in completion order. A request and its answer are two steps, and one
function may never be answered. `Claim` is `fetch_add` and the bounds test,
`TakeTransport` the lock or a live worker's own transport, `Push` the push,
`Drain` one turn of the drain loop over `FirstInTaskOrder`. `bound` is the field
`network` of the shared transport, which a deploy sets.

### UncachedRuns and DeployRuns: the deploy cache over many runs

Processes in one workspace start with some command line, build, load the cache,
hash each wasm, reuse or deploy, and save. A contract id is what was deployed:
the wasm, the network it *really* went to, and the account; a correct cache gives
ids that match the run's, and the model sees when it does not. The cache is the
set of its entries that can be read. A save is two steps, as `fs::write` is: after
`SaveTruncates` the file is `empty`, and `Save` fills it or `TornSave` leaves a part.
Between the two another process may `Load` nothing or a part, be in its own save, or
have filled the file, whose text is then overwritten only as far as the new one
reaches (`Parts`). `settled` and `base` are history: the networks and accounts whose
last save still holds, now and when a run loaded; a run that loads while somebody saves
has no such promise. `overlapped` is history too: two saves have been under way at
once, after which one package may have two entries for a network and an account.

`UncachedRuns` is the abstract specification, what the head of `deploy_cache.rs`
promises: a workspace in which every run deploys every package itself, to its own
network and with its own account, and in which runs share nothing but the sources.

### RunReport and ReportOutput: rows, flags, baseline, exit code, output

A run measures its packages in order (`todo` holds the positions that are left); the
outcomes of a package are any function from its exports to metrics or failure
(`MeasureRun` shows that the pool yields one for each). `has_errors`,
`checks_failed` and `validation_failed` are the code's flags, `code` the exit code.
`SectionOf`, `Ambiguous`, `LimitOf` and `ToleranceOf` are the lookups in
`budget.toml`. The baseline is replaced by rename (`WriteBaseline`, `RenameBaseline`)
before the run says so and returns (`RecordReturns`), and a kill may come between any
two of these.
`outcomes` and `recorded` are history.

`ReportOutput` extends it without an action: an output is a function of the state
in which a run returns and of the format flags. `Shown` is what a report prints,
`CsvLines` to `TableLines` the five renderers, `ShownOfNothing` the second copy of
some of them for a run that measured nothing; `render_json`,
`validate_report_schema` and `load_cost_reports` are the envelope and what reads it
back; `Compared`, `New`, `Stale` and the `render_report_*` definitions are what a
check prints.

### Watch: the event loop

`queue` is the watcher's channel. `Receive` and `Absorb` are the two receives of
the loop, `WindowEnds` the debounce deadline (any moment: time is not measured),
the others the stages of a pass. Packages are built when the pass comes to them,
so an edit may be in the build or too late for it. `running` and `pending` are
left out: the loop has one thread, which never finds `running` set.

### TierA: from a report to the local tests

`BeginDerive` reads the report, in which any metric of any function may be missing,
settles the margins and computes the limits, a scenario's metric by metric;
`StartWrite`, `FinishWrite` and `Rename` replace the env file and then the
sidecar, and `WriteFails` and `Kill` may come in between. `files` holds what is
there; `Torn` is a file that was truncated and not filled. `RefreshNetwork` is
the person who keeps the `NETWORK__*` lines, `Measure` a new report. A test runs
its assertions one after the other, and each reads the file anew. Files carry a
`stamp`, the header's timestamp; `sources` remembers what each derivation read.

### BudgetAttribute and BudgetTest: from an attribute to a verdict

`BudgetAttribute` is the recursive descent: `ParseLimit` (a literal, or `Sources`
in any order and then `Combine`; `Pct` and `AfterPct` for a percentage of another
limit), `ParseStandalone`, `ParseSpec` and `ParseScaling`. A parser takes tokens
and yields a value and what is left of them, or an error. The parsers' loops are
recursive functions of the number of tokens left, since each turn consumes some.

`BudgetTest` is the life of one test: `Write` puts an attribute together from pieces,
`Parse` parses it, `Expand` turns it into assertions (`Standalone` and `BudgetLt`
say which) in one world, after `ValidateEnvVars`; `Run` evaluates them in the
same or another world: `LimitAt` finds the limit, `Holds` compares the costs with
it. `MeasureSize`, `CheckScaling` and `ReturnFromBody` are the loop that
`budget_scaling` emits. `BudgetGrammar` says which attributes are sentences, apart
from any parser.

### Instrument: where the assertion goes

Test bodies are trees with what decides control: work, `return`, `?`, loops,
branches, bodies of their own (closures, async blocks, nested items), macro calls
that show their argument in their tokens or produce it. A part of a tree is a list of
statements, as a block is. What is defined along a tree is a function for each height
up to `Height`, made from the one below: `Trees` themselves, `Rewrites`, `Runs` and the
parts a visit meets (`Parts`). `Rewrite`, `MacroReturn` and `Instrument` are `ReturnRewriter` and `instrument_exit_paths` on such trees;
`ExpandBlock` and `ExpandMethod` are `expand_targets_inner` for the attributes of
an impl block and then of its methods, each on what the earlier ones emitted.
`Eval`, the reference, gives the ways in which a body may run: the trace of work and
assertions, and how it ends. What rustc then says
of the emitted tokens is outside the model: a body that ends in a `return` without
a semicolon may be refused when syn parses it again, so both outcomes are allowed;
and under two attributes the first one's `#[allow(unreachable_code)]` block is the
tail of what the second one binds in a `let`, where attributes are unstable.

### CostMap, CostLimits and CostTracker: the core library

`CostMap` is the abstract specification, the documentation of the trait
`StateTracker`: a map from operations to the last snapshot recorded. `CostTracker`
has both backends side by side, the scanned vector `linear` and the hash map
`hashed`, a caller who records, clears, converts and judges totals, and the
benchmark `compare_backends`, whose loops are the stages `Warmup`, `TimeLinear`,
`TimeHashed` and `TimeLookups`. `CostLimits` has the verdicts of `BudgetAssert` and
`BudgetBounds`. Totals are `u64`; beyond `MaxU64` they panic, as every profile of the
workspace checks overflow.

### AmmPool: the contract under test

`Deposit`, `Swap` and `Withdraw` are the contract's calls with the arithmetic of
`pool_logic.rs`; `DepositTraps`, `SwapFails`, `WithdrawFails`, `Reinitialize` and
`Uninitialized` are its errors and traps, after which the host has undone
everything. `\div` truncates as Rust's division does, and a result beyond
`MaxInt` traps. The contract rejects neither negative amounts nor a withdrawal of
more shares than there are; its callers make none, and neither does the model.

### Composition

`ReportOutput` composes the renderers with `RunReport`, `BudgetTest` the parser
with expansion and run, `BudgetGrammar` a grammar with what is parsed, `CostTracker`
the trackers with the verdicts. `MeasureRun` implements `SequentialRun`, `DeployRuns`
implements `UncachedRuns` and `CostTracker` implements `CostMap`. The other components
meet in files and in outcomes, and those meeting points are inputs that each module
leaves free: `RunStart` ends where `DeployRuns` and `MeasureRun`
begin, with a label, a source and a transport; `RunReport` takes any outcomes, of
which `MeasureRun` shows that there is one for each function; `TierA` takes any
report, in which a function that failed is missing, as `RunReport` leaves it out.

## Runs

| Run | Instance | What it shows |
|---|---|---|
| `run_start` | 127 command lines, 7 contents of `budget.toml`, 19 machines with at most one thing wrong | a run that deploys to a network that is no throwaway was told so, unless it brings an endpoint of its own (`ConsentUnlessOverridden`); label, account, tolerance and attempts are the flag's, else the loaded key's, else the default (`StartedAsConfigured`); exit codes name the fault whatever the order of the checks (`CodeNamesTheFault`) |
| `measure_run` | 2 contracts of 3 and 1 functions, 2 workers, 2 attempts, all transports, one function that may hang | `SimulatedOnce`, `NoneForgotten`, `OneUserOfSharedTransport`; the run implements `SequentialRun` (`ReportsSequentially`); it ends unless a request is never answered (`Terminates`); and a hanging function holds up nothing but its worker when transports are not shared (`NoHeadOfLineBlocking`) |
| `deploy_runs` | 2 processes (symmetric), a package of 2 builds, 2 networks with the cache and one of them without it too, kills, and saves of two steps that are torn, loaded in the middle or overlap | every run measures what it would without a cache, on contracts of its own build: `DeployRuns` implements `UncachedRuns` (`ImplementsUncached`); never on another network or account (`MeasuresOnThisNetwork`); a saved workspace is not deployed again by a run that loads while nobody saves, until an edit or a save that is cut short, mixed with another or made from an older copy (`UnchangedNotRedeployed`) |
| `run_report` | 2 packages that export the same name, 4 budget files, costs around a limit and a tolerance, every set of format flags | exit code 0 is clean, 6 hides nothing that a retry would reproduce, a check judges against the last recording that came as far as its rename, which each that returned did; every format shows a failing row exactly when the code is 4 (`OutputsTellTheExitCode`), JSON reads back (`ReportReadsBack`), and a comparison shows what it exits with, hidden rows counted (`ComparisonsAddUp`) |
| `watch` | 2 packages, 3 edits, 1 watcher error | numbers shown at rest are those of the sources and no pass is begun without an edit (`EditsAnswered`), the tool comes to rest (`Settles`) |
| `tier_a` | 2 functions in a scenario, 6 reports, 3 margins, 2 derivations, a test that asserts 2 metrics | files are whole after any failure, the sidecar never runs ahead, scenario limits relate to their parts, and a test passes only under a limit derived from a measurement of its subject, no older than the file it began with |
| `budget_test` | attributes of up to 5 pieces for the three parsers, worlds with a variable, a file and a config that are missing, unreadable, small and large | what is parsed is what was written (`ParsesTheGrammar`), what expansion can know it checks (`ExpansionForesees`), a test passes only below a limit that was found (`PassedWithinLimits`), a scaling test only with the growth it declares (`GrowthIsAsDeclared`) |
| `instrument` | 5,548 bodies of one or two statements three levels deep under one and two attributes; impl blocks of one or two methods with seven bodies | what is emitted runs as written and asserts once for each attribute on every exit but `?` and expanded returns (`AssertedOnEveryExit`); what is refused was written so (`RefusedAsWritten`) |
| `trackers` | 3 operations, sums that stay within, reach and exceed the largest `u64`, warmups below and above the benchmark's size | both backends answer alike (`SwapSafe`), are timed on the same work (`BenchIsFair`), and four verdicts agree at the limit (`VerdictsAgree`); the vector implements `CostMap` (`ImplementsMap`) |
| `amm_pool` | a type of 47 values, amounts 0, 1, 3 and 8, minimal outputs 0 and 2 | after any calls, up to overflow: the books agree, shares are backed by the reserves and are never worth less, nothing divides by zero under them |

Two runs show the code doing what a document or comment of the repository says it
does not; PROJECT.json quotes the lines.

| Run | What TLC finds |
|---|---|
| `simulate_network` | a live worker's transport never learns the network and simulates on the default one |
| `deploy_replays` | a replay stores its recorded id under the hash of a newer build; the next online run measures the old contract |

### Disagreements that no run is spent on

These were met while modelling. They can be read off the code or the models, so no
run shows them again; the models follow the code.

- The guard judges the *label* of the network (`main.rs:2095`), where
  `network_guard.rs:13` promises the passphrase. With `--rpc-url` and
  `--network-passphrase` the label may be `--network` or the key in `budget.toml`,
  and deployments go to the override. `ConsentUnlessOverridden` is stated without
  overrides for this reason. The deploy cache keys ids by the same label
  (`main.rs:2080`, against `docs/src/developer_guide.md:229`).
- A cache hit leaves no deploy entry in a recording, so that fixture does not
  replay (`main.rs:2327`, `docs/src/reference.md:706`).
- Recording and checking a baseline exit 0 or 5 whatever simulations failed
  (`main.rs:2801` and `2869`, `docs/src/ci_cd_integration.md:311` and `316`).
- A missing network or source exits 1, where `error.rs:32-34` has 3; a
  package without exports makes 6, though no retry helps.
- A `stellar` that is not installed exits 1 (`main.rs:1497`), where `error.rs:41-43`,
  `error.rs:65-66` and `docs/src/ci_cd_integration.md:316` have 6 for one that cannot be
  spawned; only another error of the spawn, or a `stellar` that exits with a failure,
  makes 6. `CodeNamesTheFault` states what the code does.
- `derive.rs:226-228` tells authors to leave the variable of `env = "VAR"` unset, since
  the macro falls back to `u64::MAX`. It does not: the expansion fails
  (`budget-macros/src/lib.rs:1377-1384` promises this, and `validate_env_vars` does it),
  and `PassedWithinLimits` demands it.
- "An unchanged build is not redeployed" (`README.md`) has an exception in time: the
  cache file is emptied and filled in place (`deploy_cache.rs:229`), so a run that
  loads in the middle of another's save may find it empty and deploys everything.
  `UnchangedNotRedeployed` names it.
- `--init` writes `budget.toml` in the same way (`main.rs:1345`): killed in between,
  it leaves a blank file, which loads as the defaults. No document says otherwise.
- For a run that measured nothing, `--html` writes its page next to CSV or JSON, and
  the page says that nothing failed to simulate; the text output under `--check`
  shows no failure although the run exits 4 (`main.rs:2699`).
  `OutputsTellTheExitCode` is stated for the formats that do tell.
- Rows carry a limit and a verdict whenever `budget.toml` has one, not "in
  `--check` mode" (`main.rs:537`); the check table marks a row without a limit as
  passed; CSV comparisons leave out new and stale functions; the message for no
  overlap is unreachable.
- Tolerances written as numbers in `budget.toml` are not validated, and
  tolerances of qualified sections are looked up under the bare name
  (`main.rs:2772`, `docs/src/reference.md:1114`).
- A derivation drops the `NETWORK__*` lines of the file it replaces, which
  `tier-a-limits.provenance.md:48-50` says it does not update; `RefreshNetwork` has
  to bring them back.
- `Watch` builds and deploys every package in every pass
  (`docs/src/user_guide.md:187` says only those affected), and loads `budget.toml`
  once.
- An `env_file` is looked for from different directories at expansion and at run
  time: a file in the workspace root compiles and then fails. Sources written in
  front of a percentage are forgotten. A body of `budget_scaling` that returns
  passes unmeasured. The properties of `budget_test` name these exceptions.

### Bounds

- **run_start.** The command lines cross networks with overrides, consent and
  watch mode, tolerances with attempts, and vary every other flag around one
  ordinary run in the pairs that meet. At most one thing is wrong with a machine,
  since the first check that fails ends a run; two failing checks are what the
  theorems add. Runs and edits are unbounded.
- **measure_run.** Two workers give every pairwise interleaving, three functions
  make one worker claim twice, the second contract shrinks the pool to one
  worker, and two attempts take every branch of the retry loop. What holds for
  this size is also proved for every size, except liveness.
- **deploy_runs.** Two processes are enough for one to save over another, in the
  middle of it too; two builds separate a key by package from a key by hash, and two
  networks make a cache of two entries, of which a part can be lost. One package: with
  a second one the caches that overlapping saves can mix are too many for a run (the
  check of each step against `UncachedRuns` takes longest). The theorems have any
  number of packages, and `deploy_replays` two. Sources are edited between runs: an edit during a run can put a wasm
  under the wrong hash, since the file is read three times; the theorems assume the
  same. The view leaves out what no later step or property depends on (`LiveState`): the
  fixture and the tapes, which only a replay reads; a hash after its `put`; the wasm
  files before a build; a cache that is not loaded yet or is saved. `MeasuresThisBuild` is a part of `ImplementsUncached` here, so
  only `deploy_replays`, where it fails, spends a check on it.
- **run_report.** Same name in two packages makes flat sections ambiguous; costs
  10, 11 and 12 lie at, under and over limits and tolerances. One metric stands
  for the three that a baseline judges alike.
- **watch.** The longest story needs an edit absorbed by a debounce, one in the
  middle of a pass and one that follows it: three. `MaxEdits`, `MaxErrors` and
  `TooMany` (which saturates the count of passes) are the bounds.
- **tier_a.** Two derivations make an old and a new file, with costs zero and
  not, a report of one function, of one metric of a function, of none, and none at all. `MaxDerivations` bounds
  derivations; reports, edits of network limits and tests are unbounded.
- **budget_test.** `MaxPieces` is 5: a percentage of an `env_file` takes four pieces, and
  five behind the key of a combined attribute; any other piece may stand in its way. `Max64` is 999, so
  that reference times percentage overflows, and a cost or a value of 999 makes a
  total saturate; a tolerance of 2.5 puts the lower end of the growth band below
  nothing. `Costs` and `Values` lie on both sides of the limits, and only the parts of
  the world that a limit reads vary. Except for `ParsesTheGrammar` the theorems
  hold for all tokens, worlds and costs.
- **instrument.** Three levels put every construct inside every other, and an
  injected assertion inside each of them for the second attribute (`Height`, which the
  theorems leave open); loops run at most twice. The seven bodies of the impl blocks differ in how they end or why
  they are refused.
- **trackers.** Three operations put an entry before, at and behind the one that
  is recorded again; `MaxU64` is 4, which totals pass; `MaxWarmup` exceeds the
  number of names. Calls are unbounded.
- **amm_pool.** 47 is small enough for sums and products to overflow after a few
  calls, and the ratios of 1, 3 and 8 do not divide evenly. The state space is
  finite without a bound on the number of calls. The theorems hold for every
  width and all amounts.

CHECK_DEADLOCK is off where the system really stops: in `watch`, where the tool
waits for ever once the bounded edits are spent; in `trackers`, where a benchmark
ends or panics; and in `budget_test`, where a test has a verdict or its attribute
does not compile.

### Fairness

- `MeasureRun`: weak fairness of the main thread, and of each worker unless the
  request it makes is the one that is never answered. Threads are scheduled by
  the operating system and never spin; `curl` and `stellar` run without a
  time limit, so nothing is assumed of that one request.
- `Watch`: weak fairness of the loop, which is a thread that runs whenever it has
  an event or its deadline has passed. Nothing is assumed of edits. Builds and
  simulations are assumed to return.
- The other specifications state safety only, and assume no fairness.

## Proofs

Every theorem holds for every value of the constants that the named assumptions
beside their declarations allow; every passing run evaluates those. None of the
properties is inductive alone, so each proof module strengthens them first.

`MeasureRun_proofs`, for every workspace, pool size and retry limit:
`TypeCorrect`, `NoFunctionTwice` (`SimulatedOnce`), `NoFunctionForgotten`
(`NoneForgotten`), `SharedTransportExclusive` (`OneUserOfSharedTransport`) and
`Refinement` (`ReportsSequentially`). `IInv` adds

- `PoolInv`: every claimed index is in a worker's hands or collected, and a
  worker leaves only when all are claimed. This is why nothing is forgotten at
  the join;
- `GuardInv`: the mutex is held exactly between taking the transport and
  returning it, and only when transports are shared;
- `DrainInv`: the drain loop has visited exactly the results with the smallest
  indexes. This is what makes a step of the drain loop a step of `SequentialRun`:
  results pile up in completion order and leave in task order.

The refinement maps `drained` to the abstract count; every other action is a
stutter, and the type and pool invariants are used to show it.

`DeployRuns_proofs`, for any number of processes, packages and builds:

- `TypeCorrect`, which includes that until two saves overlap no file or copy has two
  entries for one package, network and account. It needs its own third part: until
  then, whoever saves finds the file as empty as it left it;
- `ThisBuild`: `MeasuresThisBuild` under the assumptions that nobody replays into
  the same workspace (`deploy_replays` shows why) and that sources are not edited
  during a run. `BuildInv` says that every entry, on disk or in a run's memory, has
  the id of the wasm it is filed under, and that a run past its build has the wasm
  of its sources;
- `ThisNetwork`: `MeasuresOnThisNetwork` when each label stands for one network
  (`Labels(T)`; an override given next to a label is the case where it does not),
  by the same argument over networks and accounts;
- `NotRedeployed`: `UnchangedNotRedeployed`, again without edits during a run, and
  under `OwnBuilds`: no two packages build to one wasm. With a shared wasm `get`
  may answer with the other package's entry, which a later `put` for that package
  removes. `WarmInv` follows what a save promised through a run: a copy that is
  loaded, or added to, keeps an entry for every package it has passed, because
  `put` only drops what its own entry replaces, and so does the copy that is being
  saved. A save promises something again when it has filled the file it emptied
  itself or found empty; a run that loads while one is under way is promised nothing;
- `CacheIsTransparent`: `ImplementsUncached` under the assumptions of `ThisBuild` and
  `ThisNetwork`, whose invariants make each `Reuse` and each `Deploy` a step of the
  run without a cache. Loads, misses and both steps of a save are stutters, whatever
  mixture they read or leave (`Loaded`, `Written`); a build is one step of
  `UncachedRuns`, although it replaces the files of every run that has built,
  because those were built from the same sources. `Begins` (a run that has not built
  is at its first package) starts the sequence of what was measured.

`RunReport_proofs`, for every workspace, `budget.toml` and command line, about
`RunReport`: `TypeCorrect`, `ZeroExitIsClean` (`ZeroMeansClean`),
`RetryableIsInfrastructure` (`RetryOnlyInfrastructure`) and `JudgedByLastRecording`
(`RegressionsSinceRecording`); and about `ReportOutput`: `OutputsAgreeWithCode`
(`OutputsTellTheExitCode`), `JsonIsReadBack` (`ReportReadsBack`) and
`ComparisonIsWhole` (`ComparisonsAddUp`). `Drained` says that the outcomes are those of the
packages already measured, `FlagsTell` that the three flags are exactly the
disjunctions over those outcomes, `Recorded` that the baseline on disk is the last
one renamed into place, and `Returned` ties the exit code to the flags (`Classified`) or, for
a check, to the comparison. `CodeTells` then reads the properties off.

The outputs are functions of the state in which a run returns. `RowsTell` adds to the
invariant that the rows are those of the drained outcomes and no others; so a row
fails exactly when an outcome breaks its limit (`FailingRow`, `BreaksShow`), and
that is what the exit code says. `LinesTell` goes through the five renderers: none
drops or changes a row's verdict. `SnapshotReads` and `DocumentReads` show that the
reader fills in just what the writer left out. For a comparison, `Comparisons` and
`LineTells` say what one row shows, `Apart` that no two of them are one line, and
`CountsAddUp`, `HiddenCount` and `SidesAddUp` count finite disjoint unions.

`Watch_proofs`, for any packages and any number of edits and errors: `TypeCorrect`
and `EditsAndPasses` (`EditsAnswered`). `PassIsCurrent` is the invariant of a pass
and holds as long as no source event is in the channel: an edit puts one there
and an event leaves it only towards a new pass. `PassesAccounted` counts: passes,
source events in the channel and the pass that has been asked for are never more
than the edits and the first pass.

`TierA_proofs`, for all functions, reports, margins, baselines and percentages:
`WholeFiles` (`FilesAreWhole`), `SidecarFollows` (`ProvenanceFollowsLimits`),
`NoPassWithoutMeasurement` (`PassedWithinMargin`) and `ScenarioIsCovered`
(`ScenarioCoversParts`). `Writing` says that the running
derivation writes what the last recorded source derives, that its `.tmp` is whole
when it is renamed, and that the env file is its own before it turns to the
sidecar; `Asserted` that each assertion passed so far is covered by a source no
older than the test's start. `HoldsCovers` is the link: an assertion
that holds found a limit, the limit's file is whole, and so a source derived it.
For the scenarios, `Settled` keeps what a derivation had checked before it wrote: a
valid margin, and a report in which no scenario lacks a component. The limit of a
scenario is the scaled sum of its parts, theirs the sum of the scaled parts;
`CeilOfSum` compares the two, and `CeilOfTotal` carries it to any set of components.

`RunStart_proofs`, for every set of command lines, files and machines: `GuardHolds`
(`ConsentUnlessOverridden`), `ConfiguredOnce` (`StartedAsConfigured`) and
`CodesAreRight` (`CodeNamesTheFault`, an action property). The invariant collects
what each stage leaves behind for the later ones: `Called`, `Warned`, `Configured`
(whose tolerance is a number or was validated), `Policed` and `Targeted`.

`CostTracker_proofs`, for every set of operations, costs and any width:
`SwapIsSafe` (`SwapSafe`), `VectorImplementsMap` (`ImplementsMap`), `BenchmarkIsFair`
(`BenchIsFair`) and `JudgedAlike` (`VerdictsAgree`). `Distinct` (no operation twice in
the vector) is what makes the first entry found the last one recorded; `Ahead` says by
which names the vector is ahead of the map inside the timed loops. `Bench` says what
each loop of the benchmark has recorded and found so far, and keeps the last verdict.
`NamesAssumption` has that the benchmark's names are distinct operations and no more
than a `u64` counts. `SameTotals` shows that the sum over the vector's positions is
the sum over the map's keys, the entries being a bijection between them.

Sums and cardinalities are inductions over data, which the library's theorems take
an operator for. Two modules do them by hand instead: a set of the subsets of a
finite set that contains the empty one, and with a set each set with one element more,
has all of them (`SubsetInduction`, from a smallest counterexample). With it
`FoldExists` shows that a fold over a finite set has a value, `FoldUnfolds` that any
element may be taken out first, and the facts about sums follow.

`Contract_proofs` has the contract under test and the macros that test it. About
`AmmPool`, for every width and all amounts: `TypeCorrect`,
`BooksNeverDiffer`, `AlwaysBacked`, `NeverDividesByZero` and
`RoundingFavoursThePool`. The invariant is the conjunction of the four state
properties, and they need each other: a deposit does not divide by zero because
shares that are backed mean reserves that are not empty; shares stay backed because
no call dilutes (`PerShare`, `StaysBacked`); and no call dilutes because a quotient
times its divisor is at most the dividend (`DepositKeeps`, `SwapKeeps`,
`WithdrawKeeps`). That the integer square root exists is proved from the least
element of a set of naturals.

About `BudgetTest`, for all tokens, worlds, values and costs: `TheExpansionForesees`
(`ExpansionForesees`), `PassedIsWithin` (`PassedWithinLimits`) and `GrowthWasDeclared`
(`GrowthIsAsDeclared`). `TestInv` says what each stage hands to the next: `ParsedInv`
that what was parsed is a limit, a pair of limits or a scaling configuration with
everything the parser insists on (sizes that rise, a percentage that is not zero, no
source that another one excludes); `ExpandedInv` that what was expanded is what the
macro emits for it, in a world which `ValidateEnvVars` let pass; `RanInv` that a
verdict is the one of the emitted assertions; `ScalingInv` that each growth that was
accepted lies within the band of its model. Three assumptions say what the constants
stand for: `LiteralsAssumption`, `PiecesAssumption` and `NumbersAssumption`.

- The parsers' loops are functions defined by themselves, and nothing says that such
  a function exists. `SourcesExist`, `PropertiesExist` and `FieldsExist` build one from
  each length of tokens to the next (`...Extend`), as one turn of the loop looks only
  at fewer tokens than it was given (`...Congruent`); `SmallerFirst` is the induction
  that they use, from a least counterexample. `SourcesTakes`, `PropertiesMake` and
  `FieldsMake` are then loop invariants in the usual sense.
- `Foreseen` needs that a limit which expansion resolved is the limit a run in the same
  world finds. `Within` goes through the limit's sources in their order: whichever one
  the run took could be read, and a percentage rounded down is below the exact one
  (`BelowAPart`).
- `GrowthBounds` is the one that adds something to the code: the code compares each
  measurement only with the one before it, the property the last with the first.
  `Telescope` multiplies the steps; `StepMore` and `NearIs` are the arithmetic of one.

About `Instrument`, for trees of every height (two at least, which the injected prelude
has), bodies of any length and any number of methods and attributes:
`AssertsOnEveryExit` (`AssertedOnEveryExit`) and `RefusesAsWritten`
(`RefusedAsWritten`). `HeightAssumption` and `ItemsAssumption` say what is annotated.
`RewriteInv` is the two properties with `Annotated` (the attributes that are left are
those of the item, the block's first, and bodies stay bodies) and `NothingAdded` (what
a later attribute would refuse was there before the first one). One attribute is
`Instrumented`, whose parts are inductions over the height:

- `RewriteRuns`: a rewritten tree runs in the ways of the original, with an assertion
  more in those that return (`Mark`) and none in the others. This holds for trees
  without a return in a macro call, which a rewrite leaves as it is; that what such a
  call runs never returns is `QuietParts`. Closures are left as
  they are too, and none of their returns gets out.
- `MacrosKept`: the macro calls that a visit meets in a rewritten tree are met in the
  original too, and the prelude's panics stand in closures (`PreludeIs`).
- `InOrderAppend` takes a list of statements apart, and `RewritesAreTrees` keeps the
  height: an assertion is put beside the returned value, not around it.
- `FirstExist`, `TreesExist`, `RunsExist`, `RewritesExist` and `PartsExist` give the
  functions that the module defines by themselves, from each height to the next.

Only model-checked:

- `Terminates`, `NoHeadOfLineBlocking` and `Settles`: liveness under fairness is out
  of the prover's reach;
- `ParsesTheGrammar`: the grammar's sentences are defined by recursive operators, and
  a module with these is out of the prover's reach. That the parser accepts them and no
  others is an induction over all derivations of the grammar as well.

## Abstractions worth knowing

- `max_allowed` and `ceil_apply` multiply in f64. `RunReport` takes `max_allowed`
  as a table and `TierA` uses exact products; the instances use values on which
  both agree. Off such values f64 may be one unit away: `max_allowed(100, 0.15)`
  is 114, and `ceil_apply(100, 1.1)` is 111.
- An env key names one function and metric; the upper-casing that can make two
  names collide is left out.
- Tokens are identifiers, marks and literals named by their text; what syn makes
  of characters, spans and error messages is left out.
- `validate.rs` is the choice whether a decoded value agrees. Where the RPC node
  leaves `memBytes` out there is no memory row, and a `mem_limit` is not enforced.
- A derivation runs alone, and so does a recording: two into one output share the
  name of the `.tmp`.
- `notify` delivers every event; an overflow of the kernel's queue is not modelled.
- Between `exists` and the write of `--init` another process may create
  `budget.toml`; `RunStart` has that edit, and the file is then overwritten.
- Parsing of TOML and JSON, formatting, progress bars and messages are left out
  everywhere.

## Not modelled

- The typed arguments of `arg_spec.rs` (text to ScVal and back), the XDR decoding of
  `validate.rs`, deploy diagnostics, the layout of renderers, the man page: pure
  conversions without state, tested by example in the repository, and none of them
  decides what a run does next except by failing, which the models allow.
- Reporters, builders and adapters of `src/src/traits.rs` and `impls.rs`: they
  forward to what `CostLimits` and `CostTracker` model.
- `config.rs`, `limit_checks.rs` and `url_checks.rs`: nothing calls them.
- The benchmark contracts, scripts, CI and the site: no state that the rest
  depends on.
- Keys of invoke and simulate entries in a fixture: the pool's results are looked
  up by them, but which key a request has is text.

## How the project grew, and what is left

The pool, its abstract specification and proofs came first; then the deploy cache,
report, baseline and exit codes, watch mode, derivation, the pool contract and the
macros' rewriting of bodies; then the trackers, the macros' parser and tests, the
start of a run, the renderers and comparisons; then the theorems about outputs, sums
and the benchmark, and the refinement of the deploy cache; last the theorems about the
parser, the tests and what bodies are rewritten to. Every safety property that
a run checks is now a theorem, except `ParsesTheGrammar`.

What is left is the fixture's invoke and simulate entries, with a recording by
several workers and its replay by another number of them.

----------------------------- MODULE RunReport -----------------------------
(***************************************************************************)
(* What a run of cargo budget-report makes of its measurements: the report *)
(* rows, the flags it gathers while it drains the outcomes, the baseline   *)
(* it records or compares with, and the exit code CI acts on.  Runs follow *)
(* one another in one workspace and share the baseline file; any of them   *)
(* may be killed.                                                          *)
(*                                                                         *)
(* How the outcomes of one contract are collected is the module MeasureRun *)
(* and which contract they are measured on the module DeployRuns: here the *)
(* outcomes of a package are any function from its exports to outcomes.    *)
(* The three metrics of a baseline are judged alike and apart, so one of   *)
(* them, cpu, stands for all; mem is the metric an RPC node may leave out. *)
(***************************************************************************)
EXTENDS Naturals, Sequences, FiniteSets

CONSTANTS
  Packages,          \* the cdylib packages in the order of cargo metadata
  Exports,           \* Exports[p]: the contract functions p exports
  Configs,           \* the contents budget.toml may have
  Invocations,       \* the command lines in use
  Costs,             \* the values of a cpu metric
  MemCosts,          \* the values of a mem metric
  Tolerances,        \* the tolerances in use
  DefaultTolerance,  \* --tolerance, the tolerance key, or 10%
  MaxAllowed,        \* MaxAllowed[<<b, t>>]: max_allowed(b, t) in f64 arithmetic
  None,              \* no limit, no tolerance, no value, no file
  Failed             \* the outcome of a simulation without metrics

Package == {Packages[i] : i \in DOMAIN Packages}
Function == UNION {{<<p, n>> : n \in Exports[p]} : p \in Package}
Name == UNION {Exports[p] : p \in Package}

\* A [functions.*] section, named <<"fn">> or <<"package", "fn">>.
Section == [cpu : Nat \cup {None}, mem : Nat \cup {None}, tolerance : Tolerances \cup {None}]
Args == [mode : {"report", "record", "check"}, check : BOOLEAN, validate : BOOLEAN]
Metrics == [cpu : Costs, mem : MemCosts \cup {None}, decodes : BOOLEAN]
Outcome == Metrics \cup {Failed}
Code == {0, 1, 3, 4, 5, 6}

ASSUME PackagesAssumption ==
  /\ Packages \in Seq(Package)
  /\ \A i, j \in DOMAIN Packages : Packages[i] = Packages[j] => i = j
  /\ IsFiniteSet(Function)
ASSUME NumbersAssumption ==
  /\ Costs \subseteq Nat /\ MemCosts \subseteq Nat
  /\ DefaultTolerance \in Tolerances
  /\ MaxAllowed \in [Costs \X Tolerances -> Nat]
ASSUME InvocationsAssumption == Invocations \subseteq Args
ASSUME ConfigsAssumption == \A c \in Configs : \A k \in DOMAIN c : c[k] \in Section
ASSUME MarkersAssumption == None \notin Nat \cup BOOLEAN /\ Failed \notin Metrics

VARIABLES
  baseline,    \* the baseline file: None, or its entries
  pc,          \* idle, build, measure, finish, rename, then returned or failed
  args,        \* the flags of the run
  config,      \* budget.toml as it was loaded
  prepared,    \* the packages that built and export something
  todo,        \* the positions of the packages still to measure
  measured,    \* measurements: the cpu value of every function that has one
  rows,        \* reports, as the rows of the table
  has_errors, checks_failed, validation_failed,
  code,        \* the exit code
  outcomes,    \* history: what every simulation of the run gave
  recorded     \* history: the measurements of the last run that said it recorded

flags == <<has_errors, checks_failed, validation_failed>>
results == <<measured, rows, flags, outcomes>>
vars == <<baseline, pc, args, config, prepared, todo, results, code, recorded>>

Nothing == [f \in {} |-> None]

----------------------------------------------------------------------------
(* budget.toml and limits. *)

ExportedBy(n) == {p \in prepared : n \in Exports[p]}

\* resolve_function_config: a qualified section, else a flat one.
SectionOf(f) ==
  IF f \in DOMAIN config THEN config[f]
  ELSE IF <<f[2]>> \in DOMAIN config THEN config[<<f[2]>>]
  ELSE None

\* ... and a flat one is refused when several packages export the name.
Ambiguous(f) ==
  /\ f \notin DOMAIN config
  /\ <<f[2]>> \in DOMAIN config
  /\ Cardinality(ExportedBy(f[2])) > 1

\* limit_for_metric; `m' is "cpu" or "mem".
LimitOf(f, m) == IF SectionOf(f) = None THEN None ELSE SectionOf(f)[m]

\* Fault: a value at its limit fails.
ExclusiveVerdict(v, limit) == IF limit = None THEN None ELSE v < limit

\* evaluate_check
Verdict(v, limit) == IF limit = None THEN None ELSE v <= limit

\* The tolerance of a function: tolerance_overrides is keyed by section name
\* and asked for the bare function name.
ToleranceOf(f) ==
  IF <<f[2]>> \in DOMAIN config /\ config[<<f[2]>>].tolerance # None
  THEN config[<<f[2]>>].tolerance
  ELSE DefaultTolerance

\* validate_budget_toml: a section names no exported function.
UnknownFunction ==
  /\ prepared # {}
  /\ \E k \in DOMAIN config : ExportedBy(k[Len(k)]) = {}

----------------------------------------------------------------------------
(* The rows and flags of one package's outcomes. *)

\* A row for every metric that was measured.
MetricRows(f, o) ==
  {[function |-> f, metric |-> m, value |-> o[m], pass |-> Verdict(o[m], LimitOf(f, m))] :
     m \in {k \in {"cpu", "mem"} : o[k] # None}}

\* emit_check_failure_entries: a configured function that failed has failed
\* rows in --check mode, none of them for memory.
FailedRows(f) ==
  IF args.check /\ SectionOf(f) # None
  THEN {[function |-> f, metric |-> "cpu", value |-> None, pass |-> FALSE]}
  ELSE {}

RowsOf(f, o) == IF o = Failed THEN FailedRows(f) ELSE MetricRows(f, o)

\* The function's results fail the check, whatever the mode.
Breaks(f, o) ==
  \/ o = Failed /\ args.check /\ SectionOf(f) # None
  \/ o # Failed /\ \E r \in MetricRows(f, o) : r.pass = FALSE

Mismatches(o) == args.validate /\ o # Failed /\ ~o.decodes

\* Fault: a failed simulation is no error.
DrainIgnoringFailures(o) ==
  /\ measured' = [f \in DOMAIN measured \cup {g \in DOMAIN o : o[g] # Failed} |->
                    IF f \in DOMAIN o THEN o[f].cpu ELSE measured[f]]
  /\ rows' = rows \cup UNION {RowsOf(f, o[f]) : f \in DOMAIN o}
  /\ has_errors' = has_errors
  /\ checks_failed' = (checks_failed \/ \E f \in DOMAIN o : Breaks(f, o[f]))
  /\ validation_failed' = (validation_failed \/ \E f \in DOMAIN o : Mismatches(o[f]))

\* The loop over the collected outcomes of one contract.
Drain(o) ==
  /\ measured' = [f \in DOMAIN measured \cup {g \in DOMAIN o : o[g] # Failed} |->
                    IF f \in DOMAIN o THEN o[f].cpu ELSE measured[f]]
  /\ rows' = rows \cup UNION {RowsOf(f, o[f]) : f \in DOMAIN o}
  /\ has_errors' = (has_errors \/ \E f \in DOMAIN o : o[f] = Failed)
  /\ checks_failed' = (checks_failed \/ \E f \in DOMAIN o : Breaks(f, o[f]))
  /\ validation_failed' = (validation_failed \/ \E f \in DOMAIN o : Mismatches(o[f]))

----------------------------------------------------------------------------
(* Exit codes. *)

\* Fault: a network failure comes before a validation mismatch.
ClassifyNetworkFirst(regressions, exceeded, invalid, network) ==
  CASE regressions -> 5
    [] ~regressions /\ exceeded -> 4
    [] ~regressions /\ ~exceeded /\ network -> 6
    [] ~regressions /\ ~exceeded /\ ~network /\ invalid -> 1
    [] OTHER -> 0

\* classify_outcome
Classify(regressions, exceeded, invalid, network) ==
  CASE regressions -> 5
    [] ~regressions /\ exceeded -> 4
    [] ~regressions /\ ~exceeded /\ invalid -> 1
    [] ~regressions /\ ~exceeded /\ ~invalid /\ network -> 6
    [] OTHER -> 0

Classified == Classify(FALSE, args.check /\ checks_failed, validation_failed, has_errors)

\* run() returns Ok(c), or an error main() turns into c.
Return(c) == pc' = "returned" /\ code' = c

Fail(c) == pc' = "failed" /\ code' = c

----------------------------------------------------------------------------
(* A run. *)

Init ==
  /\ baseline = None
  /\ pc = "idle"
  /\ args \in Invocations
  /\ config \in Configs
  /\ prepared = {}
  /\ todo = {}
  /\ measured = Nothing
  /\ rows = {}
  /\ has_errors = FALSE
  /\ checks_failed = FALSE
  /\ validation_failed = FALSE
  /\ code = 0
  /\ outcomes = Nothing
  /\ recorded = None

\* A new process starts from nothing.
Fresh ==
  /\ prepared' = {}
  /\ todo' = {}
  /\ measured' = Nothing
  /\ rows' = {}
  /\ has_errors' = FALSE
  /\ checks_failed' = FALSE
  /\ validation_failed' = FALSE
  /\ code' = 0
  /\ outcomes' = Nothing

\* The tool is called and loads budget.toml.
Start(a, c) ==
  /\ pc \in {"idle", "returned", "failed"}
  /\ pc' = "build"
  /\ args' = a
  /\ config' = c
  /\ Fresh
  /\ UNCHANGED <<baseline, recorded>>

\* Every package builds; one without a wasm file, or whose wasm exports no
\* contract function, is skipped, which is an error.
Build ==
  /\ pc = "build"
  /\ pc' = "measure"
  /\ \E S \in SUBSET Package :
       /\ prepared' = S
       /\ has_errors' = (S # Package)
       /\ todo' = {i \in DOMAIN Packages : Packages[i] \in S}
  /\ UNCHANGED <<baseline, args, config, measured, rows, checks_failed,
                 validation_failed, code, outcomes, recorded>>

BuildFails ==
  /\ pc = "build"
  /\ Fail(1)
  /\ UNCHANGED <<baseline, args, config, prepared, todo, results, recorded>>

FunctionsOf(p) == {<<p, n>> : n \in Exports[p]}

\* The packages are measured in their order.
NextPackage(i) == pc = "measure" /\ i \in todo /\ \A j \in todo : i <= j

DeployFails ==
  /\ \E i \in DOMAIN Packages : NextPackage(i)
  /\ Fail(1)
  /\ UNCHANGED <<baseline, args, config, prepared, todo, results, recorded>>

\* The next contract is deployed and its tasks are made: `?' leaves the run.
Misconfigured ==
  /\ \E i \in DOMAIN Packages :
       NextPackage(i) /\ \E f \in FunctionsOf(Packages[i]) : Ambiguous(f)
  /\ Fail(3)
  /\ UNCHANGED <<baseline, args, config, prepared, todo, results, recorded>>

\* Without --validate, or in a replay, nothing is decoded a second time.
Possible(o) == \A f \in DOMAIN o : o[f] # Failed /\ ~args.validate => o[f].decodes

Measure ==
  /\ \E i \in DOMAIN Packages : \E o \in [FunctionsOf(Packages[i]) -> Outcome] :
       /\ NextPackage(i)
       /\ \A f \in DOMAIN o : ~Ambiguous(f)
       /\ todo' = todo \ {i}
       /\ Possible(o)
       /\ Drain(o)
       /\ outcomes' = [f \in DOMAIN outcomes \cup DOMAIN o |->
                         IF f \in DOMAIN o THEN o[f] ELSE outcomes[f]]
  /\ UNCHANGED <<baseline, pc, args, config, prepared, code, recorded>>

AllMeasured == pc = "measure" /\ todo = {}

\* budget.toml is validated against the exports before anything is reported.
InvalidConfig ==
  /\ AllMeasured
  /\ UnknownFunction
  /\ Fail(1)
  /\ UNCHANGED <<baseline, args, config, prepared, todo, results, recorded>>

\* Whatever the mode, a run that measured nothing ends here.
NothingMeasured ==
  /\ AllMeasured
  /\ ~UnknownFunction
  /\ measured = Nothing
  /\ Return(Classified)
  /\ UNCHANGED <<baseline, args, config, prepared, todo, results, recorded>>

\* The fixture, the HTML file or the standard output cannot be written.
OutputFails ==
  /\ AllMeasured
  /\ Fail(1)
  /\ UNCHANGED <<baseline, args, config, prepared, todo, results, recorded>>

Ready(m) == AllMeasured /\ ~UnknownFunction /\ measured # Nothing /\ args.mode = m

Report ==
  /\ Ready("report")
  /\ Return(Classified)
  /\ UNCHANGED <<baseline, args, config, prepared, todo, results, recorded>>

\* Fault: the file is written in place, and a kill may cut it short.
WriteInPlace ==
  /\ Ready("record")
  /\ pc' = "rename"
  /\ \E S \in SUBSET DOMAIN measured : baseline' = [f \in S |-> measured[f]]
  /\ UNCHANGED <<args, config, prepared, todo, results, code, recorded>>

\* Baseline::save writes build_baseline(..) beside the file, then renames it:
\* what is left there by a failure or a kill is never read.
WriteBaseline ==
  /\ Ready("record")
  /\ pc' = "rename"
  /\ UNCHANGED <<baseline, args, config, prepared, todo, results, code, recorded>>

RenameBaseline ==
  /\ pc = "rename"
  /\ pc' = "renamed"
  /\ baseline' = measured
  /\ recorded' = measured
  /\ UNCHANGED <<args, config, prepared, todo, results, code>>

\* The run says that it recorded, and returns.
RecordReturns ==
  /\ pc = "renamed"
  /\ Return(0)
  /\ UNCHANGED <<baseline, args, config, prepared, todo, results, recorded>>

SaveFails ==
  /\ pc = "rename" \/ Ready("record")
  /\ Fail(1)
  /\ UNCHANGED <<baseline, args, config, prepared, todo, results, recorded>>

\* classify: a metric regresses when it is above the baseline and above the
\* most its tolerance allows.
Regresses(f, old) ==
  /\ measured[f] > old[f]
  /\ measured[f] > MaxAllowed[<<old[f], ToleranceOf(f)>>]

\* Fault: the comparison stops at the functions of the first package.
HasRegressionsInFirst ==
  \E f \in DOMAIN baseline \cap DOMAIN measured : f[1] = Packages[1] /\ Regresses(f, baseline)

\* check_against_baseline: entries on one side only are stale or new.
HasRegressions ==
  \E f \in DOMAIN baseline \cap DOMAIN measured : Regresses(f, baseline)

CompareBaseline ==
  /\ Ready("check")
  /\ baseline # None
  /\ Return(IF HasRegressions THEN 5 ELSE 0)
  /\ UNCHANGED <<baseline, args, config, prepared, todo, results, recorded>>

NoBaseline ==
  /\ Ready("check")
  /\ baseline = None
  /\ Fail(1)
  /\ UNCHANGED <<baseline, args, config, prepared, todo, results, recorded>>

\* The process is killed.
Crash ==
  /\ pc \notin {"idle", "returned", "failed"}
  /\ pc' = "idle"
  /\ Fresh
  /\ UNCHANGED <<baseline, args, config, recorded>>

Next ==
  \/ \E a \in Invocations, c \in Configs : Start(a, c)
  \/ Build \/ BuildFails
  \/ DeployFails \/ Misconfigured \/ Measure
  \/ InvalidConfig \/ NothingMeasured \/ OutputFails
  \/ Report
  \/ WriteBaseline \/ RenameBaseline \/ RecordReturns \/ SaveFails
  \/ CompareBaseline \/ NoBaseline
  \/ Crash

Spec == Init /\ [][Next]_vars

----------------------------------------------------------------------------
(* Properties. *)

Entries == UNION {[S -> Costs] : S \in SUBSET Function}
Row == [function : Function, metric : {"cpu", "mem"}, value : Nat \cup {None},
        pass : BOOLEAN \cup {None}]

\* Every variable has its type.
TypeOK ==
  /\ baseline \in Entries \cup {None}
  /\ pc \in {"idle", "build", "measure", "rename", "renamed", "returned", "failed"}
  /\ args \in Invocations
  /\ config \in Configs
  /\ prepared \subseteq Package
  /\ todo \subseteq DOMAIN Packages
  /\ measured \in Entries
  /\ rows \subseteq Row
  /\ has_errors \in BOOLEAN /\ checks_failed \in BOOLEAN /\ validation_failed \in BOOLEAN
  /\ code \in Code
  /\ outcomes \in UNION {[S -> Outcome] : S \in SUBSET Function}
  /\ recorded \in Entries \cup {None}

\* What really happened in the run.
Unmeasured == {f \in Function : f \notin DOMAIN outcomes \/ outcomes[f] = Failed}
Mismatched == {f \in DOMAIN outcomes : Mismatches(outcomes[f])}
Exceeds(f, m) ==
  /\ outcomes[f][m] # None
  /\ LimitOf(f, m) # None
  /\ outcomes[f][m] > LimitOf(f, m)
Breached == {f \in DOMAIN outcomes \ Unmeasured : \E m \in {"cpu", "mem"} : Exceeds(f, m)}

\* A report that exits 0 measured every function the workspace exports, none
\* of them disagreed with the Stellar CLI, and under --check no measured metric
\* was over its limit (classify_outcome, main.rs, over the flags of the drain).
ZeroMeansClean ==
  pc = "returned" /\ args.mode = "report" /\ code = 0 =>
    /\ Unmeasured = {}
    /\ Mismatched = {}
    /\ args.check => Breached = {}

\* Exit code 6 tells CI to retry: it is only returned when a package was
\* skipped or a function not measured, and never hides a mismatch or a breached
\* limit, which a retry would reproduce (classify_outcome's comment, main.rs).
RetryOnlyInfrastructure ==
  pc = "returned" /\ code = 6 =>
    /\ prepared # Package \/ Unmeasured # {}
    /\ Mismatched = {}
    /\ args.check => Breached = {}

\* A check returns 5 exactly when a function it measured is over what its
\* tolerance allows from the values of the last recording, of one function at
\* least.  Every run that says it recorded is one; a run that is killed while it
\* saves is one when its rename came through, and then as a whole; no other run
\* is, whether it failed or measured nothing (check_against_baseline,
\* Baseline::save, and the return before it when nothing was measured).
RegressionsSinceRecording ==
  pc = "returned" /\ measured # Nothing =>
    /\ args.mode = "record" => recorded = measured
    /\ args.mode = "check" =>
         /\ recorded # None /\ DOMAIN recorded # {}
         /\ code = 5 <=> \E f \in DOMAIN recorded \cap DOMAIN measured : Regresses(f, recorded)

=============================================================================

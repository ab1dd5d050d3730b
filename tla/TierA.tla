------------------------------- MODULE TierA -------------------------------
(***************************************************************************)
(* The loop from a network report to the local tests.  A Tier B report     *)
(* (--json) is turned by --derive-limits into the file tier-a-limits.env   *)
(* and its provenance sidecar, each written to a .tmp and renamed; the     *)
(* tests annotated with the budget macros read their limits from that      *)
(* file while they run, once for every assertion.  A person keeps the      *)
(* NETWORK__ limits of the same file up to date by hand.                   *)
(*                                                                         *)
(* A derivation may fail, or be killed, between any two of its writes, and *)
(* tests run at the same time.  Margins and percentages are in percent:    *)
(* the code multiplies in f64, which for some margins and values rounds a  *)
(* whole product up by one; here the product is exact.                     *)
(***************************************************************************)
EXTENDS Integers, Sequences, FiniteSets, Functions

CONSTANTS
  Function,       \* the functions a report may measure
  Components,     \* the functions of the scenario, as budget.toml names them
  MetricOrder,    \* the metrics of a combined assertion, in its order
  Reports,        \* the Tier B reports there may be
  Margins,        \* the margins --margin-* or [margin] give, or None
  NetworkLimits,  \* the limits of the network's protocol versions
  Costs,          \* what a test may measure
  Baseline,       \* the baseline expression of an assertion
  Pct,            \* the percentage of a `pct = N, of = ...' limit
  MaxDerivations, \* bound: derivations begun
  Scenario, Network, \* the targets of a limit that are no function
  None            \* no line, no margin, no row, a report that is no JSON

Metric == {MetricOrder[i] : i \in DOMAIN MetricOrder}
Target == Function \cup {Scenario, Network}
\* TIER_A__<pkg>__<fn>__<metric>, TIER_A__<pkg>__SCENARIO__<name>__<metric>
\* and NETWORK__<metric>.
Key == Target \X Metric
Limits == [Key -> Nat \cup {None}]     \* None: the file has no line of this key
File == [stamp : 0..MaxDerivations, limits : Limits]
\* A file that is truncated and not filled: no derivation's.
Torn == [stamp |-> 0, limits |-> [k \in Key |-> None]]

ASSUME TargetsAssumption ==
  /\ Function \cap {Scenario, Network} = {} /\ Scenario # Network
  /\ IsFiniteSet(Function) /\ IsFiniteSet(Components)
ASSUME MetricsAssumption ==
  /\ MetricOrder \in Seq(Metric) /\ MetricOrder # <<>>
  /\ \A i, j \in DOMAIN MetricOrder : MetricOrder[i] = MetricOrder[j] => i = j
\* None: the report has no row of this function and metric.
Report == [Function -> [Metric -> Nat \cup {None}]]

ASSUME ReportsAssumption == Reports \subseteq Report \cup {None}
ASSUME NumbersAssumption ==
  /\ Margins \subseteq [Metric -> Nat] \cup {None}
  /\ NetworkLimits \subseteq [Metric -> Nat]
  /\ Costs \subseteq Nat /\ Baseline \in Nat /\ Pct \in 1..100
  /\ MaxDerivations \in Nat
ASSUME MarkersAssumption == None \notin Nat \cup Report \cup [Metric -> Nat]

VARIABLES
  report,   \* the JSON report on disk
  files,    \* the env file and the provenance sidecar, when they are there
  tmp,      \* their .tmp files; Torn when there is none
  pc,       \* the derivation: idle, or the file it is at and what is next
  out,      \* the File this derivation writes
  exit,     \* how the last derivation ended
  sources,  \* sources[n]: the report and the margins of derivation n
  test      \* the test that runs, or ran last

vars == <<report, files, tmp, pc, out, exit, sources, test>>

----------------------------------------------------------------------------
(* Margins and limits.                                                     *)

\* Margin::new, and the margins that are missing or incomplete.
ValidMargin(margin) == margin # None /\ \A m \in Metric : margin[m] >= 100

\* (value as f64 * margin).ceil()
CeilApply(value, margin) == (value * margin + 99) \div 100

Measured(r, m) == {f \in Function : r[f][m] # None}
Present(r, m) == Components \cap Measured(r, m)
\* Mutant of ScenarioIncomplete: missing components are left out of the sum.
ScenarioOfWhatThereIs(r) == FALSE

\* A metric that the report has of some components and not of others is an error;
\* one that it has of none is passed over.
ScenarioIncomplete(r) ==
  \E m \in Metric : Present(r, m) # {} /\ Present(r, m) # Components

ScenarioTotal(r, m) == SumFunction([f \in Present(r, m) |-> r[f][m]])

\* The Tier B value behind a key: the scenario has one where it has a cost.
TierB(r, k) ==
  IF k[1] = Scenario THEN IF ScenarioTotal(r, k[2]) > 0 THEN ScenarioTotal(r, k[2]) ELSE None
  ELSE IF k[1] \in Measured(r, k[2]) THEN r[k[1]][k[2]]
  ELSE None

Derive(r, margin) ==
  [k \in Key |-> IF TierB(r, k) = None THEN None ELSE CeilApply(TierB(r, k), margin[k[2]])]

----------------------------------------------------------------------------
(* The derivation.                                                         *)

Idle == <<"none", "idle">>
Done(status) ==
  /\ pc' = Idle
  /\ exit' = status
  /\ UNCHANGED out
Forward(file, step) == pc' = <<file, step>> /\ UNCHANGED <<exit, out>>

CanBegin == pc = Idle /\ Len(sources) < MaxDerivations

\* The files once this one has this content: a rename makes what was absent.
With(file, content) ==
  [f \in DOMAIN files \cup {file} |-> IF f = file THEN content ELSE files[f]]

\* Mutant of WriteOrder: the sidecar is replaced first.
SidecarFirst == <<"md", "env">>

\* The file written first, and the one written after it.
WriteOrder == <<"env", "md">>
NextFile(file) == IF file = WriteOrder[1] THEN WriteOrder[2] ELSE "none"

\* A report that is JSON, all margins at least 1, and a scenario of which the
\* report has each metric for all components or for none.
Derivable(margin) == report # None /\ ValidMargin(margin) /\ ~ScenarioIncomplete(report)

\* Reads the report, settles the margins, computes the limits.
BeginDerive(margin) ==
  /\ CanBegin
  /\ Derivable(margin)
  /\ sources' = Append(sources, [report |-> report, margin |-> margin])
  /\ out' = [stamp |-> Len(sources) + 1, limits |-> Derive(report, margin)]
  /\ pc' = <<WriteOrder[1], "write">>
  /\ exit' = "running"
  /\ UNCHANGED <<report, files, tmp, test>>

\* The error is returned before anything is written.
RefuseDerive(margin) ==
  /\ CanBegin
  /\ ~Derivable(margin)
  /\ Done("error")
  /\ UNCHANGED <<report, files, tmp, sources, test>>

\* Mutant of StartWrite: the file itself is written.
StartWriteInPlace(file) ==
  /\ pc = <<file, "write">>
  /\ files' = With(file, Torn)
  /\ Forward(file, "fill")
  /\ UNCHANGED <<report, tmp, sources, test>>

\* fs::write truncates the .tmp, then fills it.
StartWrite(file) ==
  /\ pc = <<file, "write">>
  /\ tmp' = [tmp EXCEPT ![file] = Torn]
  /\ Forward(file, "fill")
  /\ UNCHANGED <<report, files, sources, test>>

FinishWrite(file) ==
  /\ pc = <<file, "fill">>
  /\ tmp' = [tmp EXCEPT ![file] = out]
  /\ Forward(file, "rename")
  /\ UNCHANGED <<report, files, sources, test>>

\* The rename, and on to the sidecar or to the end.
Rename(file) ==
  /\ pc = <<file, "rename">>
  /\ files' = With(file, tmp[file])
  /\ tmp' = [tmp EXCEPT ![file] = Torn]
  /\ IF NextFile(file) = "none" THEN Done("ok") ELSE Forward(NextFile(file), "write")
  /\ UNCHANGED <<report, sources, test>>

\* A full disk, a read-only directory: fs::write or fs::rename fails.
WriteFails ==
  /\ pc # Idle
  /\ Done("error")
  /\ UNCHANGED <<report, files, tmp, sources, test>>

Kill ==
  /\ pc # Idle
  /\ Done("killed")
  /\ UNCHANGED <<report, files, tmp, sources, test>>

----------------------------------------------------------------------------
(* The report and the NETWORK__ limits.                                    *)

\* cargo budget-report --json > report.json.  None: it failed, or still runs,
\* and the file is empty.
Measure(r) ==
  /\ r # report
  /\ report' = r
  /\ UNCHANGED <<files, tmp, pc, out, exit, sources, test>>

\* A person writes the limits of the network into the env file.
RefreshNetwork(limits) ==
  /\ pc = Idle
  /\ "env" \in DOMAIN files
  /\ files' = With("env", [files["env"] EXCEPT !.limits =
                 [k \in Key |-> IF k[1] = Network THEN limits[k[2]] ELSE @[k]]])
  /\ UNCHANGED <<report, tmp, pc, out, exit, sources, test>>

----------------------------------------------------------------------------
(* A test: its assertions run in order, and each reads the file anew.      *)

NoTest == [pc |-> "idle", target |-> Network, next |-> 1, cost |-> [m \in Metric |-> 0], since |-> 0]

Marginal(cost) == IF cost < Baseline THEN 0 ELSE cost - Baseline

BeginTest(target, cost) ==
  /\ test.pc # "asserting"
  /\ test' = [pc |-> "asserting", target |-> target, next |-> 1, cost |-> cost,
              since |-> IF "env" \in DOMAIN files THEN files["env"].stamp ELSE 0]
  /\ UNCHANGED <<report, files, tmp, pc, out, exit, sources>>

\* parse_env_file_value on the file's content.
HasLimit(k) == "env" \in DOMAIN files /\ files["env"].limits[k] # None
Limit(k) ==
  IF k[1] = Network THEN (files["env"].limits[k] * Pct) \div 100 ELSE files["env"].limits[k]

\* Mutant of Holds: a limit that is not there is u64::MAX, as with `config'.
HoldsOrUnlimited(k, cost) == HasLimit(k) => Marginal(cost) < Limit(k)

\* The assertion holds.  A file that cannot be read and a key it does not have
\* are no limit to be under: the generated code panics.
Holds(k, cost) == HasLimit(k) /\ Marginal(cost) < Limit(k)

\* assert!(cost < limit), for one metric after the other.
Assert ==
  /\ test.pc = "asserting"
  /\ LET m == MetricOrder[test.next] IN
     IF ~Holds(<<test.target, m>>, test.cost[m]) THEN test' = [test EXCEPT !.pc = "failed"]
     ELSE IF test.next = Len(MetricOrder) THEN test' = [test EXCEPT !.pc = "passed"]
     ELSE test' = [test EXCEPT !.next = @ + 1]
  /\ UNCHANGED <<report, files, tmp, pc, out, exit, sources>>

----------------------------------------------------------------------------
Init ==
  /\ report \in Reports
  /\ files = [f \in {} |-> Torn]
  /\ tmp = [f \in {"env", "md"} |-> Torn]
  /\ pc = Idle
  /\ out = Torn
  /\ exit = "none"
  /\ sources = <<>>
  /\ test = NoTest

DeriveStep ==
  \/ \E margin \in Margins : BeginDerive(margin) \/ RefuseDerive(margin)
  \/ \E file \in {"env", "md"} : StartWrite(file) \/ FinishWrite(file) \/ Rename(file)
  \/ WriteFails
  \/ Kill

Next ==
  \/ DeriveStep
  \/ \E r \in Reports : Measure(r)
  \/ \E limits \in NetworkLimits : RefreshNetwork(limits)
  \/ \E target \in Target, cost \in [Metric -> Costs] : BeginTest(target, cost)
  \/ Assert

Spec == Init /\ [][Next]_vars

----------------------------------------------------------------------------
(* Properties.                                                             *)

\* What derivation n had to write.
Derived(n) == Derive(sources[n].report, sources[n].margin)
Published == DOMAIN files

\* "Atomically replaced on each write": whatever failed or was killed, a file
\* holds the limits of one derivation, all of them and no others, but for the
\* network's, which are edited by hand.
FilesAreWhole ==
  \A f \in Published :
    /\ files[f].stamp \in DOMAIN sources
    /\ \A k \in Key : k[1] # Network => files[f].limits[k] = Derived(files[f].stamp)[k]

\* The sidecar a reviewer reads never explains limits the tests do not have
\* yet, and a derivation that succeeded left both files of one stamp.
ProvenanceFollowsLimits ==
  /\ "md" \in Published => "env" \in Published /\ files["md"].stamp <= files["env"].stamp
  /\ exit = "ok" => Published = {"env", "md"} /\ files["md"].stamp = files["env"].stamp

\* A scenario's limit is no looser than its functions' limits together and no
\* tighter than any of them; a scenario whose report misses a metric of one
\* component never gets one.
ScenarioCoversParts ==
  "env" \in Published =>
    LET limits == files["env"].limits IN
    \A m \in Metric : limits[<<Scenario, m>>] # None =>
      /\ \A f \in Components : f \in Function /\ limits[<<f, m>>] # None
      /\ \A f \in Components : limits[<<f, m>>] <= limits[<<Scenario, m>>]
      /\ limits[<<Scenario, m>>] <= SumFunction([f \in Components |-> limits[<<f, m>>]])

\* cost is below what margin percent of the target's Tier B value comes to.
WithinMargin(k, cost, source) ==
  /\ TierB(source.report, k) # None
  /\ Marginal(cost) < CeilApply(TierB(source.report, k), source.margin[k[2]])

\* No test of a derived limit passes for want of one: every cost it asserted
\* is within the margin of a measurement of what it tests, made no earlier
\* than the one in force when the test began.
PassedWithinMargin ==
  test.pc = "passed" /\ test.target # Network =>
    \A m \in Metric : \E n \in DOMAIN sources :
      n >= test.since /\ WithinMargin(<<test.target, m>>, test.cost[m], sources[n])

=============================================================================

---------------------------- MODULE ReportOutput ----------------------------
(***************************************************************************)
(* What a run shows of its rows or of its comparison with the baseline: as *)
(* CSV, JSON, Markdown, an HTML page or a text table, in the precedence    *)
(* the flags have; and what a later `--markdown --from' makes of the JSON. *)
(* No action is added to RunReport's: an output is a function of the state *)
(* a run returns in and of the format flags, which may be combined.        *)
(*                                                                         *)
(* A line of an output is the row it shows, without the limit and the      *)
(* verdict where it has no such columns.  The order of the lines, the      *)
(* grouping of digits, the units, the colour and the markup are left out.  *)
(***************************************************************************)
EXTENDS RunReport

FormatFlags == {"csv", "json", "markdown", "html"}

\* The first of the formats the flags ask for, in the order of the code.
Format(asked) ==
  CASE "csv" \in asked -> "csv"
    [] "csv" \notin asked /\ "json" \in asked -> "json"
    [] asked \subseteq {"markdown", "html"} /\ "markdown" \in asked -> "markdown"
    [] asked = {"html"} -> "html"
    [] asked = {} -> "text"

----------------------------------------------------------------------------
(* The report of the rows. *)

\* A CostReport: a row, with the limit its verdict was made with.
CostReports ==
  {[function |-> r.function, metric |-> r.metric, value |-> r.value,
    limit |-> LimitOf(r.function, r.metric), pass |-> r.pass] : r \in rows}

WithoutLimit(r) == [r EXCEPT !.limit = None, !.pass = None]
Valued(R) == {r \in R : r.value # None}

CsvLines(R) == IF args.check THEN R ELSE {WithoutLimit(r) : r \in Valued(R)}

JsonLines(R) == R

\* Fault: the columns are there when every row has a verdict.
MarkdownIfAll(R) ==
  IF \A r \in R : r.limit # None \/ r.pass # None THEN R ELSE {WithoutLimit(r) : r \in R}

\* Whether there are check columns is read off the rows, not off --check.
MarkdownLines(R) ==
  IF \E r \in R : r.limit # None \/ r.pass # None THEN R ELSE {WithoutLimit(r) : r \in R}

HtmlLines(R) == IF args.check THEN R ELSE {WithoutLimit(r) : r \in R}

\* A row without a limit is marked PASS under --check.
TableLines(R) ==
  IF args.check
  THEN {[r EXCEPT !.pass = r.pass # FALSE] : r \in Valued(R)}
  ELSE {WithoutLimit(r) : r \in Valued(R)}

\* The lines of BUDGET CHECKS, below the table.
CheckLines(R) == IF args.check THEN {r \in R : r.pass # None} ELSE {}
ChecksPassed(R) == Cardinality({r \in CheckLines(R) : r.pass})
ChecksFailed(R) == Cardinality({r \in CheckLines(R) : ~r.pass})

LinesOf(format, R) ==
  CASE format = "csv" -> CsvLines(R)
    [] format = "json" -> JsonLines(R)
    [] format = "markdown" -> MarkdownLines(R)
    [] format = "html" -> HtmlLines(R)
    [] format = "text" -> TableLines(R) \cup CheckLines(R)

\* A run that measured nothing writes no table, and an HTML page, whatever
\* other format it was asked for, without the rows.
ShownOfNothing(asked) ==
  IF Format(asked) \in {"csv", "json", "markdown"} THEN LinesOf(Format(asked), CostReports) ELSE {}

Shown(asked) ==
  IF measured = Nothing THEN ShownOfNothing(asked) ELSE LinesOf(Format(asked), CostReports)

----------------------------------------------------------------------------
(* The JSON document and its reader. *)

SCHEMA_VERSION == 1
ACCEPTED_SCHEMA_VERSIONS == {SCHEMA_VERSION}

\* The Option fields of a CostReport.
Optional == {"value", "limit", "pass"}

\* Fault: a verdict that is false is left out like one that is absent.
SnapshotWithoutFalse(r) ==
  [k \in {d \in DOMAIN r : /\ d \in Optional => r[d] # None
                           /\ d = "pass" => r[d] # FALSE} |-> r[k]]

\* skip_serializing_if: an optional field that is None is no field at all.
Snapshot(r) == [k \in {d \in DOMAIN r : d \in Optional => r[d] # None} |-> r[k]]

\* A JSON value is an array of snapshots or an object with fields.
Array(S) == [array |-> S]
Object(fields) == [object |-> fields]

render_json(R) ==
  Object([schema_version |-> SCHEMA_VERSION, snapshots |-> {Snapshot(r) : r \in R}])

\* A Result: what was read, or an error.
Ok(S) == [ok |-> S]
Err == [err |-> "Json"]

\* The snapshots of a document: a bare array, which is how the documents
\* without a version were, or an object of an accepted version.
validate_report_schema(doc) ==
  IF "array" \in DOMAIN doc THEN Ok(doc.array)
  ELSE IF /\ {"schema_version", "snapshots"} \subseteq DOMAIN doc.object
          /\ doc.object.schema_version \in ACCEPTED_SCHEMA_VERSIONS
       THEN Ok(doc.object.snapshots)
       ELSE Err

Field(s, k) == IF k \in DOMAIN s THEN s[k] ELSE None

\* The rows of a document.  The package, function and metric are not optional.
load_cost_reports(doc) ==
  LET read == validate_report_schema(doc)
  IN  IF read = Err THEN Err
      ELSE IF \E s \in read.ok : ~({"function", "metric"} \subseteq DOMAIN s) THEN Err
      ELSE Ok({[function |-> s.function, metric |-> s.metric, value |-> Field(s, "value"),
                limit |-> Field(s, "limit"), pass |-> Field(s, "pass")] : s \in read.ok})

----------------------------------------------------------------------------
(* The report of a comparison. *)

\* classify
VerdictOf(f) ==
  CASE measured[f] = baseline[f] -> "Pass"
    [] measured[f] < baseline[f] -> "Improvement"
    [] Regresses(f, baseline) -> "Regression"
    [] OTHER -> "Pass"

\* check_against_baseline: what both sides have is compared ...
MetricComparison(f) ==
  [function |-> f, baseline |-> baseline[f], current |-> measured[f],
   max_allowed |-> MaxAllowed[<<baseline[f], ToleranceOf(f)>>], verdict |-> VerdictOf(f)]
Compared == {MetricComparison(f) : f \in DOMAIN baseline \cap DOMAIN measured}

\* ... an entry that was not measured is stale ...
Stale == DOMAIN baseline \ DOMAIN measured

\* ... and a function without an entry is new.
New == DOMAIN measured \ DOMAIN baseline

is_unchanged(m) == m.current = m.baseline
abs_change(m) == m.current - m.baseline
direction(m) ==
  CASE abs_change(m) = 0 -> "=" [] abs_change(m) > 0 -> "^" [] abs_change(m) < 0 -> "v"

status_label(m) ==
  CASE m.verdict = "Regression" -> <<"BREACH", m.max_allowed>>
    [] m.verdict = "Improvement" -> <<"improved">>
    [] m.verdict = "Pass" /\ is_unchanged(m) -> <<"unchanged">>
    [] m.verdict = "Pass" /\ ~is_unchanged(m) -> <<"within tolerance">>

ChangeCounts ==
  [regressions |-> Cardinality({m \in Compared : m.verdict = "Regression"}),
   improvements |-> Cardinality({m \in Compared : m.verdict = "Improvement"}),
   moved_ok |-> Cardinality({m \in Compared : m.verdict = "Pass" /\ ~is_unchanged(m)}),
   unchanged |-> Cardinality({m \in Compared : is_unchanged(m)})]

\* What the renderers say so of: it is never so in a run that measured something.
NoOverlap == Compared = {} /\ New = {} /\ Stale = {}

\* Fault: --hide-unchanged hides what is within its tolerance.
DropPassing(hide) == {m \in Compared : ~(hide /\ m.verdict = "Pass")}

\* The loop of the table and of the CSV: --hide-unchanged drops a row.
DropUnchanged(hide) == {m \in Compared : ~(hide /\ is_unchanged(m))}

Hidden(hide) == Cardinality(Compared \ DropUnchanged(hide))

ComparisonLine(m) ==
  [function |-> m.function, baseline |-> m.baseline, current |-> m.current,
   change |-> abs_change(m), dir |-> direction(m), status |-> status_label(m)]

render_report_text(hide) ==
  [table |-> {ComparisonLine(m) : m \in DropUnchanged(hide)}, hidden |-> Hidden(hide),
   new |-> New, stale |-> Stale, counts |-> ChangeCounts]

\* partition_rows: what changed is in a table of its own, and what did not in
\* a collapsed one, or nowhere.
Changed == {m \in Compared : ~is_unchanged(m)}
Unchanged == {m \in Compared : is_unchanged(m)}
render_report_markdown(hide) ==
  [table |-> {ComparisonLine(m) : m \in Changed \cup IF hide THEN {} ELSE Unchanged},
   new |-> New, stale |-> Stale, counts |-> ChangeCounts]

\* The CSV has a verdict for a status, and neither new nor stale functions.
CheckCsv(hide) == DropUnchanged(hide)

\* --hide-unchanged leaves the JSON as it is.
render_check_report_json ==
  [has_regressions |-> HasRegressions,
   regression_count |-> ChangeCounts.regressions,
   regressions |-> {m \in Compared : m.verdict = "Regression"},
   improvements |-> {m \in Compared : m.verdict = "Improvement"},
   passes |-> {m \in Compared : m.verdict = "Pass"},
   new_entries |-> New,
   stale_entries |-> Stale]

----------------------------------------------------------------------------
(* Properties. *)

Reported == pc = "returned" /\ args.mode = "report"

\* In every combination of format flags, a report under --check shows a failing
\* row exactly when it exits 4, and its text counts one; a metric that was
\* measured is shown with its value and, if it has a limit, with its verdict.
\* Only a run that measured nothing and was asked for text or HTML shows
\* nothing at all, whatever it exits with (run's two rendering branches).
OutputsTellTheExitCode ==
  Reported /\ args.check =>
    \A asked \in SUBSET FormatFlags :
      measured # Nothing \/ Format(asked) \in {"csv", "json", "markdown"} =>
        /\ code = 4 <=> \E l \in Shown(asked) : l.pass = FALSE
        /\ Format(asked) = "text" => (code = 4 <=> ChecksFailed(CostReports) > 0)
        /\ \A f \in DOMAIN outcomes \ Unmeasured : \A m \in {"cpu", "mem"} :
             outcomes[f][m] # None =>
               \E l \in Shown(asked) :
                 /\ l.function = f /\ l.metric = m /\ l.value = outcomes[f][m]
                 /\ LimitOf(f, m) # None => (l.pass = FALSE <=> Exceeds(f, m))

\* The document of --json can be read back, as a bare array too, and gives the
\* rows it was written from; so the Markdown a later run makes of it, without
\* --check, shows a failing row exactly when the run that checked exits 4.  With
\* another version, or without one of its fields, it is refused
\* (render_json, load_cost_reports, render_markdown).
ReportReadsBack ==
  Reported =>
    LET doc == render_json(CostReports) IN
      /\ load_cost_reports(doc) = Ok(CostReports)
      /\ load_cost_reports(Array(doc.object.snapshots)) = Ok(CostReports)
      /\ load_cost_reports(Object([doc.object EXCEPT !.schema_version = @ + 1])) = Err
      /\ \A k \in DOMAIN doc.object :
           load_cost_reports(Object([j \in DOMAIN doc.object \ {k} |-> doc.object[j]])) = Err
      /\ args.check =>
           (code = 4 <=> \E l \in MarkdownLines(load_cost_reports(doc).ok) : l.pass = FALSE)

\* What a check shows is what it exits with, in every format and with
\* --hide-unchanged or not: a breach is shown exactly when it exits 5, a metric
\* that moved is always shown, one that is not shown is counted as hidden or as
\* unchanged, the four counts add up to what was compared, and every function
\* of either side is compared, new or stale, and never two of them
\* (check_against_baseline and the renderers of compare.rs and main.rs).
ComparisonsAddUp ==
  pc = "returned" /\ args.mode = "check" /\ measured # Nothing =>
    \A hide \in BOOLEAN :
      LET text == render_report_text(hide)
          markdown == render_report_markdown(hide)
          json == render_check_report_json
          counts == ChangeCounts
      IN
      /\ \A t \in {text.table, markdown.table} :
           /\ code = 5 <=> \E l \in t : l.status[1] = "BREACH"
           /\ \A l \in t : l.status[1] = "BREACH" => l.dir = "^" /\ l.status[2] < l.current
      /\ code = 5 <=> \E m \in CheckCsv(hide) : m.verdict = "Regression"
      /\ code = 5 <=> json.has_regressions
      /\ json.has_regressions <=> json.regression_count > 0
      /\ json.regressions \cup json.improvements \cup json.passes = Compared
      /\ text.table = markdown.table
      /\ \A f \in DOMAIN baseline \cap DOMAIN measured :
           measured[f] # baseline[f] => \E l \in text.table : l.function = f
      /\ Cardinality(text.table) + text.hidden = Cardinality(Compared)
      /\ text.hidden \in {0, counts.unchanged}
      /\ counts.regressions + counts.improvements + counts.moved_ok + counts.unchanged
           = Cardinality(Compared)
      /\ {m.function : m \in Compared} \cup New \cup Stale = DOMAIN baseline \cup DOMAIN measured
      /\ Cardinality(Compared) + Cardinality(New) + Cardinality(Stale)
           = Cardinality(DOMAIN baseline \cup DOMAIN measured)
      /\ ~NoOverlap

=============================================================================

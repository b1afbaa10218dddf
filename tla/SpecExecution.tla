---------------------------- MODULE SpecExecution ----------------------------
(***************************************************************************)
(* What becomes of a selected specification: it is validated against the   *)
(* profile and the exact preflight when it is planned, once more when the  *)
(* approved plan prepares the run, compiled to a program that reads the    *)
(* file on its own, and the files the program leaves are reviewed.         *)
(*                                                                         *)
(* A refusal is the set of all the codes that apply: the code reports the  *)
(* first one it meets.  What pandas and scipy do is modelled as far as     *)
(* they can fail or count.                                                 *)
(***************************************************************************)
EXTENDS MethodSelection

CONSTANTS
    MinSample,    \* MIN_GROUP_SAMPLE_SIZE and MIN_PAIRED_SAMPLE_SIZE
    FewValues,    \* up to so many values a numeric column counts as low-cardinality
    PlotColumns,  \* MAX_DESCRIPTIVE_PLOT_COLUMNS
    Files         \* the datasets specifications are planned for

ASSUME SpecAssumption == MinSample \in Nat /\ Files \subseteq CsvFiles

When(condition, code) == IF condition THEN {code} ELSE {}
Role(spec, i) ==
    CASE spec.operation = "descriptive" -> "descriptive"
      [] spec.operation = "correlation" -> IF i = 1 THEN "x" ELSE "y"
      [] spec.operation = "two-group-comparison" -> IF i = 1 THEN "outcome" ELSE "group"
-----------------------------------------------------------------------------
(* Validation                                                              *)

\* The source is the record of the dataset as it stands now.
IdentityRefusals(spec, source, profile) ==
    When(~source.own, "dataset-project-mismatch")
    \cup When(~source.ready, "dataset-not-ready")
    \cup When(source.hash # spec.hash \/ source.hash # profile.hash, "dataset-content-changed")

Present(column, profile) == profile.profiled - column.missing

\* A profile of a sample proves nothing about the rows it has not seen.
NumericSampleRefusals(column, profile) ==
    When(Complete(profile) /\ Present(column, profile) < 2, "descriptive-sample-too-small")
Constant(column) == column.unique < 2 \/ Cardinality(column.range) = 1
DegenerateRefusals(column, profile, role) ==
    When(Complete(profile) /\ Present(column, profile) = 0, role \o "-column-all-missing")
    \cup When(Complete(profile) /\ Constant(column), role \o "-column-constant")
MissingRefusals(spec, columns) ==
    When(spec.policy = "report-only" /\ \E c \in columns : c.missing > 0,
         "report-only-inferential-missing-values")

DescriptiveRefusals(spec, columns, profile) ==
    When(spec.plot # "none" /\ Len(spec.columns) > PlotColumns,
         "descriptive-plot-column-limit-exceeded")
    \cup When(spec.statistics = "numeric" /\ \E c \in columns : ~IsNumeric(c),
              "descriptive-column-not-numeric")
    \cup (IF spec.statistics = "numeric"
          THEN UNION {NumericSampleRefusals(c, profile) : c \in columns} ELSE {})
    \cup When(spec.statistics = "frequency" /\ \E c \in columns : IsNumeric(c),
              "frequency-column-not-categorical")
    \cup When(spec.plot = "histogram" /\ \E c \in columns : ~IsNumeric(c),
              "histogram-column-not-numeric")
    \cup When(spec.plot = "bar" /\ \E c \in columns : IsNumeric(c),
              "bar-column-not-categorical")

\* The method "auto" stands for, from the values the profile counted.
Resolved(spec, profile) ==
    LET few(i) == ColumnNamed(profile, spec.columns[i]).unique <= FewValues
    IN  IF spec.method # "auto" THEN spec.method
        ELSE CASE spec.operation = "two-group-comparison" ->
                     IF few(1) THEN "mann-whitney-u" ELSE "welch-t-test"
               [] spec.operation = "correlation" ->
                     IF few(1) \/ few(2) THEN "spearman" ELSE "pearson"
EffectOf(method) == IF method = "welch-t-test" THEN "hedges-g" ELSE "rank-biserial"
Normalized(spec, profile) ==
    IF spec.operation = "two-group-comparison"
    THEN [spec EXCEPT !.effect = EffectOf(Resolved(spec, profile))]
    ELSE spec

TwoGroupRefusals(spec, profile, preflight) ==
    LET outcome == ColumnNamed(profile, spec.columns[1])
        group == ColumnNamed(profile, spec.columns[2])
        method == Resolved(spec, profile)
    IN  When(~IsNumeric(outcome), "outcome-column-not-numeric")
        \cup DegenerateRefusals(outcome, profile, "outcome")
        \cup MissingRefusals(spec, {outcome, group})
        \cup When(IsNumeric(group), "group-column-not-categorical")
        \cup When(group.unique < 2, "group-column-has-one-value")
        \cup When(profile.lossy, "group-values-not-executable-from-profile")
        \cup When(~(spec.groups \subseteq group.values), "group-values-not-observed")
        \cup (IF preflight.exact
              THEN When(\E g \in spec.groups : preflight.counts[g] < MinSample,
                        "two-group-sample-too-small")
                   \cup When(method = "welch-t-test"
                                /\ \E g \in spec.groups : ~preflight.varies[g],
                             "welch-group-variance-zero")
              ELSE When(Complete(profile) /\ Present(outcome, profile) < 2 * MinSample,
                        "two-group-sample-too-small"))
        \cup When(spec.method # "auto" /\ spec.effect # EffectOf(method),
                  "comparison-effect-size-mismatch")

CorrelationRefusals(spec, profile, preflight) ==
    LET column(i) == ColumnNamed(profile, spec.columns[i])
        most == Least(Present(column(1), profile), Present(column(2), profile))
    IN  (UNION {When(~IsNumeric(column(i)), Role(spec, i) \o "-column-not-numeric")
                   \cup DegenerateRefusals(column(i), profile, Role(spec, i)) : i \in {1, 2}})
        \cup MissingRefusals(spec, {column(1), column(2)})
        \cup When(IF preflight.exact THEN preflight.pairs < MinSample
                  ELSE Complete(profile) /\ most < MinSample,
                  "correlation-sample-too-small")

\* validate_analysis_spec
Refusals(spec, source, profile, preflight) ==
    LET columns == {ColumnNamed(profile, name) : name \in Among(spec.columns)}
    IN  IF Repeats(ColumnNames(profile.columns)) THEN {"dataset-column-names-ambiguous"}
        ELSE IF ~(Among(spec.columns) \subseteq NamesOf(profile))
             THEN {"analysis-column-missing"}
        ELSE IdentityRefusals(spec, source, profile)
             \cup CASE spec.operation = "descriptive" ->
                         DescriptiveRefusals(spec, columns, profile)
                    [] spec.operation = "two-group-comparison" ->
                         TwoGroupRefusals(spec, profile, preflight)
                    [] spec.operation = "correlation" ->
                         CorrelationRefusals(spec, profile, preflight)

PreflightOf(file, source, spec) ==
    CASE spec.operation = "descriptive" -> NoPreflight
      [] spec.operation = "two-group-comparison" ->
            TwoGroupPreflight(file, source.hash, spec.columns[1], spec.columns[2], spec.groups)
      [] spec.operation = "correlation" ->
            CorrelationPreflight(file, source.hash, spec.columns[1], spec.columns[2])
-----------------------------------------------------------------------------
(* Planning and preparing                                                  *)

Refuse(codes) == [ok |-> FALSE, codes |-> codes]

\* _validate_selected_analysis_spec: validated, read exactly, validated again.
Plan(file, source, profile, spec) ==
    LET before == Refusals(spec, source, profile, NoPreflight)
        normal == Normalized(spec, profile)
        exact == PreflightOf(file, source, normal)
        after == Refusals(normal, source, profile, exact)
    IN  IF before # {} THEN Refuse(before)
        ELSE IF exact.refused THEN Refuse({"analysis-preflight-failed"})
        ELSE IF after # {} THEN Refuse(after)
        ELSE [ok |-> TRUE, spec |-> Normalized(normal, profile), profile |-> profile,
              method |-> Resolved(normal, profile), exact |-> exact]

\* _compiled_analysis_for_plan: the same again for what was approved, which must not
\* have been made for another profile nor become another specification by it.
Prepare(file, source, profile, approved) ==
    LET again == Plan(file, source, profile, approved.spec)
    IN  IF approved.profile # profile THEN Refuse({"analysis-spec-binding-invalid"})
        ELSE IF again.ok /\ again.spec # approved.spec
             THEN Refuse({"analysis-spec-normalization-changed"})
        ELSE again

\* safe_analysis_spec_revision: what the agent may propose after a failed analysis.
Revisable(spec) == spec.method \in {"welch-t-test", "pearson"}
Revision(spec) ==
    IF spec.method = "welch-t-test"
    THEN [spec EXCEPT !.method = "mann-whitney-u", !.effect = "rank-biserial"]
    ELSE [spec EXCEPT !.method = "spearman"]
-----------------------------------------------------------------------------
(* The compiled program                                                    *)

Compiled(planned) == [spec |-> planned.spec, method |-> planned.method]

\* pandas takes the first line for the header as it stands, and refuses rows that are
\* longer than it.  (When the first row is the longest it takes the extra fields for an
\* index: what comes of that is left open and counted as a failure.)
Loads(file) == \A k \in Rows(file) : Len(file.rows[k]) <= Width(file)
HasColumns(file, names) ==
    /\ ~file.banner
    /\ \A name \in names : \E i \in DOMAIN file.header :
          file.header[i].text = name /\ file.header[i].shown = name

Missing(file, name) ==
    {k \in Rows(file) : Cell(file, k, ColumnAt(file, name)) \in MissingTexts}
Result(code, file, analyzed, missing, sizes) ==
    [runs |-> TRUE, operation |-> code.spec.operation, columns |-> code.spec.columns,
     groups |-> code.spec.groups, requested |-> code.spec.method, resolved |-> code.method,
     hash |-> code.spec.hash,
     total |-> Len(file.rows), analyzed |-> analyzed, missing |-> missing, sizes |-> sizes]
Failure == [runs |-> FALSE]

\* _descriptive_body.  The mean of nothing and the deviation of one value are not finite.
RunDescriptive(code, file) ==
    LET names == Among(code.spec.columns)
        missing == UNION {Missing(file, name) : name \in names}
        present(name) == Rows(file) \ Missing(file, name)
        computes(name, least) ==
            /\ Cardinality(present(name)) >= least
            /\ \A k \in present(name) : Cell(file, k, ColumnAt(file, name)) \in Numbers
    IN  IF \E name \in names : \/ code.spec.statistics = "numeric" /\ ~computes(name, 2)
                               \/ code.spec.plot = "histogram" /\ ~computes(name, 1)
        THEN Failure
        ELSE Result(code, file, Len(file.rows) - Cardinality(missing), Cardinality(missing),
                    [name \in names |-> Cardinality(present(name))])

\* _two_group_body
RunTwoGroups(code, file) ==
    LET outcome == code.spec.columns[1]
        group == code.spec.columns[2]
        numbers(g) == GroupNumbers(file, outcome, group, g)
        sizes == [g \in code.spec.groups |-> Cardinality(DOMAIN numbers(g))]
        analyzed == UNION {DOMAIN numbers(g) : g \in code.spec.groups}
        selected == {k \in Rows(file) : Cell(file, k, ColumnAt(file, group)) \in code.spec.groups}
    IN  IF \/ \E g \in code.spec.groups : sizes[g] < MinSample
           \/ code.method = "welch-t-test" /\ \A g \in code.spec.groups : ~Varies(numbers(g))
        THEN Failure
        ELSE Result(code, file, Cardinality(analyzed),
                    Cardinality(selected \ analyzed) + Cardinality(Missing(file, group)), sizes)

\* _correlation_body.  The correlation with a constant is not finite.
RunCorrelation(code, file) ==
    LET pairs == Pairs(file, code.spec.columns[1], code.spec.columns[2])
        varies(name) == Varies([k \in pairs |-> NumberOf[Cell(file, k, ColumnAt(file, name))]])
    IN  IF Cardinality(pairs) < MinSample \/ \E name \in Among(code.spec.columns) : ~varies(name)
        THEN Failure
        ELSE Result(code, file, Cardinality(pairs), Len(file.rows) - Cardinality(pairs),
                    [all |-> Cardinality(pairs)])

Run(code, file) ==
    IF ~Loads(file) \/ ~HasColumns(file, Among(code.spec.columns)) THEN Failure
    ELSE CASE code.spec.operation = "descriptive" -> RunDescriptive(code, file)
           [] code.spec.operation = "two-group-comparison" -> RunTwoGroups(code, file)
           [] code.spec.operation = "correlation" -> RunCorrelation(code, file)
-----------------------------------------------------------------------------
(* The review                                                              *)

\* StructuredAnalysisResult: the counts agree with each other.
ResultFits(result) ==
    /\ result.analyzed + result.missing <= result.total
    /\ result.operation = "two-group-comparison" =>
          /\ \A g \in DOMAIN result.sizes : result.sizes[g] <= result.analyzed
          /\ result.resolved \in TwoGroupMethods
    /\ result.operation = "correlation" =>
          /\ result.analyzed + result.missing = result.total
          /\ result.resolved \in CorrelationMethods
    /\ result.requested \in {"auto", result.resolved}

\* The files and records of a run, each with what it was made from; NoFile where there
\* is none or it cannot be read.
NoFile == [runs |-> FALSE]
FigureColumns(spec) ==
    IF spec.plot = "none" THEN <<>>
    ELSE IF spec.operation = "two-group-comparison" THEN <<spec.columns[2], spec.columns[1]>>
    ELSE spec.columns
Artifacts(code, result) ==
    [spec |-> code.spec, result |-> result, recorded |-> result, observed |-> code,
     summary |-> result, notebook |-> code, figure |-> FigureColumns(code.spec)]

\* _review_identity, against the approved plan
SameIdentity(approved, artifacts) ==
    /\ artifacts.spec = approved.spec /\ artifacts.observed = approved
    /\ artifacts.result.hash = approved.spec.hash
    /\ artifacts.recorded = artifacts.result
\* _review_method, _review_results
SameMethod(spec, result) ==
    /\ result.operation = spec.operation /\ result.requested = spec.method
    /\ result.columns = spec.columns /\ result.groups = spec.groups
SampleIsPresent(result) == result.analyzed > 0
SameFiles(approved, artifacts) ==
    /\ artifacts.summary = artifacts.result
    /\ artifacts.figure = FigureColumns(artifacts.spec)
    /\ artifacts.notebook = approved

\* review_analysis_spec_outputs.  Warnings, which every local specification's
\* limitations are, change nothing but the name of "passed".
Verdict(approved, artifacts) ==
    IF artifacts.spec = NoFile \/ artifacts.result = NoFile THEN "failed"
    ELSE IF ~ResultFits(artifacts.result) THEN "failed"
    ELSE IF ~SameIdentity(approved, artifacts) THEN "blocked"
    ELSE IF /\ SameMethod(artifacts.spec, artifacts.result)
            /\ SampleIsPresent(artifacts.result) /\ SameFiles(approved, artifacts)
         THEN "passed"
    ELSE "revision-required"
-----------------------------------------------------------------------------
(* From the specification to the review                                    *)

\* Every specification over a file's columns that the schemas take, whoever selected it.
Specs(profile) ==
    LET names == NamesOf(profile)
        pairs == {pair \in names \X names : pair[1] # pair[2]}
        spec(operation, columns, statistics, plot, groups, method, policy) ==
            [operation |-> operation, columns |-> columns, statistics |-> statistics,
             plot |-> plot, groups |-> groups, method |-> method,
             effect |-> IF operation = "two-group-comparison" THEN EffectOf(method) ELSE "none",
             policy |-> policy, hash |-> profile.hash]
        values == (UNION {ColumnNamed(profile, name).values : name \in names}) \cup {"else"}
        two == {groups \in SUBSET values : Cardinality(groups) = 2}
        policies == {"drop-per-operation", "report-only"}
    IN  {spec("descriptive", columns, content[1], content[2], {}, "descriptive",
              "drop-per-operation") :
            columns \in pairs \cup {<<name>> : name \in names},
            content \in {<<"numeric", "histogram">>, <<"numeric", "none">>,
                         <<"frequency", "bar">>, <<"counts", "none">>,
                         <<"counts", "histogram">>}}
        \cup {spec("correlation", pair, "none", "scatter", {}, method, policy) :
                 pair \in pairs, method \in CorrelationMethods \cup {"auto"},
                 policy \in policies}
        \cup {spec("two-group-comparison", pair, "none", "boxplot", groups, method, policy) :
                 pair \in pairs, groups \in two,
                 method \in TwoGroupMethods \cup {"auto"}, policy \in policies}

\* What planning cannot see, and the run then fails by.
Overlooked(planned, file) ==
    \/ ~HasColumns(file, Among(planned.spec.columns))
    \/ planned.spec.operation = "descriptive" /\ ~(Loads(file) /\ Complete(planned.profile))
    \/ /\ planned.spec.operation = "correlation"
       /\ \E name \in Among(planned.spec.columns) :
             ~Varies([k \in Pairs(file, planned.spec.columns[1], planned.spec.columns[2]) |->
                         NumberOf[Cell(file, k, ColumnAt(file, name))]])

\* The run counts what the exact preflight counted, over the rows of the file.
CountsAgree(planned, result) ==
    /\ planned.spec.operation = "two-group-comparison" => result.sizes = planned.exact.counts
    /\ planned.spec.operation = "correlation" => result.sizes.all = planned.exact.pairs
    /\ planned.spec.operation = "descriptive" =>
          \A i \in DOMAIN planned.profile.columns :
             LET column == planned.profile.columns[i]
             IN  column.name \in DOMAIN result.sizes =>
                    (Complete(planned.profile) =>
                        result.sizes[column.name] = Present(column, planned.profile))

\* One file of a run, or the record of it, replaced.
Damaged(artifacts, other) ==
    {[artifacts EXCEPT ![part] = NoFile] : part \in {"spec", "result", "recorded", "observed",
                                                    "summary", "notebook"}}
    \cup {[artifacts EXCEPT ![part] = other[part]] :
             part \in {part \in DOMAIN artifacts : artifacts[part] # other[part]}}
    \cup {[artifacts EXCEPT !.result = other.result, !.recorded = other.result,
                            !.summary = other.result]}

ExecutesAsPlanned(file, source, profile, planned) ==
    LET code == Compiled(planned)
        result == Run(code, file)
        artifacts == Artifacts(code, result)
        foreign == Artifacts([code EXCEPT !.spec.columns = Elsewhere],
                             [result EXCEPT !.columns = Elsewhere])
    IN  /\ Prepare(file, source, profile, planned) = planned
        /\ \A late \in {[source EXCEPT !.ready = FALSE], [source EXCEPT !.hash = Altered]} :
              ~Prepare(file, late, profile, planned).ok
        /\ planned.exact.exact =>
              ~Prepare([file EXCEPT !.hash = Altered], source, profile, planned).ok
        /\ ~result.runs => Overlooked(planned, file)
        /\ result.runs =>
              /\ CountsAgree(planned, result)
              /\ Verdict(code, artifacts) =
                    IF SampleIsPresent(result) THEN "passed" ELSE "revision-required"
              /\ \A damaged \in Damaged(artifacts, foreign) : Verdict(code, damaged) # "passed"
        /\ Revisable(planned.spec) => Plan(file, source, profile, Revision(planned.spec)).ok

SpecsExecute ==
    \A inspected \in UNION {{[file |-> file, profile |-> ProfileOf(file, sample)] :
                               sample \in Samples(file)} : file \in Files} :
        LET file == inspected.file
            profile == inspected.profile
            source == [own |-> TRUE, ready |-> TRUE, hash |-> profile.hash]
        IN  \A spec \in Specs(profile) :
               LET planned == Plan(file, source, profile, spec)
               IN  planned.ok => ExecutesAsPlanned(file, source, profile, planned)
=============================================================================

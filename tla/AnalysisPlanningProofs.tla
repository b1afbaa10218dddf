----------------------- MODULE AnalysisPlanningProofs -----------------------
(***************************************************************************)
(* TLAPS proofs about what the intake passes on, for every file, goal and  *)
(* answer, and for every sample size and limit.                            *)
(*                                                                         *)
(* A specification (AllSpecsExecute).  What planning refuses is a set of   *)
(* codes, so not being refused is a conjunction of conditions; normalising *)
(* twice changes nothing more, and the validation reads nothing of what    *)
(* normalising changes.  Hence the approved specification prepares         *)
(* unchanged.  The profile of a complete sample that lost nothing counts   *)
(* the cells the program will read, and the exact preflights are about the *)
(* very sets of rows the program computes with.  A review that passes ties *)
(* all parts of an output to the code that was compiled from the           *)
(* specification and to the result.                                        *)
(*                                                                         *)
(* A question (AllDialogsSettle).  A role is a column that fits, one the   *)
(* user typed, or open.  Each decision says which roles it found open.  If *)
(* a question is asked again after an answer then what it asks for is      *)
(* still open, which the answer rules out.  Group values are asked for     *)
(* when both columns are settled, and no later answer unsettles them: this *)
(* is what a dialog keeps (Dialog).                                        *)
(***************************************************************************)
EXTENDS AnalysisPlanning, AgentIntakeProofs, WellFoundedInduction

-----------------------------------------------------------------------------
IsFile(file) == file \in CsvFiles

LEMMA FilesAreFiles == \A file \in Files : IsFile(file)
  BY SpecAssumption DEF IsFile

LEMMA FileParts ==
  ASSUME NEW file, IsFile(file)
  PROVE  /\ file.hash # "h2"
         /\ DOMAIN file.header = 1 .. Len(file.header) /\ Len(file.header) \in Nat \ {0}
         /\ \A i \in DOMAIN file.header :
               file.header[i].shown \in STRING /\ file.header[i].shown \notin {"", "other"}
         /\ DOMAIN file.rows = 1 .. Len(file.rows) /\ Len(file.rows) \in Nat
         /\ \A k \in Rows(file) : file.rows[k] \in Seq(STRING)
  <1>1. /\ file.hash \in STRING \ {Altered}
        /\ file.header \in Seq(HeaderCells) \ {<<>>}
        /\ file.rows \in Seq(Seq(STRING))
    BY DEF IsFile, CsvFiles
  <1>2. file.hash # "h2"
    BY <1>1 DEF Altered
  <1>3. DOMAIN file.header = 1 .. Len(file.header) /\ Len(file.header) \in Nat \ {0}
    BY <1>1
  <1>4. \A i \in DOMAIN file.header : file.header[i] \in HeaderCells
    BY <1>1
  <1>5. Elsewhere[1] = "other"
    BY DEF Elsewhere
  <1>6. \A i \in DOMAIN file.header :
           file.header[i].shown \in STRING /\ file.header[i].shown \notin {"", "other"}
    BY <1>4, <1>5 DEF HeaderCells
  <1>7. DOMAIN file.rows = 1 .. Len(file.rows) /\ Len(file.rows) \in Nat
    BY <1>1
  <1>8. \A k \in Rows(file) : file.rows[k] \in Seq(STRING)
    BY <1>1 DEF Rows
  <1> QED  BY <1>2, <1>3, <1>6, <1>7, <1>8

LEMMA RowsFinite ==
  ASSUME NEW file, IsFile(file)
  PROVE  /\ IsFiniteSet(Rows(file)) /\ Cardinality(Rows(file)) = Len(file.rows)
         /\ \A part \in SUBSET Rows(file) :
               /\ IsFiniteSet(part) /\ Cardinality(part) \in Nat
               /\ Cardinality(part) <= Len(file.rows)
               /\ Cardinality(Rows(file) \ part) = Len(file.rows) - Cardinality(part)
               /\ Cardinality(part) = Len(file.rows) => part = Rows(file)
  <1>1. Rows(file) = 1 .. Len(file.rows) /\ Len(file.rows) \in Nat
    BY FileParts DEF Rows
  <1>2. IsFiniteSet(Rows(file)) /\ Cardinality(Rows(file)) = Len(file.rows)
    BY <1>1, FS_Interval
  <1>3. ASSUME NEW part \in SUBSET Rows(file)
        PROVE  /\ IsFiniteSet(part) /\ Cardinality(part) \in Nat
               /\ Cardinality(part) <= Len(file.rows)
               /\ Cardinality(Rows(file) \ part) = Len(file.rows) - Cardinality(part)
               /\ Cardinality(part) = Len(file.rows) => part = Rows(file)
    <2>1. IsFiniteSet(part) /\ Cardinality(part) <= Cardinality(Rows(file))
          /\ (Cardinality(part) = Cardinality(Rows(file)) => part = Rows(file))
      BY <1>2, FS_Subset
    <2>2. Cardinality(part) \in Nat
      BY <2>1, FS_CardinalityType
    <2>3. Cardinality(Rows(file) \ part)
             = Cardinality(Rows(file)) - Cardinality(Rows(file) \cap part)
      BY <1>2, FS_Difference
    <2>4. Rows(file) \cap part = part
      OBVIOUS
    <2> QED  BY <1>2, <2>1, <2>2, <2>3, <2>4
  <1> QED  BY <1>2, <1>3
-----------------------------------------------------------------------------
LEMMA NamesAgree ==
  ASSUME NEW file, NEW sample
  PROVE  ColumnNames(ProfileOf(file, sample).columns) = Names(file)
  BY DEF ColumnNames, ProfileOf, Names, Column

LEMMA ProfileParts ==
  ASSUME NEW file, NEW sample
  PROVE  LET profile == ProfileOf(file, sample)
         IN  /\ profile.hash = file.hash /\ profile.rows = Len(file.rows)
             /\ profile.profiled = Cardinality(sample)
             /\ profile.lossy = Lossy(file, sample)
             /\ DOMAIN profile.columns = DOMAIN file.header
  BY DEF ProfileOf

LEMMA ColumnIs ==
  ASSUME NEW file, IsFile(file), NEW sample, ~Repeats(Names(file)),
         NEW i \in DOMAIN file.header
  PROVE  LET name == file.header[i].shown
         IN  /\ ColumnAt(file, name) = i
             /\ ColumnNamed(ProfileOf(file, sample), name)
                   = Column(name, [k \in sample |-> Cell(file, k, i)])
  <1> DEFINE name == file.header[i].shown
  <1>0. DOMAIN file.header \subseteq Int
    <2>1. DOMAIN file.header = 1 .. Len(file.header) /\ Len(file.header) \in Nat
      BY FileParts
    <2> QED  BY <2>1
  <1>1. \A j \in DOMAIN file.header : file.header[j].shown = name => j = i
    <2>1. \A p, q \in DOMAIN file.header :
             p < q => file.header[p].shown # file.header[q].shown
      BY DEF Repeats, Names
    <2> SUFFICES ASSUME NEW j \in DOMAIN file.header, file.header[j].shown = name
                 PROVE  j = i
      OBVIOUS
    <2>2. i \in Int /\ j \in Int
      BY <1>0
    <2>3. ~(i < j) /\ ~(j < i)
      BY <2>1
    <2> QED  BY <2>2, <2>3
  <1>2. ColumnAt(file, name) = i
    BY <1>1 DEF ColumnAt
  <1> DEFINE columns == ProfileOf(file, sample).columns
  <1>3. columns = [j \in DOMAIN file.header |->
                     Column(Names(file)[j], [k \in sample |-> Cell(file, k, j)])]
    BY DEF ProfileOf
  <1>4. \A j \in DOMAIN file.header : columns[j].name = file.header[j].shown
    BY <1>3 DEF Column, Names
  <1>5. DOMAIN columns = DOMAIN file.header
    BY <1>3
  <1>6. ColumnNamed(ProfileOf(file, sample), name) = columns[i]
    <2> HIDE DEF name
    <2>1. columns[i].name = name
      BY <1>4 DEF name
    <2>2. \A j \in DOMAIN columns : columns[j].name = name => j = i
      BY <1>1, <1>4, <1>5
    <2> HIDE DEF columns
    <2>3. (CHOOSE j \in DOMAIN columns : columns[j].name = name) = i
      BY <2>1, <2>2, <1>5
    <2> QED  BY <2>3 DEF ColumnNamed, columns
  <1>7. columns[i] = Column(name, [k \in sample |-> Cell(file, k, i)])
    BY <1>3 DEF Names
  <1> QED  BY <1>2, <1>6, <1>7
-----------------------------------------------------------------------------
(* Columns of numbers and of texts.                                        *)

LEMMA KindsOfNumbers ==
  \A text : Kind(text) \in {"integer", "number"} => text \in Numbers
  <1>1. DecimalTexts \subseteq Numbers
    BY DEF DecimalTexts, Numbers, NumberOf
  <1>2. SUFFICES ASSUME NEW text, text \notin Numbers
                 PROVE  Kind(text) \notin {"integer", "number"}
    OBVIOUS
  <1>3. text \notin DecimalTexts /\ text \notin Numbers \ DecimalTexts
    BY <1>1, <1>2
  <1>4. Kind(text) \in {"boolean", "datetime", "string"}
    BY <1>3 DEF Kind
  <1> QED  BY <1>4

LEMMA NumbersArePresent == MissingTexts \cap Numbers = {}
  BY DEF MissingTexts, Numbers, NumberOf

LEMMA NumericKinds ==
  ASSUME NEW kinds, NEW unique, InferredType(kinds, unique) \in {"integer", "number"}
  PROVE  kinds # {} /\ kinds \subseteq {"integer", "number"}
  <1>1. CASE kinds \in {{"boolean"}, {"datetime"}}
    <2>1. PICK kind \in {"boolean", "datetime"} : kinds = {kind}
      BY <1>1
    <2>2. /\ kinds # {} /\ kinds # {"integer"} /\ ~(kinds \subseteq {"integer", "number"})
          /\ kinds # {"string"}
      BY <2>1
    <2>3. InferredType(kinds, unique) = CHOOSE k \in kinds : TRUE
      BY <1>1, <2>2 DEF InferredType
    <2>4. InferredType(kinds, unique) \in kinds
      BY <2>2, <2>3
    <2> QED  BY <2>1, <2>4
  <1>2. CASE kinds \notin {{"boolean"}, {"datetime"}}
    BY <1>2 DEF InferredType
  <1> QED  BY <1>1, <1>2

\* What a column of numbers says of its cells.
LEMMA NumericColumn ==
  ASSUME NEW name, NEW cells, IsNumeric(Column(name, cells))
  PROVE  /\ \A k \in DOMAIN cells : cells[k] \in MissingTexts \cup Numbers
         /\ \E k \in DOMAIN cells : cells[k] \notin MissingTexts
  <1> DEFINE present == {k \in DOMAIN cells : cells[k] \notin MissingTexts}
             texts == {cells[k] : k \in present}
             kinds == {Kind(t) : t \in texts}
             type == InferredType(kinds, Cardinality(texts))
  <1>1. Column(name, cells).type = type
    BY DEF Column
  <1>2. kinds # {} /\ kinds \subseteq {"integer", "number"}
    <2>1. type \in {"integer", "number"}
      BY <1>1 DEF IsNumeric
    <2> HIDE DEF kinds
    <2> QED  BY <2>1, NumericKinds
  <1>3. \A t \in texts : t \in Numbers
    BY <1>2, KindsOfNumbers
  <1> QED  BY <1>2, <1>3

\* What a column that lists its values says of them.
LEMMA ListedValues ==
  ASSUME NEW name, NEW cells, NEW value \in Column(name, cells).values,
         \A k \in DOMAIN cells : Shown(cells[k]) = cells[k]
  PROVE  \E k \in DOMAIN cells : cells[k] = value /\ value \notin MissingTexts
  <1> DEFINE present == {k \in DOMAIN cells : cells[k] \notin MissingTexts}
             texts == {cells[k] : k \in present}
             type == InferredType({Kind(t) : t \in texts}, Cardinality(texts))
  <1>1. Column(name, cells).values = IF type = "categorical" THEN {Shown(t) : t \in texts} ELSE {}
    BY DEF Column
  <1>2. PICK t \in texts : value = Shown(t)
    BY <1>1
  <1>3. PICK k \in present : t = cells[k]
    OBVIOUS
  <1> QED  BY <1>2, <1>3

LEMMA CountedColumn ==
  ASSUME NEW name, NEW cells
  PROVE  /\ Column(name, cells).name = name
         /\ Column(name, cells).missing
               = Cardinality({k \in DOMAIN cells : cells[k] \in MissingTexts})
  <1>1. DOMAIN cells \ {k \in DOMAIN cells : cells[k] \notin MissingTexts}
           = {k \in DOMAIN cells : cells[k] \in MissingTexts}
    OBVIOUS
  <1>2. Column(name, cells).missing
           = Cardinality(DOMAIN cells \ {k \in DOMAIN cells : cells[k] \notin MissingTexts})
    BY DEF Column
  <1>3. Column(name, cells).name = name
    BY DEF Column
  <1> QED  BY <1>1, <1>2, <1>3
-----------------------------------------------------------------------------
(* Specifications.                                                         *)

IsSpec(spec) ==
    spec = [operation |-> spec.operation, columns |-> spec.columns,
            statistics |-> spec.statistics, plot |-> spec.plot, groups |-> spec.groups,
            method |-> spec.method, effect |-> spec.effect, policy |-> spec.policy,
            hash |-> spec.hash]

IsPair(spec, names) ==
    \E pair \in names \X names : pair[1] # pair[2] /\ spec.columns = <<pair[1], pair[2]>>
IsDescriptive(spec, names) ==
    /\ spec.operation = "descriptive" /\ spec.method = "descriptive" /\ spec.groups = {}
    /\ IsPair(spec, names) \/ \E name \in names : spec.columns = <<name>>
IsCorrelation(spec, names) ==
    /\ spec.operation = "correlation" /\ spec.method \in CorrelationMethods \cup {"auto"}
    /\ IsPair(spec, names)
IsComparison(spec, names) ==
    /\ spec.operation = "two-group-comparison"
    /\ spec.method \in TwoGroupMethods \cup {"auto"}
    /\ IsPair(spec, names)
    /\ spec.groups # {}

LEMMA SpecParts ==
  ASSUME NEW profile, NEW spec \in Specs(profile)
  PROVE  LET names == NamesOf(profile)
         IN  /\ IsSpec(spec) /\ spec.hash = profile.hash
             /\ \/ IsDescriptive(spec, names)
                \/ IsCorrelation(spec, names)
                \/ IsComparison(spec, names)
  <1> DEFINE names == NamesOf(profile)
             pairs == {pair \in names \X names : pair[1] # pair[2]}
             made(operation, columns, statistics, plot, groups, method, policy) ==
                [operation |-> operation, columns |-> columns, statistics |-> statistics,
                 plot |-> plot, groups |-> groups, method |-> method,
                 effect |-> IF operation = "two-group-comparison" THEN EffectOf(method)
                            ELSE "none",
                 policy |-> policy, hash |-> profile.hash]
             values == (UNION {ColumnNamed(profile, name).values : name \in names}) \cup {"else"}
             two == {groups \in SUBSET values : Cardinality(groups) = 2}
             policies == {"drop-per-operation", "report-only"}
             contents == {<<"numeric", "histogram">>, <<"numeric", "none">>,
                          <<"frequency", "bar">>, <<"counts", "none">>,
                          <<"counts", "histogram">>}
  <1>1. \/ \E columns \in pairs \cup {<<name>> : name \in names}, content \in contents :
              spec = made("descriptive", columns, content[1], content[2], {}, "descriptive",
                          "drop-per-operation")
        \/ \E pair \in pairs, method \in CorrelationMethods \cup {"auto"}, policy \in policies :
              spec = made("correlation", pair, "none", "scatter", {}, method, policy)
        \/ \E pair \in pairs, groups \in two, method \in TwoGroupMethods \cup {"auto"},
              policy \in policies :
              spec = made("two-group-comparison", pair, "none", "boxplot", groups, method, policy)
    <2> HIDE DEF names, pairs, two
    <2> QED  BY DEF Specs, names, pairs, two
  <1>2. \A pair \in pairs : pair \in names \X names /\ pair = <<pair[1], pair[2]>>
    OBVIOUS
  <1> HIDE DEF names, pairs, two
  <1>3. CASE \E columns \in pairs \cup {<<name>> : name \in names}, content \in contents :
                spec = made("descriptive", columns, content[1], content[2], {}, "descriptive",
                            "drop-per-operation")
    <2>1. PICK columns \in pairs \cup {<<name>> : name \in names}, content \in contents :
             spec = made("descriptive", columns, content[1], content[2], {}, "descriptive",
                         "drop-per-operation")
      BY <1>3
    <2>2. IsSpec(spec) /\ spec.hash = profile.hash
      BY <2>1 DEF IsSpec
    <2>3. /\ spec.operation = "descriptive" /\ spec.method = "descriptive" /\ spec.groups = {}
          /\ spec.columns = columns
      BY <2>1
    <2>4. IsPair(spec, names) \/ \E name \in names : spec.columns = <<name>>
      BY <2>3, <1>2 DEF IsPair, pairs
    <2> QED  BY <2>2, <2>3, <2>4 DEF IsDescriptive, names
  <1>4. CASE \E pair \in pairs, method \in CorrelationMethods \cup {"auto"}, policy \in policies :
                spec = made("correlation", pair, "none", "scatter", {}, method, policy)
    <2>1. PICK pair \in pairs, method \in CorrelationMethods \cup {"auto"}, policy \in policies :
             spec = made("correlation", pair, "none", "scatter", {}, method, policy)
      BY <1>4
    <2>2. IsSpec(spec) /\ spec.hash = profile.hash
      BY <2>1 DEF IsSpec
    <2>3. /\ spec.operation = "correlation" /\ spec.method \in CorrelationMethods \cup {"auto"}
          /\ spec.columns = pair
      BY <2>1
    <2>4. IsPair(spec, names)
      BY <2>3, <1>2 DEF IsPair, pairs
    <2> QED  BY <2>2, <2>3, <2>4 DEF IsCorrelation, names
  <1>5. CASE \E pair \in pairs, groups \in two, method \in TwoGroupMethods \cup {"auto"},
                policy \in policies :
                spec = made("two-group-comparison", pair, "none", "boxplot", groups, method, policy)
    <2>1. PICK pair \in pairs, groups \in two, method \in TwoGroupMethods \cup {"auto"},
             policy \in policies :
             spec = made("two-group-comparison", pair, "none", "boxplot", groups, method, policy)
      BY <1>5
    <2>2. IsSpec(spec) /\ spec.hash = profile.hash
      BY <2>1 DEF IsSpec
    <2>3. /\ spec.operation = "two-group-comparison"
          /\ spec.method \in TwoGroupMethods \cup {"auto"}
          /\ spec.columns = pair /\ spec.groups = groups
      BY <2>1
    <2>4. IsPair(spec, names)
      BY <2>3, <1>2 DEF IsPair, pairs
    <2>5. groups # {}
      <3>1. Cardinality(groups) = 2
        BY DEF two
      <3> QED  BY <3>1, FS_EmptySet
    <2> QED  BY <2>2, <2>3, <2>4, <2>5 DEF IsComparison, names
  <1> QED  BY <1>1, <1>3, <1>4, <1>5
-----------------------------------------------------------------------------
(* What it takes not to be refused.                                        *)

LEMMA WhenIsEmpty == \A condition \in BOOLEAN : \A code : When(condition, code) = {} <=> ~condition
  BY DEF When

Proper(column, profile) ==
    Complete(profile) => ~(Present(column, profile) = 0) /\ ~Constant(column)
MissingFit(spec, columns) ==
    spec.policy = "report-only" => \A c \in columns : ~(c.missing > 0)

LEMMA ProperIsNotRefused ==
  \A column, profile, role : DegenerateRefusals(column, profile, role) = {} <=> Proper(column, profile)
  BY WhenIsEmpty DEF DegenerateRefusals, Proper, Complete, Constant

LEMMA MissingFitIsNotRefused ==
  \A spec, columns : MissingRefusals(spec, columns) = {} <=> MissingFit(spec, columns)
  BY WhenIsEmpty DEF MissingRefusals, MissingFit

IdentityFits(spec, source, profile) ==
    /\ source.own /\ source.ready
    /\ source.hash = spec.hash /\ source.hash = profile.hash

LEMMA IdentityIsNotRefused ==
  \A spec, profile, source :
     IdentityRefusals(spec, source, profile) = {} <=> IdentityFits(spec, source, profile)
  BY DEF When, IdentityRefusals, IdentityFits

ComparisonFits(spec, profile, preflight) ==
    LET outcome == ColumnNamed(profile, spec.columns[1])
        group == ColumnNamed(profile, spec.columns[2])
        method == Resolved(spec, profile)
    IN  /\ IsNumeric(outcome) /\ Proper(outcome, profile)
        /\ MissingFit(spec, {outcome, group})
        /\ ~IsNumeric(group) /\ ~(group.unique < 2)
        /\ ~profile.lossy /\ spec.groups \subseteq group.values
        /\ IF preflight.exact
           THEN /\ ~\E g \in spec.groups : preflight.counts[g] < MinSample
                /\ method = "welch-t-test" => \A g \in spec.groups : preflight.varies[g]
           ELSE ~(Complete(profile) /\ Present(outcome, profile) < 2 * MinSample)
        /\ spec.method # "auto" => spec.effect = EffectOf(method)

LEMMA ComparisonIsNotRefused ==
  \A spec, profile, preflight :
     TwoGroupRefusals(spec, profile, preflight) = {} <=> ComparisonFits(spec, profile, preflight)
  <1> TAKE spec, profile, preflight
  <1> DEFINE outcome == ColumnNamed(profile, spec.columns[1])
             group == ColumnNamed(profile, spec.columns[2])
             method == Resolved(spec, profile)
             small == \E g \in spec.groups : preflight.counts[g] < MinSample
             flat == /\ method = "welch-t-test"
                     /\ \E g \in spec.groups : ~preflight.varies[g]
             few == Complete(profile) /\ Present(outcome, profile) < 2 * MinSample
  <1>1. TwoGroupRefusals(spec, profile, preflight)
           = When(~IsNumeric(outcome), "outcome-column-not-numeric")
             \cup DegenerateRefusals(outcome, profile, "outcome")
             \cup MissingRefusals(spec, {outcome, group})
             \cup When(IsNumeric(group), "group-column-not-categorical")
             \cup When(group.unique < 2, "group-column-has-one-value")
             \cup When(profile.lossy, "group-values-not-executable-from-profile")
             \cup When(~(spec.groups \subseteq group.values), "group-values-not-observed")
             \cup (IF preflight.exact
                   THEN When(small, "two-group-sample-too-small")
                        \cup When(flat, "welch-group-variance-zero")
                   ELSE When(few, "two-group-sample-too-small"))
             \cup When(spec.method # "auto" /\ spec.effect # EffectOf(method),
                       "comparison-effect-size-mismatch")
    BY Zenon DEF TwoGroupRefusals
  <1>2. ComparisonFits(spec, profile, preflight)
           <=> /\ IsNumeric(outcome) /\ Proper(outcome, profile)
               /\ MissingFit(spec, {outcome, group})
               /\ ~IsNumeric(group) /\ ~(group.unique < 2)
               /\ ~profile.lossy /\ spec.groups \subseteq group.values
               /\ IF preflight.exact THEN ~small /\ ~flat ELSE ~few
               /\ spec.method # "auto" => spec.effect = EffectOf(method)
    BY DEF ComparisonFits
  <1>3. DegenerateRefusals(outcome, profile, "outcome") = {} <=> Proper(outcome, profile)
    BY ProperIsNotRefused
  <1>4. MissingRefusals(spec, {outcome, group}) = {} <=> MissingFit(spec, {outcome, group})
    BY MissingFitIsNotRefused
  <1> HIDE DEF outcome, group, method, small, flat, few
  <1>5. TwoGroupRefusals(spec, profile, preflight) = {}
           <=> /\ IsNumeric(outcome) /\ Proper(outcome, profile)
               /\ MissingFit(spec, {outcome, group})
               /\ ~IsNumeric(group) /\ ~(group.unique < 2)
               /\ ~profile.lossy /\ spec.groups \subseteq group.values
               /\ IF preflight.exact THEN ~small /\ ~flat ELSE ~few
               /\ spec.method # "auto" => spec.effect = EffectOf(method)
    BY <1>1, <1>3, <1>4, Zenon DEF When
  <1> QED  BY <1>2, <1>5

CorrelationFits(spec, profile, preflight) ==
    LET column(i) == ColumnNamed(profile, spec.columns[i])
        most == Least(Present(column(1), profile), Present(column(2), profile))
    IN  /\ \A i \in {1, 2} : IsNumeric(column(i)) /\ Proper(column(i), profile)
        /\ MissingFit(spec, {column(1), column(2)})
        /\ IF preflight.exact THEN ~(preflight.pairs < MinSample)
           ELSE ~(Complete(profile) /\ most < MinSample)

LEMMA CorrelationIsNotRefused ==
  \A spec, profile, preflight :
     CorrelationRefusals(spec, profile, preflight) = {} <=> CorrelationFits(spec, profile, preflight)
  <1> TAKE spec, profile, preflight
  <1> DEFINE column(i) == ColumnNamed(profile, spec.columns[i])
             most == Least(Present(column(1), profile), Present(column(2), profile))
             small == IF preflight.exact THEN preflight.pairs < MinSample
                      ELSE Complete(profile) /\ most < MinSample
             bad(i) == When(~IsNumeric(column(i)), Role(spec, i) \o "-column-not-numeric")
                       \cup DegenerateRefusals(column(i), profile, Role(spec, i))
             all == UNION {bad(i) : i \in {1, 2}}
             good(i) == IsNumeric(column(i)) /\ Proper(column(i), profile)
  <1>1. CorrelationRefusals(spec, profile, preflight)
           = all
             \cup MissingRefusals(spec, {column(1), column(2)})
             \cup When(small, "correlation-sample-too-small")
    BY Zenon DEF CorrelationRefusals
  <1>2. CorrelationFits(spec, profile, preflight)
           <=> /\ good(1) /\ good(2)
               /\ MissingFit(spec, {column(1), column(2)})
               /\ ~small
    BY DEF CorrelationFits
  <1>3. /\ (bad(1) = {}) <=> good(1)
        /\ (bad(2) = {}) <=> good(2)
    BY ProperIsNotRefused DEF When
  <1>4. MissingRefusals(spec, {column(1), column(2)}) = {}
           <=> MissingFit(spec, {column(1), column(2)})
    BY MissingFitIsNotRefused
  <1>5. When(small, "correlation-sample-too-small") = {} <=> ~small
    BY DEF When
  <1>6. CorrelationRefusals(spec, profile, preflight)
           = bad(1) \cup bad(2) \cup MissingRefusals(spec, {column(1), column(2)})
             \cup When(small, "correlation-sample-too-small")
    <2>1. all = bad(1) \cup bad(2)
      <3> HIDE DEF bad
      <3> QED  OBVIOUS
    <2> HIDE DEF all, bad, column, small
    <2> QED  BY <1>1, <2>1, Zenon
  <1> HIDE DEF column, most, small, bad, good
  <1>7. \A a, b, c, d : (a \cup b \cup c \cup d = {}) <=> (a = {} /\ b = {} /\ c = {} /\ d = {})
    OBVIOUS
  <1>8. CorrelationRefusals(spec, profile, preflight) = {}
           <=> /\ bad(1) = {} /\ bad(2) = {}
               /\ MissingRefusals(spec, {column(1), column(2)}) = {}
               /\ When(small, "correlation-sample-too-small") = {}
    BY <1>6, <1>7, Zenon
  <1> QED  BY <1>2, <1>3, <1>4, <1>5, <1>8, Zenon

\* Of a description the program only needs the columns to be what the numbers and the
\* histogram are drawn from.
LEMMA DescriptionFits ==
  ASSUME NEW spec, NEW columns, NEW profile,
         DescriptiveRefusals(spec, columns, profile) = {}
  PROVE  /\ spec.statistics = "numeric" =>
               \A c \in columns : /\ IsNumeric(c)
                                  /\ Complete(profile) => ~(Present(c, profile) < 2)
         /\ spec.plot = "histogram" => \A c \in columns : IsNumeric(c)
  <1> DEFINE numeric == spec.statistics = "numeric" /\ \E c \in columns : ~IsNumeric(c)
             drawn == spec.plot = "histogram" /\ \E c \in columns : ~IsNumeric(c)
             few == IF spec.statistics = "numeric"
                    THEN UNION {NumericSampleRefusals(c, profile) : c \in columns} ELSE {}
  <1>1. /\ When(numeric, "descriptive-column-not-numeric") = {}
        /\ When(drawn, "histogram-column-not-numeric") = {}
        /\ few = {}
    BY DEF DescriptiveRefusals
  <1>2. ~numeric /\ ~drawn
    BY <1>1 DEF When
  <1>3. spec.statistics = "numeric" => \A c \in columns : NumericSampleRefusals(c, profile) = {}
    BY <1>1
  <1>4. \A c \in columns : NumericSampleRefusals(c, profile) = {} =>
                              (Complete(profile) => ~(Present(c, profile) < 2))
    BY DEF NumericSampleRefusals, When
  <1> QED  BY <1>2, <1>3, <1>4
-----------------------------------------------------------------------------
(* Planning.                                                               *)

Sound(spec) ==
    /\ IsSpec(spec)
    /\ spec.operation \in {"descriptive", "two-group-comparison", "correlation"}
    /\ spec.operation = "descriptive" => spec.method # "auto"

OfColumns(spec, profile) ==
    /\ ~Repeats(ColumnNames(profile.columns))
    /\ Among(spec.columns) \subseteq NamesOf(profile)
ColumnsOf(spec, profile) == {ColumnNamed(profile, name) : name \in Among(spec.columns)}

Fits(spec, source, profile, preflight) ==
    /\ OfColumns(spec, profile) /\ IdentityFits(spec, source, profile)
    /\ spec.operation = "descriptive" =>
          DescriptiveRefusals(spec, ColumnsOf(spec, profile), profile) = {}
    /\ spec.operation = "two-group-comparison" => ComparisonFits(spec, profile, preflight)
    /\ spec.operation = "correlation" => CorrelationFits(spec, profile, preflight)

LEMMA FitIsNotRefused ==
  ASSUME NEW spec, Sound(spec), NEW source, NEW profile, NEW preflight
  PROVE  Refusals(spec, source, profile, preflight) = {} <=> Fits(spec, source, profile, preflight)
  <1> DEFINE columns == ColumnsOf(spec, profile)
             own == CASE spec.operation = "descriptive" ->
                           DescriptiveRefusals(spec, columns, profile)
                      [] spec.operation = "two-group-comparison" ->
                           TwoGroupRefusals(spec, profile, preflight)
                      [] spec.operation = "correlation" ->
                           CorrelationRefusals(spec, profile, preflight)
  <1>1. Refusals(spec, source, profile, preflight)
           = IF Repeats(ColumnNames(profile.columns)) THEN {"dataset-column-names-ambiguous"}
             ELSE IF ~(Among(spec.columns) \subseteq NamesOf(profile))
                  THEN {"analysis-column-missing"}
             ELSE IdentityRefusals(spec, source, profile) \cup own
    BY Zenon DEF Refusals, ColumnsOf
  <1>2. own = {} <=>
           /\ spec.operation = "descriptive" =>
                 DescriptiveRefusals(spec, columns, profile) = {}
           /\ spec.operation = "two-group-comparison" => ComparisonFits(spec, profile, preflight)
           /\ spec.operation = "correlation" => CorrelationFits(spec, profile, preflight)
    <2>1. CASE spec.operation = "descriptive"
      BY <2>1
    <2>2. CASE spec.operation = "two-group-comparison"
      <3>1. own = TwoGroupRefusals(spec, profile, preflight)
        BY <2>2
      <3> QED  BY <2>2, <3>1, ComparisonIsNotRefused, Zenon
    <2>3. CASE spec.operation = "correlation"
      <3>1. own = CorrelationRefusals(spec, profile, preflight)
        BY <2>3
      <3> QED  BY <2>3, <3>1, CorrelationIsNotRefused, Zenon
    <2> QED  BY <2>1, <2>2, <2>3 DEF Sound
  <1>3. IdentityRefusals(spec, source, profile) = {} <=> IdentityFits(spec, source, profile)
    BY IdentityIsNotRefused
  <1> HIDE DEF own
  <1>4. CASE OfColumns(spec, profile)
    <2>1. Refusals(spec, source, profile, preflight)
             = IdentityRefusals(spec, source, profile) \cup own
      BY <1>1, <1>4 DEF OfColumns
    <2>2. Refusals(spec, source, profile, preflight) = {}
             <=> IdentityRefusals(spec, source, profile) = {} /\ own = {}
      BY <2>1
    <2> QED  BY <1>2, <1>3, <1>4, <2>2, Zenon DEF Fits
  <1>5. CASE ~OfColumns(spec, profile)
    BY <1>1, <1>5 DEF OfColumns, Fits
  <1> QED  BY <1>4, <1>5

LEMMA ResolvedIsMethod ==
  ASSUME NEW spec, NEW profile, spec.method # "auto"
  PROVE  Resolved(spec, profile) = spec.method
  BY DEF Resolved

LEMMA ResolvedByMethod ==
  ASSUME NEW s, NEW t, NEW profile, Sound(s),
         s.operation = t.operation, s.method = t.method, s.columns = t.columns
  PROVE  Resolved(s, profile) = Resolved(t, profile)
  <1>1. CASE s.method # "auto"
    BY <1>1 DEF Resolved
  <1>2. CASE s.method = "auto" /\ s.operation = "two-group-comparison"
    BY <1>2 DEF Resolved
  <1>3. CASE s.method = "auto" /\ s.operation = "correlation"
    BY <1>3 DEF Resolved
  <1> QED  BY <1>1, <1>2, <1>3 DEF Sound

LEMMA NormalizedParts ==
  ASSUME NEW spec, NEW profile, Sound(spec)
  PROVE  LET normal == Normalized(spec, profile)
         IN  /\ Sound(normal)
             /\ normal.operation = spec.operation /\ normal.columns = spec.columns
             /\ normal.statistics = spec.statistics /\ normal.plot = spec.plot
             /\ normal.groups = spec.groups /\ normal.method = spec.method
             /\ normal.policy = spec.policy /\ normal.hash = spec.hash
             /\ spec.operation = "two-group-comparison" =>
                   normal.effect = EffectOf(Resolved(spec, profile))
             /\ Resolved(normal, profile) = Resolved(spec, profile)
             /\ Normalized(normal, profile) = normal
  <1> DEFINE normal == Normalized(spec, profile)
             effect == EffectOf(Resolved(spec, profile))
  <1>1. CASE spec.operation # "two-group-comparison"
    BY <1>1 DEF Normalized
  <1>2. CASE spec.operation = "two-group-comparison"
    <2>1. normal = [spec EXCEPT !.effect = effect]
      BY <1>2 DEF Normalized
    <2>2. spec = [operation |-> spec.operation, columns |-> spec.columns,
                  statistics |-> spec.statistics, plot |-> spec.plot, groups |-> spec.groups,
                  method |-> spec.method, effect |-> spec.effect, policy |-> spec.policy,
                  hash |-> spec.hash]
      BY DEF Sound, IsSpec
    <2> HIDE DEF normal, effect
    <2>3. normal = [operation |-> spec.operation, columns |-> spec.columns,
                    statistics |-> spec.statistics, plot |-> spec.plot, groups |-> spec.groups,
                    method |-> spec.method, effect |-> effect, policy |-> spec.policy,
                    hash |-> spec.hash]
      BY <2>1, <2>2
    <2>4. /\ normal.operation = spec.operation /\ normal.columns = spec.columns
          /\ normal.statistics = spec.statistics /\ normal.plot = spec.plot
          /\ normal.groups = spec.groups /\ normal.method = spec.method
          /\ normal.policy = spec.policy /\ normal.hash = spec.hash
          /\ normal.effect = effect
      BY <2>3
    <2>5. IsSpec(normal)
      BY <2>3, <2>4 DEF IsSpec
    <2>6. Sound(normal)
      BY <2>4, <2>5 DEF Sound
    <2>7. Resolved(normal, profile) = Resolved(spec, profile)
      BY <2>4, ResolvedByMethod
    <2>8. Normalized(normal, profile) = [normal EXCEPT !.effect = effect]
      BY <1>2, <2>4, <2>7 DEF Normalized, effect
    <2>9. [normal EXCEPT !.effect = effect] = normal
      BY <2>3
    <2> QED  BY <2>4, <2>6, <2>7, <2>8, <2>9 DEF normal, effect
  <1> QED  BY <1>1, <1>2

LEMMA PlanIs ==
  ASSUME NEW file, NEW source, NEW profile, NEW spec, Sound(spec)
  PROVE  LET normal == Normalized(spec, profile)
             exact == PreflightOf(file, source, normal)
             fit == /\ Fits(spec, source, profile, NoPreflight) /\ ~exact.refused
                    /\ Fits(normal, source, profile, exact)
             planned == Plan(file, source, profile, spec)
         IN  /\ planned.ok <=> fit
             /\ fit => planned = [ok |-> TRUE, spec |-> normal, profile |-> profile,
                                  method |-> Resolved(spec, profile), exact |-> exact]
  <1> DEFINE normal == Normalized(spec, profile)
             exact == PreflightOf(file, source, normal)
             before == Refusals(spec, source, profile, NoPreflight)
             after == Refusals(normal, source, profile, exact)
             planned == Plan(file, source, profile, spec)
  <1>1. planned = IF before # {} THEN Refuse(before)
                  ELSE IF exact.refused THEN Refuse({"analysis-preflight-failed"})
                  ELSE IF after # {} THEN Refuse(after)
                  ELSE [ok |-> TRUE, spec |-> Normalized(normal, profile), profile |-> profile,
                        method |-> Resolved(normal, profile), exact |-> exact]
    BY Zenon DEF Plan
  <1>2. /\ Sound(normal) /\ Normalized(normal, profile) = normal
        /\ Resolved(normal, profile) = Resolved(spec, profile)
    BY NormalizedParts
  <1>3. /\ before = {} <=> Fits(spec, source, profile, NoPreflight)
        /\ after = {} <=> Fits(normal, source, profile, exact)
    BY <1>2, FitIsNotRefused
  <1>4. \A codes : Refuse(codes).ok = FALSE
    BY DEF Refuse
  <1> HIDE DEF normal, exact, before, after, planned
  <1>5. CASE before = {} /\ ~exact.refused /\ after = {}
    BY <1>1, <1>2, <1>3, <1>5 DEF normal, exact, planned
  <1>6. CASE ~(before = {} /\ ~exact.refused /\ after = {})
    <2>1. planned.ok = FALSE
      BY <1>1, <1>4, <1>6
    <2> QED  BY <1>3, <1>6, <2>1 DEF normal, exact, planned
  <1> QED  BY <1>5, <1>6
-----------------------------------------------------------------------------
(* Preparing and revising.                                                 *)

LEMMA SameComparison ==
  ASSUME NEW s, NEW t, NEW profile, NEW preflight, ComparisonFits(s, profile, preflight),
         t.columns = s.columns, t.policy = s.policy, t.groups = s.groups,
         Resolved(t, profile) = "welch-t-test" => Resolved(s, profile) = "welch-t-test",
         t.method # "auto" => t.effect = EffectOf(Resolved(t, profile))
  PROVE  ComparisonFits(t, profile, preflight)
  BY Zenon DEF ComparisonFits, MissingFit

LEMMA SameCorrelation ==
  ASSUME NEW s, NEW t, NEW profile, NEW preflight, CorrelationFits(s, profile, preflight),
         t.columns = s.columns, t.policy = s.policy
  PROVE  CorrelationFits(t, profile, preflight)
  BY Zenon DEF CorrelationFits, MissingFit

LEMMA SamePreflight ==
  ASSUME NEW s, NEW t, NEW file, NEW source, Sound(s),
         t.operation = s.operation, t.columns = s.columns, t.groups = s.groups
  PROVE  PreflightOf(file, source, t) = PreflightOf(file, source, s)
  <1>1. CASE s.operation = "descriptive"
    BY <1>1 DEF PreflightOf
  <1>2. CASE s.operation = "two-group-comparison"
    BY <1>2 DEF PreflightOf
  <1>3. CASE s.operation = "correlation"
    BY <1>3 DEF PreflightOf
  <1> QED  BY <1>1, <1>2, <1>3 DEF Sound

\* A specification that is planned, and what it is planned as.
Planned(file, source, profile, spec, normal, exact) ==
    /\ Sound(spec) /\ normal = Normalized(spec, profile)
    /\ exact = PreflightOf(file, source, normal) /\ ~exact.refused
    /\ Fits(spec, source, profile, NoPreflight)
    /\ Fits(normal, source, profile, exact)
PlanFor(profile, spec, normal, exact) ==
    [ok |-> TRUE, spec |-> normal, profile |-> profile,
     method |-> Resolved(spec, profile), exact |-> exact]

LEMMA PlannedAgain ==
  ASSUME NEW file, NEW source, NEW profile, NEW spec, NEW normal, NEW exact,
         Planned(file, source, profile, spec, normal, exact)
  PROVE  /\ Fits(normal, source, profile, NoPreflight)
         /\ Plan(file, source, profile, normal) = PlanFor(profile, spec, normal, exact)
  <1>1. /\ Sound(normal) /\ Normalized(normal, profile) = normal
        /\ normal.operation = spec.operation /\ normal.columns = spec.columns
        /\ normal.groups = spec.groups /\ normal.policy = spec.policy
        /\ normal.hash = spec.hash /\ normal.method = spec.method
        /\ spec.operation = "two-group-comparison" =>
              normal.effect = EffectOf(Resolved(spec, profile))
        /\ Resolved(normal, profile) = Resolved(spec, profile)
    BY NormalizedParts DEF Planned
  <1>2. Fits(normal, source, profile, NoPreflight)
    <2>1. OfColumns(normal, profile) /\ IdentityFits(normal, source, profile)
      BY DEF Planned, Fits
    <2>2. normal.operation = "descriptive" =>
             DescriptiveRefusals(normal, ColumnsOf(normal, profile), profile) = {}
      BY DEF Planned, Fits
    <2>3. ASSUME normal.operation = "two-group-comparison"
          PROVE  ComparisonFits(normal, profile, NoPreflight)
      <3>1. ComparisonFits(spec, profile, NoPreflight)
        BY <1>1, <2>3 DEF Planned, Fits
      <3> QED  BY <1>1, <2>3, <3>1, SameComparison
    <2>4. ASSUME normal.operation = "correlation"
          PROVE  CorrelationFits(normal, profile, NoPreflight)
      <3>1. CorrelationFits(spec, profile, NoPreflight)
        BY <1>1, <2>4 DEF Planned, Fits
      <3> QED  BY <1>1, <3>1, SameCorrelation
    <2> QED  BY <2>1, <2>2, <2>3, <2>4 DEF Fits
  <1>3. /\ exact = PreflightOf(file, source, normal) /\ ~exact.refused
        /\ Fits(normal, source, profile, exact)
    BY DEF Planned
  <1>4. Plan(file, source, profile, normal)
           = [ok |-> TRUE, spec |-> normal, profile |-> profile,
              method |-> Resolved(normal, profile), exact |-> exact]
    BY <1>1, <1>2, <1>3, PlanIs
  <1> QED  BY <1>1, <1>2, <1>4 DEF PlanFor

LEMMA PreparedAsPlanned ==
  ASSUME NEW file, NEW source, NEW profile, NEW spec, NEW normal, NEW exact,
         Planned(file, source, profile, spec, normal, exact)
  PROVE  LET planned == PlanFor(profile, spec, normal, exact)
         IN  Prepare(file, source, profile, planned) = planned
  <1> DEFINE planned == PlanFor(profile, spec, normal, exact)
  <1>1. Plan(file, source, profile, normal) = planned
    BY PlannedAgain
  <1>2. planned.spec = normal /\ planned.profile = profile /\ planned.ok
    BY DEF PlanFor
  <1> HIDE DEF planned
  <1>3. Prepare(file, source, profile, planned)
           = IF planned.profile # profile THEN Refuse({"analysis-spec-binding-invalid"})
             ELSE IF planned.ok /\ planned.spec # planned.spec
                  THEN Refuse({"analysis-spec-normalization-changed"})
             ELSE planned
    BY <1>1, <1>2 DEF Prepare
  <1>4. Prepare(file, source, profile, planned) = planned
    BY <1>2, <1>3
  <1> QED  BY <1>4 DEF planned

\* What cannot be planned again cannot be prepared.
LEMMA NotPrepared ==
  ASSUME NEW file, NEW source, NEW profile, NEW approved,
         ~Plan(file, source, profile, approved.spec).ok
  PROVE  ~Prepare(file, source, profile, approved).ok
  <1> DEFINE again == Plan(file, source, profile, approved.spec)
  <1>1. ~again.ok
    OBVIOUS
  <1>2. Prepare(file, source, profile, approved)
           = IF approved.profile # profile THEN Refuse({"analysis-spec-binding-invalid"})
             ELSE IF again.ok /\ again.spec # approved.spec
                  THEN Refuse({"analysis-spec-normalization-changed"})
             ELSE again
    BY DEF Prepare
  <1>3. \A codes : ~Refuse(codes).ok
    BY DEF Refuse
  <1> HIDE DEF again
  <1> QED  BY <1>1, <1>2, <1>3

LEMMA LateIsRefused ==
  ASSUME NEW file, NEW late, NEW profile, NEW spec, NEW normal, NEW exact,
         Sound(normal), ~late.ready \/ late.hash # profile.hash
  PROVE  ~Prepare(file, late, profile, PlanFor(profile, spec, normal, exact)).ok
  <1>1. ~Fits(normal, late, profile, NoPreflight)
    BY DEF Fits, IdentityFits
  <1>2. ~Plan(file, late, profile, normal).ok
    BY <1>1, PlanIs
  <1>3. PlanFor(profile, spec, normal, exact).spec = normal
    BY DEF PlanFor
  <1> QED  BY <1>2, <1>3, NotPrepared

LEMMA ChangedFileIsRefused ==
  ASSUME NEW file, NEW source, NEW profile, NEW spec, NEW normal, NEW exact,
         Planned(file, source, profile, spec, normal, exact), IsFile(file),
         exact.exact, source.hash # Altered
  PROVE  ~Prepare([file EXCEPT !.hash = Altered], source, profile,
                  PlanFor(profile, spec, normal, exact)).ok
  <1> DEFINE changed == [file EXCEPT !.hash = Altered]
  <1>1. changed.hash = Altered
    BY DEF IsFile, CsvFiles
  <1>2. ~Opens(changed, source.hash)
    BY <1>1 DEF Opens
  <1>3. \A names : ~Exact(changed, source.hash, names)
    BY <1>2 DEF Exact
  <1>4. Sound(normal) /\ Normalized(normal, profile) = normal
    BY NormalizedParts DEF Planned
  <1>5. normal.operation # "descriptive"
    BY DEF Planned, PreflightOf, NoPreflight
  <1> HIDE DEF changed
  <1>6. PreflightOf(changed, source, normal) = Refused
    <2>1. CASE normal.operation = "two-group-comparison"
      BY <1>3, <2>1 DEF PreflightOf, TwoGroupPreflight
    <2>2. CASE normal.operation = "correlation"
      BY <1>3, <2>2 DEF PreflightOf, CorrelationPreflight
    <2> QED  BY <1>4, <1>5, <2>1, <2>2 DEF Sound
  <1>7. PreflightOf(changed, source, normal).refused
    BY <1>6 DEF Refused
  <1>8. ~Plan(changed, source, profile, normal).ok
    BY <1>4, <1>7, PlanIs
  <1>9. PlanFor(profile, spec, normal, exact).spec = normal
    BY DEF PlanFor
  <1>10. ~Prepare(changed, source, profile, PlanFor(profile, spec, normal, exact)).ok
    BY <1>8, <1>9, NotPrepared
  <1> QED  BY <1>10 DEF changed

LEMMA RevisionIsPlanned ==
  ASSUME NEW file, NEW source, NEW profile, NEW spec, NEW normal, NEW exact,
         Planned(file, source, profile, spec, normal, exact),
         normal.method = "welch-t-test" => normal.operation = "two-group-comparison",
         normal.method = "pearson" => normal.operation = "correlation",
         Revisable(normal)
  PROVE  Plan(file, source, profile, Revision(normal)).ok
  <1> DEFINE revised == Revision(normal)
             final == Normalized(revised, profile)
  <1>1. Sound(normal) /\ Resolved(normal, profile) = Resolved(spec, profile)
    BY NormalizedParts DEF Planned
  <1>2. normal = [operation |-> normal.operation, columns |-> normal.columns,
                  statistics |-> normal.statistics, plot |-> normal.plot,
                  groups |-> normal.groups, method |-> normal.method,
                  effect |-> normal.effect, policy |-> normal.policy, hash |-> normal.hash]
    BY <1>1 DEF Sound, IsSpec
  <1>3. /\ Fits(normal, source, profile, NoPreflight) /\ Fits(normal, source, profile, exact)
        /\ exact = PreflightOf(file, source, normal) /\ ~exact.refused
    BY PlannedAgain DEF Planned
  <1>4. CASE normal.method = "welch-t-test"
    <2>1. revised = [operation |-> normal.operation, columns |-> normal.columns,
                     statistics |-> normal.statistics, plot |-> normal.plot,
                     groups |-> normal.groups, method |-> "mann-whitney-u",
                     effect |-> "rank-biserial", policy |-> normal.policy, hash |-> normal.hash]
      BY <1>2, <1>4 DEF Revision
    <2> HIDE DEF revised
    <2>2. /\ revised.operation = "two-group-comparison" /\ revised.columns = normal.columns
          /\ revised.groups = normal.groups /\ revised.policy = normal.policy
          /\ revised.hash = normal.hash /\ revised.method = "mann-whitney-u"
          /\ revised.effect = "rank-biserial" /\ IsSpec(revised)
      BY <1>4, <2>1 DEF IsSpec
    <2>3. Sound(revised)
      BY <2>2 DEF Sound
    <2>4. Resolved(revised, profile) = "mann-whitney-u"
      <3>1. revised.method # "auto"
        BY <2>2
      <3>2. Resolved(revised, profile) = revised.method
        BY <3>1, ResolvedIsMethod
      <3> QED  BY <2>2, <3>2
    <2>5. /\ Sound(final) /\ final.operation = revised.operation
          /\ final.columns = revised.columns /\ final.groups = revised.groups
          /\ final.policy = revised.policy /\ final.hash = revised.hash
          /\ final.method = revised.method
          /\ final.effect = EffectOf("mann-whitney-u")
          /\ Resolved(final, profile) = "mann-whitney-u"
      BY <2>2, <2>3, <2>4, NormalizedParts
    <2> HIDE DEF final
    <2>6. PreflightOf(file, source, final) = exact
      BY <1>1, <1>3, <1>4, <2>2, <2>5, SamePreflight
    <2>7. \A t \in {revised, final} :
             /\ t.operation = "two-group-comparison" /\ t.columns = normal.columns
             /\ t.groups = normal.groups /\ t.policy = normal.policy /\ t.hash = normal.hash
             /\ Resolved(t, profile) = "mann-whitney-u"
             /\ t.effect = EffectOf(Resolved(t, profile))
      BY <2>2, <2>4, <2>5 DEF EffectOf
    <2>8. ASSUME NEW preflight \in {NoPreflight, exact}, NEW t \in {revised, final}
          PROVE  Fits(t, source, profile, preflight)
      <3>1. Fits(normal, source, profile, preflight)
        BY <1>3
      <3>2. ComparisonFits(normal, profile, preflight)
        BY <1>4, <3>1 DEF Fits
      <3>3. ComparisonFits(t, profile, preflight)
        BY <2>7, <3>2, SameComparison
      <3>4. OfColumns(t, profile) /\ IdentityFits(t, source, profile)
        BY <2>7, <3>1 DEF Fits, OfColumns, IdentityFits
      <3> QED  BY <2>7, <3>3, <3>4 DEF Fits
    <2>9. Fits(revised, source, profile, NoPreflight) /\ Fits(final, source, profile, exact)
      BY <2>8
    <2> QED  BY <1>3, <2>3, <2>6, <2>9, PlanIs DEF final, revised
  <1>5. CASE normal.method = "pearson"
    <2>1. revised = [operation |-> normal.operation, columns |-> normal.columns,
                     statistics |-> normal.statistics, plot |-> normal.plot,
                     groups |-> normal.groups, method |-> "spearman",
                     effect |-> normal.effect, policy |-> normal.policy, hash |-> normal.hash]
      BY <1>2, <1>5 DEF Revision
    <2> HIDE DEF revised
    <2>2. /\ revised.operation = "correlation" /\ revised.columns = normal.columns
          /\ revised.groups = normal.groups /\ revised.policy = normal.policy
          /\ revised.hash = normal.hash /\ IsSpec(revised)
      BY <1>5, <2>1 DEF IsSpec
    <2>3. Sound(revised)
      BY <2>2 DEF Sound
    <2>4. final = revised
      BY <2>2 DEF Normalized
    <2> HIDE DEF final
    <2>5. PreflightOf(file, source, final) = exact
      BY <1>1, <1>3, <1>5, <2>2, <2>4, SamePreflight
    <2>6. ASSUME NEW preflight \in {NoPreflight, exact}
          PROVE  Fits(revised, source, profile, preflight)
      <3>1. Fits(normal, source, profile, preflight)
        BY <1>3
      <3>2. CorrelationFits(normal, profile, preflight)
        BY <1>5, <3>1 DEF Fits
      <3>3. CorrelationFits(revised, profile, preflight)
        BY <2>2, <3>2, SameCorrelation
      <3>4. OfColumns(revised, profile) /\ IdentityFits(revised, source, profile)
        BY <2>2, <3>1 DEF Fits, OfColumns, IdentityFits
      <3> QED  BY <2>2, <3>3, <3>4 DEF Fits
    <2>7. Fits(revised, source, profile, NoPreflight) /\ Fits(final, source, profile, exact)
      BY <2>4, <2>6
    <2> QED  BY <1>3, <2>3, <2>5, <2>7, PlanIs DEF final, revised
  <1> QED  BY <1>4, <1>5 DEF Revisable
-----------------------------------------------------------------------------
(* What the profile says of the cells.                                     *)

LEMMA NamedColumn ==
  ASSUME NEW file, IsFile(file), NEW sample, ~Repeats(Names(file)),
         NEW name \in Among(Names(file))
  PROVE  /\ ColumnAt(file, name) \in DOMAIN file.header
         /\ name \notin {"", "other"}
         /\ ColumnNamed(ProfileOf(file, sample), name)
               = Column(name, [k \in sample |-> Cell(file, k, ColumnAt(file, name))])
  <1>1. PICK i \in DOMAIN file.header : name = file.header[i].shown
    BY DEF Among, Names
  <1>2. /\ ColumnAt(file, file.header[i].shown) = i
        /\ ColumnNamed(ProfileOf(file, sample), file.header[i].shown)
              = Column(file.header[i].shown, [k \in sample |-> Cell(file, k, i)])
    BY ColumnIs
  <1>3. name \notin {"", "other"}
    BY <1>1, FileParts
  <1> QED  BY <1>1, <1>2, <1>3

LEMMA NumericCells ==
  ASSUME NEW file, IsFile(file), NEW sample, ~Repeats(Names(file)),
         NEW name \in Among(Names(file)), IsNumeric(ColumnNamed(ProfileOf(file, sample), name))
  PROVE  /\ \A k \in sample : Cell(file, k, ColumnAt(file, name)) \in MissingTexts \cup Numbers
         /\ \E k \in sample : Cell(file, k, ColumnAt(file, name)) \notin MissingTexts
  <1> DEFINE cells == [k \in sample |-> Cell(file, k, ColumnAt(file, name))]
  <1>1. IsNumeric(Column(name, cells))
    BY NamedColumn
  <1>2. /\ \A k \in DOMAIN cells : cells[k] \in MissingTexts \cup Numbers
        /\ \E k \in DOMAIN cells : cells[k] \notin MissingTexts
    <2> HIDE DEF cells
    <2> QED  BY <1>1, NumericColumn
  <1> QED  BY <1>2

LEMMA CompleteSample ==
  ASSUME NEW file, IsFile(file), NEW sample \in SUBSET Rows(file),
         Complete(ProfileOf(file, sample))
  PROVE  sample = Rows(file)
  <1>1. Cardinality(sample) = Len(file.rows)
    BY ProfileParts DEF Complete
  <1> QED  BY <1>1, RowsFinite

LEMMA CompleteCount ==
  ASSUME NEW file, IsFile(file), NEW sample \in SUBSET Rows(file), ~Repeats(Names(file)),
         NEW name \in Among(Names(file)), Complete(ProfileOf(file, sample))
  PROVE  Present(ColumnNamed(ProfileOf(file, sample), name), ProfileOf(file, sample))
            = Cardinality(Rows(file) \ Missing(file, name))
  <1> DEFINE cells == [k \in Rows(file) |-> Cell(file, k, ColumnAt(file, name))]
             column == ColumnNamed(ProfileOf(file, sample), name)
  <1>1. sample = Rows(file)
    BY CompleteSample
  <1>2. column = Column(name, cells)
    BY <1>1, NamedColumn
  <1>3. column.missing = Cardinality({k \in DOMAIN cells : cells[k] \in MissingTexts})
    <2> HIDE DEF cells, column
    <2> QED  BY <1>2, CountedColumn
  <1>4. {k \in DOMAIN cells : cells[k] \in MissingTexts} = Missing(file, name)
    BY DEF Missing
  <1>5. Missing(file, name) \in SUBSET Rows(file)
    BY DEF Missing
  <1>6. ProfileOf(file, sample).profiled = Len(file.rows)
    BY <1>1, ProfileParts, RowsFinite
  <1>7. Present(column, ProfileOf(file, sample))
           = Len(file.rows) - Cardinality(Missing(file, name))
    <2> HIDE DEF cells, column
    <2> QED  BY <1>3, <1>4, <1>6 DEF Present
  <1> QED  BY <1>5, <1>7, RowsFinite

\* A specification that is approved for a file of which a sample has been profiled.
Approved(file, sample, source, spec, normal, exact) ==
    /\ IsFile(file) /\ sample \subseteq Rows(file)
    /\ source = [own |-> TRUE, ready |-> TRUE, hash |-> ProfileOf(file, sample).hash]
    /\ spec \in Specs(ProfileOf(file, sample))
    /\ Planned(file, source, ProfileOf(file, sample), spec, normal, exact)
CodeFor(profile, spec, normal) == [spec |-> normal, method |-> Resolved(spec, profile)]

LEMMA ApprovedParts ==
  ASSUME NEW file, NEW sample, NEW source, NEW spec, NEW normal, NEW exact,
         Approved(file, sample, source, spec, normal, exact)
  PROVE  LET profile == ProfileOf(file, sample)
             names == Among(Names(file))
         IN  /\ IsFile(file) /\ sample \in SUBSET Rows(file)
             /\ source.hash = file.hash /\ profile.hash = file.hash
             /\ ~Repeats(Names(file)) /\ Among(normal.columns) \subseteq names
             /\ Sound(normal) /\ normal.hash = file.hash
             /\ Fits(normal, source, profile, exact)
             /\ exact = PreflightOf(file, source, normal) /\ ~exact.refused
             /\ Resolved(normal, profile) = Resolved(spec, profile)
             /\ \/ IsDescriptive(normal, names) \/ IsCorrelation(normal, names)
                \/ IsComparison(normal, names)
  <1> DEFINE profile == ProfileOf(file, sample)
             names == Among(Names(file))
  <1>1. /\ ColumnNames(profile.columns) = Names(file) /\ profile.hash = file.hash
        /\ NamesOf(profile) = Among(Names(file))
    BY NamesAgree, ProfileParts DEF NamesOf
  <1>2. /\ Sound(spec) /\ normal = Normalized(spec, profile)
        /\ Fits(normal, source, profile, exact)
        /\ exact = PreflightOf(file, source, normal) /\ ~exact.refused
    BY DEF Approved, Planned
  <1>3. /\ Sound(normal)
        /\ normal.operation = spec.operation /\ normal.columns = spec.columns
        /\ normal.groups = spec.groups /\ normal.method = spec.method
        /\ normal.hash = spec.hash
        /\ Resolved(normal, profile) = Resolved(spec, profile)
    BY <1>2, NormalizedParts
  <1>4. /\ spec.hash = profile.hash
        /\ \/ IsDescriptive(spec, names) \/ IsCorrelation(spec, names)
           \/ IsComparison(spec, names)
    BY <1>1, SpecParts DEF Approved
  <1>5. /\ IsDescriptive(spec, names) => IsDescriptive(normal, names)
        /\ IsCorrelation(spec, names) => IsCorrelation(normal, names)
        /\ IsComparison(spec, names) => IsComparison(normal, names)
    <2> HIDE DEF names
    <2> QED  BY <1>3 DEF IsDescriptive, IsCorrelation, IsComparison, IsPair
  <1>6. ~Repeats(Names(file)) /\ Among(normal.columns) \subseteq names
    BY <1>1, <1>2 DEF Fits, OfColumns
  <1>7. IsFile(file) /\ sample \in SUBSET Rows(file) /\ source.hash = file.hash
    BY <1>1 DEF Approved
  <1> HIDE DEF profile, names
  <1>8. \/ IsDescriptive(normal, names) \/ IsCorrelation(normal, names)
        \/ IsComparison(normal, names)
    BY <1>4, <1>5
  <1>9. normal.hash = file.hash
    BY <1>1, <1>3, <1>4
  <1> QED  BY <1>1, <1>2, <1>3, <1>6, <1>7, <1>8, <1>9 DEF profile, names
-----------------------------------------------------------------------------
(* The run.                                                                *)

IsResult(code, file, result) ==
    \E analyzed, missing, sizes : result = Result(code, file, analyzed, missing, sizes)

\* What the run of an approved specification comes to.
RunsWell(file, profile, planned, code, result) ==
    /\ result.runs \in BOOLEAN
    /\ ~result.runs => Overlooked(planned, file)
    /\ result.runs => /\ IsResult(code, file, result) /\ ResultFits(result)
                      /\ CountsAgree(planned, result)

LEMMA DescriptiveRun ==
  ASSUME NEW file, NEW sample, NEW source, NEW spec, NEW normal, NEW exact,
         Approved(file, sample, source, spec, normal, exact),
         normal.operation = "descriptive"
  PROVE  LET profile == ProfileOf(file, sample)
             code == CodeFor(profile, spec, normal)
         IN  RunsWell(file, profile, PlanFor(profile, spec, normal, exact), code,
                      RunDescriptive(code, file))
  <1> DEFINE profile == ProfileOf(file, sample)
             planned == PlanFor(profile, spec, normal, exact)
             code == CodeFor(profile, spec, normal)
             result == RunDescriptive(code, file)
             names == Among(normal.columns)
             missing == UNION {Missing(file, name) : name \in names}
             present(name) == Rows(file) \ Missing(file, name)
             computes(name, least) ==
                 /\ Cardinality(present(name)) >= least
                 /\ \A k \in present(name) : Cell(file, k, ColumnAt(file, name)) \in Numbers
             fails == \E name \in names : \/ normal.statistics = "numeric" /\ ~computes(name, 2)
                                          \/ normal.plot = "histogram" /\ ~computes(name, 1)
             analyzed == Len(file.rows) - Cardinality(missing)
             sizes == [name \in names |-> Cardinality(present(name))]
  <1>1. /\ IsFile(file) /\ sample \in SUBSET Rows(file) /\ ~Repeats(Names(file))
        /\ names \subseteq Among(Names(file)) /\ Sound(normal)
        /\ Fits(normal, source, profile, exact)
        /\ Resolved(normal, profile) = Resolved(spec, profile)
    BY ApprovedParts
  <1>2. /\ code.spec = normal /\ code.method = Resolved(spec, profile)
        /\ planned.spec = normal /\ planned.profile = profile
    BY DEF CodeFor, PlanFor
  <1>3. result = IF fails THEN Failure
                 ELSE Result(code, file, analyzed, Cardinality(missing), sizes)
    <2> HIDE DEF code
    <2> QED  BY <1>2 DEF RunDescriptive
  <1> HIDE DEF code, planned, result
  <1>4. missing \in SUBSET Rows(file)
    BY DEF Missing
  <1>5. Len(file.rows) \in Nat /\ Cardinality(missing) \in Nat
        /\ Cardinality(missing) <= Len(file.rows)
    <2> HIDE DEF missing
    <2> QED  BY <1>1, <1>4, RowsFinite, FileParts
  <1>6. ASSUME fails PROVE Overlooked(planned, file)
    <2>1. ASSUME Complete(profile) PROVE FALSE
      <3>1. sample = Rows(file)
        BY <1>1, <2>1, CompleteSample
      <3>2. /\ normal.statistics = "numeric" =>
                  \A c \in ColumnsOf(normal, profile) :
                     IsNumeric(c) /\ ~(Present(c, profile) < 2)
            /\ normal.plot = "histogram" =>
                  \A c \in ColumnsOf(normal, profile) : IsNumeric(c)
        <4>1. DescriptiveRefusals(normal, ColumnsOf(normal, profile), profile) = {}
          BY <1>1 DEF Fits
        <4> HIDE DEF profile
        <4> QED  BY <2>1, <4>1, DescriptionFits
      <3>3. ASSUME NEW name \in names, IsNumeric(ColumnNamed(profile, name))
            PROVE  computes(name, 1)
        <4>1. /\ \A k \in Rows(file) :
                    Cell(file, k, ColumnAt(file, name)) \in MissingTexts \cup Numbers
              /\ \E k \in Rows(file) : Cell(file, k, ColumnAt(file, name)) \notin MissingTexts
          BY <1>1, <3>1, <3>3, NumericCells
        <4>2. /\ \A k \in present(name) : Cell(file, k, ColumnAt(file, name)) \in Numbers
              /\ present(name) # {}
          BY <4>1 DEF Missing
        <4>3. IsFiniteSet(present(name)) /\ Cardinality(present(name)) \in Nat
          <5>1. present(name) \in SUBSET Rows(file)
            OBVIOUS
          <5> HIDE DEF present
          <5> QED  BY <1>1, <5>1, RowsFinite
        <4>4. Cardinality(present(name)) # 0
          <5> HIDE DEF present
          <5> QED  BY <4>2, <4>3, FS_EmptySet
        <4> QED  BY <4>2, <4>3, <4>4
      <3>4. ASSUME NEW name \in names
            PROVE  /\ ColumnNamed(profile, name) \in ColumnsOf(normal, profile)
                   /\ Present(ColumnNamed(profile, name), profile) = Cardinality(present(name))
        <4>1. ColumnNamed(profile, name) \in ColumnsOf(normal, profile)
          BY DEF ColumnsOf
        <4> QED  BY <1>1, <2>1, <4>1, CompleteCount
      <3>5. ASSUME NEW name \in names, normal.statistics = "numeric"
            PROVE  computes(name, 2)
        <4>1. computes(name, 1)
          BY <3>2, <3>3, <3>4, <3>5
        <4>2. ~(Cardinality(present(name)) < 2)
          BY <3>2, <3>4, <3>5
        <4>3. Cardinality(present(name)) \in Nat
          <5>1. present(name) \in SUBSET Rows(file)
            OBVIOUS
          <5> HIDE DEF present
          <5> QED  BY <1>1, <5>1, RowsFinite
        <4> HIDE DEF present
        <4> QED  BY <4>1, <4>2, <4>3
      <3>6. ASSUME NEW name \in names, normal.plot = "histogram"
            PROVE  computes(name, 1)
        BY <3>2, <3>3, <3>4, <3>6
      <3> HIDE DEF computes
      <3> QED  BY <1>6, <3>5, <3>6
    <2> QED  BY <1>2, <2>1 DEF Overlooked
  <1>7. ASSUME ~fails
        PROVE  /\ result.runs = TRUE /\ IsResult(code, file, result) /\ ResultFits(result)
               /\ CountsAgree(planned, result)
    <2>1. result = Result(code, file, analyzed, Cardinality(missing), sizes)
      BY <1>3, <1>7
    <2> HIDE DEF fails, analyzed, missing, sizes
    <2>2. IsResult(code, file, result)
      BY <2>1 DEF IsResult
    <2>3. /\ result.runs = TRUE /\ result.operation = "descriptive"
          /\ result.requested = normal.method /\ result.resolved = Resolved(spec, profile)
          /\ result.total = Len(file.rows) /\ result.analyzed = analyzed
          /\ result.missing = Cardinality(missing) /\ result.sizes = sizes
      BY <1>2, <2>1 DEF Result
    <2>4. ResultFits(result)
      <3>1. result.analyzed + result.missing <= result.total
        BY <1>5, <2>3 DEF analyzed
      <3>2. result.requested \in {"auto", result.resolved}
        BY <1>1, <2>3, ResolvedIsMethod
      <3> QED  BY <2>3, <3>1, <3>2 DEF ResultFits
    <2>5. CountsAgree(planned, result)
      <3>1. ASSUME NEW i \in DOMAIN profile.columns, profile.columns[i].name \in names,
                   Complete(profile)
            PROVE  sizes[profile.columns[i].name] = Present(profile.columns[i], profile)
        <4> DEFINE name == profile.columns[i].name
        <4>1. i \in DOMAIN file.header /\ name = file.header[i].shown
              /\ profile.columns[i] = Column(name, [k \in sample |-> Cell(file, k, i)])
          BY DEF ProfileOf, Column, Names
        <4>2. ColumnNamed(profile, name) = profile.columns[i]
          BY <1>1, <4>1, ColumnIs
        <4>3. Present(ColumnNamed(profile, name), profile) = Cardinality(present(name))
          BY <1>1, <3>1, CompleteCount
        <4> QED  BY <3>1, <4>2, <4>3 DEF sizes
      <3>2. DOMAIN sizes = names
        BY DEF sizes
      <3> HIDE DEF profile
      <3> QED  BY <1>2, <2>3, <3>1, <3>2 DEF CountsAgree
    <2> QED  BY <2>2, <2>3, <2>4, <2>5
  <1>8. ASSUME fails PROVE result.runs = FALSE
    BY <1>3, <1>8 DEF Failure
  <1> HIDE DEF fails
  <1>9. RunsWell(file, profile, planned, code, result)
    BY <1>6, <1>7, <1>8 DEF RunsWell
  <1> QED  BY <1>9 DEF code, planned, result

LEMMA ComparisonRun ==
  ASSUME NEW file, NEW sample, NEW source, NEW spec, NEW normal, NEW exact,
         Approved(file, sample, source, spec, normal, exact),
         normal.operation = "two-group-comparison"
  PROVE  LET profile == ProfileOf(file, sample)
             code == CodeFor(profile, spec, normal)
         IN  /\ Loads(file)
             /\ RunsWell(file, profile, PlanFor(profile, spec, normal, exact), code,
                         RunTwoGroups(code, file))
  <1> DEFINE profile == ProfileOf(file, sample)
             planned == PlanFor(profile, spec, normal, exact)
             code == CodeFor(profile, spec, normal)
             result == RunTwoGroups(code, file)
             outcome == normal.columns[1]
             group == normal.columns[2]
             numbers(g) == GroupNumbers(file, outcome, group, g)
             sizes == [g \in normal.groups |-> Cardinality(DOMAIN numbers(g))]
             analyzed == UNION {DOMAIN numbers(g) : g \in normal.groups}
             selected == {k \in Rows(file) :
                             Cell(file, k, ColumnAt(file, group)) \in normal.groups}
             absent == Missing(file, group)
             fails == \/ \E g \in normal.groups : sizes[g] < MinSample
                      \/ /\ code.method = "welch-t-test"
                         /\ \A g \in normal.groups : ~Varies(numbers(g))
             missing == Cardinality(selected \ analyzed) + Cardinality(absent)
  <1>1. /\ IsFile(file) /\ sample \in SUBSET Rows(file) /\ ~Repeats(Names(file))
        /\ Among(normal.columns) \subseteq Among(Names(file)) /\ Sound(normal)
        /\ Fits(normal, source, profile, exact)
        /\ exact = PreflightOf(file, source, normal) /\ ~exact.refused
        /\ Resolved(normal, profile) = Resolved(spec, profile)
    BY ApprovedParts
  <1>2. /\ code.spec = normal /\ code.method = Resolved(spec, profile)
        /\ planned.spec = normal /\ planned.profile = profile /\ planned.exact = exact
    BY DEF CodeFor, PlanFor
  <1>3. IsComparison(normal, Among(Names(file)))
    BY ApprovedParts DEF IsDescriptive, IsCorrelation
  <1>4. outcome \in Among(Names(file)) /\ group \in Among(Names(file))
    BY <1>3 DEF IsComparison, IsPair
  <1>5. result = IF fails THEN Failure
                 ELSE Result(code, file, Cardinality(analyzed), missing, sizes)
    <2> HIDE DEF code
    <2> QED  BY <1>2 DEF RunTwoGroups
  <1> HIDE DEF code, planned, result
  <1>6. /\ Loads(file)
        /\ exact = [exact |-> TRUE, refused |-> FALSE, counts |-> sizes,
                    varies |-> [g \in normal.groups |-> Varies(numbers(g))]]
    <2>1. exact = TwoGroupPreflight(file, source.hash, outcome, group, normal.groups)
      BY <1>1 DEF PreflightOf
    <2>2. exact # Refused
      BY <1>1 DEF Refused
    <2>3. Exact(file, source.hash, {outcome, group})
      BY <2>1, <2>2 DEF TwoGroupPreflight
    <2>4. \A k \in Rows(file) : Len(file.rows[k]) = Width(file)
      BY <2>3 DEF Exact
    <2>5. Width(file) \in Nat
      BY <1>1, FileParts DEF Width
    <2>6. Loads(file)
      BY <2>4, <2>5 DEF Loads
    <2> QED  BY <2>1, <2>2, <2>6 DEF TwoGroupPreflight
  <1>7. ComparisonFits(normal, profile, exact)
    BY <1>1 DEF Fits
  <1>8. ~fails
    <2>1. /\ exact.exact /\ exact.counts = sizes
          /\ \A g \in normal.groups : exact.varies[g] = Varies(numbers(g))
      BY <1>6
    <2>2. /\ ~\E g \in normal.groups : exact.counts[g] < MinSample
          /\ Resolved(normal, profile) = "welch-t-test" =>
                \A g \in normal.groups : exact.varies[g]
      BY <1>7, <2>1, Zenon DEF ComparisonFits
    <2>3. normal.groups # {}
      BY <1>3 DEF IsComparison
    <2> HIDE DEF sizes, numbers
    <2> QED  BY <1>1, <1>2, <2>1, <2>2, <2>3
  <1>9. /\ analyzed \in SUBSET Rows(file) /\ selected \in SUBSET Rows(file)
        /\ absent \in SUBSET Rows(file)
        /\ analyzed \subseteq selected
        /\ \A g \in normal.groups : DOMAIN numbers(g) \subseteq analyzed
    BY DEF Missing, GroupNumbers
  <1>10. selected \cap absent = {}
    <2>1. normal.groups \cap MissingTexts = {}
      <3>1. /\ ~profile.lossy
            /\ normal.groups \subseteq ColumnNamed(profile, group).values
        BY <1>7, Zenon DEF ComparisonFits
      <3> DEFINE at == ColumnAt(file, group)
                 cells == [k \in sample |-> Cell(file, k, at)]
      <3>2. at \in DOMAIN file.header /\ ColumnNamed(profile, group) = Column(group, cells)
        BY <1>1, <1>4, NamedColumn
      <3>3. \A k \in DOMAIN cells : Shown(cells[k]) = cells[k]
        <4>1. ~Lossy(file, sample)
          BY <3>1, ProfileParts
        <4> HIDE DEF at
        <4> QED  BY <3>2, <4>1 DEF Lossy
      <3> HIDE DEF cells
      <3>4. \A value \in Column(group, cells).values : value \notin MissingTexts
        BY <3>3, ListedValues
      <3> QED  BY <3>1, <3>2, <3>4
    <2> QED  BY <2>1 DEF Missing
  <1>11. /\ Cardinality(analyzed) \in Nat /\ missing \in Nat
         /\ Cardinality(analyzed) + missing <= Len(file.rows)
         /\ \A g \in normal.groups : Cardinality(DOMAIN numbers(g)) <= Cardinality(analyzed)
    <2>1. /\ IsFiniteSet(analyzed) /\ IsFiniteSet(selected) /\ IsFiniteSet(absent)
          /\ Cardinality(analyzed) \in Nat /\ Cardinality(selected) \in Nat
          /\ Cardinality(absent) \in Nat /\ Len(file.rows) \in Nat
      <3> HIDE DEF analyzed, selected, absent
      <3> QED  BY <1>1, <1>9, RowsFinite, FileParts
    <2>2. Cardinality(selected \ analyzed) = Cardinality(selected) - Cardinality(analyzed)
      <3>1. selected \cap analyzed = analyzed
        BY <1>9
      <3> HIDE DEF analyzed, selected
      <3> QED  BY <2>1, <3>1, FS_Difference
    <2>3. Cardinality(selected \cup absent) = Cardinality(selected) + Cardinality(absent)
      <3> HIDE DEF selected, absent
      <3>1. Cardinality(selected \cap absent) = 0
        BY <1>10, FS_EmptySet
      <3>2. Cardinality(selected \cup absent)
               = Cardinality(selected) + Cardinality(absent) - Cardinality(selected \cap absent)
        BY <2>1, FS_Union
      <3> QED  BY <2>1, <3>1, <3>2
    <2>4. Cardinality(selected \cup absent) <= Len(file.rows)
      <3> HIDE DEF selected, absent
      <3>1. selected \cup absent \in SUBSET Rows(file)
        BY <1>9
      <3> QED  BY <1>1, <3>1, RowsFinite
    <2>5. Cardinality(analyzed) <= Cardinality(selected)
      <3> HIDE DEF analyzed, selected
      <3> QED  BY <1>9, <2>1, FS_Subset
    <2>6. \A g \in normal.groups : Cardinality(DOMAIN numbers(g)) <= Cardinality(analyzed)
      <3> HIDE DEF analyzed, numbers
      <3> QED  BY <1>9, <2>1, FS_Subset
    <2> HIDE DEF analyzed, selected, absent, numbers
    <2> QED  BY <2>1, <2>2, <2>3, <2>4, <2>5, <2>6 DEF missing
  <1>12. result = Result(code, file, Cardinality(analyzed), missing, sizes)
    BY <1>5, <1>8
  <1>13. /\ result.runs = TRUE /\ result.operation = "two-group-comparison"
         /\ result.requested = normal.method /\ result.resolved = Resolved(spec, profile)
         /\ result.total = Len(file.rows) /\ result.analyzed = Cardinality(analyzed)
         /\ result.missing = missing /\ result.sizes = sizes
    <2> HIDE DEF analyzed, missing, sizes
    <2> QED  BY <1>2, <1>12 DEF Result
  <1>14. Resolved(spec, profile) \in TwoGroupMethods
    <2>1. CASE normal.method = "auto"
      BY <1>1, <2>1 DEF Resolved, TwoGroupMethods
    <2>2. CASE normal.method # "auto"
      BY <1>1, <1>3, <2>2, ResolvedIsMethod DEF IsComparison
    <2> QED  BY <2>1, <2>2
  <1>15. ResultFits(result)
    <2>1. result.analyzed + result.missing <= result.total
      <3> HIDE DEF analyzed, missing, sizes
      <3> QED  BY <1>11, <1>13
    <2>2. \A g \in DOMAIN result.sizes : result.sizes[g] <= result.analyzed
      <3> HIDE DEF analyzed, missing
      <3> QED  BY <1>11, <1>13
    <2>3. result.requested \in {"auto", result.resolved}
      BY <1>1, <1>13, ResolvedIsMethod
    <2> QED  BY <1>13, <1>14, <2>1, <2>2, <2>3 DEF ResultFits
  <1>16. CountsAgree(planned, result)
    <2>1. exact.counts = sizes
      BY <1>6
    <2> HIDE DEF sizes
    <2> QED  BY <1>2, <1>13, <2>1 DEF CountsAgree
  <1>17. IsResult(code, file, result)
    <2> HIDE DEF analyzed, missing, sizes
    <2> QED  BY <1>12 DEF IsResult
  <1>18. RunsWell(file, profile, planned, code, result)
    BY <1>13, <1>15, <1>16, <1>17 DEF RunsWell
  <1> QED  BY <1>6, <1>18 DEF code, planned, result

LEMMA CorrelationRun ==
  ASSUME NEW file, NEW sample, NEW source, NEW spec, NEW normal, NEW exact,
         Approved(file, sample, source, spec, normal, exact),
         normal.operation = "correlation"
  PROVE  LET profile == ProfileOf(file, sample)
             code == CodeFor(profile, spec, normal)
         IN  /\ Loads(file)
             /\ RunsWell(file, profile, PlanFor(profile, spec, normal, exact), code,
                         RunCorrelation(code, file))
  <1> DEFINE profile == ProfileOf(file, sample)
             planned == PlanFor(profile, spec, normal, exact)
             code == CodeFor(profile, spec, normal)
             result == RunCorrelation(code, file)
             pairs == Pairs(file, normal.columns[1], normal.columns[2])
             varies(name) == Varies([k \in pairs |->
                                       NumberOf[Cell(file, k, ColumnAt(file, name))]])
             constant == \E name \in Among(normal.columns) : ~varies(name)
             missing == Len(file.rows) - Cardinality(pairs)
             sizes == [all |-> Cardinality(pairs)]
  <1>1. /\ IsFile(file) /\ sample \in SUBSET Rows(file) /\ ~Repeats(Names(file))
        /\ Among(normal.columns) \subseteq Among(Names(file)) /\ Sound(normal)
        /\ Fits(normal, source, profile, exact)
        /\ exact = PreflightOf(file, source, normal) /\ ~exact.refused
        /\ Resolved(normal, profile) = Resolved(spec, profile)
    BY ApprovedParts
  <1>2. /\ code.spec = normal /\ code.method = Resolved(spec, profile)
        /\ planned.spec = normal /\ planned.profile = profile /\ planned.exact = exact
    BY DEF CodeFor, PlanFor
  <1>3. IsCorrelation(normal, Among(Names(file)))
    BY ApprovedParts DEF IsDescriptive, IsComparison
  <1>4. result = IF Cardinality(pairs) < MinSample \/ constant THEN Failure
                 ELSE Result(code, file, Cardinality(pairs), missing, sizes)
    <2> HIDE DEF code
    <2> QED  BY <1>2 DEF RunCorrelation
  <1> HIDE DEF code, planned, result
  <1>5. /\ Loads(file)
        /\ exact = [exact |-> TRUE, refused |-> FALSE, pairs |-> Cardinality(pairs)]
    <2>1. exact = CorrelationPreflight(file, source.hash, normal.columns[1], normal.columns[2])
      BY <1>1 DEF PreflightOf
    <2>2. exact # Refused
      BY <1>1 DEF Refused
    <2>3. Exact(file, source.hash, {normal.columns[1], normal.columns[2]})
      BY <2>1, <2>2 DEF CorrelationPreflight
    <2>4. \A k \in Rows(file) : Len(file.rows[k]) = Width(file)
      BY <2>3 DEF Exact
    <2>5. Width(file) \in Nat
      BY <1>1, FileParts DEF Width
    <2>6. Loads(file)
      BY <2>4, <2>5 DEF Loads
    <2> QED  BY <2>1, <2>2, <2>6 DEF CorrelationPreflight
  <1>6. ~(Cardinality(pairs) < MinSample)
    <2>1. CorrelationFits(normal, profile, exact)
      BY <1>1 DEF Fits
    <2>2. exact.exact /\ exact.pairs = Cardinality(pairs)
      BY <1>5
    <2>3. ~(exact.pairs < MinSample)
      BY <2>1, <2>2, Zenon DEF CorrelationFits
    <2> QED  BY <2>2, <2>3
  <1>7. pairs \in SUBSET Rows(file)
    BY DEF Pairs
  <1>8. /\ Cardinality(pairs) \in Nat /\ Len(file.rows) \in Nat
        /\ Cardinality(pairs) <= Len(file.rows)
    <2> HIDE DEF pairs
    <2> QED  BY <1>1, <1>7, RowsFinite, FileParts
  <1>9. ASSUME constant PROVE Overlooked(planned, file) /\ result.runs = FALSE
    <2>1. result.runs = FALSE
      BY <1>4, <1>9 DEF Failure
    <2>2. Overlooked(planned, file)
      BY <1>2, <1>9 DEF Overlooked
    <2> QED  BY <2>1, <2>2
  <1>10. ASSUME ~constant
         PROVE  /\ result.runs = TRUE /\ IsResult(code, file, result) /\ ResultFits(result)
                /\ CountsAgree(planned, result)
    <2>1. result = Result(code, file, Cardinality(pairs), missing, sizes)
      BY <1>4, <1>6, <1>10
    <2>2. /\ result.runs = TRUE /\ result.operation = "correlation"
          /\ result.requested = normal.method /\ result.resolved = Resolved(spec, profile)
          /\ result.total = Len(file.rows) /\ result.analyzed = Cardinality(pairs)
          /\ result.missing = missing /\ result.sizes.all = Cardinality(pairs)
      <3> HIDE DEF pairs, missing
      <3> QED  BY <1>2, <2>1 DEF Result
    <2>3. Resolved(spec, profile) \in CorrelationMethods
      <3>1. CASE normal.method = "auto"
        BY <1>1, <3>1 DEF Resolved, CorrelationMethods
      <3>2. CASE normal.method # "auto"
        BY <1>1, <1>3, <3>2, ResolvedIsMethod DEF IsCorrelation
      <3> QED  BY <3>1, <3>2
    <2>4. result.analyzed + result.missing = result.total
      <3> HIDE DEF pairs
      <3> QED  BY <1>8, <2>2
    <2>5. result.requested \in {"auto", result.resolved}
      BY <1>1, <2>2, ResolvedIsMethod
    <2>6. result.total \in Nat
      BY <1>8, <2>2
    <2>7. ResultFits(result)
      BY <2>2, <2>3, <2>4, <2>5, <2>6 DEF ResultFits
    <2>8. CountsAgree(planned, result)
      <3>1. exact.pairs = Cardinality(pairs)
        BY <1>5
      <3> HIDE DEF pairs
      <3> QED  BY <1>2, <2>2, <3>1 DEF CountsAgree
    <2>9. IsResult(code, file, result)
      <3> HIDE DEF pairs, missing, sizes
      <3> QED  BY <2>1 DEF IsResult
    <2> QED  BY <2>2, <2>7, <2>8, <2>9
  <1> HIDE DEF constant
  <1>11. RunsWell(file, profile, planned, code, result)
    BY <1>9, <1>10 DEF RunsWell
  <1> QED  BY <1>5, <1>11 DEF code, planned, result

\* The program as it is run.
LEMMA ApprovedRuns ==
  ASSUME NEW file, NEW sample, NEW source, NEW spec, NEW normal, NEW exact,
         Approved(file, sample, source, spec, normal, exact)
  PROVE  LET profile == ProfileOf(file, sample)
             code == CodeFor(profile, spec, normal)
         IN  RunsWell(file, profile, PlanFor(profile, spec, normal, exact), code,
                      Run(code, file))
  <1> DEFINE profile == ProfileOf(file, sample)
             planned == PlanFor(profile, spec, normal, exact)
             code == CodeFor(profile, spec, normal)
  <1>1. Sound(normal)
    BY ApprovedParts
  <1>2. code.spec = normal /\ planned.spec = normal
    BY DEF CodeFor, PlanFor
  <1> HIDE DEF code, planned
  <1>3. CASE ~HasColumns(file, Among(normal.columns))
    <2>1. Run(code, file) = Failure
      BY <1>2, <1>3 DEF Run
    <2>2. Overlooked(planned, file)
      BY <1>2, <1>3 DEF Overlooked
    <2>3. Failure.runs = FALSE
      BY DEF Failure
    <2> QED  BY <2>1, <2>2, <2>3 DEF RunsWell, code, planned
  <1>4. CASE HasColumns(file, Among(normal.columns))
    <2>1. CASE normal.operation = "descriptive"
      <3>1. CASE Loads(file)
        <4>1. Run(code, file) = RunDescriptive(code, file)
          BY <1>2, <1>4, <2>1, <3>1 DEF Run
        <4> QED  BY <2>1, <4>1, DescriptiveRun DEF code, planned
      <3>2. CASE ~Loads(file)
        <4>1. Run(code, file) = Failure
          BY <3>2 DEF Run
        <4>2. Overlooked(planned, file)
          BY <1>2, <2>1, <3>2 DEF Overlooked
        <4>3. Failure.runs = FALSE
          BY DEF Failure
        <4> QED  BY <4>1, <4>2, <4>3 DEF RunsWell, code, planned
      <3> QED  BY <3>1, <3>2
    <2>2. CASE normal.operation = "two-group-comparison"
      <3>1. /\ Loads(file)
            /\ RunsWell(file, profile, planned, code, RunTwoGroups(code, file))
        BY <2>2, ComparisonRun DEF code, planned
      <3>2. Run(code, file) = RunTwoGroups(code, file)
        BY <1>2, <1>4, <2>2, <3>1 DEF Run
      <3> QED  BY <3>1, <3>2 DEF code, planned
    <2>3. CASE normal.operation = "correlation"
      <3>1. /\ Loads(file)
            /\ RunsWell(file, profile, planned, code, RunCorrelation(code, file))
        BY <2>3, CorrelationRun DEF code, planned
      <3>2. Run(code, file) = RunCorrelation(code, file)
        BY <1>2, <1>4, <2>3, <3>1 DEF Run
      <3> QED  BY <3>1, <3>2 DEF code, planned
    <2> QED  BY <1>1, <2>1, <2>2, <2>3 DEF Sound
  <1> QED  BY <1>3, <1>4
-----------------------------------------------------------------------------
(* The review.                                                             *)

Parts == {"spec", "result", "recorded", "observed", "summary", "notebook", "figure"}

\* What a code and its result are made of, as far as the review tells files apart.
Reviewable(code, result) ==
    /\ code = [spec |-> code.spec, method |-> code.method] /\ IsSpec(code.spec)
    /\ DOMAIN result = {"runs", "operation", "columns", "groups", "requested", "resolved",
                        "hash", "total", "analyzed", "missing", "sizes"}
    /\ result.operation = code.spec.operation /\ result.columns = code.spec.columns
    /\ result.groups = code.spec.groups /\ result.requested = code.spec.method
    /\ result.hash = code.spec.hash
    /\ ResultFits(result)

LEMMA ResultIsReviewable ==
  ASSUME NEW file, NEW profile, NEW spec, NEW normal, NEW result, Sound(normal),
         IsResult(CodeFor(profile, spec, normal), file, result), ResultFits(result)
  PROVE  Reviewable(CodeFor(profile, spec, normal), result)
  <1> DEFINE code == CodeFor(profile, spec, normal)
  <1>1. code = [spec |-> normal, method |-> Resolved(spec, profile)]
    BY DEF CodeFor
  <1>2. code.spec = normal /\ code = [spec |-> code.spec, method |-> code.method]
    BY <1>1
  <1> HIDE DEF code
  <1>3. PICK analyzed, missing, sizes : result = Result(code, file, analyzed, missing, sizes)
    BY DEF IsResult, code
  <1>4. /\ DOMAIN result = {"runs", "operation", "columns", "groups", "requested", "resolved",
                            "hash", "total", "analyzed", "missing", "sizes"}
        /\ result.operation = code.spec.operation /\ result.columns = code.spec.columns
        /\ result.groups = code.spec.groups /\ result.requested = code.spec.method
        /\ result.hash = code.spec.hash
    BY <1>3 DEF Result
  <1> QED  BY <1>2, <1>4 DEF Reviewable, Sound, code

LEMMA NotAbsent ==
  ASSUME NEW code, NEW result, Reviewable(code, result)
  PROVE  code # NoFile /\ code.spec # NoFile /\ result # NoFile
  <1>1. DOMAIN NoFile = {"runs"}
    BY DEF NoFile
  <1>2. "spec" \in DOMAIN code
    BY DEF Reviewable
  <1>3. "operation" \in DOMAIN code.spec
    <2>1. code.spec = [operation |-> code.spec.operation, columns |-> code.spec.columns,
                       statistics |-> code.spec.statistics, plot |-> code.spec.plot,
                       groups |-> code.spec.groups, method |-> code.spec.method,
                       effect |-> code.spec.effect, policy |-> code.spec.policy,
                       hash |-> code.spec.hash]
      BY DEF Reviewable, IsSpec
    <2> QED  BY <2>1
  <1>4. "operation" \in DOMAIN result
    BY DEF Reviewable
  <1> QED  BY <1>1, <1>2, <1>3, <1>4

LEMMA ArtifactParts ==
  ASSUME NEW code, NEW result
  PROVE  LET artifacts == Artifacts(code, result)
         IN  /\ DOMAIN artifacts = Parts
             /\ artifacts.spec = code.spec /\ artifacts.result = result
             /\ artifacts.recorded = result /\ artifacts.observed = code
             /\ artifacts.summary = result /\ artifacts.notebook = code
             /\ artifacts.figure = FigureColumns(code.spec)
  BY DEF Artifacts, Parts

LEMMA ReviewedAsItIs ==
  ASSUME NEW code, NEW result, Reviewable(code, result)
  PROVE  Verdict(code, Artifacts(code, result))
            = IF SampleIsPresent(result) THEN "passed" ELSE "revision-required"
  <1> DEFINE artifacts == Artifacts(code, result)
  <1>1. /\ artifacts.spec = code.spec /\ artifacts.result = result
        /\ artifacts.recorded = result /\ artifacts.observed = code
        /\ artifacts.summary = result /\ artifacts.notebook = code
        /\ artifacts.figure = FigureColumns(code.spec)
    BY ArtifactParts
  <1> HIDE DEF artifacts
  <1>2. artifacts.spec # NoFile /\ artifacts.result # NoFile /\ ResultFits(artifacts.result)
    BY <1>1, NotAbsent DEF Reviewable
  <1>3. SameIdentity(code, artifacts)
    BY <1>1 DEF SameIdentity, Reviewable
  <1>4. SameMethod(artifacts.spec, artifacts.result)
    BY <1>1 DEF SameMethod, Reviewable
  <1>5. SameFiles(code, artifacts)
    BY <1>1 DEF SameFiles
  <1>6. SampleIsPresent(artifacts.result) <=> SampleIsPresent(result)
    BY <1>1
  <1>7. Verdict(code, artifacts)
           = IF SampleIsPresent(result) THEN "passed" ELSE "revision-required"
    BY <1>2, <1>3, <1>4, <1>5, <1>6 DEF Verdict
  <1> QED  BY <1>7 DEF artifacts

LEMMA PassedIsWhole ==
  ASSUME NEW code, NEW artifacts, Verdict(code, artifacts) = "passed"
  PROVE  /\ artifacts.spec = code.spec /\ artifacts.observed = code
         /\ artifacts.recorded = artifacts.result /\ artifacts.summary = artifacts.result
         /\ artifacts.notebook = code /\ artifacts.figure = FigureColumns(code.spec)
         /\ artifacts.result.columns = code.spec.columns
  <1>1. /\ SameIdentity(code, artifacts) /\ SameMethod(artifacts.spec, artifacts.result)
        /\ SameFiles(code, artifacts)
    BY DEF Verdict
  <1> QED  BY <1>1 DEF SameIdentity, SameMethod, SameFiles

LEMMA OnePartReplaced ==
  ASSUME NEW code, NEW result, NEW part \in Parts, NEW other,
         other # Artifacts(code, result)[part]
  PROVE  Verdict(code, [Artifacts(code, result) EXCEPT ![part] = other]) # "passed"
  <1> DEFINE artifacts == Artifacts(code, result)
             damaged == [artifacts EXCEPT ![part] = other]
  <1>1. /\ DOMAIN artifacts = Parts
        /\ artifacts.spec = code.spec /\ artifacts.result = result
        /\ artifacts.recorded = result /\ artifacts.observed = code
        /\ artifacts.summary = result /\ artifacts.notebook = code
        /\ artifacts.figure = FigureColumns(code.spec)
    BY ArtifactParts
  <1> HIDE DEF artifacts
  <1>2. /\ damaged[part] = other
        /\ \A p \in Parts : p # part => damaged[p] = artifacts[p]
    BY <1>1
  <1>3. other # artifacts[part]
    BY DEF artifacts
  <1> HIDE DEF damaged
  <1>4. SUFFICES ASSUME Verdict(code, damaged) = "passed" PROVE FALSE
    BY DEF damaged, artifacts
  <1>5. /\ damaged.spec = code.spec /\ damaged.observed = code
        /\ damaged.recorded = damaged.result /\ damaged.summary = damaged.result
        /\ damaged.notebook = code /\ damaged.figure = FigureColumns(code.spec)
    BY <1>4, PassedIsWhole
  <1>6. CASE part \in {"spec", "observed", "notebook", "figure"}
    BY <1>1, <1>2, <1>3, <1>5, <1>6
  <1>7. CASE part = "result"
    <2>1. damaged.recorded = artifacts.recorded
      BY <1>2, <1>7 DEF Parts
    <2> QED  BY <1>1, <1>2, <1>3, <1>5, <1>7, <2>1
  <1>8. CASE part \in {"recorded", "summary"}
    <2>1. damaged.result = artifacts.result
      BY <1>2, <1>8 DEF Parts
    <2> QED  BY <1>1, <1>2, <1>3, <1>5, <1>8, <2>1
  <1> QED  BY <1>6, <1>7, <1>8 DEF Parts

LEMMA NoDamagePasses ==
  ASSUME NEW code, NEW result, Reviewable(code, result), NEW other,
         other.result.columns # code.spec.columns,
         NEW damaged \in Damaged(Artifacts(code, result), other)
  PROVE  Verdict(code, damaged) # "passed"
  <1> DEFINE artifacts == Artifacts(code, result)
             files == {"spec", "result", "recorded", "observed", "summary", "notebook"}
             changed == {part \in DOMAIN artifacts : artifacts[part] # other[part]}
  <1>1. /\ DOMAIN artifacts = Parts
        /\ artifacts.spec = code.spec /\ artifacts.result = result
        /\ artifacts.recorded = result /\ artifacts.observed = code
        /\ artifacts.summary = result /\ artifacts.notebook = code
    BY ArtifactParts
  <1>2. \/ \E part \in files : damaged = [artifacts EXCEPT ![part] = NoFile]
        \/ \E part \in changed : damaged = [artifacts EXCEPT ![part] = other[part]]
        \/ damaged = [artifacts EXCEPT !.result = other.result, !.recorded = other.result,
                                       !.summary = other.result]
    <2> HIDE DEF artifacts
    <2> QED  BY DEF Damaged, artifacts
  <1>3. ASSUME NEW part \in files, damaged = [artifacts EXCEPT ![part] = NoFile]
        PROVE  Verdict(code, damaged) # "passed"
    <2>1. part \in Parts
      BY DEF Parts
    <2>2. artifacts[part] # NoFile
      <3> HIDE DEF artifacts
      <3> QED  BY <1>1, NotAbsent
    <2> QED  BY <1>3, <2>1, <2>2, OnePartReplaced
  <1>4. ASSUME NEW part \in changed, damaged = [artifacts EXCEPT ![part] = other[part]]
        PROVE  Verdict(code, damaged) # "passed"
    <2>1. part \in Parts /\ artifacts[part] # other[part]
      <3> HIDE DEF artifacts
      <3> QED  BY <1>1
    <2> QED  BY <1>4, <2>1, OnePartReplaced
  <1>5. ASSUME damaged = [artifacts EXCEPT !.result = other.result, !.recorded = other.result,
                                           !.summary = other.result]
        PROVE  Verdict(code, damaged) # "passed"
    <2> HIDE DEF artifacts
    <2>1. damaged.result = other.result
      BY <1>1, <1>5 DEF Parts
    <2> QED  BY <2>1, PassedIsWhole
  <1> QED  BY <1>2, <1>3, <1>4, <1>5
-----------------------------------------------------------------------------
(* From the specification to the review.                                   *)

LEMMA ApprovedExecutes ==
  ASSUME NEW file, NEW sample, NEW source, NEW spec, NEW normal, NEW exact,
         Approved(file, sample, source, spec, normal, exact)
  PROVE  LET profile == ProfileOf(file, sample)
         IN  ExecutesAsPlanned(file, source, profile, PlanFor(profile, spec, normal, exact))
  <1> DEFINE profile == ProfileOf(file, sample)
             planned == PlanFor(profile, spec, normal, exact)
             code == CodeFor(profile, spec, normal)
             result == Run(code, file)
             artifacts == Artifacts(code, result)
             foreign == Artifacts([code EXCEPT !.spec.columns = Elsewhere],
                                  [result EXCEPT !.columns = Elsewhere])
  <1>1. /\ IsFile(file) /\ source.hash = file.hash /\ profile.hash = file.hash
        /\ ~Repeats(Names(file)) /\ Sound(normal)
        /\ \/ IsDescriptive(normal, Among(Names(file)))
           \/ IsCorrelation(normal, Among(Names(file)))
           \/ IsComparison(normal, Among(Names(file)))
    BY ApprovedParts
  <1>2. /\ Planned(file, source, profile, spec, normal, exact)
        /\ source = [own |-> TRUE, ready |-> TRUE, hash |-> profile.hash]
    BY DEF Approved
  <1>3. /\ planned.spec = normal /\ planned.exact = exact
        /\ Compiled(planned) = code
    BY DEF PlanFor, Compiled, CodeFor
  <1>4. code.spec = normal
    BY DEF CodeFor
  <1>5. RunsWell(file, profile, planned, code, result)
    BY ApprovedRuns
  <1>6. Prepare(file, source, profile, planned) = planned
    BY <1>2, PreparedAsPlanned
  <1>7. ASSUME NEW late \in {[source EXCEPT !.ready = FALSE], [source EXCEPT !.hash = Altered]}
        PROVE  ~Prepare(file, late, profile, planned).ok
    <2>1. ~late.ready \/ late.hash # profile.hash
      <3>1. file.hash # "h2"
        BY <1>1, FileParts
      <3> HIDE DEF profile
      <3> QED  BY <1>1, <1>2, <3>1 DEF Altered
    <2> QED  BY <1>1, <2>1, LateIsRefused
  <1>8. ASSUME planned.exact.exact
        PROVE  ~Prepare([file EXCEPT !.hash = Altered], source, profile, planned).ok
    <2>1. exact.exact
      BY <1>3, <1>8
    <2>2. source.hash # Altered
      BY <1>1, FileParts DEF Altered
    <2> QED  BY <1>1, <1>2, <2>1, <2>2, ChangedFileIsRefused
  <1>9. ASSUME Revisable(planned.spec)
        PROVE  Plan(file, source, profile, Revision(planned.spec)).ok
    <2>1. /\ normal.method = "welch-t-test" => normal.operation = "two-group-comparison"
          /\ normal.method = "pearson" => normal.operation = "correlation"
      BY <1>1 DEF IsDescriptive, IsCorrelation, IsComparison, TwoGroupMethods,
                  CorrelationMethods
    <2>2. Revisable(normal)
      BY <1>3, <1>9
    <2>3. Plan(file, source, profile, Revision(normal)).ok
      BY <1>2, <2>1, <2>2, RevisionIsPlanned
    <2> QED  BY <1>3, <2>3
  <1>10. Elsewhere # normal.columns
    <2>1. normal.columns[1] \in Among(Names(file))
      BY <1>1 DEF IsDescriptive, IsCorrelation, IsComparison, IsPair
    <2>2. normal.columns[1] # "other"
      BY <1>1, <2>1, NamedColumn
    <2>3. Elsewhere[1] = "other"
      BY DEF Elsewhere
    <2> QED  BY <2>2, <2>3
  <1> HIDE DEF code, planned, result
  <1>11. ASSUME result.runs
         PROVE  /\ CountsAgree(planned, result)
                /\ Verdict(code, artifacts) =
                      IF SampleIsPresent(result) THEN "passed" ELSE "revision-required"
                /\ \A damaged \in Damaged(artifacts, foreign) :
                      Verdict(code, damaged) # "passed"
    <2>1. /\ IsResult(code, file, result) /\ ResultFits(result)
          /\ CountsAgree(planned, result)
      BY <1>5, <1>11 DEF RunsWell
    <2>2. Reviewable(code, result)
      BY <1>1, <2>1, ResultIsReviewable DEF code
    <2>3. foreign.result.columns # code.spec.columns
      <3>1. "columns" \in DOMAIN result
        BY <2>2 DEF Reviewable
      <3>2. [result EXCEPT !.columns = Elsewhere].columns = Elsewhere
        BY <3>1
      <3>3. foreign.result = [result EXCEPT !.columns = Elsewhere]
        BY ArtifactParts
      <3> HIDE DEF foreign
      <3> QED  BY <1>4, <1>10, <3>2, <3>3
    <2> HIDE DEF foreign
    <2> QED  BY <2>1, <2>2, <2>3, ReviewedAsItIs, NoDamagePasses
  <1>12. ~result.runs => Overlooked(planned, file)
    BY <1>5 DEF RunsWell
  <1> HIDE DEF artifacts, foreign, profile
  <1>13. ExecutesAsPlanned(file, source, profile, planned)
    BY <1>3, <1>6, <1>7, <1>8, <1>9, <1>11, <1>12
       DEF ExecutesAsPlanned, result, artifacts, foreign
  <1> QED  BY <1>13 DEF profile, planned

LEMMA AllSpecsExecute == SpecsExecute
  <1> SUFFICES ASSUME NEW inspected \in UNION {{[file |-> file, profile |-> ProfileOf(file, sample)] :
                                                 sample \in Samples(file)} : file \in Files},
                      NEW spec \in Specs(inspected.profile),
                      Plan(inspected.file,
                           [own |-> TRUE, ready |-> TRUE, hash |-> inspected.profile.hash],
                           inspected.profile, spec).ok
               PROVE  ExecutesAsPlanned(
                         inspected.file,
                         [own |-> TRUE, ready |-> TRUE, hash |-> inspected.profile.hash],
                         inspected.profile,
                         Plan(inspected.file,
                              [own |-> TRUE, ready |-> TRUE, hash |-> inspected.profile.hash],
                              inspected.profile, spec))
    BY Zenon DEF SpecsExecute
  <1>0. PICK file \in Files : \E sample \in Samples(file) :
           inspected = [file |-> file, profile |-> ProfileOf(file, sample)]
    OBVIOUS
  <1>1. PICK sample \in Samples(file) :
           inspected = [file |-> file, profile |-> ProfileOf(file, sample)]
    BY <1>0
  <1>2. sample \subseteq Rows(file)
    BY DEF Samples
  <1>3. IsFile(file)
    BY FilesAreFiles
  <1> DEFINE profile == ProfileOf(file, sample)
             source == [own |-> TRUE, ready |-> TRUE, hash |-> profile.hash]
             normal == Normalized(spec, profile)
             exact == PreflightOf(file, source, normal)
  <1>4. inspected.file = file /\ inspected.profile = profile
    BY <1>1
  <1> HIDE DEF profile
  <1>5. spec \in Specs(profile) /\ Plan(file, source, profile, spec).ok
    BY <1>4
  <1>6. Sound(spec)
    BY <1>5, SpecParts DEF Sound, IsDescriptive, IsCorrelation, IsComparison
  <1> HIDE DEF source, normal, exact
  <1>7. /\ Fits(spec, source, profile, NoPreflight) /\ ~exact.refused
        /\ Fits(normal, source, profile, exact)
        /\ Plan(file, source, profile, spec) = PlanFor(profile, spec, normal, exact)
    BY <1>5, <1>6, PlanIs DEF normal, exact, PlanFor
  <1>8. Approved(file, sample, source, spec, normal, exact)
    BY <1>2, <1>3, <1>5, <1>6, <1>7 DEF Approved, Planned, profile, source, normal, exact
  <1>9. ExecutesAsPlanned(file, source, profile, PlanFor(profile, spec, normal, exact))
    BY <1>8, ApprovedExecutes DEF profile
  <1> QED  BY <1>4, <1>7, <1>9 DEF source

-----------------------------------------------------------------------------
(* Parts of a list.                                                        *)

LEMMA TakenParts ==
  ASSUME NEW names, NEW n \in Nat, NEW at \in SUBSET (1 .. n)
  PROVE  /\ IsFiniteSet(at) /\ Cardinality(at) \in 0 .. n
         /\ DOMAIN Taken(names, at) = 1 .. Cardinality(at)
         /\ \A k \in 1 .. Cardinality(at) : \E i \in at : Taken(names, at)[k] = names[i]
         /\ \A i \in at : \E k \in 1 .. Cardinality(at) : Taken(names, at)[k] = names[i]
         /\ (\A i, j \in at : names[i] = names[j] => i = j) => ~Repeats(Taken(names, at))
  <1> DEFINE upto(i) == {j \in at : j <= i}
             m == Cardinality(at)
             rank == [i \in at |-> Cardinality(upto(i))]
             place(k) == CHOOSE i \in at : Cardinality({j \in at : j <= i}) = k
  <1>1. IsFiniteSet(at) /\ m \in Nat /\ m <= n
    <2>1. IsFiniteSet(1 .. n) /\ Cardinality(1 .. n) = n
      BY FS_Interval
    <2> QED  BY <2>1, FS_Subset, FS_CardinalityType
  <1>2. ASSUME NEW i \in at
        PROVE  IsFiniteSet(upto(i)) /\ Cardinality(upto(i)) \in 1 .. m
    <2>1. IsFiniteSet(upto(i)) /\ Cardinality(upto(i)) <= m
      BY <1>1, FS_Subset
    <2>2. i \in upto(i)
      OBVIOUS
    <2>3. Cardinality(upto(i)) # 0
      BY <2>1, <2>2, FS_EmptySet
    <2> QED  BY <1>1, <2>1, <2>3, FS_CardinalityType
  <1>3. ASSUME NEW i \in at, NEW j \in at, i < j
        PROVE  Cardinality(upto(i)) # Cardinality(upto(j))
    <2>1. upto(i) \in SUBSET upto(j) /\ j \in upto(j) /\ j \notin upto(i)
      <3>1. i \in Int /\ j \in Int /\ \A l \in at : l \in Int
        OBVIOUS
      <3>2. \A l \in at : l <= i => l <= j
        BY <1>3, <3>1
      <3>3. upto(i) \subseteq upto(j)
        BY <3>2
      <3>4. j <= j /\ ~(j <= i)
        BY <1>3, <3>1
      <3> QED  BY <3>3, <3>4
    <2>2. IsFiniteSet(upto(j))
      BY <1>2
    <2>3. upto(i) # upto(j)
      BY <2>1
    <2> HIDE DEF upto
    <2> QED  BY <2>1, <2>2, <2>3, FS_Subset
  <1>4. rank \in Injection(at, 1 .. m)
    <2>1. rank \in [at -> 1 .. m]
      BY <1>2
    <2>2. \A i, j \in at : rank[i] = rank[j] => i = j
      BY <1>3
    <2> QED  BY <2>1, <2>2 DEF Injection, IsInjective
  <1>5. rank \in Surjection(at, 1 .. m)
    <2>1. IsFiniteSet(1 .. m) /\ Cardinality(1 .. m) = m
      BY <1>1, FS_Interval
    <2> HIDE DEF rank, m
    <2>2. m = Cardinality(at)
      BY DEF m
    <2> QED  BY <1>4, <2>1, <2>2, FS_Injection
  <1>6. \A k \in 1 .. m : \E i \in at : Cardinality(upto(i)) = k
    BY <1>5 DEF Surjection
  <1>7. \A k \in 1 .. m : place(k) \in at /\ Cardinality(upto(place(k))) = k
    BY <1>6
  <1>8. \A i \in at : place(Cardinality(upto(i))) = i
    <2> SUFFICES ASSUME NEW i \in at
                 PROVE  place(Cardinality(upto(i))) = i
      OBVIOUS
    <2>1. \A j \in at : Cardinality(upto(j)) = Cardinality(upto(i)) => j = i
      BY <1>3
    <2> QED  BY <2>1
  <1>9. Taken(names, at) = [k \in 1 .. m |-> names[place(k)]]
    BY DEF Taken
  <1> HIDE DEF upto, m, place, rank
  <1>10. \A k \in 1 .. m : \E i \in at : Taken(names, at)[k] = names[i]
    BY <1>7, <1>9
  <1>11. \A i \in at : \E k \in 1 .. m : Taken(names, at)[k] = names[i]
    BY <1>2, <1>8, <1>9
  <1>12. ASSUME \A i, j \in at : names[i] = names[j] => i = j
         PROVE  ~Repeats(Taken(names, at))
    <2> SUFFICES ASSUME NEW k \in 1 .. m, NEW l \in 1 .. m, k < l, 
                        names[place(k)] = names[place(l)]
                 PROVE  FALSE
      BY <1>9 DEF Repeats
    <2>1. place(k) \in at /\ place(l) \in at
      BY <1>7
    <2>2. place(k) = place(l)
      BY <1>12, <2>1
    <2>3. Cardinality(upto(place(k))) = k /\ Cardinality(upto(place(l))) = l
      BY <1>7
    <2>4. k = l
      BY <2>2, <2>3
    <2> QED  BY <2>4
  <1>13. DOMAIN Taken(names, at) = 1 .. m
    BY <1>9
  <1>14. m \in 0 .. n
    BY <1>1
  <1>15. (\A i, j \in at : names[i] = names[j] => i = j) => ~Repeats(Taken(names, at))
    BY <1>12
  <1>16. m = Cardinality(at)
    BY DEF m
  <1>17. IsFiniteSet(at)
    BY <1>1
  <1> QED  BY <1>10, <1>11, <1>13, <1>14, <1>15, <1>16, <1>17

LEMMA NoRepeats ==
  ASSUME NEW S, NEW names \in Seq(S)
  PROVE  Repeats(names) <=> \E i, j \in DOMAIN names : i # j /\ names[i] = names[j]
  <1>1. \A i, j \in DOMAIN names : i \in Int /\ j \in Int
    OBVIOUS
  <1>2. \A i, j \in DOMAIN names : i # j => i < j \/ j < i
    BY <1>1
  <1>3. \A i, j \in DOMAIN names : i < j => i # j
    BY <1>1
  <1> QED  BY <1>2, <1>3 DEF Repeats

LEMMA TakenList ==
  ASSUME NEW S, NEW names \in Seq(S), NEW at \in SUBSET DOMAIN names
  PROVE  LET taken == Taken(names, at)
         IN  /\ taken \in Seq(S) /\ Len(taken) = Cardinality(at)
             /\ Len(taken) \in Nat /\ Len(taken) <= Len(names)
             /\ Among(taken) = {names[i] : i \in at}
             /\ ~Repeats(names) => ~Repeats(taken)
  <1> DEFINE taken == Taken(names, at)
             n == Len(names)
  <1>1. n \in Nat /\ at \in SUBSET (1 .. n)
    OBVIOUS
  <1>2. /\ IsFiniteSet(at) /\ Cardinality(at) \in 0 .. n
        /\ DOMAIN taken = 1 .. Cardinality(at)
        /\ \A k \in 1 .. Cardinality(at) : \E i \in at : taken[k] = names[i]
        /\ \A i \in at : \E k \in 1 .. Cardinality(at) : taken[k] = names[i]
        /\ (\A i, j \in at : names[i] = names[j] => i = j) => ~Repeats(taken)
    <2> HIDE DEF n
    <2> QED  BY <1>1, TakenParts
  <1>3. taken = [k \in DOMAIN taken |-> taken[k]]
    BY DEF Taken
  <1> HIDE DEF taken
  <1>4. \A k \in 1 .. Cardinality(at) : taken[k] \in S
    BY <1>2
  <1>5. taken \in Seq(S) /\ Len(taken) = Cardinality(at)
    BY <1>2, <1>3, <1>4
  <1>6. Among(taken) = {names[i] : i \in at}
    <2>1. Among(taken) = {taken[k] : k \in 1 .. Cardinality(at)}
      BY <1>2 DEF Among
    <2>2. \A k \in 1 .. Cardinality(at) : taken[k] \in {names[i] : i \in at}
      BY <1>2
    <2>3. \A i \in at : names[i] \in {taken[k] : k \in 1 .. Cardinality(at)}
      BY <1>2
    <2> QED  BY <2>1, <2>2, <2>3
  <1>7. ~Repeats(names) => ~Repeats(taken)
    BY <1>2, NoRepeats
  <1> QED  BY <1>2, <1>5, <1>6, <1>7 DEF taken

LEMMA KeptList ==
  ASSUME NEW S, NEW names \in Seq(S), NEW allowed
  PROVE  LET kept == Kept(names, allowed)
         IN  /\ kept \in Seq(S) /\ Len(kept) \in Nat /\ Len(kept) <= Len(names)
             /\ Among(kept) = Among(names) \cap allowed
             /\ ~Repeats(names) => ~Repeats(kept)
  <1> DEFINE at == {i \in DOMAIN names : names[i] \in allowed}
             kept == Taken(names, at)
  <1>1. at \in SUBSET DOMAIN names
    OBVIOUS
  <1>2. {names[i] : i \in at} = Among(names) \cap allowed
    BY DEF Among
  <1>3. Kept(names, allowed) = kept
    BY DEF Kept
  <1> HIDE DEF at
  <1>4. /\ kept \in Seq(S) /\ Len(kept) \in Nat /\ Len(kept) <= Len(names)
        /\ Among(kept) = {names[i] : i \in at}
        /\ ~Repeats(names) => ~Repeats(kept)
    BY <1>1, TakenList
  <1> QED  BY <1>2, <1>3, <1>4

LEMMA FirstOrOnly ==
  ASSUME NEW S, NEW names \in Seq(S)
  PROVE  /\ First(names) \in Among(names) \cup {""} /\ Only(names) \in Among(names) \cup {""}
         /\ Len(names) # 0 => First(names) \in Among(names)
  <1>1. Len(names) \in Nat /\ DOMAIN names = 1 .. Len(names)
    OBVIOUS
  <1>2. names # <<>> => Len(names) # 0
    OBVIOUS
  <1>3. Len(names) # 0 => names # <<>>
    OBVIOUS
  <1>4. Len(names) # 0 => names[1] \in Among(names)
    BY <1>1 DEF Among
  <1>5. First(names) \in Among(names) \cup {""}
    BY <1>2, <1>4 DEF First
  <1>6. Only(names) \in Among(names) \cup {""}
    <2>1. Len(names) = 1 => Len(names) # 0
      OBVIOUS
    <2>2. Len(names) = 1 => names[1] \in Among(names)
      BY <2>1, <1>4
    <2>3. Only(names) \in {names[1], ""} /\ (Len(names) # 1 => Only(names) = "")
      BY DEF Only
    <2> QED  BY <2>2, <2>3
  <1>7. ASSUME Len(names) # 0
        PROVE  First(names) \in Among(names)
    <2>1. names # <<>>
      BY <1>3, <1>7
    <2>2. First(names) = names[1]
      BY <2>1 DEF First
    <2> QED  BY <2>2, <1>4, <1>7
  <1> QED  BY <1>5, <1>6, <1>7

LEMMA ListSize ==
  ASSUME NEW S, NEW names \in Seq(S), ~Repeats(names)
  PROVE  /\ IsFiniteSet(Among(names)) /\ Cardinality(Among(names)) = Len(names)
         /\ \A all : IsFiniteSet(all) /\ Among(names) \subseteq all => Len(names) <= Cardinality(all)
  <1> DEFINE n == Len(names)
  <1>1. n \in Nat /\ DOMAIN names = 1 .. n /\ names \in [1 .. n -> Among(names)]
    BY DEF Among
  <1>2. names \in Injection(1 .. n, Among(names))
    BY <1>1, NoRepeats DEF Injection, IsInjective
  <1>3. names \in Surjection(1 .. n, Among(names))
    BY <1>1 DEF Surjection, Among
  <1>4. IsFiniteSet(1 .. n) /\ Cardinality(1 .. n) = n
    BY <1>1, FS_Interval
  <1> HIDE DEF n
  <1>5. IsFiniteSet(Among(names)) /\ Cardinality(Among(names)) = n
    BY <1>2, <1>3, <1>4, FS_Surjection
  <1>6. \A all : IsFiniteSet(all) /\ Among(names) \subseteq all => n <= Cardinality(all)
    BY <1>5, FS_Subset
  <1> QED  BY <1>5, <1>6 DEF n
-----------------------------------------------------------------------------
(* What a profile without repeated names is for the selection.             *)

Lists(list, profile) ==
    /\ list \in Seq(NamesOf(profile)) /\ ~Repeats(list) /\ Len(list) <= Len(profile.columns)
    /\ IsFiniteSet(Among(list)) /\ Cardinality(Among(list)) = Len(list)

Readable(profile) ==
    /\ Len(profile.columns) \in Nat \ {0}
    /\ Lists(ColumnNames(profile.columns), profile)
    /\ Len(ColumnNames(profile.columns)) = Len(profile.columns)
    /\ Lists(NumericNames(profile), profile) /\ Lists(GroupNames(profile), profile)
    /\ "" \notin NamesOf(profile)
    /\ \A name \in NumericOf(profile) : IsNumeric(ColumnNamed(profile, name))
    /\ \A name \in GroupsOf(profile) : IsCategorical(ColumnNamed(profile, name))
    /\ \A name \in NamesOf(profile) :
          LET values == ColumnNamed(profile, name).values
          IN  IsFiniteSet(values) /\ Cardinality(values) <= MaxItems
    /\ \A name \in NamesOf(profile) :
          ~(IsNumeric(ColumnNamed(profile, name)) /\ IsCategorical(ColumnNamed(profile, name)))

LEMMA OneKind ==
  ASSUME NEW name, NEW cells
  PROVE  ~(IsNumeric(Column(name, cells)) /\ IsCategorical(Column(name, cells)))
  <1>1. Column(name, cells).listed <=> Column(name, cells).type = "categorical"
    BY DEF Column
  <1> QED  BY <1>1 DEF IsNumeric, IsCategorical

LEMMA CategoricalIsShort ==
  \A kinds, unique : InferredType(kinds, unique) = "categorical" => unique <= Listed
  <1> SUFFICES ASSUME NEW kinds, NEW unique, InferredType(kinds, unique) = "categorical"
               PROVE  unique <= Listed
    OBVIOUS
  <1>1. CASE kinds = {"string"}
    BY <1>1 DEF InferredType
  <1>2. CASE kinds \in {{"boolean"}, {"datetime"}}
    <2>1. InferredType(kinds, unique) = CHOOSE kind \in kinds : TRUE
      BY <1>2 DEF InferredType
    <2>2. (CHOOSE kind \in kinds : TRUE) \in kinds
      BY <1>2
    <2> QED  BY <2>1, <2>2, <1>2
  <1>3. CASE kinds # {"string"} /\ kinds \notin {{"boolean"}, {"datetime"}}
    BY <1>3 DEF InferredType
  <1> QED  BY <1>1, <1>2, <1>3

LEMMA ShortValues ==
  ASSUME NEW name, NEW cells, IsFiniteSet(DOMAIN cells)
  PROVE  /\ IsFiniteSet(Column(name, cells).values)
         /\ Cardinality(Column(name, cells).values) <= MaxItems
  <1> DEFINE present == {k \in DOMAIN cells : cells[k] \notin MissingTexts}
             texts == {cells[k] : k \in present}
             type == InferredType({Kind(t) : t \in texts}, Cardinality(texts))
             values == Column(name, cells).values
             shown == {Shown(t) : t \in texts}
  <1>1. values = IF type = "categorical" THEN shown ELSE {}
    BY DEF Column
  <1>2. IsFiniteSet(texts) /\ Cardinality(texts) \in Nat
    <2>1. IsFiniteSet(present)
      BY FS_Subset
    <2>2. [k \in present |-> cells[k]] \in Surjection(present, texts)
      BY DEF Surjection
    <2> HIDE DEF present, texts
    <2>3. IsFiniteSet(texts)
      BY <2>1, <2>2, FS_Surjection
    <2> QED  BY <2>3, FS_CardinalityType
  <1>3. [t \in texts |-> Shown(t)] \in Surjection(texts, shown)
    BY DEF Surjection
  <1>4. type = "categorical" => Cardinality(texts) <= Listed
    BY CategoricalIsShort
  <1> HIDE DEF texts, type, shown, values
  <1>5. IsFiniteSet(shown) /\ Cardinality(shown) <= Cardinality(texts)
    BY <1>2, <1>3, FS_Surjection
  <1>6. Cardinality(shown) \in Nat
    BY <1>5, FS_CardinalityType
  <1>7. type = "categorical" => Cardinality(shown) <= MaxItems
    BY <1>2, <1>4, <1>5, <1>6, MethodAssumption
  <1>8. 0 <= MaxItems
    BY MethodAssumption
  <1> QED  BY <1>1, <1>5, <1>7, <1>8, FS_EmptySet DEF values

LEMMA TablesAreFiles == \A table \in Tables : IsFile(table)
  BY MethodAssumption DEF IsFile

LEMMA NamesAreList ==
  ASSUME NEW file, IsFile(file)
  PROVE  /\ Names(file) \in Seq(Among(Names(file))) /\ Len(Names(file)) = Len(file.header)
         /\ Len(file.header) \in Nat \ {0}
  <1>1. Names(file) = [i \in 1 .. Len(file.header) |-> file.header[i].shown]
        /\ Len(file.header) \in Nat \ {0}
    BY FileParts DEF Names
  <1>2. \A i \in 1 .. Len(file.header) : Names(file)[i] \in Among(Names(file))
    BY <1>1 DEF Among
  <1> QED  BY <1>1, <1>2

\* The columns of a kind, listed.
LEMMA KindLists ==
  ASSUME NEW profile, NEW at \in SUBSET DOMAIN profile.columns,
         Len(profile.columns) \in Nat \ {0},
         ColumnNames(profile.columns) \in Seq(NamesOf(profile)),
         Len(ColumnNames(profile.columns)) = Len(profile.columns),
         ~Repeats(ColumnNames(profile.columns))
  PROVE  /\ Lists(Taken(ColumnNames(profile.columns), at), profile)
         /\ Among(Taken(ColumnNames(profile.columns), at))
               = {profile.columns[i].name : i \in at}
  <1> DEFINE names == ColumnNames(profile.columns)
             taken == Taken(names, at)
  <1>1. DOMAIN names = DOMAIN profile.columns
        /\ \A i \in DOMAIN profile.columns : names[i] = profile.columns[i].name
    BY DEF ColumnNames
  <1> HIDE DEF names
  <1>2. names \in Seq(NamesOf(profile)) /\ ~Repeats(names) /\ Len(names) = Len(profile.columns)
    BY DEF names
  <1>3. at \in SUBSET DOMAIN names
    BY <1>1
  <1>4. /\ taken \in Seq(NamesOf(profile)) /\ Len(taken) <= Len(names)
        /\ Among(taken) = {names[i] : i \in at} /\ ~Repeats(taken)
    BY <1>2, <1>3, TakenList
  <1> HIDE DEF taken
  <1>5. IsFiniteSet(Among(taken)) /\ Cardinality(Among(taken)) = Len(taken)
    BY <1>4, ListSize
  <1>6. {names[i] : i \in at} = {profile.columns[i].name : i \in at}
    BY <1>1
  <1>7. Lists(taken, profile)
    BY <1>2, <1>4, <1>5 DEF Lists
  <1> QED  BY <1>4, <1>6, <1>7 DEF taken, names

LEMMA ProfilesRead ==
  ASSUME NEW file, IsFile(file), ~Repeats(Names(file))
  PROVE  Readable(ProfileOf(file, Rows(file)))
  <1> DEFINE sample == Rows(file)
             profile == ProfileOf(file, sample)
             names == ColumnNames(profile.columns)
             numeric == {i \in DOMAIN profile.columns : IsNumeric(profile.columns[i])}
             grouping == {i \in DOMAIN profile.columns : IsCategorical(profile.columns[i])}
  <1>1. names = Names(file)
    BY NamesAgree
  <1>2. DOMAIN profile.columns = DOMAIN file.header
    BY ProfileParts
  <1>3. /\ names \in Seq(Among(Names(file))) /\ Len(names) = Len(file.header)
        /\ Len(file.header) \in Nat \ {0}
    BY <1>1, NamesAreList
  <1>4. NamesOf(profile) = Among(Names(file))
    BY <1>1 DEF NamesOf
  <1>5. Len(profile.columns) = Len(file.header)
    <2>1. profile.columns = [i \in 1 .. Len(file.header) |-> profile.columns[i]]
      BY <1>2, FileParts DEF ProfileOf
    <2> HIDE DEF profile
    <2> QED  BY <2>1, <1>3
  <1>6. \A i \in DOMAIN file.header :
           /\ profile.columns[i].name = file.header[i].shown
           /\ ColumnNamed(profile, file.header[i].shown) = profile.columns[i]
           /\ ColumnNamed(profile, file.header[i].shown)
                 = Column(file.header[i].shown, [k \in sample |-> Cell(file, k, i)])
    <2> SUFFICES ASSUME NEW i \in DOMAIN file.header
                 PROVE  /\ profile.columns[i].name = file.header[i].shown
                        /\ ColumnNamed(profile, file.header[i].shown) = profile.columns[i]
                        /\ ColumnNamed(profile, file.header[i].shown)
                              = Column(file.header[i].shown, [k \in sample |-> Cell(file, k, i)])
      OBVIOUS
    <2>1. ColumnNamed(profile, file.header[i].shown)
             = Column(file.header[i].shown, [k \in sample |-> Cell(file, k, i)])
      BY ColumnIs
    <2>2. profile.columns[i]
             = Column(file.header[i].shown, [k \in sample |-> Cell(file, k, i)])
      BY DEF ProfileOf, Names
    <2>3. profile.columns[i].name = file.header[i].shown
      BY <2>2 DEF Column
    <2> QED  BY <2>1, <2>2, <2>3
  <1>7. \A i \in DOMAIN profile.columns : names[i] = profile.columns[i].name
    BY DEF ColumnNames
  <1>8. "" \notin NamesOf(profile)
    BY <1>4, NamedColumn
  <1>9. IsFiniteSet(sample)
    BY RowsFinite
  <1>10. ASSUME NEW i \in DOMAIN file.header
         PROVE  /\ IsFiniteSet(ColumnNamed(profile, file.header[i].shown).values)
                /\ Cardinality(ColumnNamed(profile, file.header[i].shown).values) <= MaxItems
                /\ ~(/\ IsNumeric(ColumnNamed(profile, file.header[i].shown))
                     /\ IsCategorical(ColumnNamed(profile, file.header[i].shown)))
    <2> DEFINE cells == [k \in sample |-> Cell(file, k, i)]
    <2>1. IsFiniteSet(DOMAIN cells)
      BY <1>9
    <2>2. ColumnNamed(profile, file.header[i].shown) = Column(file.header[i].shown, cells)
      BY <1>6
    <2> HIDE DEF cells, profile
    <2> QED  BY <2>1, <2>2, ShortValues, OneKind
  <1>11. numeric \in SUBSET DOMAIN profile.columns /\ grouping \in SUBSET DOMAIN profile.columns
    OBVIOUS
  <1>12. NumericNames(profile) = Taken(names, numeric) /\ GroupNames(profile) = Taken(names, grouping)
    BY DEF NumericNames, GroupNames
  <1>13. ~Repeats(names)
    BY <1>1
  <1>14. \A i \in numeric : IsNumeric(profile.columns[i])
    OBVIOUS
  <1>15. \A i \in grouping : IsCategorical(profile.columns[i])
    OBVIOUS
  <1> HIDE DEF profile, numeric, grouping, names, sample
  <1>16. names = ColumnNames(profile.columns)
    BY DEF names
  <1>17. Lists(NumericNames(profile), profile)
         /\ NumericOf(profile) = {profile.columns[i].name : i \in numeric}
    BY <1>3, <1>4, <1>5, <1>11, <1>12, <1>13, <1>16, KindLists DEF NumericOf
  <1>18. Lists(GroupNames(profile), profile)
         /\ GroupsOf(profile) = {profile.columns[i].name : i \in grouping}
    BY <1>3, <1>4, <1>5, <1>11, <1>12, <1>13, <1>16, KindLists DEF GroupsOf
  <1>19. Lists(names, profile)
    <2>1. IsFiniteSet(Among(names)) /\ Cardinality(Among(names)) = Len(names)
      BY <1>3, <1>13, ListSize
    <2> QED  BY <2>1, <1>3, <1>4, <1>5, <1>13 DEF Lists
  <1>20. \A name \in NumericOf(profile) : IsNumeric(ColumnNamed(profile, name))
    <2> SUFFICES ASSUME NEW name \in NumericOf(profile)
                 PROVE  IsNumeric(ColumnNamed(profile, name))
      OBVIOUS
    <2>1. PICK i \in numeric : name = profile.columns[i].name
      BY <1>17
    <2>2. i \in DOMAIN file.header
      BY <1>2, <1>11
    <2>3. ColumnNamed(profile, name) = profile.columns[i]
      BY <1>6, <2>1, <2>2
    <2> QED  BY <1>14, <2>3
  <1>21. \A name \in GroupsOf(profile) : IsCategorical(ColumnNamed(profile, name))
    <2> SUFFICES ASSUME NEW name \in GroupsOf(profile)
                 PROVE  IsCategorical(ColumnNamed(profile, name))
      OBVIOUS
    <2>1. PICK i \in grouping : name = profile.columns[i].name
      BY <1>18
    <2>2. i \in DOMAIN file.header
      BY <1>2, <1>11
    <2>3. ColumnNamed(profile, name) = profile.columns[i]
      BY <1>6, <2>1, <2>2
    <2> QED  BY <1>15, <2>3
  <1>22. \A name \in NamesOf(profile) :
            LET values == ColumnNamed(profile, name).values
            IN  IsFiniteSet(values) /\ Cardinality(values) <= MaxItems
    BY <1>4, <1>10 DEF Among, Names
  <1>25. \A name \in NamesOf(profile) :
            ~(IsNumeric(ColumnNamed(profile, name)) /\ IsCategorical(ColumnNamed(profile, name)))
    BY <1>4, <1>10 DEF Among, Names
  <1>23. Len(profile.columns) \in Nat \ {0} /\ Len(names) = Len(profile.columns)
    BY <1>3, <1>5
  <1>24. Readable(profile)
    BY <1>8, <1>16, <1>17, <1>18, <1>19, <1>20, <1>21, <1>22, <1>23, <1>25, Zenon DEF Readable
  <1> QED  BY <1>24 DEF profile, sample
-----------------------------------------------------------------------------
(* Answers and what is decided by them.                                    *)

LEMMA AnswerParts ==
  ASSUME NEW given, NEW request, NEW reply
  PROVE  LET later == WithAnswer(given, request, reply)
         IN  /\ DOMAIN later = DOMAIN given \cup {request.type}
             /\ later[request.type] = reply
             /\ TextAnswer(later, request.type) = reply
             /\ \A type : type # request.type => TextAnswer(later, type) = TextAnswer(given, type)
             /\ \A type \in DOMAIN given : type # request.type => later[type] = given[type]
  BY DEF WithAnswer, TextAnswer

LEMMA ColumnAnswerIs ==
  ASSUME NEW profile, Readable(profile), NEW given, NEW type
  PROVE  LET answer == TextAnswer(given, type)
         IN  /\ ColumnAnswer(given, type, profile)
                   = IF answer \in NamesOf(profile) THEN answer ELSE ""
             /\ answer \in NamesOf(profile) =>
                   answer # "" /\ type \in DOMAIN given /\ given[type] = answer
  <1>1. "" \notin NamesOf(profile)
    BY DEF Readable
  <1> QED  BY <1>1 DEF ColumnAnswer, TextAnswer

\* A column that has a role was answered, or it fits the role, or there is none.
HasRole(name, type, fitting, given, profile) ==
    \/ name \in fitting \cup {""}
    \/ type \in DOMAIN given /\ name = given[type] /\ name \in NamesOf(profile)

IsObjective(objective) ==
    /\ objective.mentions \in Seq(Among(objective.mentions)) /\ ~Repeats(objective.mentions)
    /\ objective.trend \in Seq(Among(objective.trend))

LEMMA ListOfItself ==
  ASSUME NEW S, NEW names \in Seq(S)
  PROVE  names \in Seq(Among(names))
  <1>1. names \in [1 .. Len(names) -> Among(names)] /\ Len(names) \in Nat
    BY DEF Among
  <1> QED  BY <1>1

LEMMA GoalParts ==
  ASSUME NEW goal \in Goals, NEW given
  PROVE  /\ IsObjective(Objective(goal, given))
         /\ Objective(goal, given).methods \subseteq goal.methods
  <1>1. /\ goal.mentions \in Seq(Among(goal.mentions)) /\ ~Repeats(goal.mentions)
        /\ goal.trend \in Seq(Among(goal.trend))
    <2>1. goal.mentions \in Seq(STRING) /\ ~Repeats(goal.mentions) /\ goal.trend \in Seq(STRING)
      BY MethodAssumption
    <2> QED  BY <2>1, ListOfItself
  <1>2. \A list \in {<<"group">>, <<>>} : list \in Seq(Among(list))
    <2>1. <<"group">> \in Seq({"group"}) /\ <<>> \in Seq({"group"})
      OBVIOUS
    <2> QED  BY <2>1, ListOfItself
  <1>3. ~Repeats(<<"group">>) /\ ~Repeats(<<>>)
    BY DEF Repeats
  <1>4. CASE "analysis-objective" \in DOMAIN given
    <2>1. /\ Objective(goal, given).mentions \in {<<"group">>, <<>>}
          /\ Objective(goal, given).trend = <<>> /\ Objective(goal, given).methods = {}
      BY <1>4 DEF Objective
    <2> QED  BY <2>1, <1>2, <1>3 DEF IsObjective
  <1>5. CASE "analysis-objective" \notin DOMAIN given
    <2>1. Objective(goal, given) = goal
      BY <1>5 DEF Objective
    <2> QED  BY <2>1, <1>1 DEF IsObjective
  <1> QED  BY <1>4, <1>5

\* Only an answer to that question changes the objective.
LEMMA ObjectiveStays ==
  ASSUME NEW goal, NEW given, NEW request, NEW reply, request.type # "analysis-objective"
  PROVE  Objective(goal, WithAnswer(given, request, reply)) = Objective(goal, given)
  <1> DEFINE later == WithAnswer(given, request, reply)
  <1>0. /\ DOMAIN later = DOMAIN given \cup {request.type}
        /\ \A type \in DOMAIN given : type # request.type => later[type] = given[type]
    BY DEF WithAnswer
  <1> HIDE DEF later
  <1>1. "analysis-objective" \in DOMAIN later <=> "analysis-objective" \in DOMAIN given
    BY <1>0
  <1>2. "analysis-objective" \in DOMAIN given =>
           later["analysis-objective"] = given["analysis-objective"]
    BY <1>0
  <1>3. Objective(goal, later) = Objective(goal, given)
    BY <1>1, <1>2 DEF Objective
  <1> QED  BY <1>3 DEF later

LEMMA ObjectiveAnswered ==
  ASSUME NEW goal, NEW given, "analysis-objective" \in DOMAIN given
  PROVE  Cardinality(Objective(goal, given).operations) = 1
  <1>1. Objective(goal, given).operations = {given["analysis-objective"]}
    BY DEF Objective
  <1> QED  BY <1>1, FS_Singleton

LEMMA ClarifyOne ==
  \A request : Clarification(<<request>>)
                  = IF Cardinality(request.options) > MaxItems THEN Error ELSE request
  BY DEF Clarification

LEMMA ClarifyTwo ==
  \A first, second :
     Clarification(<<first, second>>)
        = IF Cardinality(first.options) > MaxItems \/ Cardinality(second.options) > MaxItems
          THEN Error ELSE first
  BY DEF Clarification

LEMMA ThreeFit ==
  /\ ~(Cardinality(Operations) > MaxItems)
  /\ \A methods \in {CorrelationMethods, TwoGroupMethods} :
        ~(Cardinality(methods \cup {"auto"}) > MaxItems)
  <1>1. ASSUME NEW a, NEW b, NEW c
        PROVE  ~(Cardinality({a, b, c}) > MaxItems)
    <2>1. IsFiniteSet({c}) /\ Cardinality({c}) = 1
      BY FS_Singleton
    <2>2. IsFiniteSet({c} \cup {b}) /\ Cardinality({c} \cup {b}) \in {1, 2}
      BY <2>1, FS_AddElement
    <2>3. Cardinality(({c} \cup {b}) \cup {a}) \in {1, 2, 3}
      BY <2>2, FS_AddElement
    <2>4. ({c} \cup {b}) \cup {a} = {a, b, c}
      OBVIOUS
    <2>5. MaxItems \in Nat /\ 3 <= MaxItems
      BY MethodAssumption
    <2>6. Cardinality({a, b, c}) \in {1, 2, 3}
      BY <2>3, <2>4
    <2> QED  BY <2>5, <2>6
  <1>2. Operations = {"descriptive", "two-group-comparison", "correlation"}
    BY DEF Operations
  <1>3. CorrelationMethods \cup {"auto"} = {"pearson", "spearman", "auto"}
    BY DEF CorrelationMethods
  <1>4. TwoGroupMethods \cup {"auto"} = {"welch-t-test", "mann-whitney-u", "auto"}
    BY DEF TwoGroupMethods
  <1> QED  BY <1>1, <1>2, <1>3, <1>4

LEMMA BothNamed ==
  ASSUME NEW methods \in {CorrelationMethods, TwoGroupMethods}, NEW all,
         Cardinality(all \cap methods) > 1
  PROVE  methods \subseteq all
  <1>1. SUFFICES ASSUME NEW left \in methods, left \notin all
                 PROVE  FALSE
    OBVIOUS
  <1>2. PICK other : all \cap methods \subseteq {other}
    <2>1. \E other : methods = {left, other}
      BY <1>1 DEF CorrelationMethods, TwoGroupMethods
    <2> QED  BY <2>1, <1>1
  <1>3. IsFiniteSet({other}) /\ Cardinality({other}) = 1
    BY FS_Singleton
  <1>4. IsFiniteSet(all \cap methods) /\ Cardinality(all \cap methods) <= 1
    BY <1>2, <1>3, FS_Subset
  <1>5. Cardinality(all \cap methods) \in Nat
    BY <1>4, FS_CardinalityType
  <1> QED  BY <1>4, <1>5

\* The method is left open when the goal names both, whatever is answered.
LEMMA MethodLeftOpen ==
  ASSUME NEW objective, NEW given, NEW methods \in {CorrelationMethods, TwoGroupMethods},
         TextAnswer(given, "method-confirmation") \in methods \cup {"auto"},
         Method(objective, given, methods) = ""
  PROVE  methods \subseteq objective.methods
  <1> DEFINE answer == TextAnswer(given, "method-confirmation")
             named == objective.methods \cap methods
  <1>1. answer # ""
    BY DEF CorrelationMethods, TwoGroupMethods
  <1>2. Cardinality(named) > 1
    <2>1. SUFFICES ASSUME ~(Cardinality(named) > 1)
                   PROVE  FALSE
      OBVIOUS
    <2>2. answer \in methods \cup {"auto", ""}
      OBVIOUS
    <2>3. Method(objective, given, methods)
             = Or(answer, IF named = {} THEN "auto" ELSE CHOOSE m \in named : TRUE)
      BY <2>1, <2>2 DEF Method
    <2> QED  BY <2>3, <1>1 DEF Or
  <1> QED  BY <1>2, BothNamed
-----------------------------------------------------------------------------
(* The roles of columns.                                                   *)

LEMMA OrIs == \A first, second : Or(first, second) = IF first = "" THEN second ELSE first
  BY DEF Or

\* What is answered comes first, and an answer that names no column counts as none.
LEMMA AnsweredRole ==
  ASSUME NEW profile, Readable(profile), NEW given, NEW type, NEW fitting, NEW found,
         found \in fitting \cup {""}, NEW name, name = Or(ColumnAnswer(given, type, profile), found)
  PROVE  /\ HasRole(name, type, fitting, given, profile)
         /\ TextAnswer(given, type) \in NamesOf(profile) =>
               name = TextAnswer(given, type) /\ name # ""
  <1> DEFINE answer == TextAnswer(given, type)
  <1>1. CASE answer \in NamesOf(profile)
    <2>1. /\ ColumnAnswer(given, type, profile) = answer
          /\ answer # "" /\ type \in DOMAIN given /\ given[type] = answer
      BY <1>1, ColumnAnswerIs
    <2>2. name = answer
      BY <2>1, OrIs
    <2> QED  BY <1>1, <2>1, <2>2 DEF HasRole
  <1>2. CASE answer \notin NamesOf(profile)
    <2>1. ColumnAnswer(given, type, profile) = ""
      BY <1>2, ColumnAnswerIs
    <2>2. name = found
      BY <2>1, OrIs
    <2> QED  BY <1>2, <2>2 DEF HasRole
  <1> QED  BY <1>1, <1>2

LEMMA SameAnswer ==
  ASSUME NEW profile, Readable(profile), NEW given, NEW later, NEW type,
         TextAnswer(later, type) = TextAnswer(given, type)
  PROVE  ColumnAnswer(later, type, profile) = ColumnAnswer(given, type, profile)
  <1>1. ColumnAnswer(given, type, profile)
           = IF TextAnswer(given, type) \in NamesOf(profile) THEN TextAnswer(given, type) ELSE ""
    BY ColumnAnswerIs
  <1>2. ColumnAnswer(later, type, profile)
           = IF TextAnswer(later, type) \in NamesOf(profile) THEN TextAnswer(later, type) ELSE ""
    BY ColumnAnswerIs
  <1>3. CASE TextAnswer(given, type) \in NamesOf(profile)
    BY <1>1, <1>2, <1>3, Zenon
  <1>4. CASE TextAnswer(given, type) \notin NamesOf(profile)
    BY <1>1, <1>2, <1>4, Zenon
  <1> QED  BY <1>3, <1>4

LEMMA SameRoles ==
  ASSUME NEW objective, NEW profile, Readable(profile), NEW given, NEW later, NEW name
  PROVE  /\ TextAnswer(later, "x-column") = TextAnswer(given, "x-column") =>
               XColumn(objective, profile, later) = XColumn(objective, profile, given)
         /\ TextAnswer(later, "y-column") = TextAnswer(given, "y-column") =>
               YColumn(objective, profile, later, name) = YColumn(objective, profile, given, name)
         /\ TextAnswer(later, "outcome-column") = TextAnswer(given, "outcome-column") =>
               OutcomeColumn(objective, profile, later) = OutcomeColumn(objective, profile, given)
         /\ TextAnswer(later, "group-column") = TextAnswer(given, "group-column") =>
               GroupColumn(objective, profile, later, name)
                  = GroupColumn(objective, profile, given, name)
  <1>1. \A type : TextAnswer(later, type) = TextAnswer(given, type) =>
           ColumnAnswer(later, type, profile) = ColumnAnswer(given, type, profile)
    BY SameAnswer
  <1>2. TextAnswer(later, "x-column") = TextAnswer(given, "x-column") =>
           XColumn(objective, profile, later) = XColumn(objective, profile, given)
    BY <1>1 DEF XColumn
  <1>3. TextAnswer(later, "y-column") = TextAnswer(given, "y-column") =>
           YColumn(objective, profile, later, name) = YColumn(objective, profile, given, name)
    BY <1>1 DEF YColumn
  <1>4. TextAnswer(later, "outcome-column") = TextAnswer(given, "outcome-column") =>
           OutcomeColumn(objective, profile, later) = OutcomeColumn(objective, profile, given)
    BY <1>1 DEF OutcomeColumn
  <1>5. TextAnswer(later, "group-column") = TextAnswer(given, "group-column") =>
           GroupColumn(objective, profile, later, name)
              = GroupColumn(objective, profile, given, name)
    BY <1>1 DEF GroupColumn
  <1> QED  BY <1>2, <1>3, <1>4, <1>5

LEMMA NumericList ==
  ASSUME NEW profile, Readable(profile)
  PROVE  /\ NumericNames(profile) \in Seq(NamesOf(profile))
         /\ GroupNames(profile) \in Seq(NamesOf(profile))
         /\ NumericOf(profile) \subseteq NamesOf(profile)
         /\ GroupsOf(profile) \subseteq NamesOf(profile)
         /\ NumericOf(profile) = Among(NumericNames(profile))
         /\ GroupsOf(profile) = Among(GroupNames(profile))
         /\ NumericOf(profile) \cap GroupsOf(profile) = {}
         /\ "" \notin NamesOf(profile)
         /\ Cardinality(NumericOf(profile)) <= Len(profile.columns)
         /\ Cardinality(GroupsOf(profile)) <= Len(profile.columns)
  <1>1. Lists(NumericNames(profile), profile) /\ Lists(GroupNames(profile), profile)
    BY DEF Readable
  <1>2. \A S : \A list \in Seq(S) : Among(list) \subseteq S
    BY DEF Among
  <1>3. NumericOf(profile) \subseteq NamesOf(profile) /\ GroupsOf(profile) \subseteq NamesOf(profile)
    BY <1>1, <1>2 DEF Lists, NumericOf, GroupsOf
  <1>4. NumericOf(profile) \cap GroupsOf(profile) = {}
    BY <1>3 DEF Readable
  <1>5. /\ Cardinality(NumericOf(profile)) <= Len(profile.columns)
        /\ Cardinality(GroupsOf(profile)) <= Len(profile.columns)
    BY <1>1 DEF Lists, NumericOf, GroupsOf
  <1>6. "" \notin NamesOf(profile)
    BY DEF Readable
  <1> QED  BY <1>1, <1>3, <1>4, <1>5, <1>6 DEF Lists, NumericOf, GroupsOf

LEMMA KeptRole ==
  ASSUME NEW S, NEW names \in Seq(S), NEW allowed
  PROVE  /\ Only(Kept(names, allowed)) \in (Among(names) \cap allowed) \cup {""}
         /\ First(Kept(names, allowed)) \in (Among(names) \cap allowed) \cup {""}
  BY KeptList, FirstOrOnly

LEMMA TrendNames ==
  ASSUME NEW profile, Readable(profile), NEW objective, IsObjective(objective)
  PROVE  LET roles == TrendRoles(objective, Kept(objective.mentions, NumericOf(profile)))
         IN  /\ First(roles) \in NumericOf(profile) \cup {""}
             /\ Len(roles) > 1 => roles[2] \in NumericOf(profile)
  <1> DEFINE mentioned == Kept(objective.mentions, NumericOf(profile))
             trend == objective.trend
             roles == TrendRoles(objective, mentioned)
  <1>1. /\ mentioned \in Seq(Among(objective.mentions)) /\ ~Repeats(mentioned)
        /\ Among(mentioned) \subseteq NumericOf(profile)
    BY KeptList DEF IsObjective
  <1>2. trend \in Seq(Among(trend))
    BY DEF IsObjective
  <1> HIDE DEF mentioned, trend
  <1>3. CASE Len(mentioned) = 2 /\ Among(trend) = Among(mentioned)
    <2>1. 1 \in DOMAIN mentioned /\ 2 \in DOMAIN mentioned
      BY <1>1, <1>3
    <2>2. mentioned[1] # mentioned[2]
      BY <1>1, <2>1, NoRepeats
    <2>3. mentioned[1] \in Among(trend) /\ mentioned[2] \in Among(trend)
      BY <1>3, <2>1 DEF Among
    <2>4. PICK j \in DOMAIN trend, k \in DOMAIN trend :
             trend[j] = mentioned[1] /\ trend[k] = mentioned[2]
      BY <2>3 DEF Among
    <2>5. 1 \in DOMAIN trend /\ 2 \in DOMAIN trend
      BY <1>2, <2>2, <2>4
    <2>6. trend[1] \in Among(mentioned) /\ trend[2] \in Among(mentioned)
      BY <1>3, <2>5 DEF Among
    <2>7. roles = <<trend[2], trend[1]>>
      BY <1>3 DEF TrendRoles, trend
    <2>8. First(roles) = trend[2] /\ roles[2] = trend[1]
      BY <2>7 DEF First
    <2> QED  BY <1>1, <2>6, <2>8 DEF mentioned
  <1>4. CASE ~(Len(mentioned) = 2 /\ Among(trend) = Among(mentioned))
    <2>1. roles = mentioned
      BY <1>4 DEF TrendRoles, trend
    <2>2. First(mentioned) \in Among(mentioned) \cup {""}
      BY <1>1, FirstOrOnly
    <2>3. Len(mentioned) > 1 => mentioned[2] \in Among(mentioned)
      BY <1>1 DEF Among
    <2> HIDE DEF roles
    <2> QED  BY <1>1, <2>1, <2>2, <2>3 DEF mentioned, roles
  <1> QED  BY <1>3, <1>4

LEMMA XIs ==
  ASSUME NEW profile, Readable(profile), NEW objective, IsObjective(objective), NEW given
  PROVE  LET x == XColumn(objective, profile, given)
         IN  /\ HasRole(x, "x-column", NumericOf(profile), given, profile)
             /\ TextAnswer(given, "x-column") \in NamesOf(profile) =>
                   x = TextAnswer(given, "x-column") /\ x # ""
  <1> DEFINE numeric == NumericNames(profile)
             roles == TrendRoles(objective, Kept(objective.mentions, Among(numeric)))
             found == Or(First(roles), IF Len(numeric) = 2 THEN numeric[1] ELSE "")
  <1>1. XColumn(objective, profile, given) = Or(ColumnAnswer(given, "x-column", profile), found)
    BY DEF XColumn
  <1>2. Among(numeric) = NumericOf(profile) /\ numeric \in Seq(NamesOf(profile))
    BY NumericList
  <1>3. First(roles) \in NumericOf(profile) \cup {""}
    BY <1>2, TrendNames
  <1>4. Len(numeric) = 2 => numeric[1] \in NumericOf(profile)
    BY <1>2 DEF Among
  <1> HIDE DEF roles, numeric
  <1>5. found \in NumericOf(profile) \cup {""}
    BY <1>3, <1>4, OrIs
  <1> HIDE DEF found
  <1> QED  BY <1>1, <1>5, AnsweredRole

LEMMA YIs ==
  ASSUME NEW profile, Readable(profile), NEW objective, IsObjective(objective), NEW given, NEW x
  PROVE  LET y == YColumn(objective, profile, given, x)
         IN  /\ HasRole(y, "y-column", NumericOf(profile), given, profile)
             /\ TextAnswer(given, "y-column") \in NamesOf(profile) =>
                   y = TextAnswer(given, "y-column") /\ y # ""
  <1> DEFINE numeric == NumericNames(profile)
             roles == TrendRoles(objective, Kept(objective.mentions, Among(numeric)))
             rest == Kept(numeric, Among(numeric) \ {x})
             found == Or(IF Len(roles) > 1 THEN roles[2] ELSE "",
                         IF Len(numeric) = 2 THEN First(rest) ELSE "")
  <1>1. YColumn(objective, profile, given, x) = Or(ColumnAnswer(given, "y-column", profile), found)
    BY DEF YColumn
  <1>2. Among(numeric) = NumericOf(profile) /\ numeric \in Seq(NamesOf(profile))
    BY NumericList
  <1>3. Len(roles) > 1 => roles[2] \in NumericOf(profile)
    BY <1>2, TrendNames
  <1>4. First(rest) \in NumericOf(profile) \cup {""}
    BY <1>2, KeptRole
  <1> HIDE DEF roles, rest, numeric
  <1>5. found \in NumericOf(profile) \cup {""}
    BY <1>3, <1>4, OrIs
  <1> HIDE DEF found
  <1> QED  BY <1>1, <1>5, AnsweredRole

LEMMA OutcomeIs ==
  ASSUME NEW profile, Readable(profile), NEW objective, NEW given
  PROVE  LET outcome == OutcomeColumn(objective, profile, given)
         IN  /\ HasRole(outcome, "outcome-column", NumericOf(profile), given, profile)
             /\ TextAnswer(given, "outcome-column") \in NamesOf(profile) =>
                   outcome = TextAnswer(given, "outcome-column") /\ outcome # ""
  <1> DEFINE numeric == NumericNames(profile)
             found == Or(Only(Kept(numeric, Among(objective.mentions))), Only(numeric))
  <1>1. OutcomeColumn(objective, profile, given)
           = Or(ColumnAnswer(given, "outcome-column", profile), found)
    BY DEF OutcomeColumn
  <1>2. Among(numeric) = NumericOf(profile) /\ numeric \in Seq(NamesOf(profile))
    BY NumericList
  <1> HIDE DEF numeric
  <1>3. /\ Only(Kept(numeric, Among(objective.mentions))) \in NumericOf(profile) \cup {""}
        /\ Only(numeric) \in NumericOf(profile) \cup {""}
    BY <1>2, KeptRole, FirstOrOnly
  <1>4. found \in NumericOf(profile) \cup {""}
    BY <1>3, OrIs
  <1> HIDE DEF found
  <1> QED  BY <1>1, <1>4, AnsweredRole

LEMMA GroupIs ==
  ASSUME NEW profile, Readable(profile), NEW objective, NEW given, NEW outcome
  PROVE  LET group == GroupColumn(objective, profile, given, outcome)
         IN  /\ HasRole(group, "group-column", GroupsOf(profile), given, profile)
             /\ TextAnswer(given, "group-column") \in NamesOf(profile) =>
                   group = TextAnswer(given, "group-column") /\ group # ""
  <1> DEFINE likely == GroupNames(profile)
             found == Or(Only(Kept(likely, Among(objective.mentions) \ {outcome})), Only(likely))
  <1>1. GroupColumn(objective, profile, given, outcome)
           = Or(ColumnAnswer(given, "group-column", profile), found)
    BY DEF GroupColumn
  <1>2. Among(likely) = GroupsOf(profile) /\ likely \in Seq(NamesOf(profile))
    BY NumericList
  <1> HIDE DEF likely
  <1>3. /\ Only(Kept(likely, Among(objective.mentions) \ {outcome}))
              \in GroupsOf(profile) \cup {""}
        /\ Only(likely) \in GroupsOf(profile) \cup {""}
    BY <1>2, KeptRole, FirstOrOnly
  <1>4. found \in GroupsOf(profile) \cup {""}
    BY <1>3, OrIs
  <1> HIDE DEF found
  <1> QED  BY <1>1, <1>4, AnsweredRole
-----------------------------------------------------------------------------
(* What is decided.                                                        *)

LEMMA AskParts ==
  \A type, options, spec :
     /\ AskFor(type, options).is = "ask" /\ AskFor(type, options).type = type
     /\ AskFor(type, options).options = options
     /\ Selected(spec).is = "spec" /\ Selected(spec).spec = spec
     /\ Error.is = "raises" /\ Unsupported.is = "unsupported"
  BY DEF AskFor, Selected, Error, Unsupported

LEMMA AskedIfFits ==
  ASSUME NEW type, NEW options, NEW size \in Nat,
         Cardinality(options) \in Nat, Cardinality(options) <= size
  PROVE  \/ Clarification(<<AskFor(type, options)>>) = Error /\ size > MaxItems
         \/ Clarification(<<AskFor(type, options)>>) = AskFor(type, options)
  <1>1. CASE Cardinality(options) > MaxItems
    <2>1. Clarification(<<AskFor(type, options)>>) = Error
      BY <1>1, ClarifyOne, AskParts
    <2> QED  BY <2>1, <1>1, MethodAssumption
  <1>2. CASE ~(Cardinality(options) > MaxItems)
    BY <1>2, ClarifyOne, AskParts
  <1> QED  BY <1>1, <1>2

LEMMA BothAskedIfFit ==
  ASSUME NEW type, NEW options, NEW other, NEW others, NEW size \in Nat,
         Cardinality(options) \in Nat, Cardinality(options) <= size,
         Cardinality(others) \in Nat, Cardinality(others) <= size
  PROVE  LET wanted == Clarification(<<AskFor(type, options), AskFor(other, others)>>)
         IN  (wanted = Error /\ size > MaxItems) \/ wanted = AskFor(type, options)
  <1> DEFINE wanted == Clarification(<<AskFor(type, options), AskFor(other, others)>>)
  <1>1. CASE Cardinality(options) > MaxItems \/ Cardinality(others) > MaxItems
    <2>1. wanted = Error
      BY <1>1, ClarifyTwo, AskParts
    <2>2. MaxItems \in Nat
      BY MethodAssumption
    <2>3. size > MaxItems
      BY <1>1, <2>2
    <2> QED  BY <2>1, <2>3
  <1>2. CASE ~(Cardinality(options) > MaxItems \/ Cardinality(others) > MaxItems)
    BY <1>2, ClarifyTwo, AskParts
  <1> QED  BY <1>1, <1>2

LEMMA KindsFit ==
  ASSUME NEW profile, Readable(profile)
  PROVE  /\ Len(profile.columns) \in Nat
         /\ Cardinality(NumericOf(profile)) \in Nat
         /\ Cardinality(NumericOf(profile)) <= Len(profile.columns)
         /\ Cardinality(GroupsOf(profile)) \in Nat
         /\ Cardinality(GroupsOf(profile)) <= Len(profile.columns)
  <1>1. IsFiniteSet(NumericOf(profile)) /\ IsFiniteSet(GroupsOf(profile))
    BY DEF Readable, Lists, NumericOf, GroupsOf
  <1>2. Len(profile.columns) \in Nat
    BY DEF Readable
  <1> QED  BY <1>1, <1>2, NumericList, FS_CardinalityType

CorrelationSpec(spec, x, y, profile) ==
    /\ spec.operation = "correlation" /\ spec.columns = <<x, y>> /\ spec.hash = profile.hash

LEMMA CorrelationCases ==
  ASSUME NEW profile, Readable(profile), NEW objective, NEW given
  PROVE  LET decision == Correlation(objective, profile, given)
             x == XColumn(objective, profile, given)
             y == YColumn(objective, profile, given, x)
             numeric == NumericOf(profile)
             methods == CorrelationMethods
         IN  \/ decision = Error /\ Len(profile.columns) > MaxItems
             \/ decision = AskFor("x-column", numeric) /\ x = ""
             \/ decision = AskFor("y-column", numeric) /\ x # "" /\ y \in {"", x}
             \/ /\ decision = AskFor("method-confirmation", methods \cup {"auto"})
                /\ x # "" /\ y \notin {"", x} /\ Method(objective, given, methods) = ""
             \/ /\ x # "" /\ y \notin {"", x}
                /\ \E spec : decision = Selected(spec) /\ CorrelationSpec(spec, x, y, profile)
  <1> DEFINE decision == Correlation(objective, profile, given)
             x == XColumn(objective, profile, given)
             y == YColumn(objective, profile, given, x)
             numeric == NumericOf(profile)
             method == Method(objective, given, CorrelationMethods)
             open == CorrelationMethods \cup {"auto"}
             spec == [operation |-> "correlation", columns |-> <<x, y>>,
                      statistics |-> "none", plot |-> "scatter", groups |-> {},
                      method |-> method, effect |-> "none",
                      policy |-> Policy(given), hash |-> profile.hash]
  <1>1. decision =
           IF x = "" /\ y = ""
           THEN Clarification(<<AskFor("x-column", numeric), AskFor("y-column", numeric)>>)
           ELSE IF x = "" THEN Clarification(<<AskFor("x-column", numeric)>>)
           ELSE IF y \in {"", x} THEN Clarification(<<AskFor("y-column", numeric)>>)
           ELSE IF method = "" THEN Clarification(<<AskFor("method-confirmation", open)>>)
           ELSE Selected(spec)
    BY DEF Correlation, MethodQuestion
  <1>2. /\ Len(profile.columns) \in Nat
        /\ Cardinality(numeric) \in Nat /\ Cardinality(numeric) <= Len(profile.columns)
    BY KindsFit
  <1>3. CorrelationSpec(spec, x, y, profile)
    BY DEF CorrelationSpec
  <1>4. Clarification(<<AskFor("method-confirmation", open)>>) = AskFor("method-confirmation", open)
    <2>1. ~(Cardinality(open) > MaxItems)
      BY ThreeFit
    <2> QED  BY <2>1, ClarifyOne, AskParts
  <1> HIDE DEF decision, x, y, numeric, method, open, spec
  <1> DEFINE Cases ==
               \/ decision = Error /\ Len(profile.columns) > MaxItems
               \/ decision = AskFor("x-column", numeric) /\ x = ""
               \/ decision = AskFor("y-column", numeric) /\ x # "" /\ y \in {"", x}
               \/ /\ decision = AskFor("method-confirmation", open)
                  /\ x # "" /\ y \notin {"", x} /\ method = ""
               \/ /\ x # "" /\ y \notin {"", x}
                  /\ \E found : decision = Selected(found) /\ CorrelationSpec(found, x, y, profile)
  <1>5. ASSUME x = "", y = "" PROVE Cases
    BY <1>1, <1>2, <1>5, BothAskedIfFit
  <1>6. ASSUME x = "", y # "" PROVE Cases
    BY <1>1, <1>2, <1>6, AskedIfFits
  <1>7. ASSUME x # "", y \in {"", x} PROVE Cases
    BY <1>1, <1>2, <1>7, AskedIfFits
  <1>8. ASSUME x # "", y \notin {"", x}, method = "" PROVE Cases
    BY <1>1, <1>4, <1>8
  <1>9. ASSUME x # "", y \notin {"", x}, method # "" PROVE Cases
    BY <1>1, <1>3, <1>9
  <1>10. Cases
    BY <1>5, <1>6, <1>7, <1>8, <1>9
  <1> QED  BY <1>10 DEF decision, x, y, numeric, method, open

ComparisonSpec(spec, outcome, group, groups, profile) ==
    /\ spec.operation = "two-group-comparison" /\ spec.columns = <<outcome, group>>
    /\ spec.groups = groups /\ spec.hash = profile.hash
    /\ spec.method = "welch-t-test" => spec.effect = "hedges-g"
    /\ spec.method = "mann-whitney-u" => spec.effect = "rank-biserial"

LEMMA RoleNames ==
  ASSUME NEW profile, Readable(profile), NEW name, NEW type, NEW given,
         NEW fitting \in {NumericOf(profile), GroupsOf(profile)},
         HasRole(name, type, fitting, given, profile), name # ""
  PROVE  name \in NamesOf(profile)
  BY NumericList DEF HasRole

LEMMA ComparisonCases ==
  ASSUME NEW profile, Readable(profile), NEW objective, NEW given
  PROVE  LET decision == TwoGroups(objective, profile, given)
             outcome == OutcomeColumn(objective, profile, given)
             group == GroupColumn(objective, profile, given, outcome)
             offered == ColumnNamed(profile, group).values
             groups == GroupValues(given, offered)
             methods == TwoGroupMethods
         IN  \/ decision = Error /\ Len(profile.columns) > MaxItems
             \/ decision = AskFor("outcome-column", NumericOf(profile)) /\ outcome = ""
             \/ decision = AskFor("group-column", GroupsOf(profile)) /\ outcome # "" /\ group = ""
             \/ /\ outcome # "" /\ group # ""
                /\ decision = AskFor("group-values", offered) /\ groups = {}
             \/ decision = Unsupported
             \/ /\ outcome # "" /\ group # "" /\ Method(objective, given, methods) = ""
                /\ decision = AskFor("method-confirmation", methods \cup {"auto"})
             \/ decision = Error /\ outcome # "" /\ outcome = group
             \/ /\ outcome # "" /\ group \notin {"", outcome} /\ groups # {}
                /\ \E spec : /\ decision = Selected(spec)
                             /\ ComparisonSpec(spec, outcome, group, groups, profile)
  <1> DEFINE decision == TwoGroups(objective, profile, given)
             outcome == OutcomeColumn(objective, profile, given)
             group == GroupColumn(objective, profile, given, outcome)
             offered == ColumnNamed(profile, group).values
             groups == GroupValues(given, offered)
             method == Method(objective, given, TwoGroupMethods)
             open == TwoGroupMethods \cup {"auto"}
             numeric == NumericOf(profile)
             likely == GroupsOf(profile)
             no == TextAnswer(given, "independence-assumption") = "no"
             spec == [operation |-> "two-group-comparison", columns |-> <<outcome, group>>,
                      statistics |-> "none", plot |-> "boxplot", groups |-> groups,
                      method |-> method,
                      effect |-> IF method = "mann-whitney-u" THEN "rank-biserial"
                                 ELSE "hedges-g",
                      policy |-> Policy(given), hash |-> profile.hash]
  <1>1. decision =
           IF outcome = "" /\ group = ""
           THEN Clarification(<<AskFor("outcome-column", numeric), AskFor("group-column", likely)>>)
           ELSE IF outcome = "" THEN Clarification(<<AskFor("outcome-column", numeric)>>)
           ELSE IF group = "" THEN Clarification(<<AskFor("group-column", likely)>>)
           ELSE IF groups = {} THEN Clarification(<<AskFor("group-values", offered)>>)
           ELSE IF no THEN Unsupported
           ELSE IF method = "" THEN Clarification(<<AskFor("method-confirmation", open)>>)
           ELSE IF outcome = group THEN Error
           ELSE Selected(spec)
    BY Zenon DEF TwoGroups, MethodQuestion
  <1>2. /\ Len(profile.columns) \in Nat
        /\ Cardinality(numeric) \in Nat /\ Cardinality(numeric) <= Len(profile.columns)
        /\ Cardinality(likely) \in Nat /\ Cardinality(likely) <= Len(profile.columns)
    BY KindsFit
  <1>3. ComparisonSpec(spec, outcome, group, groups, profile)
    BY DEF ComparisonSpec
  <1>4. Clarification(<<AskFor("method-confirmation", open)>>) = AskFor("method-confirmation", open)
    <2>1. ~(Cardinality(open) > MaxItems)
      BY ThreeFit
    <2> QED  BY <2>1, ClarifyOne, AskParts
  <1>5. group # "" => Clarification(<<AskFor("group-values", offered)>>) = AskFor("group-values", offered)
    <2>1. HasRole(group, "group-column", GroupsOf(profile), given, profile)
      BY GroupIs
    <2>2. SUFFICES ASSUME group # ""
                   PROVE  Clarification(<<AskFor("group-values", offered)>>)
                             = AskFor("group-values", offered)
      OBVIOUS
    <2> HIDE DEF group
    <2>3. group \in NamesOf(profile)
      BY <2>1, <2>2, RoleNames
    <2>4. IsFiniteSet(offered) /\ Cardinality(offered) <= MaxItems
      BY <2>3 DEF Readable
    <2>5. ~(Cardinality(offered) > MaxItems)
      <3>1. Cardinality(offered) \in Nat
        BY <2>4, FS_CardinalityType
      <3>2. MaxItems \in Nat
        BY MethodAssumption
      <3> QED  BY <2>4, <3>1, <3>2
    <2> QED  BY <2>5, ClarifyOne, AskParts
  <1> HIDE DEF decision, outcome, group, offered, groups, method, open, numeric, likely, no, spec
  <1> DEFINE Cases ==
               \/ decision = Error /\ Len(profile.columns) > MaxItems
               \/ decision = AskFor("outcome-column", numeric) /\ outcome = ""
               \/ decision = AskFor("group-column", likely) /\ outcome # "" /\ group = ""
               \/ /\ outcome # "" /\ group # ""
                  /\ decision = AskFor("group-values", offered) /\ groups = {}
               \/ decision = Unsupported
               \/ /\ outcome # "" /\ group # "" /\ method = ""
                  /\ decision = AskFor("method-confirmation", open)
               \/ decision = Error /\ outcome # "" /\ outcome = group
               \/ /\ outcome # "" /\ group \notin {"", outcome} /\ groups # {}
                  /\ \E found : /\ decision = Selected(found)
                                /\ ComparisonSpec(found, outcome, group, groups, profile)
  <1>6. ASSUME outcome = "", group = "" PROVE Cases
    BY <1>1, <1>2, <1>6, BothAskedIfFit
  <1>7. ASSUME outcome = "", group # "" PROVE Cases
    BY <1>1, <1>2, <1>7, AskedIfFits
  <1>8. ASSUME outcome # "", group = "" PROVE Cases
    BY <1>1, <1>2, <1>8, AskedIfFits
  <1>9. ASSUME outcome # "", group # "", groups = {} PROVE Cases
    BY <1>1, <1>5, <1>9
  <1>10. ASSUME outcome # "", group # "", groups # {} PROVE Cases
    <2>1. CASE no
      BY <1>1, <1>10, <2>1
    <2>2. CASE ~no /\ method = ""
      BY <1>1, <1>4, <1>10, <2>2
    <2>3. CASE ~no /\ method # "" /\ outcome = group
      BY <1>1, <1>10, <2>3
    <2>4. CASE ~no /\ method # "" /\ outcome # group
      <3>1. decision = Selected(spec)
        BY <1>1, <1>10, <2>4
      <3> QED  BY <1>3, <1>10, <2>4, <3>1
    <2> QED  BY <2>1, <2>2, <2>3, <2>4
  <1>11. Cases
    BY <1>6, <1>7, <1>8, <1>9, <1>10
  <1> QED  BY <1>11 DEF decision, outcome, group, offered, groups, method, open, numeric, likely

LEMMA DescriptiveCases ==
  ASSUME NEW profile, Readable(profile), NEW objective, IsObjective(objective), NEW given
  PROVE  LET decision == Descriptive(objective, profile, given)
         IN  \/ decision = Error /\ Len(profile.columns) > MaxItems
             \/ \E spec : /\ decision = Selected(spec)
                          /\ WellFormed(spec) /\ ValidSpec(spec, profile)
  <1> DEFINE decision == Descriptive(objective, profile, given)
             names == ColumnNames(profile.columns)
             mentioned == Kept(objective.mentions, NamesOf(profile))
             selected == IF mentioned = <<>> THEN names ELSE mentioned
  <1>1. /\ names \in Seq(NamesOf(profile)) /\ ~Repeats(names)
        /\ Len(names) = Len(profile.columns) /\ Len(profile.columns) \in Nat \ {0}
        /\ IsFiniteSet(NamesOf(profile)) /\ Cardinality(NamesOf(profile)) = Len(names)
    BY DEF Readable, Lists, NamesOf
  <1>2. /\ mentioned \in Seq(Among(objective.mentions)) /\ ~Repeats(mentioned)
        /\ Among(mentioned) \subseteq NamesOf(profile)
    BY KeptList DEF IsObjective
  <1>3. Among(names) = NamesOf(profile)
    BY DEF NamesOf
  <1> HIDE DEF mentioned, names
  <1>4. /\ Len(mentioned) \in Nat /\ Len(mentioned) <= Len(profile.columns)
        /\ mentioned # <<>> => Len(mentioned) # 0
    <2>1. Len(mentioned) <= Cardinality(NamesOf(profile))
      BY <1>1, <1>2, ListSize
    <2>2. Len(mentioned) \in Nat
      BY <1>2
    <2>3. mentioned # <<>> => Len(mentioned) # 0
      BY <1>2
    <2> QED  BY <1>1, <2>1, <2>2, <2>3
  <1>5. /\ ~Repeats(selected) /\ Among(selected) \subseteq NamesOf(profile)
        /\ Len(selected) \in Nat \ {0} /\ Len(selected) <= Len(profile.columns)
    <2>1. CASE mentioned = <<>>
      BY <2>1, <1>1, <1>3
    <2>2. CASE mentioned # <<>>
      BY <2>2, <1>2, <1>4
    <2> QED  BY <2>1, <2>2
  <1>6. PICK spec :
           /\ decision = IF Len(selected) > MaxItems THEN Error ELSE Selected(spec)
           /\ spec.operation = "descriptive" /\ spec.columns = selected
           /\ spec.hash = profile.hash
    <2> DEFINE all == {ColumnNamed(profile, name) : name \in Among(selected)}
               content == IF \A c \in all : IsCategorical(c) THEN <<"frequency", "bar">>
                          ELSE IF \A c \in all : IsNumeric(c) THEN <<"numeric", "histogram">>
                          ELSE <<"counts", "none">>
               spec == [operation |-> "descriptive", columns |-> selected,
                        statistics |-> content[1], plot |-> content[2], groups |-> {},
                        method |-> "descriptive", effect |-> "none",
                        policy |-> Policy(given), hash |-> profile.hash]
    <2>1. decision = IF Len(selected) > MaxItems THEN Error ELSE Selected(spec)
      BY Zenon DEF Descriptive, mentioned, names
    <2> HIDE DEF content, selected
    <2>2. /\ spec.operation = "descriptive" /\ spec.columns = selected
          /\ spec.hash = profile.hash
      OBVIOUS
    <2> HIDE DEF spec
    <2> QED  BY <2>1, <2>2
  <1> HIDE DEF selected, decision
  <1>7. MaxItems \in Nat
    BY MethodAssumption
  <1>8. CASE Len(selected) > MaxItems
    <2>1. decision = Error
      BY <1>6, <1>8
    <2>2. Len(profile.columns) > MaxItems
      BY <1>1, <1>5, <1>7, <1>8
    <2> QED  BY <2>1, <2>2 DEF decision
  <1>9. CASE ~(Len(selected) > MaxItems)
    <2>1. decision = Selected(spec)
      BY <1>6, <1>9
    <2>2. Len(selected) <= MaxItems /\ selected # <<>>
      <3>1. Len(selected) <= MaxItems
        BY <1>5, <1>7, <1>9
      <3>2. selected = <<>> => Len(selected) = 0
        OBVIOUS
      <3> QED  BY <3>1, <3>2, <1>5
    <2>3. WellFormed(spec)
      BY <1>5, <1>6, <2>2 DEF WellFormed
    <2>4. ValidSpec(spec, profile)
      BY <1>1, <1>5, <1>6 DEF ValidSpec, names
    <2> QED  BY <2>1, <2>3, <2>4 DEF decision
  <1> QED  BY <1>8, <1>9

Describes(goal, profile, given) ==
    /\ ~goal.unsupported /\ Cardinality(Objective(goal, given).operations) = 1
    /\ ~Repeats(ColumnNames(profile.columns))
    /\ Objective(goal, given).operations = {"descriptive"}
Correlates(goal, profile, given) ==
    /\ ~goal.unsupported /\ Cardinality(Objective(goal, given).operations) = 1
    /\ ~Repeats(ColumnNames(profile.columns))
    /\ Objective(goal, given).operations = {"correlation"}
Compares(goal, profile, given) ==
    /\ ~goal.unsupported /\ Cardinality(Objective(goal, given).operations) = 1
    /\ ~Repeats(ColumnNames(profile.columns))
    /\ Objective(goal, given).operations \notin {{"descriptive"}, {"correlation"}}

LEMMA DecideCases ==
  ASSUME NEW goal, NEW profile, NEW given
  PROVE  LET decision == Decide(goal, profile, given)
             objective == Objective(goal, given)
         IN  /\ \/ decision = Unsupported
                \/ /\ decision = AskFor("analysis-objective", Operations)
                   /\ Cardinality(objective.operations) # 1
                \/ Describes(goal, profile, given)
                \/ Correlates(goal, profile, given)
                \/ Compares(goal, profile, given)
             /\ Describes(goal, profile, given) => decision = Descriptive(objective, profile, given)
             /\ Correlates(goal, profile, given) => decision = Correlation(objective, profile, given)
             /\ Compares(goal, profile, given) => decision = TwoGroups(objective, profile, given)
  <1> DEFINE decision == Decide(goal, profile, given)
             objective == Objective(goal, given)
             wanted == AskFor("analysis-objective", Operations)
  <1>1. Clarification(<<wanted>>) = wanted
    BY ThreeFit, ClarifyOne, AskParts
  <1> HIDE DEF wanted
  <1>2. decision =
           IF goal.unsupported THEN Unsupported
           ELSE IF Cardinality(objective.operations) # 1 THEN Clarification(<<wanted>>)
           ELSE IF Repeats(ColumnNames(profile.columns)) THEN Unsupported
           ELSE IF objective.operations = {"descriptive"}
                THEN Descriptive(objective, profile, given)
           ELSE IF objective.operations = {"correlation"}
                THEN Correlation(objective, profile, given)
           ELSE TwoGroups(objective, profile, given)
    BY Zenon DEF Decide, wanted
  <1>3. {"descriptive"} # {"correlation"}
    OBVIOUS
  <1> HIDE DEF decision, objective
  <1> DEFINE describes == /\ ~goal.unsupported /\ Cardinality(objective.operations) = 1
                          /\ ~Repeats(ColumnNames(profile.columns))
                          /\ objective.operations = {"descriptive"}
             correlates == /\ ~goal.unsupported /\ Cardinality(objective.operations) = 1
                           /\ ~Repeats(ColumnNames(profile.columns))
                           /\ objective.operations = {"correlation"}
             compares == /\ ~goal.unsupported /\ Cardinality(objective.operations) = 1
                         /\ ~Repeats(ColumnNames(profile.columns))
                         /\ objective.operations \notin {{"descriptive"}, {"correlation"}}
  <1>4. \/ decision = Unsupported
        \/ decision = wanted /\ Cardinality(objective.operations) # 1
        \/ describes \/ correlates \/ compares
    BY <1>1, <1>2
  <1>5. describes => decision = Descriptive(objective, profile, given)
    BY <1>2
  <1>6. correlates => decision = Correlation(objective, profile, given)
    BY <1>2, <1>3
  <1>7. compares => decision = TwoGroups(objective, profile, given)
    BY <1>2
  <1> QED  BY <1>4, <1>5, <1>6, <1>7 DEF Describes, Correlates, Compares, decision, objective, wanted
-----------------------------------------------------------------------------
(* Questions get on.                                                       *)

TypedFreely(profile, given) ==
    \E type \in DOMAIN given \cap ColumnQuestions :
       /\ type \in {"outcome-column", "x-column", "y-column"} =>
             given[type] \notin NumericOf(profile)
       /\ type = "group-column" => given[type] \notin GroupsOf(profile)
Later(goal, profile, given, reply) ==
    Decide(goal, profile, WithAnswer(given, Decide(goal, profile, given), reply))
Again(goal, profile, given, reply) ==
    LET next == Later(goal, profile, given, reply)
    IN  next.is = "ask" /\ next.type = Decide(goal, profile, given).type
GetsOn(goal, profile, given) ==
    LET decision == Decide(goal, profile, given)
    IN  /\ \A reply \in Replies(decision, profile) :
              Again(goal, profile, given, reply) => Useless(decision, reply, goal, given, profile)
        /\ \/ Unanswerable(decision, goal, given, profile)
           \/ \E reply \in Replies(decision, profile) :
                 ~Useless(decision, reply, goal, given, profile)

LEMMA SettlesIs ==
  ASSUME NEW goal, NEW profile, NEW given
  PROVE  Settles(goal, profile, given) <=>
            LET decision == Decide(goal, profile, given)
            IN  /\ ValidDecision(decision, profile) \/ TypedFreely(profile, given)
                /\ decision.is = "raises" => TypedFreely(profile, given) \/ Len(profile.columns) > MaxItems
                /\ decision.is = "ask" => GetsOn(goal, profile, given)
  BY Zenon DEF Settles, TypedFreely, Again, Later, GetsOn

LEMMA RoleFits ==
  ASSUME NEW profile, Readable(profile), NEW given, NEW name, NEW type \in ColumnQuestions,
         NEW fitting, HasRole(name, type, fitting, given, profile),
         fitting = IF type = "group-column" THEN GroupsOf(profile) ELSE NumericOf(profile)
  PROVE  TypedFreely(profile, given) \/ name \in fitting \cup {""}
  <1> SUFFICES ASSUME name \notin fitting \cup {""}
               PROVE  TypedFreely(profile, given)
    OBVIOUS
  <1>1. type \in DOMAIN given /\ given[type] \notin fitting
    BY DEF HasRole
  <1> QED  BY <1>1 DEF TypedFreely, ColumnQuestions

\* A question for a column gets on if a column that is answered is not asked for again,
\* unless it is the x column's own.
LEMMA ColumnGetsOn ==
  ASSUME NEW goal, NEW profile, Readable(profile), NEW given, NEW type \in ColumnQuestions,
         NEW options, options \subseteq NamesOf(profile),
         Decide(goal, profile, given) = AskFor(type, options),
         \A reply \in NamesOf(profile) :
            Again(goal, profile, given, reply) =>
               type = "y-column" /\ reply = XColumn(Objective(goal, given), profile, given)
  PROVE  GetsOn(goal, profile, given)
  <1> DEFINE decision == Decide(goal, profile, given)
             x == XColumn(Objective(goal, given), profile, given)
  <1>1. decision.type = type /\ decision.options = options
    BY AskParts
  <1>2. type \notin {"group-values", "method-confirmation"}
    BY DEF ColumnQuestions
  <1>3. Replies(decision, profile)
           = IF options # {} THEN options ELSE NamesOf(profile) \cup {"else"}
    BY <1>1, <1>2 DEF Replies
  <1>4. \E name : name \in NamesOf(profile)
    <2>1. /\ ColumnNames(profile.columns) \in Seq(NamesOf(profile))
          /\ Len(ColumnNames(profile.columns)) \in Nat \ {0}
      BY DEF Readable, Lists
    <2>2. ColumnNames(profile.columns)[1] \in NamesOf(profile)
      BY <2>1
    <2> QED  BY <2>2
  <1>5. \E reply \in Replies(decision, profile) : reply \in NamesOf(profile)
    BY <1>3, <1>4
  <1> HIDE DEF decision, x
  <1>6. \A reply : Useless(decision, reply, goal, given, profile) <=>
                      \/ type = "y-column" /\ reply = x
                      \/ reply \notin NamesOf(profile)
    BY <1>1, <1>2 DEF Useless, NamesBoth, x
  <1>7. Unanswerable(decision, goal, given, profile) <=>
           type = "y-column" /\ Replies(decision, profile) \cap NamesOf(profile) \subseteq {x}
    BY <1>1, <1>2 DEF Unanswerable, NamesBoth, x
  <1>8. \A reply \in Replies(decision, profile) :
           Again(goal, profile, given, reply) => Useless(decision, reply, goal, given, profile)
    BY <1>6 DEF x
  <1>9. \/ Unanswerable(decision, goal, given, profile)
        \/ \E reply \in Replies(decision, profile) :
              ~Useless(decision, reply, goal, given, profile)
    BY <1>5, <1>6, <1>7
  <1> QED  BY <1>8, <1>9, Zenon DEF GetsOn, decision

LEMMA MethodGetsOn ==
  ASSUME NEW goal, NEW profile, NEW given, NEW methods \in {CorrelationMethods, TwoGroupMethods},
         Decide(goal, profile, given) = AskFor("method-confirmation", methods \cup {"auto"}),
         \A reply \in methods \cup {"auto"} :
            Again(goal, profile, given, reply) => methods \subseteq goal.methods
  PROVE  GetsOn(goal, profile, given)
  <1> DEFINE decision == Decide(goal, profile, given)
  <1>1. decision.type = "method-confirmation" /\ decision.options = methods \cup {"auto"}
    BY AskParts
  <1>2. Replies(decision, profile) = methods \cup {"auto"}
    BY <1>1 DEF Replies
  <1> HIDE DEF decision
  <1>3. methods \subseteq goal.methods => NamesBoth(decision, goal)
    BY <1>1 DEF NamesBoth
  <1>4. \A reply : NamesBoth(decision, goal) => Useless(decision, reply, goal, given, profile)
    BY DEF Useless
  <1>5. NamesBoth(decision, goal) => Unanswerable(decision, goal, given, profile)
    BY DEF Unanswerable
  <1>6. \A reply : ~NamesBoth(decision, goal) => ~Useless(decision, reply, goal, given, profile)
    BY <1>1 DEF Useless, ColumnQuestions
  <1>7. \A reply \in Replies(decision, profile) :
           Again(goal, profile, given, reply) => Useless(decision, reply, goal, given, profile)
    BY <1>2, <1>3, <1>4
  <1>8. \/ Unanswerable(decision, goal, given, profile)
        \/ \E reply \in Replies(decision, profile) :
              ~Useless(decision, reply, goal, given, profile)
    BY <1>2, <1>5, <1>6
  <1> QED  BY <1>7, <1>8, Zenon DEF GetsOn, decision

LEMMA TwoOf ==
  ASSUME NEW all, IsFiniteSet(all), ~(Cardinality(all) < 2)
  PROVE  \E two \in SUBSET all : two # {} /\ Cardinality(two) = 2
  <1>1. Cardinality(all) \in Nat
    BY FS_CardinalityType
  <1>2. PICK a \in all : TRUE
    BY <1>1, FS_EmptySet
  <1>3. IsFiniteSet(all \ {a}) /\ Cardinality(all \ {a}) = Cardinality(all) - 1
    BY <1>2, FS_RemoveElement
  <1>4. PICK b \in all \ {a} : TRUE
    <2>1. Cardinality(all \ {a}) # 0
      BY <1>1, <1>3
    <2> QED  BY <1>3, <2>1, FS_EmptySet
  <1>5. IsFiniteSet({a}) /\ Cardinality({a}) = 1
    BY FS_Singleton
  <1>6. Cardinality({a} \cup {b}) = 2
    BY <1>4, <1>5, FS_AddElement
  <1> QED  BY <1>2, <1>4, <1>6

LEMMA GroupsGetOn ==
  ASSUME NEW goal, NEW profile, NEW given, NEW offered, IsFiniteSet(offered),
         Decide(goal, profile, given) = AskFor("group-values", offered),
         \A reply \in SUBSET offered :
            Again(goal, profile, given, reply) => Cardinality(reply) # 2
  PROVE  GetsOn(goal, profile, given)
  <1> DEFINE decision == Decide(goal, profile, given)
  <1>1. decision.type = "group-values" /\ decision.options = offered
    BY AskParts
  <1>2. Replies(decision, profile) = (SUBSET offered) \ {{}}
    BY <1>1 DEF Replies
  <1> HIDE DEF decision
  <1>3. \A reply : Useless(decision, reply, goal, given, profile) <=> Cardinality(reply) # 2
    BY <1>1 DEF Useless, ColumnQuestions, NamesBoth
  <1>4. Cardinality(offered) < 2 => Unanswerable(decision, goal, given, profile)
    BY <1>1 DEF Unanswerable
  <1>5. ~(Cardinality(offered) < 2) =>
           \E reply \in Replies(decision, profile) : Cardinality(reply) = 2
    BY <1>2, TwoOf
  <1>6. \A reply \in Replies(decision, profile) :
           Again(goal, profile, given, reply) => Useless(decision, reply, goal, given, profile)
    BY <1>2, <1>3
  <1>7. \/ Unanswerable(decision, goal, given, profile)
        \/ \E reply \in Replies(decision, profile) :
              ~Useless(decision, reply, goal, given, profile)
    BY <1>3, <1>4, <1>5
  <1> QED  BY <1>6, <1>7, Zenon DEF GetsOn, decision

LEMMA KindStays ==
  ASSUME NEW goal, NEW profile, NEW given, NEW request, NEW reply,
         request.type # "analysis-objective"
  PROVE  LET later == WithAnswer(given, request, reply)
         IN  /\ Objective(goal, later) = Objective(goal, given)
             /\ Correlates(goal, profile, given) => Correlates(goal, profile, later)
             /\ Compares(goal, profile, given) => Compares(goal, profile, later)
  <1> DEFINE later == WithAnswer(given, request, reply)
  <1>1. Objective(goal, later) = Objective(goal, given)
    BY ObjectiveStays
  <1> HIDE DEF later
  <1>2. Correlates(goal, profile, given) => Correlates(goal, profile, later)
    BY <1>1 DEF Correlates
  <1>3. Compares(goal, profile, given) => Compares(goal, profile, later)
    BY <1>1 DEF Compares
  <1> QED  BY <1>1, <1>2, <1>3 DEF later

LEMMA OtherTypes ==
  ASSUME NEW profile, Readable(profile), NEW objective, IsObjective(objective), NEW given,
         NEW decision \in {Descriptive(objective, profile, given),
                           Correlation(objective, profile, given),
                           TwoGroups(objective, profile, given)},
         decision.is = "ask"
  PROVE  decision.type # "analysis-objective"
  <1>1. CASE decision = Descriptive(objective, profile, given)
    <2>1. decision = Error \/ \E spec : decision = Selected(spec)
      BY <1>1, DescriptiveCases
    <2> QED  BY <2>1, AskParts
  <1>2. CASE decision = Correlation(objective, profile, given)
    <2>1. \/ decision = Error \/ \E spec : decision = Selected(spec)
          \/ \E options : \/ decision = AskFor("x-column", options)
                          \/ decision = AskFor("y-column", options)
                          \/ decision = AskFor("method-confirmation", options)
      BY <1>2, CorrelationCases
    <2> QED  BY <2>1, AskParts
  <1>3. CASE decision = TwoGroups(objective, profile, given)
    <2>1. \/ decision = Error \/ decision = Unsupported \/ \E spec : decision = Selected(spec)
          \/ \E options : \/ decision = AskFor("outcome-column", options)
                          \/ decision = AskFor("group-column", options)
                          \/ decision = AskFor("group-values", options)
                          \/ decision = AskFor("method-confirmation", options)
      BY <1>3, ComparisonCases
    <2> QED  BY <2>1, AskParts
  <1> QED  BY <1>1, <1>2, <1>3

LEMMA ObjectiveSettles ==
  ASSUME NEW goal \in Goals, NEW profile, NEW given,
         ~Repeats(ColumnNames(profile.columns)) => Readable(profile),
         Decide(goal, profile, given) = AskFor("analysis-objective", Operations)
  PROVE  Settles(goal, profile, given)
  <1> DEFINE decision == Decide(goal, profile, given)
  <1>1. /\ decision.is = "ask" /\ decision.type = "analysis-objective"
        /\ decision.options = Operations
    BY AskParts
  <1>2. Operations # {} /\ \A type \in {"analysis-objective"} : type \notin ColumnQuestions
    BY DEF Operations, ColumnQuestions
  <1>3. Replies(decision, profile) = Operations
    BY <1>1, <1>2 DEF Replies
  <1>4. ASSUME NEW reply, Again(goal, profile, given, reply)
        PROVE  FALSE
    <2> DEFINE later == WithAnswer(given, decision, reply)
               next == Decide(goal, profile, later)
    <2>1. next.is = "ask" /\ next.type = "analysis-objective"
      BY <1>1, <1>4 DEF Again, Later
    <2>2. "analysis-objective" \in DOMAIN later
      BY <1>1 DEF WithAnswer
    <2> HIDE DEF later
    <2>3. Cardinality(Objective(goal, later).operations) = 1
      BY <2>2, ObjectiveAnswered
    <2>4. IsObjective(Objective(goal, later))
      BY GoalParts
    <2>5. CASE next = Unsupported
      BY <2>1, <2>5, AskParts
    <2>6. CASE \/ Describes(goal, profile, later) \/ Correlates(goal, profile, later)
               \/ Compares(goal, profile, later)
      <3>1. next \in {Descriptive(Objective(goal, later), profile, later),
                      Correlation(Objective(goal, later), profile, later),
                      TwoGroups(Objective(goal, later), profile, later)}
        BY <2>6, DecideCases
      <3>2. Readable(profile)
        BY <2>6 DEF Describes, Correlates, Compares
      <3> HIDE DEF next
      <3> QED  BY <2>1, <2>4, <3>1, <3>2, OtherTypes
    <2> QED  BY <2>3, <2>5, <2>6, DecideCases
  <1> HIDE DEF decision
  <1>5. \A reply : ~Useless(decision, reply, goal, given, profile)
    BY <1>1 DEF Useless, NamesBoth, ColumnQuestions
  <1>6. GetsOn(goal, profile, given)
    BY <1>2, <1>3, <1>4, <1>5 DEF GetsOn, decision
  <1>7. ValidDecision(decision, profile)
    BY <1>1 DEF ValidDecision, ColumnQuestions
  <1> QED  BY <1>1, <1>6, <1>7, SettlesIs DEF decision

LEMMA DescriptiveSettles ==
  ASSUME NEW goal \in Goals, NEW profile, NEW given, Readable(profile),
         Describes(goal, profile, given)
  PROVE  Settles(goal, profile, given)
  <1> DEFINE decision == Decide(goal, profile, given)
             objective == Objective(goal, given)
  <1>1. decision = Descriptive(objective, profile, given)
    BY DecideCases
  <1>2. IsObjective(objective)
    BY GoalParts
  <1> HIDE DEF decision, objective
  <1>3. \/ decision = Error /\ Len(profile.columns) > MaxItems
        \/ \E spec : decision = Selected(spec) /\ WellFormed(spec) /\ ValidSpec(spec, profile)
    BY <1>1, <1>2, DescriptiveCases
  <1>4. /\ decision.is # "ask" /\ ValidDecision(decision, profile)
        /\ decision.is = "raises" => Len(profile.columns) > MaxItems
    BY <1>3, AskParts DEF ValidDecision
  <1> QED  BY <1>4, SettlesIs DEF decision

\* Planned roles of two columns.
LEMMA PairFits ==
  ASSUME NEW first, NEW second, first # second
  PROVE  /\ <<first, second>> # <<>> /\ Len(<<first, second>>) <= MaxItems
         /\ ~Repeats(<<first, second>>) /\ Among(<<first, second>>) = {first, second}
  <1>1. 2 <= MaxItems
    BY MethodAssumption
  <1>2. Len(<<first, second>>) = 2 /\ DOMAIN <<first, second>> = 1 .. 2
    OBVIOUS
  <1>3. \A i, j \in 1 .. 2 : i < j => i = 1 /\ j = 2
    OBVIOUS
  <1>4. ~Repeats(<<first, second>>)
    BY <1>2, <1>3 DEF Repeats
  <1>5. Among(<<first, second>>) = {first, second}
    BY <1>2 DEF Among
  <1> QED  BY <1>1, <1>2, <1>4, <1>5

LEMMA CorrelatedFits ==
  ASSUME NEW profile, Readable(profile), NEW spec, NEW x \in NumericOf(profile),
         NEW y \in NumericOf(profile), x # y, CorrelationSpec(spec, x, y, profile)
  PROVE  WellFormed(spec) /\ ValidSpec(spec, profile)
  <1>1. /\ spec.columns # <<>> /\ Len(spec.columns) <= MaxItems /\ ~Repeats(spec.columns)
        /\ Among(spec.columns) = {x, y} /\ spec.operation = "correlation"
        /\ spec.hash = profile.hash
    BY PairFits DEF CorrelationSpec
  <1>2. WellFormed(spec)
    BY <1>1 DEF WellFormed
  <1>3. /\ x \in NamesOf(profile) /\ y \in NamesOf(profile)
        /\ IsNumeric(ColumnNamed(profile, x)) /\ IsNumeric(ColumnNamed(profile, y))
        /\ ~Repeats(ColumnNames(profile.columns))
    BY NumericList DEF Readable, Lists
  <1>4. ValidSpec(spec, profile)
    BY <1>1, <1>3 DEF ValidSpec
  <1> QED  BY <1>2, <1>4

CorrelationOpen(type, reply, objective, profile, given) ==
    \E later, x, y :
       /\ x = XColumn(objective, profile, later)
       /\ y = YColumn(objective, profile, later, x)
       /\ \/ type = "x-column" /\ x = ""
          \/ type = "y-column" /\ y \in {"", x}
          \/ /\ type = "method-confirmation"
             /\ Method(objective, later, CorrelationMethods) = ""
       /\ TextAnswer(later, type) = reply
       /\ \A other : other # type => TextAnswer(later, other) = TextAnswer(given, other)

\* The cases of a decision, by the roles it found.
CorrelationCase(decision, x, y, method, profile) ==
    \/ decision = Error
    \/ decision = AskFor("x-column", NumericOf(profile)) /\ x = ""
    \/ decision = AskFor("y-column", NumericOf(profile)) /\ y \in {"", x}
    \/ decision = AskFor("method-confirmation", CorrelationMethods \cup {"auto"}) /\ method = ""
    \/ \E spec : decision = Selected(spec)
LEMMA CorrelationCaseOf ==
  ASSUME NEW profile, Readable(profile), NEW objective, NEW given
  PROVE  CorrelationCase(Correlation(objective, profile, given),
                         XColumn(objective, profile, given),
                         YColumn(objective, profile, given, XColumn(objective, profile, given)),
                         Method(objective, given, CorrelationMethods), profile)
  BY CorrelationCases DEF CorrelationCase

\* When a question of a correlation's is asked again, what it asks for is still open.
LEMMA CorrelationAgain ==
  ASSUME NEW goal \in Goals, NEW profile, NEW given, Readable(profile),
         Correlates(goal, profile, given),
         NEW type, type # "analysis-objective", NEW options,
         Decide(goal, profile, given) = AskFor(type, options),
         NEW reply, Again(goal, profile, given, reply)
  PROVE  CorrelationOpen(type, reply, Objective(goal, given), profile, given)
  <1> DEFINE objective == Objective(goal, given)
             later == WithAnswer(given, Decide(goal, profile, given), reply)
             x == XColumn(objective, profile, later)
             y == YColumn(objective, profile, later, x)
             method == Method(objective, later, CorrelationMethods)
             next == Decide(goal, profile, later)
             numeric == NumericOf(profile)
             open == CorrelationMethods \cup {"auto"}
  <1>0. Decide(goal, profile, given).type = type
    BY AskParts
  <1>1. Objective(goal, later) = objective /\ Correlates(goal, profile, later)
    BY <1>0, KindStays
  <1>2. next = Correlation(objective, profile, later)
    BY <1>1, DecideCases
  <1>3. \/ next = Error
        \/ next = AskFor("x-column", numeric) /\ x = ""
        \/ next = AskFor("y-column", numeric) /\ y \in {"", x}
        \/ next = AskFor("method-confirmation", open) /\ method = ""
        \/ \E spec : next = Selected(spec)
    <2>1. CorrelationCase(next, x, y, method, profile)
      BY <1>2, CorrelationCaseOf
    <2> HIDE DEF x, y, method, next
    <2> QED  BY <2>1 DEF CorrelationCase
  <1>4. next.is = "ask" /\ next.type = type
    BY <1>0 DEF Again, Later
  <1>5. /\ TextAnswer(later, type) = reply
        /\ \A other : other # type => TextAnswer(later, other) = TextAnswer(given, other)
    <2> DEFINE request == Decide(goal, profile, given)
    <2>1. later = WithAnswer(given, request, reply) /\ request.type = type
      BY <1>0
    <2> HIDE DEF request
    <2> QED  BY <2>1 DEF WithAnswer, TextAnswer
  <1>6. /\ x = XColumn(objective, profile, later)
        /\ y = YColumn(objective, profile, later, x)
        /\ method = Method(objective, later, CorrelationMethods)
    OBVIOUS
  <1> HIDE DEF objective, later, x, y, method, next, numeric, open
  <1>7. \/ type = "x-column" /\ x = ""
        \/ type = "y-column" /\ y \in {"", x}
        \/ type = "method-confirmation" /\ method = ""
    <2>1. ASSUME next = AskFor("x-column", numeric) PROVE type = "x-column"
      BY <1>4, <2>1, AskParts
    <2>2. ASSUME next = AskFor("y-column", numeric) PROVE type = "y-column"
      BY <1>4, <2>2, AskParts
    <2>3. ASSUME next = AskFor("method-confirmation", open) PROVE type = "method-confirmation"
      BY <1>4, <2>3, AskParts
    <2>4. next # Error /\ \A spec : next # Selected(spec)
      BY <1>4, AskParts
    <2> QED  BY <1>3, <2>1, <2>2, <2>3, <2>4
  <1>8. CorrelationOpen(type, reply, objective, profile, given)
    <2> SUFFICES \E l, a, b :
                    /\ a = XColumn(objective, profile, l)
                    /\ b = YColumn(objective, profile, l, a)
                    /\ \/ type = "x-column" /\ a = ""
                       \/ type = "y-column" /\ b \in {"", a}
                       \/ /\ type = "method-confirmation"
                          /\ Method(objective, l, CorrelationMethods) = ""
                    /\ TextAnswer(l, type) = reply
                    /\ \A other : other # type => TextAnswer(l, other) = TextAnswer(given, other)
      BY Zenon DEF CorrelationOpen
    <2> WITNESS later, x, y
    <2> QED  BY <1>5, <1>6, <1>7
  <1> QED  BY <1>8 DEF objective

LEMMA CorrelationSettles ==
  ASSUME NEW goal \in Goals, NEW profile, NEW given, Readable(profile),
         Correlates(goal, profile, given)
  PROVE  Settles(goal, profile, given)
  <1> DEFINE decision == Decide(goal, profile, given)
             objective == Objective(goal, given)
             x == XColumn(objective, profile, given)
             y == YColumn(objective, profile, given, x)
             numeric == NumericOf(profile)
  <1>1. IsObjective(objective) /\ objective.methods \subseteq goal.methods
    BY GoalParts
  <1>2. decision = Correlation(objective, profile, given)
    BY DecideCases
  <1>3. \/ decision = Error /\ Len(profile.columns) > MaxItems
        \/ decision = AskFor("x-column", numeric) /\ x = ""
        \/ decision = AskFor("y-column", numeric) /\ x # "" /\ y \in {"", x}
        \/ /\ decision = AskFor("method-confirmation", CorrelationMethods \cup {"auto"})
           /\ x # "" /\ y \notin {"", x} /\ Method(objective, given, CorrelationMethods) = ""
        \/ /\ x # "" /\ y \notin {"", x}
           /\ \E spec : decision = Selected(spec) /\ CorrelationSpec(spec, x, y, profile)
    BY <1>2, CorrelationCases
  <1>4. /\ HasRole(x, "x-column", numeric, given, profile)
        /\ HasRole(y, "y-column", numeric, given, profile)
    BY <1>1, XIs, YIs
  <1>5. TypedFreely(profile, given) \/ (x \in numeric \cup {""} /\ y \in numeric \cup {""})
    BY <1>4, RoleFits DEF ColumnQuestions
  <1>6. numeric \subseteq NamesOf(profile)
    BY NumericList
  <1>7. CASE decision = Error /\ Len(profile.columns) > MaxItems
    <2>1. ValidDecision(decision, profile) /\ decision.is # "ask"
      BY <1>7, AskParts DEF ValidDecision
    <2> QED  BY <2>1, <1>7, SettlesIs
  <1>8. ASSUME NEW type \in {"x-column", "y-column"}, decision = AskFor(type, numeric)
        PROVE  Settles(goal, profile, given)
    <2>1. /\ decision.is = "ask" /\ decision.type = type /\ decision.options = numeric
          /\ type # "analysis-objective" /\ type \in ColumnQuestions
      BY <1>8, AskParts DEF ColumnQuestions
    <2>2. ASSUME NEW reply \in NamesOf(profile), Again(goal, profile, given, reply)
          PROVE  type = "y-column" /\ reply = x
      <3>1. PICK later, nextx, nexty :
               /\ nextx = XColumn(objective, profile, later)
               /\ nexty = YColumn(objective, profile, later, nextx)
               /\ \/ type = "x-column" /\ nextx = ""
                  \/ type = "y-column" /\ nexty \in {"", nextx}
                  \/ /\ type = "method-confirmation"
                     /\ Method(objective, later, CorrelationMethods) = ""
               /\ TextAnswer(later, type) = reply
               /\ \A other : other # type => TextAnswer(later, other) = TextAnswer(given, other)
        <4>1. type # "analysis-objective"
          BY <2>1
        <4>2. Decide(goal, profile, given) = AskFor(type, numeric)
          BY <1>8
        <4>3. CorrelationOpen(type, reply, objective, profile, given)
          BY <2>2, <4>1, <4>2, CorrelationAgain
        <4> QED  BY <4>3, Zenon DEF CorrelationOpen
      <3>2. /\ TextAnswer(later, "x-column") \in NamesOf(profile) => nextx # ""
            /\ TextAnswer(later, "y-column") \in NamesOf(profile) =>
                  nexty = TextAnswer(later, "y-column") /\ nexty # ""
        <4>1. IsObjective(objective)
          BY <1>1
        <4> HIDE DEF objective
        <4>2. TextAnswer(later, "x-column") \in NamesOf(profile) =>
                 XColumn(objective, profile, later) # ""
          BY <4>1, XIs
        <4>3. TextAnswer(later, "y-column") \in NamesOf(profile) =>
                 /\ YColumn(objective, profile, later, nextx) = TextAnswer(later, "y-column")
                 /\ YColumn(objective, profile, later, nextx) # ""
          BY <4>1, YIs
        <4> QED  BY <3>1, <4>2, <4>3
      <3>3. TextAnswer(later, "x-column") = TextAnswer(given, "x-column") => nextx = x
        BY <3>1, SameRoles
      <3> HIDE DEF x
      <3>4. type # "x-column"
        BY <2>2, <3>1, <3>2
      <3>5. type = "y-column"
        BY <3>4
      <3> QED  BY <2>2, <3>1, <3>2, <3>3, <3>5
    <2> HIDE DEF decision, x, numeric
    <2>3. GetsOn(goal, profile, given)
      BY <2>1, <2>2, <1>6, <1>8, ColumnGetsOn DEF decision, x
    <2>4. ValidDecision(decision, profile)
      BY <2>1, <1>6 DEF ValidDecision
    <2> QED  BY <2>1, <2>3, <2>4, SettlesIs DEF decision
  <1>9. CASE decision = AskFor("method-confirmation", CorrelationMethods \cup {"auto"})
    <2>1. /\ decision.is = "ask" /\ decision.type = "method-confirmation"
      BY <1>9, AskParts
    <2>2. ASSUME NEW reply \in CorrelationMethods \cup {"auto"}, Again(goal, profile, given, reply)
          PROVE  CorrelationMethods \subseteq goal.methods
      <3> DEFINE type == "method-confirmation"
      <3>1. PICK later, nextx, nexty :
               /\ nextx = XColumn(objective, profile, later)
               /\ nexty = YColumn(objective, profile, later, nextx)
               /\ \/ type = "x-column" /\ nextx = ""
                  \/ type = "y-column" /\ nexty \in {"", nextx}
                  \/ /\ type = "method-confirmation"
                     /\ Method(objective, later, CorrelationMethods) = ""
               /\ TextAnswer(later, type) = reply
               /\ \A other : other # type => TextAnswer(later, other) = TextAnswer(given, other)
        <4>1. type # "analysis-objective"
          OBVIOUS
        <4>2. Decide(goal, profile, given) = AskFor(type, CorrelationMethods \cup {"auto"})
          BY <1>9
        <4>3. Again(goal, profile, given, reply)
          BY <2>2
        <4> HIDE DEF type
        <4>4. CorrelationOpen(type, reply, objective, profile, given)
          BY <4>1, <4>2, <4>3, CorrelationAgain
        <4> QED  BY <4>4, Zenon DEF CorrelationOpen
      <3>2. CorrelationMethods \subseteq objective.methods
        BY <2>2, <3>1, MethodLeftOpen
      <3> QED  BY <1>1, <3>2
    <2>3. GetsOn(goal, profile, given)
      BY <2>2, <1>9, MethodGetsOn
    <2>4. ValidDecision(decision, profile)
      BY <2>1 DEF ValidDecision, ColumnQuestions
    <2> QED  BY <2>1, <2>3, <2>4, SettlesIs
  <1>10. ASSUME NEW spec, decision = Selected(spec), CorrelationSpec(spec, x, y, profile),
                x # "", y \notin {"", x}
         PROVE  Settles(goal, profile, given)
    <2>1. TypedFreely(profile, given) \/ (WellFormed(spec) /\ ValidSpec(spec, profile))
      <3>1. SUFFICES ASSUME ~TypedFreely(profile, given)
                     PROVE  WellFormed(spec) /\ ValidSpec(spec, profile)
        OBVIOUS
      <3>2. x \in numeric /\ y \in numeric /\ x # y
        BY <1>5, <1>10, <3>1
      <3> HIDE DEF x, y
      <3> QED  BY <1>10, <3>2, CorrelatedFits
    <2>2. decision.is = "spec" /\ decision.spec = spec
      BY <1>10, AskParts
    <2>3. ValidDecision(decision, profile) \/ TypedFreely(profile, given)
      BY <2>1, <2>2 DEF ValidDecision
    <2> QED  BY <2>2, <2>3, SettlesIs
  <1> QED  BY <1>3, <1>7, <1>8, <1>9, <1>10

LEMMA GroupsAre ==
  ASSUME NEW given, NEW offered
  PROVE  /\ GroupValues(given, offered) = {} => GroupsAnswer(given) = {}
         /\ GroupValues(given, offered) # {} =>
               /\ Cardinality(GroupValues(given, offered)) = 2
               /\ \/ GroupValues(given, offered) = offered
                  \/ /\ "group-values" \in DOMAIN given
                     /\ GroupValues(given, offered) = given["group-values"]
         /\ "group-values" \in DOMAIN given /\ Cardinality(given["group-values"]) = 2 =>
               GroupsAnswer(given) = given["group-values"]
  <1>1. \/ GroupsAnswer(given) = {}
        \/ /\ "group-values" \in DOMAIN given
           /\ GroupsAnswer(given) = given["group-values"]
           /\ Cardinality(GroupsAnswer(given)) = 2
    BY DEF GroupsAnswer
  <1>2. \/ /\ GroupsAnswer(given) = {} /\ Cardinality(offered) = 2
           /\ GroupValues(given, offered) = offered
        \/ GroupValues(given, offered) = GroupsAnswer(given)
    BY DEF GroupValues
  <1>3. "group-values" \in DOMAIN given /\ Cardinality(given["group-values"]) = 2 =>
               GroupsAnswer(given) = given["group-values"]
    BY DEF GroupsAnswer
  <1> QED  BY <1>1, <1>2, <1>3

ComparisonCase(decision, outcome, group, offered, groups, method, profile) ==
    \/ decision = Error \/ decision = Unsupported
    \/ decision = AskFor("outcome-column", NumericOf(profile)) /\ outcome = ""
    \/ decision = AskFor("group-column", GroupsOf(profile)) /\ group = ""
    \/ decision = AskFor("group-values", offered) /\ groups = {}
    \/ decision = AskFor("method-confirmation", TwoGroupMethods \cup {"auto"}) /\ method = ""
    \/ \E spec : decision = Selected(spec)
LEMMA ComparisonCaseOf ==
  ASSUME NEW profile, Readable(profile), NEW objective, NEW given
  PROVE  LET outcome == OutcomeColumn(objective, profile, given)
             group == GroupColumn(objective, profile, given, outcome)
             offered == ColumnNamed(profile, group).values
         IN  ComparisonCase(TwoGroups(objective, profile, given), outcome, group, offered,
                            GroupValues(given, offered),
                            Method(objective, given, TwoGroupMethods), profile)
  BY ComparisonCases DEF ComparisonCase

\* When a question of a comparison's is asked again, what it asks for is still open.
ComparisonOpen(type, reply, objective, profile, given) ==
    \E later, outcome, group :
       /\ outcome = OutcomeColumn(objective, profile, later)
       /\ group = GroupColumn(objective, profile, later, outcome)
       /\ \/ type = "outcome-column" /\ outcome = ""
          \/ type = "group-column" /\ group = ""
          \/ type = "group-values" /\ GroupsAnswer(later) = {}
          \/ /\ type = "method-confirmation"
             /\ Method(objective, later, TwoGroupMethods) = ""
       /\ type \in DOMAIN later /\ later[type] = reply /\ TextAnswer(later, type) = reply

LEMMA ComparisonAgain ==
  ASSUME NEW goal \in Goals, NEW profile, NEW given, Readable(profile),
         Compares(goal, profile, given),
         NEW type, type # "analysis-objective", NEW options,
         Decide(goal, profile, given) = AskFor(type, options),
         NEW reply, Again(goal, profile, given, reply)
  PROVE  ComparisonOpen(type, reply, Objective(goal, given), profile, given)
  <1> DEFINE objective == Objective(goal, given)
             later == WithAnswer(given, Decide(goal, profile, given), reply)
             outcome == OutcomeColumn(objective, profile, later)
             group == GroupColumn(objective, profile, later, outcome)
             offered == ColumnNamed(profile, group).values
             groups == GroupValues(later, offered)
             method == Method(objective, later, TwoGroupMethods)
             next == Decide(goal, profile, later)
             numeric == NumericOf(profile)
             likely == GroupsOf(profile)
             open == TwoGroupMethods \cup {"auto"}
  <1>0. Decide(goal, profile, given).type = type
    BY AskParts
  <1>1. Objective(goal, later) = objective /\ Compares(goal, profile, later)
    BY <1>0, KindStays
  <1>2. next = TwoGroups(objective, profile, later)
    BY <1>1, DecideCases
  <1>3. \/ next = Error \/ next = Unsupported
        \/ next = AskFor("outcome-column", numeric) /\ outcome = ""
        \/ next = AskFor("group-column", likely) /\ group = ""
        \/ next = AskFor("group-values", offered) /\ groups = {}
        \/ next = AskFor("method-confirmation", open) /\ method = ""
        \/ \E spec : next = Selected(spec)
    <2>1. ComparisonCase(next, outcome, group, offered, groups, method, profile)
      BY <1>2, ComparisonCaseOf
    <2> HIDE DEF outcome, group, offered, groups, method, next
    <2> QED  BY <2>1 DEF ComparisonCase
  <1>4. next.is = "ask" /\ next.type = type
    BY <1>0 DEF Again, Later
  <1>5. type \in DOMAIN later /\ later[type] = reply /\ TextAnswer(later, type) = reply
    <2> DEFINE request == Decide(goal, profile, given)
    <2>1. later = WithAnswer(given, request, reply) /\ request.type = type
      BY <1>0
    <2> HIDE DEF request
    <2> QED  BY <2>1 DEF WithAnswer, TextAnswer
  <1>6. /\ outcome = OutcomeColumn(objective, profile, later)
        /\ group = GroupColumn(objective, profile, later, outcome)
        /\ method = Method(objective, later, TwoGroupMethods)
    OBVIOUS
  <1>7. groups = {} => GroupsAnswer(later) = {}
    <2> HIDE DEF later, offered
    <2> QED  BY GroupsAre
  <1> HIDE DEF objective, later, outcome, group, offered, groups, method, next, numeric, likely, open
  <1>8. \/ type = "outcome-column" /\ outcome = ""
        \/ type = "group-column" /\ group = ""
        \/ type = "group-values" /\ GroupsAnswer(later) = {}
        \/ type = "method-confirmation" /\ method = ""
    <2>1. ASSUME next = AskFor("outcome-column", numeric) PROVE type = "outcome-column"
      BY <1>4, <2>1, AskParts
    <2>2. ASSUME next = AskFor("group-column", likely) PROVE type = "group-column"
      BY <1>4, <2>2, AskParts
    <2>3. ASSUME next = AskFor("group-values", offered) PROVE type = "group-values"
      BY <1>4, <2>3, AskParts
    <2>4. ASSUME next = AskFor("method-confirmation", open) PROVE type = "method-confirmation"
      BY <1>4, <2>4, AskParts
    <2>5. next # Error /\ next # Unsupported /\ \A spec : next # Selected(spec)
      BY <1>4, AskParts
    <2> QED  BY <1>3, <1>7, <2>1, <2>2, <2>3, <2>4, <2>5
  <1>9. ComparisonOpen(type, reply, objective, profile, given)
    <2> SUFFICES \E l, a, b :
                    /\ a = OutcomeColumn(objective, profile, l)
                    /\ b = GroupColumn(objective, profile, l, a)
                    /\ \/ type = "outcome-column" /\ a = ""
                       \/ type = "group-column" /\ b = ""
                       \/ type = "group-values" /\ GroupsAnswer(l) = {}
                       \/ /\ type = "method-confirmation"
                          /\ Method(objective, l, TwoGroupMethods) = ""
                    /\ type \in DOMAIN l /\ l[type] = reply /\ TextAnswer(l, type) = reply
      BY Zenon DEF ComparisonOpen
    <2> WITNESS later, outcome, group
    <2> QED  BY <1>5, <1>6, <1>8
  <1> QED  BY <1>9 DEF objective

\* The groups that were answered are values of the column that was settled before.
ComparedColumns(goal, profile, given, outcome, group) ==
    /\ outcome = OutcomeColumn(Objective(goal, given), profile, given)
    /\ group = GroupColumn(Objective(goal, given), profile, given, outcome)
Dialog(goal, profile, given) ==
    "group-values" \in DOMAIN given =>
       /\ Compares(goal, profile, given)
       /\ \A outcome, group :
             ComparedColumns(goal, profile, given, outcome, group) =>
                /\ outcome # "" /\ group # ""
                /\ given["group-values"] \subseteq ColumnNamed(profile, group).values

LEMMA ComparedFits ==
  ASSUME NEW profile, Readable(profile), NEW spec, NEW outcome \in NumericOf(profile),
         NEW group \in GroupsOf(profile), NEW groups, Cardinality(groups) = 2,
         groups \subseteq ColumnNamed(profile, group).values,
         ComparisonSpec(spec, outcome, group, groups, profile)
  PROVE  WellFormed(spec) /\ ValidSpec(spec, profile)
  <1>1. outcome # group
    BY NumericList
  <1>2. /\ spec.columns # <<>> /\ Len(spec.columns) <= MaxItems /\ ~Repeats(spec.columns)
        /\ Among(spec.columns) = {outcome, group}
        /\ spec.columns[1] = outcome /\ spec.columns[2] = group
    BY <1>1, PairFits DEF ComparisonSpec
  <1>3. /\ spec.operation = "two-group-comparison" /\ spec.groups = groups
        /\ spec.method = "welch-t-test" => spec.effect = "hedges-g"
        /\ spec.method = "mann-whitney-u" => spec.effect = "rank-biserial"
        /\ spec.hash = profile.hash
    BY DEF ComparisonSpec
  <1>4. WellFormed(spec)
    BY <1>2, <1>3 DEF WellFormed
  <1>5. /\ outcome \in NamesOf(profile) /\ group \in NamesOf(profile)
        /\ IsNumeric(ColumnNamed(profile, outcome)) /\ IsCategorical(ColumnNamed(profile, group))
        /\ ~Repeats(ColumnNames(profile.columns))
    BY NumericList DEF Readable, Lists
  <1>6. ValidSpec(spec, profile)
    BY <1>2, <1>3, <1>5 DEF ValidSpec
  <1> QED  BY <1>4, <1>6

LEMMA ComparisonSettles ==
  ASSUME NEW goal \in Goals, NEW profile, NEW given, Readable(profile),
         Compares(goal, profile, given), Dialog(goal, profile, given)
  PROVE  Settles(goal, profile, given)
  <1> DEFINE decision == Decide(goal, profile, given)
             objective == Objective(goal, given)
             outcome == OutcomeColumn(objective, profile, given)
             group == GroupColumn(objective, profile, given, outcome)
             offered == ColumnNamed(profile, group).values
             groups == GroupValues(given, offered)
             numeric == NumericOf(profile)
             likely == GroupsOf(profile)
             open == TwoGroupMethods \cup {"auto"}
  <1>1. IsObjective(objective) /\ objective.methods \subseteq goal.methods
    BY GoalParts
  <1>2. decision = TwoGroups(objective, profile, given)
    BY DecideCases
  <1>3. \/ decision = Error /\ Len(profile.columns) > MaxItems
        \/ decision = AskFor("outcome-column", numeric) /\ outcome = ""
        \/ decision = AskFor("group-column", likely) /\ outcome # "" /\ group = ""
        \/ /\ outcome # "" /\ group # ""
           /\ decision = AskFor("group-values", offered) /\ groups = {}
        \/ decision = Unsupported
        \/ decision = AskFor("method-confirmation", open)
        \/ decision = Error /\ outcome # "" /\ outcome = group
        \/ /\ outcome # "" /\ group \notin {"", outcome} /\ groups # {}
           /\ \E spec : /\ decision = Selected(spec)
                        /\ ComparisonSpec(spec, outcome, group, groups, profile)
    BY <1>2, ComparisonCases
  <1>4. /\ HasRole(outcome, "outcome-column", numeric, given, profile)
        /\ HasRole(group, "group-column", likely, given, profile)
    BY OutcomeIs, GroupIs
  <1>5. /\ TypedFreely(profile, given) \/ outcome \in numeric \cup {""}
        /\ TypedFreely(profile, given) \/ group \in likely \cup {""}
    <2>1. TypedFreely(profile, given) \/ outcome \in numeric \cup {""}
      BY <1>4, RoleFits DEF ColumnQuestions
    <2>2. TypedFreely(profile, given) \/ group \in likely \cup {""}
      BY <1>4, RoleFits DEF ColumnQuestions
    <2> QED  BY <2>1, <2>2
  <1>6. numeric \subseteq NamesOf(profile) /\ likely \subseteq NamesOf(profile)
    BY NumericList
  <1>7. ComparedColumns(goal, profile, given, outcome, group)
    BY DEF ComparedColumns
  <1>8. "group-values" \in DOMAIN given => given["group-values"] \subseteq offered
    <2> HIDE DEF outcome, group
    <2> QED  BY <1>7 DEF Dialog
  <1>9. groups # {} => Cardinality(groups) = 2 /\ groups \subseteq offered
    <2> HIDE DEF offered
    <2> QED  BY <1>8, GroupsAre
  <1> HIDE DEF groups, offered, group, outcome
  <1>10. CASE decision = Error /\ Len(profile.columns) > MaxItems
    <2>1. ValidDecision(decision, profile) /\ decision.is # "ask"
      BY <1>10, AskParts DEF ValidDecision
    <2> QED  BY <2>1, <1>10, SettlesIs
  <1>11. CASE decision = Unsupported
    <2>1. ValidDecision(decision, profile) /\ decision.is # "ask" /\ decision.is # "raises"
      BY <1>11, AskParts DEF ValidDecision
    <2> QED  BY <2>1, SettlesIs
  <1>12. CASE decision = Error /\ outcome # "" /\ outcome = group
    <2>1. ValidDecision(decision, profile) /\ decision.is # "ask"
      BY <1>12, AskParts DEF ValidDecision
    <2>2. TypedFreely(profile, given)
      BY <1>5, <1>12, NumericList
    <2> QED  BY <2>1, <2>2, SettlesIs
  <1>13. ASSUME NEW type \in {"outcome-column", "group-column"}, NEW options \in {numeric, likely},
                decision = AskFor(type, options)
         PROVE  Settles(goal, profile, given)
    <2>1. /\ decision.is = "ask" /\ decision.type = type /\ decision.options = options
          /\ type # "analysis-objective" /\ type \in ColumnQuestions /\ type # "y-column"
      BY <1>13, AskParts DEF ColumnQuestions
    <2>2. ASSUME NEW reply \in NamesOf(profile), Again(goal, profile, given, reply)
          PROVE  FALSE
      <3>1. PICK later, nextoutcome, nextgroup :
               /\ nextoutcome = OutcomeColumn(objective, profile, later)
               /\ nextgroup = GroupColumn(objective, profile, later, nextoutcome)
               /\ \/ type = "outcome-column" /\ nextoutcome = ""
                  \/ type = "group-column" /\ nextgroup = ""
                  \/ type = "group-values" /\ GroupsAnswer(later) = {}
                  \/ /\ type = "method-confirmation"
                     /\ Method(objective, later, TwoGroupMethods) = ""
               /\ type \in DOMAIN later /\ later[type] = reply /\ TextAnswer(later, type) = reply
        <4>1. type # "analysis-objective"
          BY <2>1
        <4>2. Decide(goal, profile, given) = AskFor(type, options)
          BY <1>13
        <4>3. ComparisonOpen(type, reply, objective, profile, given)
          BY <2>2, <4>1, <4>2, ComparisonAgain
        <4> QED  BY <4>3, Zenon DEF ComparisonOpen
      <3>2. TextAnswer(later, "outcome-column") \in NamesOf(profile) => nextoutcome # ""
        <4> HIDE DEF objective
        <4>1. TextAnswer(later, "outcome-column") \in NamesOf(profile) =>
                 OutcomeColumn(objective, profile, later) # ""
          BY OutcomeIs
        <4> QED  BY <3>1, <4>1
      <3>3. TextAnswer(later, "group-column") \in NamesOf(profile) => nextgroup # ""
        <4> HIDE DEF objective
        <4>1. TextAnswer(later, "group-column") \in NamesOf(profile) =>
                 GroupColumn(objective, profile, later, nextoutcome) # ""
          BY GroupIs
        <4> QED  BY <3>1, <4>1
      <3> QED  BY <2>2, <3>1, <3>2, <3>3
    <2>3. options \subseteq NamesOf(profile)
      BY <1>6
    <2> HIDE DEF decision, numeric, likely
    <2>4. GetsOn(goal, profile, given)
      BY <2>1, <2>2, <2>3, <1>13, ColumnGetsOn DEF decision
    <2>5. ValidDecision(decision, profile)
      BY <2>1, <2>3 DEF ValidDecision
    <2> QED  BY <2>1, <2>4, <2>5, SettlesIs DEF decision
  <1>14. CASE outcome # "" /\ group # "" /\ decision = AskFor("group-values", offered)
    <2>1. decision.is = "ask" /\ decision.type = "group-values"
      <3>1. decision = AskFor("group-values", offered)
        BY <1>14
      <3> HIDE DEF decision
      <3> QED  BY <3>1, AskParts
    <2>2. IsFiniteSet(offered)
      <3>1. group \in NamesOf(profile)
        <4>1. HasRole(group, "group-column", GroupsOf(profile), given, profile) /\ group # ""
          BY <1>4, <1>14
        <4> QED  BY <4>1, RoleNames
      <3>2. IsFiniteSet(ColumnNamed(profile, group).values)
        BY <3>1 DEF Readable
      <3> QED  BY <3>2 DEF offered
    <2>3. ASSUME NEW reply \in SUBSET offered, Again(goal, profile, given, reply)
          PROVE  Cardinality(reply) # 2
      <3> DEFINE type == "group-values"
      <3>1. PICK later, nextoutcome, nextgroup :
               /\ nextoutcome = OutcomeColumn(objective, profile, later)
               /\ nextgroup = GroupColumn(objective, profile, later, nextoutcome)
               /\ \/ type = "outcome-column" /\ nextoutcome = ""
                  \/ type = "group-column" /\ nextgroup = ""
                  \/ type = "group-values" /\ GroupsAnswer(later) = {}
                  \/ /\ type = "method-confirmation"
                     /\ Method(objective, later, TwoGroupMethods) = ""
               /\ type \in DOMAIN later /\ later[type] = reply /\ TextAnswer(later, type) = reply
        <4>1. type # "analysis-objective"
          OBVIOUS
        <4>2. Decide(goal, profile, given) = AskFor(type, offered)
          BY <1>14
        <4>3. Again(goal, profile, given, reply)
          BY <2>3
        <4> HIDE DEF type
        <4>4. ComparisonOpen(type, reply, objective, profile, given)
          BY <4>1, <4>2, <4>3, ComparisonAgain
        <4> QED  BY <4>4, Zenon DEF ComparisonOpen
      <3>2. /\ "group-values" \in DOMAIN later /\ later["group-values"] = reply
            /\ GroupsAnswer(later) = {}
        BY <3>1
      <3>3. ASSUME Cardinality(reply) = 2 PROVE FALSE
        <4>1. GroupsAnswer(later) = reply
          BY <3>2, <3>3, GroupsAre
        <4>2. reply = {}
          BY <3>2, <4>1
        <4> QED  BY <3>3, <4>2, FS_EmptySet
      <3> QED  BY <3>3
    <2> HIDE DEF decision
    <2>4. GetsOn(goal, profile, given)
      BY <2>2, <2>3, <1>14, GroupsGetOn DEF decision
    <2>5. ValidDecision(decision, profile)
      BY <2>1 DEF ValidDecision, ColumnQuestions
    <2> QED  BY <2>1, <2>4, <2>5, SettlesIs DEF decision
  <1>15. CASE decision = AskFor("method-confirmation", open)
    <2>1. /\ decision.is = "ask" /\ decision.type = "method-confirmation"
      BY <1>15, AskParts
    <2>2. ASSUME NEW reply \in open, Again(goal, profile, given, reply)
          PROVE  TwoGroupMethods \subseteq goal.methods
      <3> DEFINE type == "method-confirmation"
      <3>1. PICK later, nextoutcome, nextgroup :
               /\ nextoutcome = OutcomeColumn(objective, profile, later)
               /\ nextgroup = GroupColumn(objective, profile, later, nextoutcome)
               /\ \/ type = "outcome-column" /\ nextoutcome = ""
                  \/ type = "group-column" /\ nextgroup = ""
                  \/ type = "group-values" /\ GroupsAnswer(later) = {}
                  \/ /\ type = "method-confirmation"
                     /\ Method(objective, later, TwoGroupMethods) = ""
               /\ type \in DOMAIN later /\ later[type] = reply /\ TextAnswer(later, type) = reply
        <4>1. type # "analysis-objective"
          OBVIOUS
        <4>2. Decide(goal, profile, given) = AskFor(type, open)
          BY <1>15
        <4>3. Again(goal, profile, given, reply)
          BY <2>2
        <4> HIDE DEF type
        <4>4. ComparisonOpen(type, reply, objective, profile, given)
          BY <4>1, <4>2, <4>3, ComparisonAgain
        <4> QED  BY <4>4, Zenon DEF ComparisonOpen
      <3>2. TwoGroupMethods \subseteq objective.methods
        BY <2>2, <3>1, MethodLeftOpen
      <3> QED  BY <1>1, <3>2
    <2>3. GetsOn(goal, profile, given)
      BY <2>2, <1>15, MethodGetsOn
    <2>4. ValidDecision(decision, profile)
      BY <2>1 DEF ValidDecision, ColumnQuestions
    <2> QED  BY <2>1, <2>3, <2>4, SettlesIs
  <1>16. ASSUME NEW spec, decision = Selected(spec), outcome # "", group \notin {"", outcome},
                groups # {}, ComparisonSpec(spec, outcome, group, groups, profile)
         PROVE  Settles(goal, profile, given)
    <2>1. TypedFreely(profile, given) \/ (WellFormed(spec) /\ ValidSpec(spec, profile))
      <3>1. SUFFICES ASSUME ~TypedFreely(profile, given)
                     PROVE  WellFormed(spec) /\ ValidSpec(spec, profile)
        OBVIOUS
      <3>2. outcome \in numeric /\ group \in likely
        BY <1>5, <1>16, <3>1
      <3>3. Cardinality(groups) = 2 /\ groups \subseteq ColumnNamed(profile, group).values
        BY <1>9, <1>16 DEF offered
      <3> QED  BY <1>16, <3>2, <3>3, ComparedFits
    <2>2. decision.is = "spec" /\ decision.spec = spec
      BY <1>16, AskParts
    <2>3. ValidDecision(decision, profile) \/ TypedFreely(profile, given)
      BY <2>1, <2>2 DEF ValidDecision
    <2> QED  BY <2>2, <2>3, SettlesIs
  <1> QED  BY <1>3, <1>10, <1>11, <1>12, <1>13, <1>14, <1>15, <1>16

\* Group values are asked for in a comparison only.
LEMMA GroupQuestion ==
  ASSUME NEW goal \in Goals, NEW profile, NEW given,
         ~Repeats(ColumnNames(profile.columns)) => Readable(profile),
         Decide(goal, profile, given).is = "ask",
         Decide(goal, profile, given).type = "group-values"
  PROVE  Compares(goal, profile, given)
  <1> DEFINE decision == Decide(goal, profile, given)
             objective == Objective(goal, given)
  <1>1. IsObjective(objective)
    BY GoalParts
  <1>2. decision # Unsupported /\ decision # AskFor("analysis-objective", Operations)
    <2>1. decision.is = "ask" /\ decision.type = "group-values"
      OBVIOUS
    <2> HIDE DEF decision
    <2> QED  BY <2>1, AskParts
  <1>3. ~Describes(goal, profile, given)
    <2> SUFFICES ASSUME Describes(goal, profile, given) PROVE FALSE
      OBVIOUS
    <2>1. decision = Descriptive(objective, profile, given) /\ Readable(profile)
      <3>1. decision = Descriptive(objective, profile, given)
        BY DecideCases
      <3> QED  BY <3>1 DEF Describes
    <2>2. decision.is = "ask"
      OBVIOUS
    <2> HIDE DEF decision, objective
    <2>3. decision = Error \/ \E spec : decision = Selected(spec)
      BY <1>1, <2>1, DescriptiveCases
    <2> QED  BY <2>2, <2>3, AskParts
  <1>4. ~Correlates(goal, profile, given)
    <2> SUFFICES ASSUME Correlates(goal, profile, given) PROVE FALSE
      OBVIOUS
    <2>1. decision = Correlation(objective, profile, given) /\ Readable(profile)
      <3>1. decision = Correlation(objective, profile, given)
        BY DecideCases
      <3> QED  BY <3>1 DEF Correlates
    <2>2. decision.is = "ask" /\ decision.type = "group-values"
      OBVIOUS
    <2> HIDE DEF decision, objective
    <2>3. \/ decision = Error \/ \E spec : decision = Selected(spec)
          \/ \E options : \/ decision = AskFor("x-column", options)
                          \/ decision = AskFor("y-column", options)
                          \/ decision = AskFor("method-confirmation", options)
      BY <2>1, CorrelationCases
    <2> QED  BY <2>2, <2>3, AskParts
  <1> QED  BY <1>2, <1>3, <1>4, DecideCases

LEMMA DialogGoesOn ==
  ASSUME NEW goal \in Goals, NEW profile, NEW given,
         ~Repeats(ColumnNames(profile.columns)) => Readable(profile),
         Dialog(goal, profile, given), Decide(goal, profile, given).is = "ask",
         NEW reply \in Replies(Decide(goal, profile, given), profile)
  PROVE  Dialog(goal, profile, WithAnswer(given, Decide(goal, profile, given), reply))
  <1> DEFINE decision == Decide(goal, profile, given)
             later == WithAnswer(given, decision, reply)
             objective == Objective(goal, given)
             outcome == OutcomeColumn(objective, profile, given)
             group == GroupColumn(objective, profile, given, outcome)
             offered == ColumnNamed(profile, group).values
             open == TwoGroupMethods \cup {"auto"}
  <1>1. SUFFICES ASSUME "group-values" \in DOMAIN later
                 PROVE  /\ Compares(goal, profile, later)
                        /\ \A o, g : ComparedColumns(goal, profile, later, o, g) =>
                              /\ o # "" /\ g # ""
                              /\ later["group-values"] \subseteq ColumnNamed(profile, g).values
    BY Zenon DEF Dialog
  <1>2. "group-values" \in DOMAIN given \/ decision.type = "group-values"
    BY <1>1 DEF WithAnswer
  <1>3. Compares(goal, profile, given)
    <2>1. CASE "group-values" \in DOMAIN given
      BY <2>1 DEF Dialog
    <2>2. CASE decision.type = "group-values"
      BY <2>2, GroupQuestion
    <2> QED  BY <1>2, <2>1, <2>2
  <1>4. Readable(profile)
    BY <1>3 DEF Compares
  <1>5. decision = TwoGroups(objective, profile, given)
    BY <1>3, DecideCases
  <1>6. \/ decision = Error
        \/ decision = AskFor("outcome-column", NumericOf(profile)) /\ outcome = ""
        \/ decision = AskFor("group-column", GroupsOf(profile)) /\ outcome # "" /\ group = ""
        \/ outcome # "" /\ group # "" /\ decision = AskFor("group-values", offered)
        \/ decision = Unsupported
        \/ /\ decision = AskFor("method-confirmation", open)
           /\ outcome # "" /\ group # ""
        \/ \E spec : decision = Selected(spec)
    BY <1>4, <1>5, ComparisonCases
  <1>7. "group-values" \in DOMAIN given =>
           outcome # "" /\ group # "" /\ given["group-values"] \subseteq offered
    <2>1. ComparedColumns(goal, profile, given, outcome, group)
      BY DEF ComparedColumns
    <2> HIDE DEF outcome, group
    <2> QED  BY <2>1 DEF Dialog
  <1>8. decision.is = "ask"
    OBVIOUS
  <1>9. \/ /\ decision.type = "group-values" /\ decision.options = offered
           /\ outcome # "" /\ group # ""
        \/ /\ decision.type = "method-confirmation" /\ outcome # "" /\ group # ""
    <2> HIDE DEF decision, outcome, group, offered, open
    <2>1. ASSUME decision = AskFor("outcome-column", NumericOf(profile)), outcome = "" PROVE FALSE
      <3>1. decision.type = "outcome-column"
        BY <2>1, AskParts
      <3> QED  BY <1>2, <1>7, <2>1, <3>1
    <2>2. ASSUME decision = AskFor("group-column", GroupsOf(profile)), group = "" PROVE FALSE
      <3>1. decision.type = "group-column"
        BY <2>2, AskParts
      <3> QED  BY <1>2, <1>7, <2>2, <3>1
    <2>3. ASSUME decision = AskFor("group-values", offered)
          PROVE  decision.type = "group-values" /\ decision.options = offered
      BY <2>3, AskParts
    <2>4. ASSUME decision = AskFor("method-confirmation", open)
          PROVE  decision.type = "method-confirmation"
      BY <2>4, AskParts
    <2>5. /\ decision # Error /\ decision # Unsupported
          /\ \A spec : decision # Selected(spec)
      BY <1>8, AskParts
    <2> QED  BY <1>6, <2>1, <2>2, <2>3, <2>4, <2>5
  <1>10. /\ Objective(goal, later) = objective /\ Compares(goal, profile, later)
    <2> HIDE DEF decision
    <2>1. decision.type # "analysis-objective"
      BY <1>9
    <2> QED  BY <1>3, <2>1, KindStays
  <1>11. /\ OutcomeColumn(objective, profile, later) = outcome
         /\ GroupColumn(objective, profile, later, outcome) = group
    <2>1. /\ TextAnswer(later, "outcome-column") = TextAnswer(given, "outcome-column")
          /\ TextAnswer(later, "group-column") = TextAnswer(given, "group-column")
      <3> HIDE DEF decision
      <3>1. decision.type \in {"group-values", "method-confirmation"}
        BY <1>9
      <3> QED  BY <3>1 DEF WithAnswer, TextAnswer
    <2> HIDE DEF later, objective
    <2>2. OutcomeColumn(objective, profile, later) = OutcomeColumn(objective, profile, given)
      BY <1>4, <2>1, SameRoles
    <2> HIDE DEF outcome
    <2>3. GroupColumn(objective, profile, later, outcome)
             = GroupColumn(objective, profile, given, outcome)
      BY <1>4, <2>1, SameRoles
    <2> QED  BY <2>2, <2>3 DEF outcome
  <1>12. later["group-values"] \subseteq offered
    <2>1. reply \in Replies(decision, profile)
      OBVIOUS
    <2> HIDE DEF decision, offered, outcome, group
    <2>2. CASE decision.type = "group-values" /\ decision.options = offered
      <3>1. reply \subseteq offered
        BY <2>1, <2>2 DEF Replies
      <3> QED  BY <2>2, <3>1 DEF WithAnswer
    <2>3. CASE decision.type = "method-confirmation"
      <3>1. "group-values" \in DOMAIN given
        BY <1>2, <2>3
      <3>2. later["group-values"] = given["group-values"]
        BY <2>3, <3>1 DEF WithAnswer
      <3> QED  BY <1>7, <3>1, <3>2
    <2> QED  BY <1>9, <2>2, <2>3
  <1> HIDE DEF decision, later, objective, outcome, group
  <1>13. ASSUME NEW o, NEW g, ComparedColumns(goal, profile, later, o, g)
         PROVE  /\ o # "" /\ g # ""
                /\ later["group-values"] \subseteq ColumnNamed(profile, g).values
    <2>1. o = outcome /\ g = group
      BY <1>10, <1>11, <1>13 DEF ComparedColumns
    <2> QED  BY <1>9, <1>12, <2>1 DEF offered
  <1> QED  BY <1>10, <1>13

LEMMA AfterKeeps ==
  ASSUME NEW goal \in Goals, NEW profile, NEW all,
         ~Repeats(ColumnNames(profile.columns)) => Readable(profile),
         \A given \in all : Dialog(goal, profile, given)
  PROVE  \A given \in After(all, goal, profile) : Dialog(goal, profile, given)
  <1> SUFFICES ASSUME NEW later \in After(all, goal, profile)
               PROVE  Dialog(goal, profile, later)
    OBVIOUS
  <1>1. CASE later \in all
    BY <1>1
  <1>2. CASE \E given \in all : \E reply \in Replies(Decide(goal, profile, given), profile) :
                /\ Decide(goal, profile, given).is = "ask"
                /\ later = WithAnswer(given, Decide(goal, profile, given), reply)
    <2>1. PICK given \in all : \E reply \in Replies(Decide(goal, profile, given), profile) :
                /\ Decide(goal, profile, given).is = "ask"
                /\ later = WithAnswer(given, Decide(goal, profile, given), reply)
      BY <1>2
    <2>2. PICK reply \in Replies(Decide(goal, profile, given), profile) :
                /\ Decide(goal, profile, given).is = "ask"
                /\ later = WithAnswer(given, Decide(goal, profile, given), reply)
      BY <2>1
    <2>3. Dialog(goal, profile, given)
      OBVIOUS
    <2> QED  BY <2>2, <2>3, DialogGoesOn
  <1>3. \/ later \in all
        \/ \E given \in all : \E reply \in Replies(Decide(goal, profile, given), profile) :
                /\ Decide(goal, profile, given).is = "ask"
                /\ later = WithAnswer(given, Decide(goal, profile, given), reply)
    BY DEF After
  <1> QED  BY <1>1, <1>2, <1>3

LEMMA AnswersKeep ==
  ASSUME NEW goal \in Goals, NEW profile,
         ~Repeats(ColumnNames(profile.columns)) => Readable(profile)
  PROVE  \A given \in Answers(goal, profile) : Dialog(goal, profile, given)
  <1> DEFINE more(all) == After(all, goal, profile)
             kept(all) == \A given \in all : Dialog(goal, profile, given)
  <1>1. kept(Given)
    <2> SUFFICES ASSUME NEW given \in Given PROVE Dialog(goal, profile, given)
      OBVIOUS
    <2>1. "group-values" \notin DOMAIN given
      BY MethodAssumption
    <2> QED  BY <2>1 DEF Dialog
  <1>2. ASSUME NEW all, kept(all) PROVE kept(more(all))
    BY <1>2, AfterKeeps
  <1>3. Answers(goal, profile) = more(more(more(more(more(Given)))))
    BY DEF Answers
  <1> HIDE DEF more, kept
  <1>4. kept(more(more(more(more(more(Given))))))
    BY <1>1, <1>2
  <1> QED  BY <1>3, <1>4 DEF kept

LEMMA AllSettle ==
  ASSUME NEW goal \in Goals, NEW profile, NEW given,
         ~Repeats(ColumnNames(profile.columns)) => Readable(profile),
         Dialog(goal, profile, given)
  PROVE  Settles(goal, profile, given)
  <1> DEFINE decision == Decide(goal, profile, given)
  <1>1. CASE decision = Unsupported
    <2>1. /\ ValidDecision(decision, profile) /\ decision.is # "ask" /\ decision.is # "raises"
      <3> HIDE DEF decision
      <3> QED  BY <1>1, AskParts DEF ValidDecision
    <2> QED  BY <2>1, SettlesIs
  <1>2. CASE decision = AskFor("analysis-objective", Operations)
    BY <1>2, ObjectiveSettles
  <1>3. CASE Describes(goal, profile, given)
    BY <1>3, DescriptiveSettles DEF Describes
  <1>4. CASE Correlates(goal, profile, given)
    BY <1>4, CorrelationSettles DEF Correlates
  <1>5. CASE Compares(goal, profile, given)
    BY <1>5, ComparisonSettles DEF Compares
  <1> QED  BY <1>1, <1>2, <1>3, <1>4, <1>5, DecideCases

-----------------------------------------------------------------------------
(* The model's selection                                                   *)

LEMMA LeastPlace ==
  ASSUME NEW S \in SUBSET Nat, S # {}
  PROVE  \E n \in S : \A m \in S : n <= m
  <1>1. PICK n \in S : \A m \in S : ~(<<m, n>> \in OpToRel(<, Nat))
    BY NatLessThanWellFounded, WFMin
  <1>2. \A m \in S : ~(m < n)
    BY <1>1 DEF OpToRel
  <1>3. \A m \in S : n <= m
    BY <1>2
  <1> QED  BY <1>3

\* The first of the model's answers that ends the asking.
Ends(outcomes, profile) ==
    {k \in 1 .. MaxRepairs + 1 : outcomes[k].is = "failed" \/ Accepted(outcomes[k], profile)}
ChosenBy(chosen, local, profile, outcomes) ==
    /\ Ends(outcomes, profile) = {} => chosen = local
    /\ Ends(outcomes, profile) # {} =>
          \E last \in Ends(outcomes, profile) :
             /\ \A other \in Ends(outcomes, profile) : last <= other
             /\ chosen = IF outcomes[last].is = "failed" THEN local ELSE outcomes[last].decision
LEMMA ChooseIs ==
  ASSUME NEW local, NEW profile, NEW outcomes
  PROVE  ChosenBy(Choose(local, profile, outcomes), local, profile, outcomes)
  <1> DEFINE ends == {k \in 1 .. MaxRepairs + 1 :
                         outcomes[k].is = "failed" \/ Accepted(outcomes[k], profile)}
             last == CHOOSE k \in ends : \A other \in ends : k <= other
             chosen == Choose(local, profile, outcomes)
  <1>1. chosen = IF ends = {} \/ outcomes[last].is = "failed" THEN local
                 ELSE outcomes[last].decision
    BY Zenon DEF Choose
  <1>2. ends \in SUBSET Nat
    OBVIOUS
  <1> HIDE DEF ends
  <1>3. ends # {} => last \in ends /\ \A other \in ends : last <= other
    BY <1>2, LeastPlace
  <1> HIDE DEF last, chosen
  <1>4. ends = {} => chosen = local
    BY <1>1
  <1>5. ends # {} => \E k \in ends : /\ \A other \in ends : k <= other
                                     /\ chosen = IF outcomes[k].is = "failed" THEN local
                                                 ELSE outcomes[k].decision
    BY <1>1, <1>3
  <1>6. ends = Ends(outcomes, profile)
    BY Zenon DEF ends, Ends
  <1>7. ChosenBy(chosen, local, profile, outcomes)
    BY <1>4, <1>5, <1>6 DEF ChosenBy
  <1> QED  BY <1>7 DEF chosen

LEMMA OneName ==
  ASSUME NEW name
  PROVE  /\ <<name>> # <<>> /\ Len(<<name>>) <= MaxItems /\ ~Repeats(<<name>>)
         /\ Among(<<name>>) = {name}
  <1>1. 1 <= MaxItems
    BY MethodAssumption
  <1>2. Len(<<name>>) = 1 /\ DOMAIN <<name>> = 1 .. 1
    OBVIOUS
  <1>3. \A i, j \in 1 .. 1 : ~(i < j)
    OBVIOUS
  <1>4. ~Repeats(<<name>>)
    BY <1>2, <1>3 DEF Repeats
  <1>5. Among(<<name>>) = {name}
    BY <1>2 DEF Among
  <1> QED  BY <1>1, <1>2, <1>4, <1>5

LEMMA ModelChecked ==
  ASSUME NEW profile, profile.hash # Altered,
         profile.columns[1].name \in NamesOf(profile), Elsewhere[1] \notin NamesOf(profile)
  PROVE  ModelIsChecked(profile)
  <1> DEFINE counts == [operation |-> "descriptive", columns |-> <<profile.columns[1].name>>,
                        statistics |-> "counts", plot |-> "none", groups |-> {},
                        method |-> "descriptive", effect |-> "none",
                        policy |-> "report-only", hash |-> profile.hash]
             altered == [counts EXCEPT !.hash = Altered]
             elsewhere == [counts EXCEPT !.columns = Elsewhere]
             answer(sure, spec) == [is |-> "answer", sure |-> sure, decision |-> Selected(spec)]
             fit == answer(TRUE, counts)
             unsure == answer(FALSE, counts)
             other == answer(TRUE, altered)
             wrong == answer(TRUE, elsewhere)
             broken == [is |-> "failed"]
             repeats == Repeats(ColumnNames(profile.columns))
             outcomes == {fit, unsure, other, wrong, broken}
  <1>1. /\ fit.is = "answer" /\ unsure.is = "answer" /\ other.is = "answer"
        /\ wrong.is = "answer" /\ broken.is = "failed"
        /\ fit.sure = TRUE /\ unsure.sure = FALSE
        /\ fit.decision = Selected(counts) /\ other.decision = Selected(altered)
        /\ wrong.decision = Selected(elsewhere)
    OBVIOUS
  <1>2. /\ counts.hash = profile.hash /\ counts.operation = "descriptive"
        /\ counts.columns = <<profile.columns[1].name>>
        /\ altered.hash = Altered /\ elsewhere.columns = Elsewhere
    OBVIOUS
  <1> HIDE DEF counts, altered, elsewhere
  <1>3. WellFormed(counts) /\ (ValidSpec(counts, profile) <=> ~repeats)
    <2> DEFINE name == profile.columns[1].name
    <2>1. /\ counts.columns # <<>> /\ Len(counts.columns) <= MaxItems
          /\ ~Repeats(counts.columns) /\ Among(counts.columns) = {name}
      BY <1>2, OneName
    <2>2. WellFormed(counts)
      BY <1>2, <2>1 DEF WellFormed
    <2>3. ValidSpec(counts, profile) <=> ~repeats
      BY <1>2, <2>1 DEF ValidSpec
    <2> QED  BY <2>2, <2>3
  <1>4. ~ValidSpec(altered, profile)
    BY <1>2 DEF ValidSpec
  <1>5. ~ValidSpec(elsewhere, profile)
    <2>1. Elsewhere[1] \in Among(Elsewhere)
      BY DEF Among, Elsewhere
    <2> QED  BY <1>2, <2>1 DEF ValidSpec
  <1> HIDE DEF fit, unsure, other, wrong, broken, repeats
  <1>6. Accepted(fit, profile) <=> ~repeats
    <2>1. ValidDecision(Selected(counts), profile)
             <=> WellFormed(counts) /\ ValidSpec(counts, profile)
      BY AskParts DEF ValidDecision
    <2> QED  BY <1>1, <1>3, <2>1 DEF Accepted
  <1>7. ~Accepted(unsure, profile) /\ ~Accepted(broken, profile)
    BY <1>1 DEF Accepted
  <1>8. ~Accepted(other, profile)
    <2>1. ~ValidDecision(Selected(altered), profile)
      BY <1>4, AskParts DEF ValidDecision
    <2> QED  BY <1>1, <2>1 DEF Accepted
  <1>9. ~Accepted(wrong, profile)
    <2>1. ~ValidDecision(Selected(elsewhere), profile)
      BY <1>5, AskParts DEF ValidDecision
    <2> QED  BY <1>1, <2>1 DEF Accepted
  <1>10. ASSUME NEW all \in [1 .. MaxRepairs + 1 -> outcomes]
         PROVE  Choose(Unsupported, profile, all) =
                   IF /\ ~repeats
                      /\ \E k \in DOMAIN all :
                            all[k] = fit /\ \A j \in 1 .. k - 1 : all[j].is = "answer"
                   THEN fit.decision ELSE Unsupported
    <2> DEFINE ends == Ends(all, profile)
               chosen == Choose(Unsupported, profile, all)
               found(k) == all[k] = fit /\ \A j \in 1 .. k - 1 : all[j].is = "answer"
    <2>1. MaxRepairs \in Nat /\ DOMAIN all = 1 .. MaxRepairs + 1
      BY MethodAssumption
    <2>2. \A k \in 1 .. MaxRepairs + 1 :
             /\ all[k].is \in {"answer", "failed"}
             /\ k \in ends <=> all[k].is = "failed" \/ (all[k] = fit /\ ~repeats)
      <3> SUFFICES ASSUME NEW k \in 1 .. MaxRepairs + 1
                   PROVE  /\ all[k].is \in {"answer", "failed"}
                          /\ k \in ends <=> all[k].is = "failed" \/ (all[k] = fit /\ ~repeats)
        OBVIOUS
      <3>1. all[k] \in outcomes
        OBVIOUS
      <3>2. k \in ends <=> all[k].is = "failed" \/ Accepted(all[k], profile)
        BY DEF Ends
      <3> HIDE DEF ends
      <3> QED  BY <3>1, <3>2, <1>1, <1>6, <1>7, <1>8, <1>9
    <2>3. /\ ends = {} => chosen = Unsupported
          /\ ends # {} => \E last \in ends :
                             /\ \A k \in ends : last <= k
                             /\ chosen = IF all[last].is = "failed" THEN Unsupported
                                         ELSE all[last].decision
      <3>1. ChosenBy(chosen, Unsupported, profile, all)
        BY ChooseIs
      <3> HIDE DEF chosen
      <3> QED  BY <3>1, Zenon DEF ChosenBy
    <2>4. ends \subseteq 1 .. MaxRepairs + 1
      BY DEF Ends
    <2> HIDE DEF ends, chosen
    <2>5. CASE ends = {}
      <3>1. chosen = Unsupported
        BY <2>3, <2>5
      <3>2. ~(~repeats /\ \E k \in DOMAIN all : found(k))
        BY <2>1, <2>2, <2>5
      <3> QED  BY <3>1, <3>2 DEF chosen
    <2>6. CASE ends # {}
      <3>1. PICK last \in ends :
               /\ \A k \in ends : last <= k
               /\ chosen = IF all[last].is = "failed" THEN Unsupported ELSE all[last].decision
        BY <2>3, <2>6
      <3>2. last \in 1 .. MaxRepairs + 1
        BY <2>4
      <3>3. CASE all[last].is = "failed"
        <4>1. ASSUME ~repeats, NEW k \in DOMAIN all, found(k) PROVE FALSE
          <5>1. k \in ends
            BY <2>1, <2>2, <4>1
          <5>2. last <= k /\ last # k
            BY <1>1, <3>1, <3>3, <4>1, <5>1
          <5>3. last \in 1 .. k - 1
            BY <2>1, <3>2, <5>2
          <5> QED  BY <3>3, <4>1, <5>3
        <4>2. chosen = Unsupported
          BY <3>1, <3>3
        <4> HIDE DEF found
        <4>3. ~(~repeats /\ \E k \in DOMAIN all : found(k))
          BY <4>1
        <4> QED  BY <4>2, <4>3 DEF chosen, found
      <3>4. CASE all[last].is # "failed"
        <4>1. all[last] = fit /\ ~repeats
          BY <2>2, <3>2, <3>4
        <4>2. chosen = fit.decision
          BY <3>1, <3>4, <4>1
        <4>3. ASSUME NEW j \in 1 .. last - 1 PROVE all[j].is = "answer"
          <5>1. j \in 1 .. MaxRepairs + 1 /\ ~(last <= j)
            BY <2>1, <3>2
          <5>2. j \notin ends
            BY <3>1, <5>1
          <5> QED  BY <2>2, <5>1, <5>2
        <4>4. found(last)
          BY <4>1, <4>3
        <4> HIDE DEF found
        <4>5. ~repeats /\ \E k \in DOMAIN all : found(k)
          BY <2>1, <3>2, <4>1, <4>4
        <4> QED  BY <4>2, <4>5 DEF chosen, found
      <3> QED  BY <3>3, <3>4
    <2> QED  BY <2>5, <2>6
  <1> QED  BY <1>10, Zenon DEF ModelIsChecked, counts, altered, elsewhere, fit, unsure, other,
                          wrong, broken, repeats

LEMMA AllDialogsSettle == DialogsSettle
  <1> SUFFICES ASSUME NEW table \in Tables
               PROVE  /\ ModelIsChecked(ProfileOf(table, Rows(table)))
                      /\ \A goal \in Goals :
                            \A given \in Answers(goal, ProfileOf(table, Rows(table))) :
                               Settles(goal, ProfileOf(table, Rows(table)), given)
    BY Zenon DEF DialogsSettle
  <1> DEFINE profile == ProfileOf(table, Rows(table))
  <1>1. IsFile(table)
    BY TablesAreFiles
  <1>2. ColumnNames(profile.columns) = Names(table)
    BY <1>1, NamesAgree
  <1>3. ~Repeats(ColumnNames(profile.columns)) => Readable(profile)
    BY <1>1, <1>2, ProfilesRead
  <1>4. profile.hash # Altered
    BY <1>1, FileParts DEF ProfileOf, Altered
  <1>5. NamesOf(profile) = Among(Names(table))
    BY <1>2 DEF NamesOf
  <1>6. profile.columns[1].name \in NamesOf(profile)
    <2>1. 1 \in DOMAIN table.header
      <3>1. DOMAIN table.header = 1 .. Len(table.header) /\ Len(table.header) \in Nat \ {0}
        BY <1>1, FileParts
      <3> QED  BY <3>1
    <2>2. profile.columns[1].name = Names(table)[1]
      <3>1. ASSUME NEW i \in DOMAIN table.header
            PROVE  profile.columns[i].name = Names(table)[i]
        <4>1. profile.columns[i]
                 = Column(Names(table)[i], [k \in Rows(table) |-> Cell(table, k, i)])
          BY DEF ProfileOf
        <4> HIDE DEF profile
        <4> QED  BY <4>1 DEF Column
      <3> HIDE DEF profile
      <3> QED  BY <2>1, <3>1
    <2>3. 1 \in DOMAIN Names(table)
      BY <2>1 DEF Names
    <2> QED  BY <1>5, <2>2, <2>3 DEF Among
  <1>7. Elsewhere[1] \notin NamesOf(profile)
    <2>1. \A i \in DOMAIN table.header : table.header[i].shown # "other"
      BY <1>1, FileParts
    <2>2. "other" \notin Among(Names(table))
      BY <2>1 DEF Among, Names
    <2> QED  BY <1>5, <2>2 DEF Elsewhere
  <1> HIDE DEF profile
  <1>8. ModelIsChecked(profile)
    BY <1>4, <1>6, <1>7, ModelChecked
  <1>9. ASSUME NEW goal \in Goals, NEW given \in Answers(goal, profile)
        PROVE  Settles(goal, profile, given)
    <2>1. Dialog(goal, profile, given)
      BY <1>3, AnswersKeep
    <2> QED  BY <1>3, <2>1, AllSettle
  <1> QED  BY <1>8, <1>9 DEF profile

-----------------------------------------------------------------------------
(* The theorems                                                            *)

\* Whatever is planned, approved and prepared runs, and passes its review, for every file.
THEOREM PlansExecuteCorrect == Spec => []PlansExecute
<1>1. PlanFollowsAnswers => PlansExecute
  BY AllSpecsExecute DEF PlansExecute
<1> QED  BY <1>1, PlanFollowsAnswersCorrect, PTL

\* One question at a time, and every question gets on, for every file, goal and answer.
THEOREM QuestionsSettleCorrect == Spec => []QuestionsSettle
<1>1. OneOpenQuestion => QuestionsSettle
  BY AllDialogsSettle DEF QuestionsSettle
<1> QED  BY <1>1, OneOpenQuestionCorrect, PTL
=============================================================================

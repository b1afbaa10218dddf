--------------------------- MODULE MethodSelection ---------------------------
(***************************************************************************)
(* How a goal in plain words becomes an analysis specification: the local  *)
(* deterministic selection, the questions it asks when the goal and the    *)
(* profile leave a role open, the answers the user may give, and the       *)
(* model's selection, which is checked and falls back to the local one.    *)
(*                                                                         *)
(* A goal is what the selector's patterns find in it: the operations and   *)
(* the methods it names, the columns it mentions in their order, and a     *)
(* trend of one column over another.  "" stands for None.                  *)
(***************************************************************************)
EXTENDS DatasetProfile

CONSTANTS
    MaxItems,     \* the longest list of columns or options the schemas take
    MaxRepairs,   \* MAX_METHOD_REPAIR_ATTEMPTS
    Tables,       \* the files whose profiles methods are selected by
    Goals,        \* the goals
    Given         \* answers to questions that only a model asks

Operations == {"descriptive", "two-group-comparison", "correlation"}
CorrelationMethods == {"pearson", "spearman"}
TwoGroupMethods == {"welch-t-test", "mann-whitney-u"}
ColumnQuestions == {"outcome-column", "group-column", "x-column", "y-column"}

\* The schemas take a list of methods and every list of
\* values the profile has; a goal mentions a column once.
ASSUME MethodAssumption ==
    /\ MaxItems \in Nat /\ Listed \in Nat /\ 3 <= MaxItems /\ Listed <= MaxItems
    /\ MaxRepairs \in Nat
    /\ Tables \subseteq CsvFiles
    /\ Goals \subseteq [operations : SUBSET Operations,
                        mentions : {names \in Seq(STRING) : ~Repeats(names)},
                        methods : SUBSET (CorrelationMethods \cup TwoGroupMethods),
                        trend : Seq(STRING), unsupported : BOOLEAN]
    /\ \A given \in Given : DOMAIN given \subseteq {"method-confirmation", "missing-value-policy",
                                                 "independence-assumption"}
-----------------------------------------------------------------------------
(* Columns                                                                 *)

IsNumeric(column) == column.type \in {"integer", "number"} /\ ~column.mixed
IsCategorical(column) == ~column.id /\ column.listed /\ column.unique >= 2

ColumnNames(columns) == [i \in DOMAIN columns |-> columns[i].name]
Among(names) == {names[i] : i \in DOMAIN names}
\* The members of a list at some of its places, in their order.
Taken(names, at) ==
    LET place(k) == CHOOSE i \in at : Cardinality({j \in at : j <= i}) = k
    IN  [k \in 1 .. Cardinality(at) |-> names[place(k)]]
NumericNames(profile) ==
    Taken(ColumnNames(profile.columns),
          {i \in DOMAIN profile.columns : IsNumeric(profile.columns[i])})
GroupNames(profile) ==
    Taken(ColumnNames(profile.columns),
          {i \in DOMAIN profile.columns : IsCategorical(profile.columns[i])})
NamesOf(profile) == Among(ColumnNames(profile.columns))
NumericOf(profile) == Among(NumericNames(profile))
GroupsOf(profile) == Among(GroupNames(profile))
ColumnNamed(profile, name) ==
    profile.columns[CHOOSE i \in DOMAIN profile.columns : profile.columns[i].name = name]

Or(first, second) == IF first # "" THEN first ELSE second
First(names) == IF names = <<>> THEN "" ELSE names[1]
Only(names) == IF Len(names) = 1 THEN names[1] ELSE ""
Kept(names, allowed) == Taken(names, {i \in DOMAIN names : names[i] \in allowed})
-----------------------------------------------------------------------------
(* Answers: the latest of each type                                        *)

TextAnswer(given, type) == IF type \in DOMAIN given THEN given[type] ELSE ""
ColumnAnswer(given, type, profile) ==
    IF TextAnswer(given, type) \in NamesOf(profile)
    THEN given[type] ELSE ""
Policy(given) ==
    IF TextAnswer(given, "missing-value-policy") = "report-only"
    THEN "report-only" ELSE "drop-per-operation"

\* Any two distinct texts will do.
GroupsAnswer(given) ==
    IF "group-values" \in DOMAIN given /\ Cardinality(given["group-values"]) = 2
    THEN given["group-values"] ELSE {}

\* An answered objective takes the place of the goal with all that the goal says.
Objective(goal, given) ==
    IF "analysis-objective" \in DOMAIN given
    THEN [operations |-> {given["analysis-objective"]},
          mentions |-> IF given["analysis-objective"] = "two-group-comparison"
                       THEN <<"group">> ELSE <<>>,
          methods |-> {}, trend |-> <<>>]
    ELSE goal
-----------------------------------------------------------------------------
(* Decisions                                                               *)

Selected(spec) == [is |-> "spec", spec |-> spec]
Unsupported == [is |-> "unsupported"]
Error == [is |-> "raises"]
AskFor(type, options) == [is |-> "ask", type |-> type, options |-> options]

\* All the requests are built and must fit, the first is asked.
Clarification(requests) ==
    IF \E i \in DOMAIN requests : Cardinality(requests[i].options) > MaxItems
    THEN Error ELSE requests[1]

\* The method answered, the one the goal names, or "auto"; "" when the goal names two,
\* whatever was answered, or when the answer is none of these methods.
MethodMut(objective, given, methods) ==
    LET answer == TextAnswer(given, "method-confirmation")
        named == objective.methods \cap methods
    IN  CASE Cardinality(named) > 1 \/ answer \notin methods \cup {""} -> ""
          [] OTHER -> Or(answer, IF named = {} THEN "auto" ELSE CHOOSE m \in named : TRUE)
Method(objective, given, methods) ==
    LET answer == TextAnswer(given, "method-confirmation")
        named == objective.methods \cap methods
    IN  CASE Cardinality(named) > 1 \/ answer \notin methods \cup {"auto", ""} -> ""
          [] OTHER -> Or(answer, IF named = {} THEN "auto" ELSE CHOOSE m \in named : TRUE)
MethodQuestion(methods) ==
    Clarification(<<AskFor("method-confirmation", methods \cup {"auto"})>>)

Descriptive(objective, profile, given) ==
    LET mentioned == Kept(objective.mentions, NamesOf(profile))
        selected == IF mentioned = <<>> THEN ColumnNames(profile.columns) ELSE mentioned
        all == {ColumnNamed(profile, name) : name \in Among(selected)}
        content == IF \A c \in all : IsCategorical(c) THEN <<"frequency", "bar">>
                   ELSE IF \A c \in all : IsNumeric(c) THEN <<"numeric", "histogram">>
                   ELSE <<"counts", "none">>
    IN  IF Len(selected) > MaxItems THEN Error
        ELSE Selected([operation |-> "descriptive", columns |-> selected,
                       statistics |-> content[1], plot |-> content[2], groups |-> {},
                       method |-> "descriptive", effect |-> "none",
                       policy |-> Policy(given), hash |-> profile.hash])

\* The roles of a trend of two mentioned columns, or the mentioned columns as they come.
TrendRoles(objective, mentioned) ==
    IF Len(mentioned) = 2 /\ Among(objective.trend) = Among(mentioned)
    THEN <<objective.trend[2], objective.trend[1]>> ELSE mentioned
XColumn(objective, profile, given) ==
    LET numeric == NumericNames(profile)
        roles == TrendRoles(objective, Kept(objective.mentions, Among(numeric)))
    IN  Or(ColumnAnswer(given, "x-column", profile),
           Or(First(roles), IF Len(numeric) = 2 THEN numeric[1] ELSE ""))
YColumn(objective, profile, given, x) ==
    LET numeric == NumericNames(profile)
        roles == TrendRoles(objective, Kept(objective.mentions, Among(numeric)))
    IN  Or(ColumnAnswer(given, "y-column", profile),
           Or(IF Len(roles) > 1 THEN roles[2] ELSE "",
              IF Len(numeric) = 2 THEN First(Kept(numeric, Among(numeric) \ {x})) ELSE ""))

Correlation(objective, profile, given) ==
    LET x == XColumn(objective, profile, given)
        y == YColumn(objective, profile, given, x)
        method == Method(objective, given, CorrelationMethods)
        which(type) == AskFor(type, NumericOf(profile))
    IN  IF x = "" /\ y = "" THEN Clarification(<<which("x-column"), which("y-column")>>)
        ELSE IF x = "" THEN Clarification(<<which("x-column")>>)
        ELSE IF y \in {"", x} THEN Clarification(<<which("y-column")>>)
        ELSE IF method = "" THEN MethodQuestion(CorrelationMethods)
        ELSE Selected([operation |-> "correlation", columns |-> <<x, y>>,
                       statistics |-> "none", plot |-> "scatter", groups |-> {},
                       method |-> method, effect |-> "none",
                       policy |-> Policy(given), hash |-> profile.hash])

OutcomeColumn(objective, profile, given) ==
    LET numeric == NumericNames(profile)
    IN  Or(ColumnAnswer(given, "outcome-column", profile),
           Or(Only(Kept(numeric, Among(objective.mentions))), Only(numeric)))
GroupColumn(objective, profile, given, outcome) ==
    LET likely == GroupNames(profile)
    IN  Or(ColumnAnswer(given, "group-column", profile),
           Or(Only(Kept(likely, Among(objective.mentions) \ {outcome})), Only(likely)))
\* The groups answered, or the values offered when they are two.
GroupValues(given, offered) ==
    IF GroupsAnswer(given) = {} /\ Cardinality(offered) = 2 THEN offered ELSE GroupsAnswer(given)

TwoGroups(objective, profile, given) ==
    LET outcome == OutcomeColumn(objective, profile, given)
        group == GroupColumn(objective, profile, given, outcome)
        offered == ColumnNamed(profile, group).values
        groups == GroupValues(given, offered)
        method == Method(objective, given, TwoGroupMethods)
        whichOutcome == AskFor("outcome-column", NumericOf(profile))
        whichGroup == AskFor("group-column", GroupsOf(profile))
    IN  IF outcome = "" /\ group = "" THEN Clarification(<<whichOutcome, whichGroup>>)
        ELSE IF outcome = "" THEN Clarification(<<whichOutcome>>)
        ELSE IF group = "" THEN Clarification(<<whichGroup>>)
        ELSE IF groups = {} THEN Clarification(<<AskFor("group-values", offered)>>)
        ELSE IF TextAnswer(given, "independence-assumption") = "no" THEN Unsupported
        ELSE IF method = "" THEN MethodQuestion(TwoGroupMethods)
        ELSE IF outcome = group THEN Error
        ELSE Selected([operation |-> "two-group-comparison", columns |-> <<outcome, group>>,
                       statistics |-> "none", plot |-> "boxplot", groups |-> groups,
                       method |-> method,
                       effect |-> IF method = "mann-whitney-u" THEN "rank-biserial"
                                  ELSE "hedges-g",
                       policy |-> Policy(given), hash |-> profile.hash])

\* deterministic_method_selection
Decide(goal, profile, given) ==
    LET objective == Objective(goal, given)
    IN  IF goal.unsupported THEN Unsupported
        ELSE IF Cardinality(objective.operations) # 1
             THEN Clarification(<<AskFor("analysis-objective", Operations)>>)
        ELSE IF Repeats(ColumnNames(profile.columns)) THEN Unsupported
        ELSE IF objective.operations = {"descriptive"}
             THEN Descriptive(objective, profile, given)
        ELSE IF objective.operations = {"correlation"}
             THEN Correlation(objective, profile, given)
        ELSE TwoGroups(objective, profile, given)
-----------------------------------------------------------------------------
(* The model's selection                                                   *)

\* What the schemas take.
WellFormed(spec) ==
    /\ spec.columns # <<>> /\ Len(spec.columns) <= MaxItems /\ ~Repeats(spec.columns)
    /\ spec.operation = "two-group-comparison" =>
          /\ Cardinality(spec.groups) = 2
          /\ spec.method = "welch-t-test" => spec.effect = "hedges-g"
          /\ spec.method = "mann-whitney-u" => spec.effect = "rank-biserial"

\* validate_method_selection
ValidSpec(spec, profile) ==
    /\ spec.hash = profile.hash
    /\ ~Repeats(ColumnNames(profile.columns))
    /\ Among(spec.columns) \subseteq NamesOf(profile)
    /\ spec.operation = "correlation" =>
          \A name \in Among(spec.columns) : IsNumeric(ColumnNamed(profile, name))
    /\ spec.operation = "two-group-comparison" =>
          LET group == ColumnNamed(profile, spec.columns[2])
          IN  /\ IsNumeric(ColumnNamed(profile, spec.columns[1]))
              /\ IsCategorical(group)
              /\ spec.groups \subseteq group.values
ValidDecision(decision, profile) ==
    /\ decision.is = "spec" =>
          WellFormed(decision.spec) /\ ValidSpec(decision.spec, profile)
    /\ decision.is = "ask" =>
          (decision.type \in ColumnQuestions =>
              decision.options \subseteq NamesOf(profile))

\* select_analysis_method: the model is asked again after an answer that is not valid or
\* not sure enough, and no more once a request failed.
Accepted(outcome, profile) ==
    outcome.is = "answer" /\ outcome.sure /\ ValidDecision(outcome.decision, profile)
Choose(local, profile, outcomes) ==
    LET ends == {k \in 1 .. MaxRepairs + 1 :
                    outcomes[k].is = "failed" \/ Accepted(outcomes[k], profile)}
        last == CHOOSE k \in ends : \A other \in ends : k <= other
    IN  IF ends = {} \/ outcomes[last].is = "failed" THEN local
        ELSE outcomes[last].decision
-----------------------------------------------------------------------------
(* The dialog                                                              *)

\* What the response handler accepts: one of the options, some of them for the group
\* values, and any text when there are none.
Replies(request, profile) ==
    IF request.type = "group-values" THEN (SUBSET request.options) \ {{}}
    ELSE IF request.options # {} THEN request.options
    ELSE NamesOf(profile) \cup {"else"}

\* answered_scientific_context: the latest answer of each type.
WithAnswer(given, request, reply) ==
    [type \in DOMAIN given \cup {request.type} |-> IF type = request.type THEN reply ELSE given[type]]

\* All the answers that can have been given after at most five questions.
After(all, goal, profile) ==
    all \cup UNION {LET decision == Decide(goal, profile, given)
                    IN  IF decision.is # "ask" THEN {}
                        ELSE {WithAnswer(given, decision, reply) :
                                 reply \in Replies(decision, profile)} : given \in all}
Answers(goal, profile) ==
    LET more(all) == After(all, goal, profile)
    IN  more(more(more(more(more(Given)))))

\* Whatever is answered, a goal that names two methods leaves the method open.
NamesBoth(request, goal) ==
    /\ request.type = "method-confirmation"
    /\ \E methods \in {CorrelationMethods, TwoGroupMethods} :
          methods \subseteq goal.methods \cap request.options
\* What a question can be asked again for: a y column that is the x column's own, some
\* other number of group values than two, a text that names no column.
Useless(request, reply, goal, given, profile) ==
    \/ request.type = "y-column"
         /\ reply = XColumn(Objective(goal, given), profile, given)
    \/ request.type = "group-values" /\ Cardinality(reply) # 2
    \/ request.type \in ColumnQuestions /\ reply \notin NamesOf(profile)
    \/ NamesBoth(request, goal)
\* What can never be answered: a second column where there is no other, values of a
\* column that has no list of two.
Unanswerable(request, goal, given, profile) ==
    \/ request.type = "y-column"
         /\ Replies(request, profile) \cap NamesOf(profile)
               \subseteq {XColumn(Objective(goal, given), profile, given)}
    \/ request.type = "group-values" /\ Cardinality(request.options) < 2
    \/ NamesBoth(request, goal)

\* Every question gets on with the selection: it is asked again only after an answer that
\* is of no use, some answer is of use if one can be, and what is offered exists.  The roles of a
\* specification that was selected without a free text fit their columns.
Settles(goal, profile, given) ==
    LET decision == Decide(goal, profile, given)
        next(reply) == Decide(goal, profile, WithAnswer(given, decision, reply))
        again(reply) == next(reply).is = "ask" /\ next(reply).type = decision.type
        typed == \E type \in DOMAIN given \cap ColumnQuestions :
                    /\ type \in {"outcome-column", "x-column", "y-column"} =>
                          given[type] \notin NumericOf(profile)
                    /\ type = "group-column" => given[type] \notin GroupsOf(profile)
    IN  /\ ValidDecision(decision, profile) \/ typed
        /\ decision.is = "raises" => typed \/ Len(profile.columns) > MaxItems
        /\ decision.is = "ask" =>
              /\ \A reply \in Replies(decision, profile) :
                    again(reply) => Useless(decision, reply, goal, given, profile)
              /\ \/ Unanswerable(decision, goal, given, profile)
                 \/ \E reply \in Replies(decision, profile) :
                       ~Useless(decision, reply, goal, given, profile)

\* The model decides by an answer that is sure and fits the dataset, and by no other, and
\* only while no request failed.
ModelIsChecked(profile) ==
    LET counts == [operation |-> "descriptive", columns |-> <<profile.columns[1].name>>,
                   statistics |-> "counts", plot |-> "none", groups |-> {},
                   method |-> "descriptive", effect |-> "none",
                   policy |-> "report-only", hash |-> profile.hash]
        answer(sure, spec) == [is |-> "answer", sure |-> sure, decision |-> Selected(spec)]
        fit == answer(TRUE, counts)
        outcomes == {fit, answer(FALSE, counts), answer(TRUE, [counts EXCEPT !.hash = Altered]),
                     answer(TRUE, [counts EXCEPT !.columns = Elsewhere]), [is |-> "failed"]}
    IN  \A all \in [1 .. MaxRepairs + 1 -> outcomes] :
           Choose(Unsupported, profile, all) =
              IF /\ ~Repeats(ColumnNames(profile.columns))
                 /\ \E k \in DOMAIN all :
                       all[k] = fit /\ \A j \in 1 .. k - 1 : all[j].is = "answer"
              THEN fit.decision ELSE Unsupported

DialogsSettle ==
    \A profile \in {ProfileOf(table, Rows(table)) : table \in Tables} :
        /\ ModelIsChecked(profile)
        /\ \A goal \in Goals :
              \A given \in Answers(goal, profile) : Settles(goal, profile, given)
=============================================================================

---------------------------- MODULE MCAgentIntake ----------------------------
(* A small instance of AgentIntake, with the questions and the specifications *)
(* it passes on: SpecExecution and MethodSelection over small files, goals    *)
(* and answers.  Without symmetry: its run checks liveness too.               *)
EXTENDS AnalysisPlanning, TLC

Table(header, columns) ==
    [place |-> "inside", kind |-> "regular", links |-> 1, size |-> "fits", moving |-> FALSE,
     hash |-> "h1", nul |-> FALSE, banner |-> FALSE,
     header |-> [i \in DOMAIN header |->
                    [text |-> header[i], stripped |-> header[i], shown |-> header[i]]],
     rows |-> [k \in DOMAIN columns[1] |-> [i \in DOMAIN columns |-> columns[i][k]]]]
-----------------------------------------------------------------------------
(* The dialogs: columns with numbers, with two and three texts, with two texts *)
(* that are shown as one, and with truth values.                               *)

Counts == <<"1", "2", "3", "2">>
Two == <<"x", "x", "y", "y">>
Three == <<"x", "y", "z", "x">>
Columns == {Counts, Two, Three, <<"=a", "'=a", "=a", "=a">>, <<"true", "no", "no", "true">>}
MCTables ==
    {Table(<<"u">>, <<c>>) : c \in Columns}
    \cup {Table(<<"u", "group">>, c) : c \in Columns \X Columns}
    \cup {Table(<<"u", "v", "group">>, <<c, Counts, d>>) :
             c \in {Counts, Three}, d \in Columns}
    \cup {Table(<<"u", "v", "w", "group">>, <<Counts, Counts, Two, Counts>>)}

Mentions == {<<>>, <<"u">>, <<"group">>, <<"u", "v">>, <<"v", "u">>, <<"u", "group">>}
Goal(operations, mentions, methods, trend) ==
    [operations |-> operations, mentions |-> mentions, methods |-> methods, trend |-> trend,
     unsupported |-> FALSE]
MCGoals ==
    {Goal(operations, mentions, {}, <<>>) :
        operations \in {{}, {"descriptive"}, {"descriptive", "correlation"}},
        mentions \in Mentions}
    \cup {Goal({"correlation"}, mentions, methods, <<>>) :
             mentions \in Mentions, methods \in SUBSET {"pearson", "spearman"}}
    \cup {Goal({"correlation"}, mentions, {}, <<"u", "v">>) :
             mentions \in {<<"u", "v">>, <<"v", "u">>}}
    \cup {Goal({"two-group-comparison"}, mentions, methods, <<>>) :
             mentions \in Mentions, methods \in SUBSET {"welch-t-test", "mann-whitney-u"}}
    \cup {[Goal({"descriptive"}, <<>>, {}, <<>>) EXCEPT !.unsupported = TRUE]}

NoAnswer == [type \in {} |-> ""]
MCGiven == {NoAnswer, "method-confirmation" :> "pearson",
            "missing-value-policy" :> "report-only" @@ "independence-assumption" :> "no"}
-----------------------------------------------------------------------------
(* The files: a column that may be measured and one that may tell groups, and  *)
(* two of them with everything that can be wrong with a file.                  *)

Measures == {Counts, <<"1", "01", "1", "1">>, <<"1", "2", "n/a", "3">>, <<"1", "a", "2", "3">>,
             <<"-5", "1", "2", "3">>, <<"", "", "", "">>, <<"2.0", "2", "1", "3">>,
             <<"1", "1", "2", "2">>, <<"1", "", "", "">>, <<"1", "1", "2", "n/a">>}
Factors == {Two, Three, <<"x", "", "y", "y">>, <<"1", "2", "2", "3">>,
            <<"true", "no", "no", "true">>, <<"1", "2", "", "3">>, <<"x", "x", "=a", "=a">>,
            <<"", "x", "x", "y">>}
Odd(file) ==
    {[file EXCEPT !.header[2].text = " g"],
     [file EXCEPT !.header[2] = [text |-> "=g", stripped |-> "=g", shown |-> "'=g"]],
     [file EXCEPT !.header[2] = file.header[1]], [file EXCEPT !.banner = TRUE],
     [file EXCEPT !.rows[3] = <<"3">>], [file EXCEPT !.rows[3] = @ \o <<"1">>],
     [file EXCEPT !.rows = @ \o <<<<"b", "x">>>>], [file EXCEPT !.rows = @ \o <<<<"3", "z">>>>],
     [file EXCEPT !.rows = @ \o <<<<"", "">>>>],
     [file EXCEPT !.moving = TRUE], [file EXCEPT !.nul = TRUE],
     [file EXCEPT !.place = "outside"], [file EXCEPT !.links = 2]}
MCFiles ==
    {Table(<<"a", "g">>, c) : c \in Measures \X Factors}
    \cup UNION {Odd(Table(<<"a", "g">>, <<Counts, f>>)) : f \in {Two, <<"1", "2", "2", "3">>}}
=============================================================================

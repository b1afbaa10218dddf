-------------------------- MODULE AnalysisPlanning --------------------------
(***************************************************************************)
(* The intake of a run together with what it passes on: the questions the  *)
(* selection of a method asks, and the specification the user approves.    *)
(***************************************************************************)
EXTENDS AgentIntake, SpecExecution

\* The user is asked one thing at a time, and every question gets on with the selection of
\* the method (create_scientific_interaction, deterministic_method_selection): it is asked
\* again only after an answer that was of no use, some answer is of use, and the roles of
\* what is selected in the end fit the columns.
QuestionsSettle == OneOpenQuestion /\ DialogsSettle

\* What is shown and approved was drafted with every answer of the user's, and what planning
\* lets through (_validate_selected_analysis_spec) prepares unchanged, runs, counts what was
\* counted before, and passes its review as it is and in no other form, except for what
\* planning does not look at: header cells the profile reads otherwise than pandas, the rows
\* a descriptive profile has not seen, complete pairs that are constant.
PlansExecute == PlanFollowsAnswers /\ SpecsExecute
=============================================================================

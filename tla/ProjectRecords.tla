---------------------------- MODULE ProjectRecords ----------------------------
(***************************************************************************)
(* What a project keeps besides its workflows: the remembered passages and *)
(* the skill made of them, the imported sources, and the rows its windows  *)
(* edit.  The three share a database and nothing else, so a behaviour      *)
(* follows one of them.                                                    *)
(***************************************************************************)
EXTENDS SkillActivation, SourceImport, SharedRecords

VARIABLE part \* which of them this behaviour follows

projectVars == <<part, vars, importVars, sharedVars>>

\* One start stands for all of a part that is not followed.
ProjectInit ==
    /\ part \in {"skill", "import", "rows", "project"}
    /\ Init /\ ImportInit /\ SharedInit
    /\ part # "skill" => kind = "evidence" /\ ~file.dir
    /\ part # "import" => format = "pdf"

ProjectRecordsNext ==
    \/ part = "skill" /\ Next /\ UNCHANGED <<part, importVars, sharedVars>>
    \/ part = "import" /\ ImportNext /\ UNCHANGED <<part, vars, sharedVars>>
    \/ part = "rows" /\ RowsNext /\ UNCHANGED <<part, vars, importVars>>
    \/ part = "project" /\ ProjectNext /\ UNCHANGED <<part, vars, importVars>>

ProjectSpec ==
    /\ ProjectInit /\ [][ProjectRecordsNext]_projectVars
    /\ \A t \in Clients : WF_vars(part = "skill" /\ Serve(t))
-----------------------------------------------------------------------------
\* However uploads overlap, fail and are interrupted, row, managed file and attachment of an
\* imported source agree (see SourceImport).
LibraryAgrees == ImportTypeOK /\ ReadyHasItsFile /\ NothingIsLeft /\ OneRowEach

\* However windows overlap, no edit of the project's rows is lost or recorded twice (see
\* SharedRecords).
EditsAreKept == RowsTypeOK /\ ProjectTypeOK /\ NoEditIsLost /\ ExclusionHolds /\ ChangesAreRecorded
=============================================================================

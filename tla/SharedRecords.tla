----------------------------- MODULE SharedRecords -----------------------------
(***************************************************************************)
(* What a user curates in a project from several windows: the screening of *)
(* a ready source, the triage of a candidate, the direction of an answer's *)
(* evidence, one cell of the literature matrix with the briefs frozen from *)
(* it (api/), and the project's own title and archive state (app.py).      *)
(*                                                                         *)
(* An edit names the version its window showed.  The requests of api/      *)
(* begin with SQLite's write lock and are one action; a mutation of the    *)
(* project reads first and writes in a second step.  A write is known by   *)
(* its number, which stands for its content; a record has the number of    *)
(* the write that created it as its id.                                    *)
(***************************************************************************)
EXTENDS Naturals

CONSTANTS Windows,      \* windows that show and edit the records
          Judgments,    \* the judgments followed beside the cell
          MutationKeys, \* idempotency keys of the project's mutations
          Titles,       \* titles a project may be given
          MaxWrites     \* bounds the writes

ASSUME SharedAssumption ==
    /\ {"screening"} \subseteq Judgments /\ Judgments \subseteq {"screening", "triage", "direction"}
    /\ Titles # {} /\ MaxWrites \in Nat

VARIABLES
    record,   \* the versioned rows
    project,  \* the project's row
    shown,    \* what each window shows of the rows
    page,     \* what each window shows of the project
    mutation, \* what a request has read that is about to change the project
    events,   \* the mutations that were recorded, with their results
    briefs,   \* the cells that cited briefs were frozen from
    unseen,   \* history: what a window showed of a row when it replaced another one
    writes

sharedVars == <<record, project, shown, page, mutation, events, briefs, unseen, writes>>

Rows == Judgments \cup {"cell"}
\* What later steps ask of a row's content: a screening that excludes, and a cell that is
\* confirmed and cites evidence.
Values == [screening |-> {"include", "exclude"}, triage |-> {"judged"},
           direction |-> {"judged"}, cell |-> {"noted", "cited"}]
Absent == [id |-> 0, ver |-> 0, by |-> 0, val |-> "none"]
NoMutation == [op |-> "none", key |-> "none", ver |-> 0, title |-> "none", changes |-> FALSE]

SharedInit ==
    /\ record = [k \in Rows |-> Absent] /\ shown = [t \in Windows |-> [k \in Rows |-> Absent]]
    /\ project = [ver |-> 1, title |-> CHOOSE title \in Titles : TRUE, archived |-> FALSE]
    /\ page = [t \in Windows |-> project]
    /\ mutation = [t \in Windows |-> NoMutation] /\ events = {}
    /\ briefs = {} /\ unseen = {} /\ writes = 0

-----------------------------------------------------------------------------
(* Judgments and the literature matrix. *)

Show(t, k) ==
    /\ shown[t][k] # record[k] /\ shown' = [shown EXCEPT ![t][k] = record[k]]
    /\ UNCHANGED <<record, project, page, mutation, events, briefs, unseen, writes>>

\* A row that is not there is expected to have version 0, and starts with version 1.
CurrentMut(t, k) == (record[k].ver = 0) <=> (shown[t][k].ver = 0)
Current(t, k) == record[k].ver = shown[t][k].ver

Replaces(t, k) ==
    unseen' = IF shown[t][k] = record[k] THEN unseen
              ELSE unseen \cup {[row |-> k, shown |-> shown[t][k], was |-> record[k]]}

Upsert(t, k, v) ==
    LET new == [id |-> IF record[k] = Absent THEN writes + 1 ELSE record[k].id,
                ver |-> record[k].ver + 1, by |-> writes + 1, val |-> v]
    IN  /\ writes < MaxWrites /\ writes' = writes + 1
        /\ Current(t, k) /\ Replaces(t, k)
        /\ record' = [record EXCEPT ![k] = new]
        /\ shown' = [shown EXCEPT ![t][k] = new]

Decide(t, k, v) ==
    /\ Upsert(t, k, v)
    /\ UNCHANGED <<project, page, mutation, events, briefs>>

\* An excluded source receives no new cells.
FillCellMut(t, v) ==
    /\ Upsert(t, "cell", v)
    /\ UNCHANGED <<project, page, mutation, events, briefs>>
FillCell(t, v) ==
    /\ record["screening"].val # "exclude" /\ Upsert(t, "cell", v)
    /\ UNCHANGED <<project, page, mutation, events, briefs>>

\* The row is deleted; the next one starts with version 1 again.
ClearCell(t) ==
    /\ record["cell"] # Absent /\ Current(t, "cell") /\ Replaces(t, "cell")
    /\ record' = [record EXCEPT !["cell"] = Absent]
    /\ shown' = [shown EXCEPT ![t]["cell"] = Absent]
    /\ UNCHANGED <<project, page, mutation, events, briefs, writes>>

\* Confirmed, with evidence that still verifies.
Citable(cell) == cell.val = "cited"

\* The brief is known by the cells it was frozen from; whether the source has been
\* excluded since is not asked.
WriteBrief ==
    /\ Citable(record["cell"]) /\ record["cell"] \notin briefs
    /\ briefs' = briefs \cup {record["cell"]}
    /\ UNCHANGED <<record, project, shown, page, mutation, events, unseen, writes>>

-----------------------------------------------------------------------------
(* Mutations of the project: rename, archive, restore. *)

ShowProject(t) ==
    /\ page[t] # project /\ page' = [page EXCEPT ![t] = project]
    /\ UNCHANGED <<record, project, shown, mutation, events, briefs, unseen, writes>>

Recorded(op, key) == \E e \in events : e.op = op /\ e.key = key

\* What the request finds: a mutation it has recorded before is answered from there, and
\* another version than the window's is refused; both leave no trace, and so does the
\* refusal to archive a project with running workflows.
AskMutation(t, op, key, title) ==
    /\ mutation[t] = NoMutation /\ ~Recorded(op, key)
    /\ page[t].ver = project.ver
    /\ mutation' = [mutation EXCEPT ![t] =
          [op |-> op, key |-> key, ver |-> project.ver, title |-> title,
           changes |-> CASE op = "rename" -> project.title # title
                         [] op = "archive" -> ~project.archived
                         [] op = "restore" -> project.archived]]
    /\ UNCHANGED <<record, project, shown, page, events, briefs, unseen, writes>>

\* The update compares the version once more; a mutation that changes nothing is only
\* recorded, with the project as it was when it was read.
UnchangedSinceMut(t) == TRUE
UnchangedSince(t) == mutation[t].changes => project.ver = mutation[t].ver

ApplyMutation(t) ==
    LET m == mutation[t]
    IN  /\ m # NoMutation /\ UnchangedSince(t) /\ writes < MaxWrites /\ writes' = writes + 1
        /\ project' =
              IF ~m.changes THEN project
              ELSE [ver |-> project.ver + 1,
                    title |-> IF m.op = "rename" THEN m.title ELSE project.title,
                    archived |-> IF m.op = "rename" THEN project.archived ELSE m.op = "archive"]
        /\ events' = events \cup {[op |-> m.op, key |-> m.key, n |-> writes + 1, from |-> m.ver,
                                   title |-> m.title, changes |-> m.changes]}
        /\ page' = [page EXCEPT ![t] = project']
        /\ mutation' = [mutation EXCEPT ![t] = NoMutation]
        /\ UNCHANGED <<record, shown, briefs, unseen>>

RefuseMutation(t) ==
    /\ mutation[t] # NoMutation /\ ~UnchangedSince(t)
    /\ mutation' = [mutation EXCEPT ![t] = NoMutation]
    /\ UNCHANGED <<record, project, shown, page, events, briefs, unseen, writes>>

Mutations == {"archive", "restore"} \X {"none"} \cup {"rename"} \X Titles

RowsNext ==
    \/ \E t \in Windows :
          \/ \E k \in Rows : Show(t, k)
          \/ \E k \in Judgments : \E v \in Values[k] : Decide(t, k, v)
          \/ \E v \in Values["cell"] : FillCell(t, v)
          \/ ClearCell(t)
    \/ WriteBrief

ProjectNext ==
    \E t \in Windows :
       \/ ShowProject(t) \/ ApplyMutation(t) \/ RefuseMutation(t)
       \/ \E m \in Mutations, key \in MutationKeys : AskMutation(t, m[1], key, m[2])

SharedNext == RowsNext \/ ProjectNext
-----------------------------------------------------------------------------
ContentOf(k) == Values[k] \cup {"none"}
RowsOf(k) == [id : Nat, ver : Nat, by : Nat, val : ContentOf(k)]
Projects == [ver : Nat \ {0}, title : Titles, archived : BOOLEAN]

RowsTypeOK ==
    /\ DOMAIN record = Rows /\ \A k \in Rows : record[k] \in RowsOf(k)
    /\ DOMAIN shown = Windows
    /\ \A t \in Windows : DOMAIN shown[t] = Rows /\ \A k \in Rows : shown[t][k] \in RowsOf(k)
    /\ briefs \subseteq RowsOf("cell") /\ writes \in Nat
    /\ \A u \in unseen : u.row \in Rows /\ u \in [row : Rows, shown : RowsOf(u.row), was : RowsOf(u.row)]

ProjectTypeOK ==
    /\ project \in Projects /\ page \in [Windows -> Projects] /\ writes \in Nat
    /\ mutation \in [Windows -> [op : {"none", "rename", "archive", "restore"},
                                 key : MutationKeys \cup {"none"}, ver : Nat,
                                 title : Titles \cup {"none"}, changes : BOOLEAN]]
    /\ events \subseteq [op : {"rename", "archive", "restore"}, key : MutationKeys, n : Nat,
                         from : Nat, title : Titles \cup {"none"}, changes : BOOLEAN]

\* No edit takes the place of one its window did not show: whoever shows the version of a
\* row shows its content, except where the cell was deleted and made again meanwhile,
\* which starts with version 1 once more.
NoEditIsLost ==
    /\ \A t \in Windows, k \in Rows :
          shown[t][k].ver = record[k].ver =>
              shown[t][k] = record[k] \/ (k = "cell" /\ shown[t][k].id # record[k].id)
    /\ \A u \in unseen : u.row = "cell" /\ u.shown.id # u.was.id

\* Nothing is filled in for a source after it was excluded, whoever excluded it; and a
\* brief stays what its cell said: a cell of that version says the same.
ExclusionHolds ==
    /\ record["screening"].val = "exclude" => record["cell"].by < record["screening"].by
    /\ \A b \in briefs : b.id = record["cell"].id /\ b.ver = record["cell"].ver => b = record["cell"]

\* Every change of the project is one recorded mutation that read the version it changed,
\* and one key changes it at most once.
ChangesAreRecorded ==
    LET changed == {e \in events : e.changes}
    IN  /\ \A e \in changed : e.from \in 1 .. project.ver - 1
        /\ \A v \in 1 .. project.ver - 1 : \E e \in changed : e.from = v
        /\ \A e, f \in changed : e.from = f.from \/ (e.op = f.op /\ e.key = f.key) => e = f
=============================================================================

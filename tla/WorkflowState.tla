--------------------------- MODULE WorkflowState ---------------------------
(***************************************************************************)
(* The two status tables of the research workflow aggregate                *)
(* (workflow/state.py): which status a workflow, and which status a task,  *)
(* may move to.  Every write of a status goes through transition_workflow  *)
(* or transition_task, which consult these tables, except the bulk         *)
(* cancellation of tasks and the settlement of a retryable failure.        *)
(***************************************************************************)

WorkflowStatuses ==
    {"routing", "waiting-clarification", "planning", "waiting-plan-approval",
     "running", "reviewing", "blocked", "failed", "completed",
     "unsupported", "cancelled"}

TaskStatuses ==
    {"pending", "queued", "running", "waiting-approval", "failed", "blocked",
     "completed", "cancelled"}

\* The statuses the worker never claims from and the sweep never revisits.
WorkflowTerminal == {"completed", "unsupported", "cancelled"}

WorkflowTransitions ==
    [routing |-> {"waiting-clarification", "planning", "unsupported", "failed",
                  "cancelled"},
     waiting_clarification |-> {"routing", "planning", "running", "reviewing",
                                "unsupported", "cancelled"},
     planning |-> {"routing", "waiting-plan-approval", "blocked", "failed",
                   "cancelled"},
     waiting_plan_approval |-> {"routing", "running", "blocked", "cancelled"},
     running |-> {"waiting-clarification", "reviewing", "blocked", "failed",
                  "cancelled"},
     reviewing |-> {"waiting-clarification", "completed", "blocked", "failed",
                    "cancelled"},
     blocked |-> {"waiting-clarification", "planning", "running", "cancelled"},
     failed |-> {"routing", "waiting-clarification", "planning", "running",
                 "reviewing", "cancelled"},
     completed |-> {}, unsupported |-> {}, cancelled |-> {}]

WorkflowRow(status) ==
    CASE status = "waiting-clarification" -> "waiting_clarification"
      [] status = "waiting-plan-approval" -> "waiting_plan_approval"
      [] OTHER -> status

\* transition_workflow: staying put is a silent no-op, anything else must be
\* in the table.
WorkflowMayMove(current, target) ==
    \/ current = target
    \/ target \in WorkflowTransitions[WorkflowRow(current)]

TaskTransitions ==
    [pending |-> {"queued", "waiting-approval", "cancelled"},
     queued |-> {"running", "failed", "blocked", "cancelled"},
     running |-> {"completed", "failed", "blocked", "cancelled"},
     waiting_approval |-> {"queued", "blocked", "cancelled"},
     failed |-> {"queued", "waiting-approval", "blocked", "cancelled"},
     blocked |-> {"queued", "cancelled"},
     completed |-> {}, cancelled |-> {}]

TaskRow(status) ==
    IF status = "waiting-approval" THEN "waiting_approval" ELSE status

TaskMayMove(current, target) ==
    \/ current = target
    \/ target \in TaskTransitions[TaskRow(current)]

\* The task statuses every bulk cancellation overwrites with "cancelled"; the
\* statement is a plain UPDATE, without the revision check of transition_task.
TaskCancellable ==
    {"pending", "queued", "running", "waiting-approval", "blocked", "failed"}
=============================================================================

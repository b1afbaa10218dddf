---------------------------- MODULE StepPipeline ----------------------------
(***************************************************************************)
(* What a research workflow promises its user, without jobs, leases,       *)
(* workers or row versions: a plan is offered and accepted once, its steps *)
(* are completed once each and in order, a review of all of them decides,  *)
(* work that stopped is taken up where it stopped, and a cancellation, once *)
(* asked for, is the only thing that can still happen.                     *)
(***************************************************************************)
EXTENDS Naturals

CONSTANT N     \* number of steps

VARIABLES
    phase,     \* what the workflow waits for
    accepted,  \* the user accepted the plan
    done,      \* completed steps
    flag       \* cancellation asked for

pipeline == <<phase, accepted, done, flag>>

Working == {"planning", "working", "reviewing"}
Over    == {"completed", "cancelled"}

PInit ==
    /\ phase = "planning"
    /\ accepted = FALSE
    /\ done = 0
    /\ flag = FALSE

\* The phase that has the next thing to do.
Due == CASE ~accepted -> "planning"
         [] accepted /\ done < N -> "working"
         [] OTHER -> "reviewing"

Offer ==
    /\ phase = "planning" /\ ~flag
    /\ phase' = "offered"
    /\ UNCHANGED <<accepted, done, flag>>

Accept ==
    /\ phase = "offered" /\ ~flag /\ ~accepted
    /\ phase' = "working"
    /\ accepted' = TRUE
    /\ UNCHANGED <<done, flag>>

CompleteStep ==
    /\ phase = "working" /\ ~flag /\ done < N
    /\ done' = done + 1
    /\ phase' = IF done' = N THEN "reviewing" ELSE phase
    /\ UNCHANGED <<accepted, flag>>

\* The verdict; a verdict that asks for a revision stops the workflow.
Judge ==
    /\ phase = "reviewing" /\ ~flag /\ done = N
    /\ phase' = "completed"
    /\ UNCHANGED <<accepted, done, flag>>

Stop ==
    /\ phase \in Working /\ ~flag
    /\ phase' = "stopped"
    /\ UNCHANGED <<accepted, done, flag>>

\* Work is taken up where it stopped: nothing is redone and nothing skipped.
Reopen ==
    /\ phase = "stopped" /\ ~flag
    /\ phase' = Due
    /\ UNCHANGED <<accepted, done, flag>>

Cancel ==
    /\ flag /\ phase \notin Over
    /\ phase' = "cancelled"
    /\ UNCHANGED <<accepted, done, flag>>

\* Asking cancels at once when nothing is under way.
AskToCancel ==
    /\ ~flag /\ phase \notin Over
    /\ flag' = TRUE
    /\ phase' \in {phase, "cancelled"}
    /\ UNCHANGED <<accepted, done>>

PNext == Offer \/ Accept \/ CompleteStep \/ Judge \/ Stop \/ Reopen \/ Cancel
            \/ AskToCancel

PSpec == PInit /\ [][PNext]_pipeline
=============================================================================

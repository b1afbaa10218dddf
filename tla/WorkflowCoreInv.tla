--------------------------- MODULE WorkflowCoreInv ---------------------------
(***************************************************************************)
(* The inductive invariant of WorkflowCore: PhaseHasItsJob and             *)
(* StepsInOrder, what the rows say about each other besides, and what a    *)
(* thread or a request may still believe when it comes to write.           *)
(***************************************************************************)
EXTENDS WorkflowCore

Working == {"planning", "running", "reviewing"}

\* The plan stands between planning and the steps.
PlanGate ==
    /\ wf.status = "planning" => plan # "approved"
    /\ wf.status = "waiting-plan-approval" => plan = "pending"
    /\ wf.status \in {"running", "reviewing"} => plan = "approved"
    /\ wf.status = "failed" /\ lastFailed.op = PlanOp => plan # "approved"
    /\ plan # "approved" => \A i \in TaskOps : task[i] = [st |-> "absent", ver |-> 0]

\* An operation that has not come up has no job, so that enqueueing its first
\* attempt never finds an old one.
NoEarlyJob ==
    /\ \A i \in TaskOps : task[i].st \in {"absent", "pending"} => job[i].att = 0
    /\ job[ReviewOp].att > 0 => \A i \in TaskOps : task[i].st = "completed"
    /\ \A op \in Ops : Active(job[op]) => job[op].att > 0

\* A cancellation waits only for a job that is still active.
CancelWaitsForJob == wf.cancel => wf.status \in Working \cup {"cancelled"}

\* What was read is what is there, or the revision has moved on.
Current(r) ==
    /\ r.rev <= wf.rev
    /\ r.rev = wf.rev => r.st = wf.status /\ r.cancel = wf.cancel

\* A thread about to settle, start or publish read the phase of its own job.
HandlerSound(w) ==
    LET l == loc[w] IN
    pc[w] \in {"settling", "starting", "executing"} =>
        /\ Current(l)
        /\ l.st = PhaseOf(l.op)
        /\ l.op \in TaskOps => l.tst \in {"queued", "running"}
        /\ pc[w] = "starting" /\ ~l.cancel => l.op \in TaskOps /\ l.tst = "queued"
        /\ pc[w] = "executing" /\ ~l.cancel /\ l.op \in TaskOps => l.tst = "running"

\* A sweep that can still succeed finds no leased job.
SweepSound(w) ==
    pc[w] = "sweeping" =>
        /\ Current(loc[w]) /\ loc[w].cancel
        /\ loc[w].st \notin WorkflowTerminal
        /\ loc[w].rev = wf.rev => NoneLeased

\* A claim that can still succeed is of a workflow without a cancel flag.
ClaimSound(w) ==
    LET j == job[loc[w].op] IN
    pc[w] = "claiming" =>
        /\ loc[w].att > 0 /\ loc[w].att <= j.att
        /\ j.att = loc[w].att /\ j.st = "queued" => ~wf.cancel

\* The startup scan never gets to block a step that still has its job.
OrphanSound(w) ==
    LET l == loc[w] IN
    pc[w] \in {"orphaned", "blocking"} =>
        /\ l.op \in TaskOps /\ plan = "approved" /\ l.tst = "running"
        /\ l.tver <= task[l.op].ver
        /\ l.tver = task[l.op].ver => task[l.op].st \in {"running", "cancelled"}
        /\ pc[w] = "blocking" =>
              /\ l.st = "running"
              /\ l.tver < task[l.op].ver \/ task[l.op].st = "cancelled"

RequestSound(c) ==
    LET r == req[c] IN
    r.kind # "none" =>
        /\ Current(r)
        /\ r.kind = "approve" => r.st = "waiting-plan-approval"
        /\ r.kind = "cancel" => /\ r.st \notin WorkflowTerminal
                                /\ r.cancel /\ r.rev = wf.rev => NoneLeased
        /\ r.kind = "retry" => /\ r.st = "failed" /\ r.att > 0
                               /\ r.rev = wf.rev => r.op = lastFailed.op
        /\ r.kind = "resume" => r.st = "blocked" /\ r.op = 1

RowsAgree ==
    PhaseHasItsJob /\ StepsInOrder /\ PlanGate /\ NoEarlyJob /\ CancelWaitsForJob

ThreadSound(w) == HandlerSound(w) /\ SweepSound(w) /\ ClaimSound(w) /\ OrphanSound(w)

\* A thread that comes to write believes nothing about its job, its phase or a
\* cancellation that its comparisons would not catch.
IInv ==
    /\ TypeOK
    /\ RowsAgree
    /\ \A w \in Workers : ThreadSound(w)
    /\ \A c \in Clients : RequestSound(c)
=============================================================================

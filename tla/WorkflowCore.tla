---------------------------- MODULE WorkflowCore ----------------------------
(***************************************************************************)
(* One manual literature workflow of science-core and everything that      *)
(* writes its rows: the durable worker loop (workflow/worker.py), the      *)
(* settlement of its jobs (workflow/_handlers/lifecycle.py) and the user's *)
(* requests (workflow/_service/lifecycle.py).                              *)
(*                                                                         *)
(* The rows live in SQLite.  pysqlite opens a transaction only at the      *)
(* first INSERT or UPDATE, so everything a handler SELECTs before it is    *)
(* a snapshot that any other connection may overtake, and everything from  *)
(* the first write to the commit is one step.  Hence a read action that    *)
(* fills loc[w] (or req[c]) and a write action guarded by the handler's    *)
(* compare-and-swap conditions; a failed comparison rolls everything back. *)
(*                                                                         *)
(* Processes: one science-core process runs the worker loop.  A process    *)
(* that is shutting down may leave a handler thread behind (mode           *)
(* "draining") while the next process already starts, which is why Workers *)
(* has more than one member.  uuid tokens are abstracted to the name of    *)
(* the worker that drew them: a worker drops one before it draws the next. *)
(***************************************************************************)
EXTENDS Integers, FiniteSets, WorkflowState

CONSTANTS
    Steps,           \* number of steps of the approved plan (3 in the template)
    MaxJobAttempts,  \* MAX_JOB_ATTEMPTS of integrity.py
    Workers,         \* worker processes, at most one of them not draining
    NoWorker,
    Clients,         \* concurrent HTTP requests
    Keys,            \* Idempotency-Keys the user draws
    NoKey,
    MaxRequests,     \* bound: user requests in a behaviour
    MaxStops         \* bound: crashes, shutdowns and database faults in a behaviour

ASSUME StepsAssumption == Steps \in Nat \ {0}
ASSUME AttemptsAssumption == MaxJobAttempts \in Nat \ {0}
ASSUME BoundsAssumption == MaxRequests \in Nat /\ MaxStops \in Nat
ASSUME NamesAssumption == NoWorker \notin Workers /\ NoKey \notin Keys

\* A job is known by its operation: the plan, one step, or the review.
PlanOp   == 0
TaskOps  == 1..Steps
ReviewOp == Steps + 1
Ops      == 0..(Steps + 1)

VARIABLES
    wf,          \* workflow row: status, row_version, cancel flag, blocking code
    plan,        \* newest plan row: "none", "pending" or "approved"
    task,        \* task rows by order_index: status and row_version
    job,         \* the newest attempt of every operation
    lastFailed,  \* the failed job with the greatest finished_at
    pdf,         \* the project holds a ready PDF
    usedKeys,    \* request_idempotency_keys in the job table
    mode,        \* "down", "booting", "looping" or "draining"
    pc,          \* where the worker's thread is
    loc,         \* what the thread has read
    req,         \* what a request handler has read
    asked,       \* requests so far (bounded by MaxRequests)
    stops        \* crashes, shutdowns and faults so far (bounded by MaxStops)

rows  == <<wf, plan, task, job, lastFailed, pdf, usedKeys>>
procs == <<mode, pc, loc>>
users == <<req, asked>>
vars  == <<wf, plan, task, job, lastFailed, pdf, usedKeys, mode, pc, loc,
           req, asked, stops>>

-----------------------------------------------------------------------------
(* Rows and the primitive writes. *)

Phases       == {"planning", "waiting-plan-approval", "running", "reviewing",
                 "blocked", "failed", "completed", "cancelled"}
JobStatuses  == {"absent", "queued", "leased", "succeeded", "failed", "cancelled"}
BlockCodes   == {"none", "no-ready-pdf", "other", "review-required",
                 "orphan-running-task"}
PlanStatuses == {"none", "pending", "approved"}

NoJob == [att |-> 0, st |-> "absent", tok |-> NoWorker, exp |-> FALSE,
          key |-> NoKey]
\* Mutant: the new row keeps a status no claim looks for.
QueuedMut(att, key) == [NoJob EXCEPT !.att = att, !.st = "pending", !.key = key]
Queued(att, key) == [NoJob EXCEPT !.att = att, !.st = "queued", !.key = key]
Active(j) == j.st \in {"queued", "leased"}

\* finish_job's WHERE clause: this attempt is leased under this token.
\* Mutant: finish_job without the token.
HoldsMut(w, op, att) == job[op].att = att /\ job[op].st = "leased"
Holds(w, op, att) == job[op].att = att /\ job[op].st = "leased" /\ job[op].tok = w

Finished(jobs, op, status) ==
    [jobs EXCEPT ![op].st = status, ![op].tok = NoWorker, ![op].exp = FALSE]

\* enqueue_job: an attempt that exists is returned as it is.  A second active
\* job of the operation would violate uq_workflow_job_active_operation.
CanEnqueue(jobs, op, att) == jobs[op].att >= att \/ ~Active(jobs[op])
Enqueued(jobs, op, att, key) ==
    IF jobs[op].att >= att THEN jobs ELSE [jobs EXCEPT ![op] = Queued(att, key)]

CancelQueued(jobs) ==
    [op \in Ops |-> IF jobs[op].st = "queued"
                    THEN [jobs[op] EXCEPT !.st = "cancelled"] ELSE jobs[op]]
\* Mutant: the bulk UPDATE forgets the steps that failed.
CancelTasksMut(tasks) ==
    [i \in TaskOps |-> IF tasks[i].st \in TaskCancellable \ {"failed"}
                       THEN [tasks[i] EXCEPT !.st = "cancelled"] ELSE tasks[i]]
CancelTasks(tasks) ==
    [i \in TaskOps |-> IF tasks[i].st \in TaskCancellable
                       THEN [tasks[i] EXCEPT !.st = "cancelled"] ELSE tasks[i]]

\* transition_task and transition_workflow: the comparison and the new row.
\* Mutant: transition_task compares the revision but not the status.
TaskSwapsMut(i, st, ver, target) == TaskMayMove(st, target) /\ task[i].ver = ver
TaskSwaps(i, st, ver, target) ==
    /\ TaskMayMove(st, target)
    /\ task[i].st = st /\ task[i].ver = ver
TaskMoved(tasks, i, target) ==
    [tasks EXCEPT ![i] = [st |-> target, ver |-> @.ver + 1]]

WorkflowSwaps(st, rev, target) ==
    /\ WorkflowMayMove(st, target)
    /\ st = target \/ (wf.status = st /\ wf.rev = rev)
WorkflowMoved(row, target, code) ==
    IF row.status = target THEN row
    ELSE [status |-> target, rev |-> row.rev + 1, cancel |-> row.cancel,
          code |-> IF target = "blocked" THEN code ELSE "none"]

\* Mutant: cancellation does not look for a leased job.
NoneLeasedMut == TRUE
NoneLeased == \A op \in Ops : job[op].st # "leased"
TaskSt(op) == IF op \in TaskOps THEN task[op].st ELSE "absent"
TaskVer(op) == IF op \in TaskOps THEN task[op].ver ELSE 0

-----------------------------------------------------------------------------
(* The worker's thread: where it stands and what it has read. *)

Labels == {"down", "recover", "next", "settle", "settling", "sweep", "sweeping",
           "orphan", "orphaned", "blocking", "claim", "claiming", "start",
           "starting", "exec", "executing"}

\* How a handler ended; a member of Blockers is a WorkflowBlockedError.
Blockers == {"no-ready-pdf", "other"}
Errors   == {"none", "expired", "retryable", "fatal"} \cup Blockers

NoLoc == [op |-> 0, att |-> 0, rev |-> 0, st |-> "planning", cancel |-> FALSE,
          tst |-> "absent", tver |-> 0, err |-> "none", back |-> "pass",
          todo |-> {}]

\* The rows a handler reads before its first write.
Snapshot(l) == [l EXCEPT !.rev = wf.rev, !.st = wf.status, !.cancel = wf.cancel,
                         !.tst = TaskSt(l.op), !.tver = TaskVer(l.op)]

\* The claimed job, and nothing read about it.
JobOnly(l) == [NoLoc EXCEPT !.op = l.op, !.att = l.att]

Goto(w, label) == pc' = [pc EXCEPT ![w] = label]

\* run_once returns or an exception leaves it: the loop goes round, a process
\* that is stopping ends, and a process whose recover() raised never starts.
Leave(w) ==
    /\ mode' = [mode EXCEPT ![w] = IF @ = "looping" THEN @ ELSE "down"]
    /\ Goto(w, IF mode[w] = "looping" THEN "recover" ELSE "down")
    /\ loc' = [loc EXCEPT ![w] = NoLoc]

\* _settle_error returned: to the next expired job, or to the end of run_once.
Settled(w) ==
    IF loc[w].back = "recover"
    THEN /\ Goto(w, "next")
         /\ loc' = [loc EXCEPT ![w] = [NoLoc EXCEPT !.todo = loc[w].todo]]
         /\ UNCHANGED mode
    ELSE Leave(w)

\* _mark_started or _execute raised: run_once hands the error to settlement.
Raise(w, err) ==
    /\ Goto(w, "settle")
    /\ loc' = [loc EXCEPT ![w] = [JobOnly(@) EXCEPT !.err = err]]
    /\ UNCHANGED <<rows, mode>>

\* acknowledge_cancellation: the job, then every queued job, every open task
\* and the workflow, or nothing at all.
CanAcknowledge(w) ==
    /\ Holds(w, loc[w].op, loc[w].att)
    /\ WorkflowSwaps(loc[w].st, loc[w].rev, "cancelled")
Acknowledge(w) ==
    /\ job' = CancelQueued(Finished(job, loc[w].op, "cancelled"))
    /\ task' = CancelTasks(task)
    /\ wf' = WorkflowMoved(wf, "cancelled", "none")
    /\ UNCHANGED <<plan, lastFailed, pdf, usedKeys>>

-----------------------------------------------------------------------------
(* _recover_expired_jobs *)

\* Mutant: recovery runs at startup only.
RecoverExpiredMut(w) ==
    /\ pc[w] = "recover" /\ mode[w] # "draining"
    /\ Goto(w, "sweep")
    /\ UNCHANGED <<rows, mode, loc, users, stops>>

\* One transaction draws a new token for every expired lease; the lease stays
\* expired, so a pass that dies before it settles them is repeated.
RecoverExpired(w) ==
    LET due == {op \in Ops : job[op].st = "leased" /\ job[op].exp} IN
    /\ pc[w] = "recover" /\ mode[w] # "draining"
    /\ job' = [op \in Ops |-> IF op \in due THEN [job[op] EXCEPT !.tok = w]
                                            ELSE job[op]]
    /\ loc' = [loc EXCEPT ![w].todo = {<<op, job[op].att>> : op \in due}]
    /\ Goto(w, IF due = {} THEN "sweep" ELSE "next")
    /\ UNCHANGED <<wf, plan, task, lastFailed, pdf, usedKeys, mode, users, stops>>

SettleNextExpired(w) ==
    /\ pc[w] = "next"
    /\ \/ /\ loc[w].todo = {}
          /\ Goto(w, "sweep")
          /\ UNCHANGED loc
       \/ \E t \in loc[w].todo :
             /\ Goto(w, "settle")
             /\ loc' = [loc EXCEPT ![w] = [NoLoc EXCEPT
                           !.op = t[1], !.att = t[2], !.err = "expired",
                           !.back = "recover", !.todo = loc[w].todo \ {t}]]
    /\ UNCHANGED <<rows, mode, users, stops>>

-----------------------------------------------------------------------------
(* settle_leased_job_error *)

\* A lost lease is left to its new holder.  A job whose inputs changed while
\* its lease ran out fails for good instead of being tried again.
SettleRead(w) ==
    /\ pc[w] = "settle"
    /\ IF Holds(w, loc[w].op, loc[w].att)
       THEN /\ \E err \in IF loc[w].err = "expired" THEN {"retryable", "fatal"}
                                                    ELSE {loc[w].err} :
                  loc' = [loc EXCEPT ![w] = [Snapshot(@) EXCEPT !.err = err]]
            /\ Goto(w, "settling")
            /\ UNCHANGED mode
       ELSE Settled(w)
    /\ UNCHANGED <<rows, users, stops>>

\* Mutant: one attempt too many.
RetriesMut(w) == loc[w].err = "retryable" /\ loc[w].att <= MaxJobAttempts
Retries(w) == loc[w].err = "retryable" /\ loc[w].att < MaxJobAttempts
Fails(w)   == ~Retries(w) /\ loc[w].err \notin Blockers

\* Where the task goes when the step is blocked or fails for good.
\* Mutant: the task of a failed job is left as it is.
TaskStopsMut(w, target) == task
TaskStops(w, target) ==
    IF loc[w].tst \in {"queued", "running"}
    THEN TaskMoved(task, loc[w].op, target) ELSE task
CanStop(w, phase) ==
    /\ Holds(w, loc[w].op, loc[w].att)
    /\ loc[w].tst \in {"queued", "running"} =>
          TaskSwaps(loc[w].op, loc[w].tst, loc[w].tver, phase)
    /\ WorkflowSwaps(loc[w].st, loc[w].rev, phase)

\* The retry writes "failed" over a running task without comparing and then
\* compares the revision only; neither the workflow's revision nor its
\* cancel flag is looked at.
CanRetry(w) ==
    /\ Holds(w, loc[w].op, loc[w].att)
    /\ loc[w].tst = "running" => task[loc[w].op].ver = loc[w].tver
    /\ CanEnqueue(Finished(job, loc[w].op, "failed"), loc[w].op, loc[w].att + 1)

JobFails(w) == Finished(job, loc[w].op, "failed")
ThisJob(w)  == [op |-> loc[w].op, att |-> loc[w].att]

SettleCancelled(w) ==
    /\ loc[w].cancel /\ CanAcknowledge(w)
    /\ Acknowledge(w)

SettleRetry(w) ==
    /\ ~loc[w].cancel /\ Retries(w) /\ CanRetry(w)
    /\ job' = Enqueued(JobFails(w), loc[w].op, loc[w].att + 1, NoKey)
    /\ task' = IF loc[w].tst = "running" THEN TaskMoved(task, loc[w].op, "queued")
                                         ELSE task
    /\ lastFailed' = ThisJob(w)
    /\ UNCHANGED <<wf, plan, pdf, usedKeys>>

SettleBlocked(w) ==
    /\ ~loc[w].cancel /\ loc[w].err \in Blockers /\ CanStop(w, "blocked")
    /\ job' = JobFails(w)
    /\ task' = TaskStops(w, "blocked")
    /\ wf' = WorkflowMoved(wf, "blocked", loc[w].err)
    /\ lastFailed' = ThisJob(w)
    /\ UNCHANGED <<plan, pdf, usedKeys>>

SettleFailed(w) ==
    /\ ~loc[w].cancel /\ Fails(w) /\ CanStop(w, "failed")
    /\ job' = JobFails(w)
    /\ task' = TaskStops(w, "failed")
    /\ wf' = WorkflowMoved(wf, "failed", "none")
    /\ lastFailed' = ThisJob(w)
    /\ UNCHANGED <<plan, pdf, usedKeys>>

\* The row a settlement compares with has moved: everything rolls back, the
\* exception leaves run_once and the job stays leased until it expires.
SettleConflict(w) ==
    /\ \/ loc[w].cancel /\ ~CanAcknowledge(w)
       \/ ~loc[w].cancel /\ Retries(w) /\ ~CanRetry(w)
       \/ ~loc[w].cancel /\ loc[w].err \in Blockers /\ ~CanStop(w, "blocked")
       \/ ~loc[w].cancel /\ Fails(w) /\ ~CanStop(w, "failed")
    /\ UNCHANGED rows

SettleWrite(w) ==
    /\ pc[w] = "settling"
    /\ \/ /\ \/ SettleCancelled(w) \/ SettleRetry(w)
             \/ SettleBlocked(w)   \/ SettleFailed(w)
          /\ Settled(w)
       \/ SettleConflict(w) /\ Leave(w)
    /\ UNCHANGED <<users, stops>>

-----------------------------------------------------------------------------
(* _sweep_cancellations and _recover_orphaned_workflows *)

AfterSweep(w) == IF mode[w] = "booting" THEN "orphan" ELSE "claim"

\* Mutant: the loop sweeps nothing.
SweepReadMut(w) ==
    /\ pc[w] = "sweep"
    /\ loc' = [loc EXCEPT ![w] = NoLoc]
    /\ Goto(w, AfterSweep(w))
    /\ UNCHANGED <<rows, mode, users, stops>>

\* Selects a workflow whose cancellation nobody will acknowledge: flagged, not
\* settled, no leased job.
SweepRead(w) ==
    /\ pc[w] = "sweep"
    /\ IF wf.cancel /\ wf.status \notin WorkflowTerminal /\ NoneLeased
       THEN /\ loc' = [loc EXCEPT ![w] = Snapshot(NoLoc)]
            /\ Goto(w, "sweeping")
       ELSE /\ loc' = [loc EXCEPT ![w] = NoLoc]
            /\ Goto(w, AfterSweep(w))
    /\ UNCHANGED <<rows, mode, users, stops>>

\* The leased jobs are not looked at again: the revision must be the one read.
SweepWrite(w) ==
    /\ pc[w] = "sweeping"
    /\ IF WorkflowSwaps(loc[w].st, loc[w].rev, "cancelled")
       THEN /\ job' = CancelQueued(job)
            /\ task' = CancelTasks(task)
            /\ wf' = WorkflowMoved(wf, "cancelled", "none")
            /\ Goto(w, AfterSweep(w))
            /\ loc' = [loc EXCEPT ![w] = NoLoc]
            /\ UNCHANGED <<plan, lastFailed, pdf, usedKeys, mode>>
       ELSE Leave(w) /\ UNCHANGED rows
    /\ UNCHANGED <<users, stops>>

Booted(w) ==
    /\ mode' = [mode EXCEPT ![w] = "looping"]
    /\ Goto(w, "recover")
    /\ loc' = [loc EXCEPT ![w] = NoLoc]

\* The scan of running tasks (StepsInOrder: there is at most one) ...
OrphanRead(w) ==
    /\ pc[w] = "orphan"
    /\ \/ /\ \A i \in TaskOps : task[i].st # "running"
          /\ Booted(w)
       \/ \E i \in TaskOps :
             /\ task[i].st = "running"
             /\ loc' = [loc EXCEPT ![w] = Snapshot([NoLoc EXCEPT !.op = i])]
             /\ Goto(w, "orphaned")
             /\ UNCHANGED mode
    /\ UNCHANGED <<rows, users, stops>>

\* ... then the look at its jobs and at its workflow ...
OrphanCheck(w) ==
    /\ pc[w] = "orphaned"
    /\ IF ~Active(job[loc[w].op]) /\ wf.status = "running"
       THEN /\ loc' = [loc EXCEPT ![w].rev = wf.rev, ![w].st = wf.status]
            /\ Goto(w, "blocking")
            /\ UNCHANGED mode
       ELSE Booted(w)
    /\ UNCHANGED <<rows, users, stops>>

\* ... then both transitions, or an exception that keeps the core from starting.
OrphanWrite(w) ==
    /\ pc[w] = "blocking"
    /\ IF /\ TaskSwaps(loc[w].op, loc[w].tst, loc[w].tver, "blocked")
          /\ WorkflowSwaps(loc[w].st, loc[w].rev, "blocked")
       THEN /\ task' = TaskMoved(task, loc[w].op, "blocked")
            /\ wf' = WorkflowMoved(wf, "blocked", "orphan-running-task")
            /\ Booted(w)
            /\ UNCHANGED <<plan, job, lastFailed, pdf, usedKeys>>
       ELSE Leave(w) /\ UNCHANGED rows
    /\ UNCHANGED <<users, stops>>

-----------------------------------------------------------------------------
(* claim_next_job and _mark_started *)

\* available_at only delays a retry: a worker that has not come round yet.
Claimable(op) ==
    /\ job[op].st = "queued"
    /\ wf.status \notin WorkflowTerminal /\ ~wf.cancel

ClaimSelect(w) ==
    /\ pc[w] = "claim"
    /\ \/ /\ \A op \in Ops : ~Claimable(op)
          /\ Leave(w)
       \/ \E op \in Ops :
             /\ Claimable(op)
             /\ loc' = [loc EXCEPT ![w] = [NoLoc EXCEPT !.op = op,
                                                        !.att = job[op].att]]
             /\ Goto(w, "claiming")
             /\ UNCHANGED mode
    /\ UNCHANGED <<rows, users, stops>>

\* The UPDATE compares the status only; a cancellation in between would have
\* cancelled the queued job.
ClaimWrite(w) ==
    LET op == loc[w].op IN
    /\ pc[w] = "claiming"
    /\ IF job[op].att = loc[w].att /\ job[op].st = "queued"
       THEN /\ job' = [job EXCEPT ![op].st = "leased", ![op].tok = w]
            /\ Goto(w, "start")
            /\ UNCHANGED <<wf, plan, task, lastFailed, pdf, usedKeys, mode, loc>>
       ELSE Leave(w) /\ UNCHANGED rows
    /\ UNCHANGED <<users, stops>>

StartRead(w) ==
    /\ pc[w] = "start"
    /\ IF Holds(w, loc[w].op, loc[w].att)
       THEN /\ IF wf.cancel \/ TaskSt(loc[w].op) = "queued"
               THEN /\ loc' = [loc EXCEPT ![w] = Snapshot(@)]
                    /\ Goto(w, "starting")
               ELSE Goto(w, "exec") /\ UNCHANGED loc
            /\ UNCHANGED <<rows, mode>>
       ELSE Raise(w, "retryable")
    /\ UNCHANGED <<users, stops>>

ToExec(w) ==
    /\ Goto(w, "exec")
    /\ loc' = [loc EXCEPT ![w] = JobOnly(@)]
    /\ UNCHANGED mode

\* The task's revision is compared, the lease is not: a thread that overslept
\* its lease may still start the task.
StartWrite(w) ==
    /\ pc[w] = "starting"
    /\ IF loc[w].cancel
       THEN \/ /\ CanAcknowledge(w)
               /\ Acknowledge(w)
               /\ ToExec(w)
            \/ ~CanAcknowledge(w) /\ Raise(w, "fatal")
       ELSE IF TaskSwaps(loc[w].op, "queued", loc[w].tver, "running")
       THEN /\ task' = TaskMoved(task, loc[w].op, "running")
            /\ ToExec(w)
            /\ UNCHANGED <<wf, plan, job, lastFailed, pdf, usedKeys>>
       ELSE Raise(w, "fatal")
    /\ UNCHANGED <<users, stops>>

-----------------------------------------------------------------------------
(* execute_leased_job: the read-only part of a handler, then its transaction *)

\* What the handler insists on before it does anything.
InPhase(op) ==
    \/ op = PlanOp /\ wf.status = "planning"
    \/ op \in TaskOps /\ wf.status = "running" /\ task[op].st = "running"
    \/ /\ op = ReviewOp /\ wf.status = "reviewing" /\ plan = "approved"
       /\ \A i \in TaskOps : task[i].st = "completed"

\* Inputs that changed, an invalid model answer, a defect: any handler may
\* fail.  A step may find nothing to work on; the first one needs a ready PDF.
MayRaise(op) ==
    {"retryable", "fatal"}
    \cup (IF op \in TaskOps THEN {"other"} ELSE {})
    \cup (IF op = 1 /\ ~pdf THEN {"no-ready-pdf"} ELSE {})

ExecRead(w) ==
    LET op == loc[w].op
        read == /\ loc' = [loc EXCEPT ![w] = Snapshot(@)]
                /\ Goto(w, "executing")
                /\ UNCHANGED <<rows, mode>> IN
    /\ pc[w] = "exec"
    /\ \/ ~Holds(w, op, loc[w].att) /\ Raise(w, "retryable")
       \/ Holds(w, op, loc[w].att) /\ wf.cancel /\ read
       \/ /\ Holds(w, op, loc[w].att) /\ ~wf.cancel
          /\ \/ \E err \in MayRaise(op) : InPhase(op) /\ Raise(w, err)
             \/ ~InPhase(op) /\ Raise(w, "fatal")
             \/ InPhase(op) /\ (op = 1 => pdf) /\ read
    /\ UNCHANGED <<users, stops>>

\* Everything the transaction compares.  Its last statement demands the
\* revision this handler knows and no cancel flag.
\* Mutant: the handler's transaction ends without the cancellation guard.
UnchangedMut(w) == TRUE
Unchanged(w) == wf.rev = loc[w].rev /\ ~wf.cancel

\* advance_after_task: the steps up to this one are completed, the later ones
\* pending.
InOrder(i, tasks) ==
    /\ \A k \in 1..i : tasks[k].st = "completed"
    /\ \A k \in (i + 1)..Steps : tasks[k].st = "pending"

CanPublish(w) ==
    LET op == loc[w].op
        Moves(target) == WorkflowSwaps(loc[w].st, loc[w].rev, target) IN
    /\ Holds(w, op, loc[w].att) /\ Unchanged(w)
    /\ \/ op = PlanOp /\ Moves("waiting-plan-approval")
       \/ op = ReviewOp /\ Moves("completed")
       \/ /\ op \in TaskOps
          /\ TaskSwaps(op, loc[w].tst, loc[w].tver, "completed")
          /\ InOrder(op, TaskMoved(task, op, "completed"))
          /\ CanEnqueue(job, op + 1, 1)
          /\ op = Steps => Moves("reviewing")

\* handle_generate_plan; a plan that is pending already is kept.
PublishPlan(w) ==
    /\ loc[w].op = PlanOp
    /\ plan' = "pending"
    /\ job' = Finished(job, PlanOp, "succeeded")
    /\ wf' = WorkflowMoved(wf, "waiting-plan-approval", "none")
    /\ UNCHANGED task

\* The next step is queued, or the review.
\* Mutant: the step that is done is not moved to "completed".
PublishStepMut(w) ==
    LET i == loc[w].op IN
    /\ i \in TaskOps
    /\ job' = Enqueued(Finished(job, i, "succeeded"), i + 1, 1, NoKey)
    /\ task' = IF i < Steps THEN TaskMoved(task, i + 1, "queued") ELSE task
    /\ wf' = IF i < Steps THEN wf ELSE WorkflowMoved(wf, "reviewing", "none")
    /\ UNCHANGED plan

PublishStep(w) ==
    LET i     == loc[w].op
        tasks == TaskMoved(task, i, "completed") IN
    /\ i \in TaskOps
    /\ job' = Enqueued(Finished(job, i, "succeeded"), i + 1, 1, NoKey)
    /\ task' = IF i < Steps THEN TaskMoved(tasks, i + 1, "queued") ELSE tasks
    /\ wf' = IF i < Steps THEN wf ELSE WorkflowMoved(wf, "reviewing", "none")
    /\ UNCHANGED plan

\* handle_review: the verdict completes the workflow or blocks it for good.
PublishReview(w) ==
    /\ loc[w].op = ReviewOp
    /\ job' = Finished(job, ReviewOp, "succeeded")
    /\ \E target \in {"completed", "blocked"} :
          wf' = WorkflowMoved(wf, target, "review-required")
    /\ UNCHANGED <<plan, task>>

\* Anything that does not compare rolls the whole handler back.
ExecWrite(w) ==
    /\ pc[w] = "executing"
    /\ \/ /\ ~loc[w].cancel /\ CanPublish(w)
          /\ PublishPlan(w) \/ PublishStep(w) \/ PublishReview(w)
          /\ UNCHANGED <<lastFailed, pdf, usedKeys>>
          /\ Leave(w)
       \/ ~loc[w].cancel /\ ~CanPublish(w) /\ Raise(w, "fatal")
       \/ loc[w].cancel /\ CanAcknowledge(w) /\ Acknowledge(w) /\ Leave(w)
       \/ loc[w].cancel /\ ~CanAcknowledge(w) /\ Raise(w, "fatal")
    /\ UNCHANGED <<users, stops>>

-----------------------------------------------------------------------------
(* The lease clock and the life of a worker process. *)

\* _heartbeat: renews whatever lease still carries the token, expired or not.
\* The task runs beside _execute and ends when the worker is told to stop.
Heartbeat(w) ==
    LET op == loc[w].op IN
    /\ mode[w] = "looping" /\ pc[w] \in {"exec", "executing"}
    /\ Holds(w, op, loc[w].att) /\ job[op].exp
    /\ job' = [job EXCEPT ![op].exp = FALSE]
    /\ UNCHANGED <<wf, plan, task, lastFailed, pdf, usedKeys, procs, users, stops>>

LeaseExpires(op) ==
    /\ job[op].st = "leased" /\ ~job[op].exp
    /\ job' = [job EXCEPT ![op].exp = TRUE]
    /\ UNCHANGED <<wf, plan, task, lastFailed, pdf, usedKeys, procs, users, stops>>

\* start(): recover() runs before the loop.  One process at a time serves the
\* database; only a stopping one may still have a thread in it.
Boot(w) ==
    /\ \A v \in Workers : mode[v] \in {"down", "draining"}
    /\ mode[w] = "down"
    /\ mode' = [mode EXCEPT ![w] = "booting"]
    /\ Goto(w, "recover")
    /\ UNCHANGED <<rows, loc, users, stops>>

\* stop() waits for the loop and then cancels it: the thread in flight goes on.
Drain(w) ==
    /\ mode[w] = "looping" /\ pc[w] # "recover" /\ stops < MaxStops
    /\ mode' = [mode EXCEPT ![w] = "draining"]
    /\ stops' = stops + 1
    /\ UNCHANGED <<rows, pc, loc, users>>

Crash(w) ==
    /\ mode[w] # "down" /\ stops < MaxStops
    /\ mode' = [mode EXCEPT ![w] = "down"]
    /\ Goto(w, "down")
    /\ loc' = [loc EXCEPT ![w] = NoLoc]
    /\ stops' = stops + 1
    /\ UNCHANGED <<rows, users>>

\* SQLite stays locked past its timeout: whatever the thread was about to read
\* or write rolls back.  In a handler that is one more unexpected error, around
\* it run_once fails and a lease it had stays where it is.
Busy(w) ==
    /\ pc[w] \notin {"down", "next"} /\ stops < MaxStops
    /\ IF pc[w] \in {"start", "starting", "exec", "executing"}
       THEN Raise(w, "fatal")
       ELSE Leave(w) /\ UNCHANGED rows
    /\ stops' = stops + 1
    /\ UNCHANGED users

-----------------------------------------------------------------------------
(* The user's requests.  Each is read, validated and then written; between   *)
(* the two anything else may commit.  A revision the client sends along only *)
(* makes the window longer, so the read stands for the client's display too. *)

NoReq == [kind |-> "none", key |-> NoKey, rev |-> 0, st |-> "planning",
          cancel |-> FALSE, op |-> 0, att |-> 0, tver |-> 0]

Request(kind, key, op, att) ==
    [kind |-> kind, key |-> key, rev |-> wf.rev, st |-> wf.status,
     cancel |-> wf.cancel, op |-> op, att |-> att, tver |-> TaskVer(op)]

Ask(c, r) ==
    /\ req[c].kind = "none" /\ asked < MaxRequests
    /\ req' = [req EXCEPT ![c] = r]
    /\ asked' = asked + 1
    /\ UNCHANGED <<rows, procs, stops>>

\* The row moved in between: 409, nothing written.
Answer(c) ==
    /\ req' = [req EXCEPT ![c] = NoReq]
    /\ UNCHANGED <<procs, asked, stops>>

AskApprove(c) ==
    /\ wf.status = "waiting-plan-approval" /\ plan = "pending"
    /\ Ask(c, Request("approve", NoKey, 1, 1))

\* A flagged workflow with a leased job is left to the worker.
AskCancel(c) ==
    /\ wf.status \notin {"cancelled", "completed"}
    /\ wf.cancel => NoneLeased
    /\ Ask(c, Request("cancel", NoKey, PlanOp, 0))

\* Only a failed workflow, from its newest failed job.
AskRetry(c, key) ==
    /\ key \notin usedKeys
    /\ wf.status = "failed"
    /\ lastFailed.att > 0
    /\ lastFailed.op \in TaskOps => task[lastFailed.op].st = "failed"
    /\ Ask(c, Request("retry", key, lastFailed.op, lastFailed.att))

\* Only a workflow without a ready PDF that has one by now.
AskResume(c, key) ==
    /\ key \notin usedKeys
    /\ wf.status = "blocked" /\ wf.code = "no-ready-pdf" /\ pdf
    /\ task[1].st = "blocked" /\ job[1].st = "failed"
    /\ Ask(c, Request("resume", key, 1, job[1].att))

Approve(c) ==
    LET tasks == [i \in TaskOps |-> [st |-> "pending", ver |-> 1]] IN
    /\ req[c].kind = "approve"
    /\ IF plan = "pending" /\ WorkflowSwaps(req[c].st, req[c].rev, "running")
       THEN /\ plan' = "approved"
            /\ task' = TaskMoved(tasks, 1, "queued")
            /\ job' = Enqueued(job, 1, 1, NoKey)
            /\ wf' = WorkflowMoved(wf, "running", "none")
            /\ UNCHANGED <<lastFailed, pdf, usedKeys>>
       ELSE UNCHANGED rows
    /\ Answer(c)

\* request_cancel: the flag first, compared with the revision; inside the same
\* transaction the whole workflow is cancelled unless a job is leased.  With
\* the flag already set the leased jobs are not looked at again.
RequestCancel(c) ==
    LET flagged == [wf EXCEPT !.cancel = TRUE, !.rev = @ + 1]
        row     == IF req[c].cancel THEN wf ELSE flagged IN
    /\ req[c].kind = "cancel"
    /\ IF wf.rev = req[c].rev /\ wf.status = req[c].st
       THEN /\ IF req[c].cancel \/ NoneLeased
               THEN /\ job' = CancelQueued(job)
                    /\ task' = CancelTasks(task)
                    /\ wf' = WorkflowMoved(row, "cancelled", "none")
               ELSE wf' = flagged /\ UNCHANGED <<job, task>>
            /\ UNCHANGED <<plan, lastFailed, pdf, usedKeys>>
       ELSE UNCHANGED rows
    /\ Answer(c)

\* What a retry and a resume write: the task back to the queue, the next
\* attempt under the user's key, the workflow back to the phase of the job.
\* Mutant: every retry goes back to the running phase.
PhaseOfMut(op) == "running"
PhaseOf(op) == CASE op = PlanOp -> "planning"
                 [] op = ReviewOp -> "reviewing"
                 [] OTHER -> "running"
Requeue(c, from) ==
    LET op == req[c].op IN
    /\ IF /\ req[c].key \notin usedKeys
          /\ job[op].att = req[c].att /\ ~Active(job[op])
          /\ op \in TaskOps => TaskSwaps(op, from, req[c].tver, "queued")
          /\ WorkflowSwaps(req[c].st, req[c].rev, PhaseOf(op))
       THEN /\ task' = IF op \in TaskOps THEN TaskMoved(task, op, "queued")
                                         ELSE task
            /\ job' = Enqueued(job, op, req[c].att + 1, req[c].key)
            /\ wf' = WorkflowMoved(wf, PhaseOf(op), "none")
            /\ usedKeys' = usedKeys \cup {req[c].key}
            /\ UNCHANGED <<plan, lastFailed, pdf>>
       ELSE UNCHANGED rows
    /\ Answer(c)

RetryWorkflow(c)  == req[c].kind = "retry"  /\ Requeue(c, "failed")
ResumeWorkflow(c) == req[c].kind = "resume" /\ Requeue(c, "blocked")

ImportPdf ==
    /\ ~pdf
    /\ pdf' = TRUE
    /\ UNCHANGED <<wf, plan, task, job, lastFailed, usedKeys, procs, users, stops>>

-----------------------------------------------------------------------------
(* The specification, from the state start_workflow commits. *)

Init ==
    /\ wf = [status |-> "planning", rev |-> 1, cancel |-> FALSE, code |-> "none"]
    /\ plan = "none"
    /\ task = [i \in TaskOps |-> [st |-> "absent", ver |-> 0]]
    /\ job = [op \in Ops |-> IF op = PlanOp THEN Queued(1, NoKey) ELSE NoJob]
    /\ lastFailed = [op |-> PlanOp, att |-> 0]
    /\ pdf \in BOOLEAN
    /\ usedKeys = {}
    /\ mode = [w \in Workers |-> "down"]
    /\ pc = [w \in Workers |-> "down"]
    /\ loc = [w \in Workers |-> NoLoc]
    /\ req = [c \in Clients |-> NoReq]
    /\ asked = 0
    /\ stops = 0

WorkerStep(w) ==
    \/ RecoverExpired(w) \/ SettleNextExpired(w) \/ SettleRead(w) \/ SettleWrite(w)
    \/ SweepRead(w)      \/ SweepWrite(w)
    \/ OrphanRead(w)     \/ OrphanCheck(w)       \/ OrphanWrite(w)
    \/ ClaimSelect(w)    \/ ClaimWrite(w)        \/ StartRead(w) \/ StartWrite(w)
    \/ ExecRead(w)       \/ ExecWrite(w)

UserStep(c) ==
    \/ AskApprove(c)  \/ Approve(c)
    \/ AskCancel(c)   \/ RequestCancel(c)
    \/ \E key \in Keys : AskRetry(c, key) \/ AskResume(c, key)
    \/ RetryWorkflow(c) \/ ResumeWorkflow(c)

Next ==
    \/ \E w \in Workers : \/ WorkerStep(w) \/ Heartbeat(w)
                          \/ Boot(w) \/ Drain(w) \/ Crash(w) \/ Busy(w)
    \/ \E c \in Clients : UserStep(c)
    \/ \E op \in Ops : LeaseExpires(op)
    \/ ImportPdf

Spec == Init /\ [][Next]_vars

\* The loop runs and polls, a closed application is opened again, and a lease
\* nobody renews expires.  Users, crashes and clock skips owe nothing.
Renewed(op) ==
    \E w \in Workers : /\ mode[w] = "looping" /\ pc[w] \in {"exec", "executing"}
                       /\ loc[w].op = op /\ Holds(w, op, loc[w].att)
Fairness ==
    /\ \A w \in Workers : WF_vars(WorkerStep(w))
    /\ WF_vars(\E w \in Workers : Boot(w))
    /\ WF_vars(\E op \in Ops : ~Renewed(op) /\ LeaseExpires(op))

FairSpec == Spec /\ Fairness

-----------------------------------------------------------------------------
(* Type invariant. *)

JobType == [att: Nat, st: JobStatuses, tok: Workers \cup {NoWorker},
            exp: BOOLEAN, key: Keys \cup {NoKey}]
TaskType == [st: TaskStatuses \cup {"absent"}, ver: Nat]
LocType == [op: Ops, att: Nat, rev: Nat, st: Phases, cancel: BOOLEAN,
            tst: TaskStatuses \cup {"absent"}, tver: Nat, err: Errors,
            back: {"pass", "recover"}, todo: SUBSET (Ops \X Nat)]
Keyed   == {"retry", "resume"}
Requests(kinds, keys) ==
    [kind: kinds, key: keys, rev: Nat, st: Phases, cancel: BOOLEAN,
     op: Ops, att: Nat, tver: Nat]
ReqType == Requests({"none", "approve", "cancel"}, {NoKey}) \cup Requests(Keyed, Keys)

\* Every variable holds what its row or its thread can hold.
TypeOK ==
    /\ wf \in [status: Phases, rev: Nat, cancel: BOOLEAN, code: BlockCodes]
    /\ plan \in PlanStatuses
    /\ task \in [TaskOps -> TaskType]
    /\ job \in [Ops -> JobType]
    /\ lastFailed \in [op: Ops, att: Nat]
    /\ pdf \in BOOLEAN
    /\ usedKeys \subseteq Keys
    /\ mode \in [Workers -> {"down", "booting", "looping", "draining"}]
    /\ pc \in [Workers -> Labels]
    /\ loc \in [Workers -> LocType]
    /\ req \in [Clients -> ReqType]
    /\ asked \in Nat /\ stops \in Nat

-----------------------------------------------------------------------------
(* Safety. *)

\* The workflow's phase and the one active job agree: planning, running and
\* reviewing each wait for exactly their own job, a queued or running step is
\* the one whose job is active, and in every other phase nothing is active.
\* Otherwise a workflow hangs with no job to move it, or a job outlives it.
PhaseHasItsJob ==
    /\ Active(job[PlanOp]) <=> wf.status = "planning"
    /\ Active(job[ReviewOp]) <=> wf.status = "reviewing"
    /\ wf.status = "running" <=> \E i \in TaskOps : Active(job[i])
    /\ \A i \in TaskOps : Active(job[i]) <=> task[i].st \in {"queued", "running"}
    /\ \A i, k \in TaskOps : Active(job[i]) /\ Active(job[k]) => i = k

\* advance_after_task runs the plan in order: nothing of step k has started
\* while an earlier step is not completed.
StepsInOrder ==
    \A i, k \in TaskOps :
        i < k /\ task[k].st \notin {"absent", "pending", "cancelled"}
            => task[i].st = "completed"

\* Cancelling leaves nothing behind: no queued or leased job a worker could
\* still pick up, no task that looks open.
CancelledIsQuiet ==
    wf.status = "cancelled" =>
        /\ \A op \in Ops : ~Active(job[op])
        /\ \A i \in TaskOps : task[i].st \in {"absent", "completed", "cancelled"}

\* The worker retries an operation at most MAX_JOB_ATTEMPTS times on its own;
\* every further attempt was asked for, and one Idempotency-Key buys one.
AutoRetryBounded ==
    \A op \in Ops :
        /\ job[op].att <= MaxJobAttempts + Cardinality(usedKeys)
        /\ job[op].att > MaxJobAttempts => job[op].key # NoKey

-----------------------------------------------------------------------------
(* Action properties. *)

\* finish_job's token: a leased job is ended only by the thread that holds the
\* current lease of that very attempt, however late the others wake up.
OnlyHolderSettles ==
    [][\A op \in Ops : job[op].st = "leased" /\ job'[op].st # "leased" =>
          \E w \in Workers : /\ job[op].tok = w
                             /\ loc[w].op = op /\ loc[w].att = job[op].att
                             /\ pc[w] \in {"settling", "starting", "executing"}
                             /\ pc'[w] # pc[w]]_vars

\* Once a cancellation is requested no result is published any more: no plan,
\* no completed step, and the workflow can only become cancelled.
NothingPublishedAfterCancel ==
    [][wf.cancel =>
          /\ wf'.cancel /\ wf'.status \in {wf.status, "cancelled"}
          /\ plan' = plan
          /\ \A i \in TaskOps : task'[i].st = "completed" => task[i].st = "completed"]_vars

\* A completed or cancelled workflow is never written again, not even by a
\* handler thread that read it before.
TerminalIsFinal ==
    [][wf.status \in WorkflowTerminal => UNCHANGED <<wf, plan, task, job>>]_vars

-----------------------------------------------------------------------------
(* The workflow its user sees. *)

Phase ==
    CASE wf.status = "waiting-plan-approval" -> "offered"
      [] wf.status = "running" -> "working"
      [] wf.status \in {"blocked", "failed"} -> "stopped"
      [] OTHER -> wf.status

Pipeline == INSTANCE StepPipeline WITH
    N <- Steps, phase <- Phase, accepted <- (plan = "approved"),
    done <- Cardinality({i \in TaskOps : task[i].st = "completed"}),
    flag <- wf.cancel

\* Jobs, leases, retries, crashes and races implement the simple pipeline:
\* every step is published once and in order, a retry goes on where the
\* workflow stopped, and after a cancellation request only it takes effect.
ImplementsPipeline == Pipeline!PSpec

-----------------------------------------------------------------------------
(* Liveness, under Fairness. *)

\* A requested cancellation is carried out, whoever held the job and however
\* often the process stopped.
CancelSettles == wf.cancel ~> wf.status = "cancelled"

\* A workflow does not work for ever: it comes to wait for the user or ends.
PhasesSettle ==
    wf.status \in {"planning", "running", "reviewing"} ~>
        wf.status \in {"waiting-plan-approval", "blocked", "failed",
                       "completed", "cancelled"}
=============================================================================

----------------------------- MODULE AgentLoop -----------------------------
(***************************************************************************)
(* The observe-decide-apply loop of an autonomous dataset workflow in      *)
(* remote-model-assisted mode (workflow/agent_loop/): each finished step   *)
(* is a source; an observation of it, a decision about it and the          *)
(* application of the decision are three durable control jobs next to the  *)
(* step's own job, all served by the one worker loop.                      *)
(*                                                                         *)
(* The plan is approved already.  A control job reads everything in Claim  *)
(* and writes in one transaction whose last statement compares the         *)
(* workflow's revision and cancel flag with what was read; only the remote *)
(* model is asked between two transactions.  WorkflowCore has the same     *)
(* worker and its settlement in finer steps, for one job per phase; here   *)
(* the take-over of an expired lease and its settlement are one step, and  *)
(* so are a claim and the start of its task.                               *)
(***************************************************************************)
EXTENDS Integers, FiniteSets, WorkflowState

CONSTANTS
    Steps,              \* steps of the approved plan
    MaxJobAttempts,     \* MAX_JOB_ATTEMPTS of integrity.py
    MaxStepRetries,     \* MAX_STEP_RETRIES of policy.py
    Workers,            \* worker processes, at most one of them not draining
    NoWorker,
    MaxRequests,        \* bound: user retries in a behaviour
    MaxStops,           \* bound: crashes, shutdowns and failed settlements
    MaxReconfigurations \* bound: changes of the model settings

ASSUME LoopStepsAssumption == Steps \in Nat \ {0}
ASSUME LoopAttemptsAssumption == MaxJobAttempts \in Nat \ {0}
ASSUME LoopBoundsAssumption ==
    /\ MaxStepRetries \in Nat /\ MaxRequests \in Nat
    /\ MaxStops \in Nat /\ MaxReconfigurations \in Nat
ASSUME LoopNamesAssumption == NoWorker \notin Workers

\* The steps and, after them, the review.
Review   == Steps + 1
Tasks    == 1..Steps
Subjects == 1..Review

\* A source is one attempt of a subject.  MaxRuns is no bound of the model: the
\* worker, the agent and the user cannot ask for more (AttemptsAccounted).
MaxRuns == MaxJobAttempts + MaxStepRetries + MaxRequests
Sources == Subjects \X (1..MaxRuns)

\* A job is known by its operation: the subject it runs, or the source (for
\* "apply" the decision, one per source) it is about.
Run(s)    == <<"run", s, 0>>
Ctl(k, x) == <<k, x[1], x[2]>>
Control   == {"observe", "decide", "apply"}
Ops == {Run(s) : s \in Subjects} \cup {Ctl(k, x) : k \in Control, x \in Sources}
SourceOf(op) == <<op[2], op[3]>>

VARIABLES
    wf,       \* workflow row: status, row_version, cancel flag
    task,     \* status of every task
    job,      \* the newest attempt of every operation
    failedRun,\* subject of the failed execute or review job finished last, 0
    passed,   \* a review with verdict "passed" is stored
    loop,     \* per source: observation, decision, model invocation, calls made
    gateway,  \* the configured model is the one the user approved
    mode,     \* "down", "booting", "looping" or "draining"
    pc,       \* where the worker's thread is
    loc,      \* what the thread has read
    asked,    \* user retries so far (bounded by MaxRequests)
    stops,    \* crashes, shutdowns, faults so far (bounded by MaxStops)
    changes   \* reconfigurations so far (bounded by MaxReconfigurations)

rows   == <<wf, task, job, failedRun, passed, loop>>
procs  == <<mode, pc, loc>>
bounds == <<asked, stops, changes>>
vars   == <<wf, task, job, failedRun, passed, loop, gateway, mode, pc, loc,
            asked, stops, changes>>

-----------------------------------------------------------------------------
(* Rows. *)

Phases == {"running", "reviewing", "blocked", "failed", "completed", "cancelled"}

\* Why a job failed: "lost" is a code recovery may try a control job again for
\* (job-lease-lost, lease-expired, worker-interrupted), "transient" a runtime
\* failure the analysis marked as safe to retry, "fatal" anything else.
Codes == {"none", "lost", "transient", "fatal"}

\* pos orders the queued jobs as available_at and created_at do; 0 for a job
\* that is not queued or whose retry delay has yet to pass.
NoJob  == [att |-> 0, st |-> "absent", tok |-> NoWorker, exp |-> FALSE,
           code |-> "none", pos |-> 0]
Queued(att, pos) == [NoJob EXCEPT !.att = att, !.st = "queued", !.pos = pos]
Last(jobs) == CHOOSE n \in {jobs[op].pos : op \in Ops} :
                 \A op \in Ops : jobs[op].pos <= n
Active(op)  == job[op].st \in {"queued", "leased"}
Holds(w, op, att) == job[op].att = att /\ job[op].st = "leased" /\ job[op].tok = w

Ended(jobs, op, status, code) ==
    [jobs EXCEPT ![op] = [NoJob EXCEPT !.att = jobs[op].att, !.st = status,
                                       !.code = code]]

\* enqueue_job: an attempt that exists is returned as it is.
Enqueued(jobs, op, att) ==
    IF jobs[op].att >= att THEN jobs
    ELSE [jobs EXCEPT ![op] = Queued(att, Last(jobs) + 1)]
\* Control jobs of a step carry its task only while they observe it.
HasTask(op) == op[1] \in {"run", "observe"} /\ op[2] \in Tasks

WorkflowMoved(status) ==
    IF wf.status = status THEN wf
    ELSE [wf EXCEPT !.status = status, !.rev = @ + 1]

NoLoop == [obs |-> "none", act |-> "none", rev |-> 0, st |-> "none",
           inv |-> "none", calls |-> 0]
Answered(x) == loop[x].st # "none"

-----------------------------------------------------------------------------
(* policy.py: what the agent may do about an observation. *)

\* persisted_loop_counts: applied decisions only.
AppliedRetries == {x \in Sources : loop[x].act = "retry" /\ loop[x].st = "applied"}

\* reached_loop_limits; any limit leaves nothing but a stop.
\* Mutant: one retry too many.
LimitReachedMut == Cardinality(AppliedRetries) > MaxStepRetries
LimitReached == Cardinality(AppliedRetries) >= MaxStepRetries

\* _loop_context: the failed step itself, else the first pending step, else the
\* review unless there is one; 0 for none.
NextStep(x) ==
    LET pending == {s \in Tasks : task[s] = "pending"} IN
    CASE loop[x].obs \in {"transient", "failed"} /\ x[1] \in Tasks
         /\ task[x[1]] = "failed" -> x[1]
      [] pending # {} -> CHOOSE s \in pending : \A k \in pending : s <= k
      [] OTHER -> IF passed \/ \E s \in Tasks : task[s] # "completed"
                  THEN 0 ELSE Review

\* completion_invariant_satisfied.  The bundle of run, result, artifacts and
\* approvals it compares is that of the completed steps and the passed review.
Completable == passed /\ \A s \in Tasks : task[s] = "completed"

\* determine_allowed_actions.
Allowed(x) ==
    IF LimitReached THEN {"stop"}
    ELSE CASE loop[x].obs = "output" /\ NextStep(x) # 0 -> {"continue"}
           [] loop[x].obs = "transient" -> {"retry", "stop"}
           [] loop[x].obs = "reviewed" /\ Completable -> {"complete"}
           [] OTHER -> {"stop"}

\* deterministic_action is None: more than one of its own priorities is left.
NeedsJudgment(x) == Cardinality(Allowed(x)) > 1

\* _fallback_action; clarifications and revisions are not in Allowed.
\* Mutant: it asks the user although that is not allowed.
FallbackMut == "request-clarification"
Fallback == "stop"

-----------------------------------------------------------------------------
(* The worker's thread. *)

Labels == {"down", "idle", "exec", "send", "called", "settle", "heal"}

NoLoc == [op |-> Run(1), att |-> 0, rev |-> 0, inv |-> "none"]

Goto(w, label) == pc' = [pc EXCEPT ![w] = label]
Forget(w) == loc' = [loc EXCEPT ![w] = NoLoc]

\* run_once returns; a process that is stopping ends with it.
Return(w) ==
    /\ Goto(w, IF mode[w] = "draining" THEN "down" ELSE "idle")
    /\ mode' = [mode EXCEPT ![w] = IF @ = "draining" THEN "down" ELSE @]
    /\ Forget(w)

\* An exception leaves run_once: the loop goes round, a process whose recover()
\* raised never starts.
Leave(w) ==
    /\ Goto(w, IF mode[w] = "looping" THEN "idle" ELSE "down")
    /\ mode' = [mode EXCEPT ![w] = IF @ = "looping" THEN @ ELSE "down"]
    /\ Forget(w)

\* The handler raised: nothing is written and run_once settles the job.
Raise(w) ==
    /\ Goto(w, "settle")
    /\ UNCHANGED <<rows, mode, loc>>

-----------------------------------------------------------------------------
(* settle_leased_job_error, its recovery pass, cancellation. *)

Cancelled(jobs) ==
    /\ job' = [op \in Ops |-> IF jobs[op].st = "queued"
                              THEN [jobs[op] EXCEPT !.st = "cancelled", !.pos = 0]
                              ELSE jobs[op]]
    /\ task' = [s \in Tasks |-> IF task[s] \in TaskCancellable THEN "cancelled"
                                                                ELSE task[s]]
    /\ wf' = WorkflowMoved("cancelled")
    /\ UNCHANGED <<failedRun, passed, loop>>

\* The next attempt of the same operation, after a delay; a task that runs
\* waits again.
\* Mutant: the attempt limit is one off.
RetriedMut(op) == job[op].att <= MaxJobAttempts
Retried(op) == job[op].att < MaxJobAttempts

NewestFailed(op) == IF op[1] = "run" THEN op[2] ELSE failedRun

Requeue(op) ==
    /\ job' = [job EXCEPT ![op] = Queued(@.att + 1, 0)]
    /\ task' = IF HasTask(op) /\ task[op[2]] = "running"
               THEN [task EXCEPT ![op[2]] = "queued"] ELSE task
    /\ failedRun' = NewestFailed(op)
    /\ UNCHANGED <<wf, passed, loop>>

FailJob(op, code) ==
    /\ WorkflowMayMove(wf.status, "failed")
    /\ job' = Ended(job, op, "failed", code)
    /\ task' = IF HasTask(op) /\ task[op[2]] \in {"queued", "running"}
               THEN [task EXCEPT ![op[2]] = "failed"] ELSE task
    /\ wf' = WorkflowMoved("failed")
    /\ failedRun' = NewestFailed(op)
    /\ UNCHANGED <<passed, loop>>

\* The workflow's status does not admit "failed": transition_workflow raises,
\* nothing is written and the lease stays as it is.
CannotFail == ~wf.cancel /\ ~WorkflowMayMove(wf.status, "failed")

\* _recover_expired_jobs for one expired job: a new token, then its settlement
\* as "lease-expired".  Only the new token survives a settlement that raises.
Due(op) == job[op].st = "leased" /\ job[op].exp
RecoverExpired(w) ==
    /\ pc[w] = "idle"
    /\ \E op \in Ops :
          /\ Due(op)
          /\ \/ /\ \/ wf.cancel /\ Cancelled(Ended(job, op, "cancelled", "none"))
                   \/ ~wf.cancel /\ Retried(op) /\ Requeue(op)
                   \/ ~wf.cancel /\ ~Retried(op) /\ FailJob(op, "lost")
                /\ Goto(w, "heal")
                /\ loc' = [loc EXCEPT ![w].op = op]
                /\ UNCHANGED mode
             \/ /\ ~Retried(op) /\ CannotFail
                /\ job' = [job EXCEPT ![op].tok = w]
                /\ Leave(w)
                /\ UNCHANGED <<wf, task, failedRun, passed, loop>>
    /\ UNCHANGED <<gateway, bounds>>

\* _settle_error after a handler raised; a lost lease is left to its holder.
Settle(w) ==
    LET op == loc[w].op IN
    /\ pc[w] = "settle"
    /\ \/ /\ \/ ~Holds(w, op, loc[w].att) /\ UNCHANGED rows
             \/ /\ Holds(w, op, loc[w].att)
                /\ \/ wf.cancel /\ Cancelled(Ended(job, op, "cancelled", "none"))
                   \/ ~wf.cancel /\ FailJob(op, "fatal")
          /\ Goto(w, "heal")
          /\ UNCHANGED <<mode, loc>>
       \/ /\ Holds(w, op, loc[w].att) /\ CannotFail
          /\ Leave(w)
          /\ UNCHANGED rows
    /\ UNCHANGED <<gateway, bounds>>

\* recover_agent_loop_jobs, in a transaction of its own after the settlement
\* and once at startup: the control jobs the rows call for and nobody queued.
Newest(x) == x[2] = job[Run(x[1])].att
Observable(x) ==
    LET run == job[Run(x[1])].st IN
    /\ Newest(x) /\ loop[x].obs = "none"
    /\ IF x[1] = Review THEN run = "succeeded" /\ passed
       ELSE \/ run = "succeeded" /\ task[x[1]] = "completed"
            \/ run = "failed" /\ task[x[1]] \in {"failed", "blocked"}
WantedFor(k, x) ==
    CASE k = "observe" -> Observable(x)
      [] k = "decide"  -> loop[x].obs # "none" /\ ~Answered(x)
      [] k = "apply"   -> loop[x].st = "proposed" /\ loop[x].rev = wf.rev
Repeatable(op) ==
    \/ job[op].att = 0
    \/ job[op].st = "failed" /\ job[op].code = "lost" /\ job[op].att < MaxJobAttempts
Missing(op) == op[1] # "run" /\ Repeatable(op) /\ WantedFor(op[1], SourceOf(op))

\* Mutant: the recovery pass recreates nothing.
HealedMut == job
Healed == [op \in Ops |-> IF Missing(op) THEN Queued(job[op].att + 1, Last(job) + 1)
                                         ELSE job[op]]

Heal(w) ==
    /\ pc[w] = "heal"
    /\ job' = Healed
    /\ Return(w)
    /\ UNCHANGED <<wf, task, failedRun, passed, loop, gateway, bounds>>

NothingDue  == \A op \in Ops : ~Due(op)
NoneLeased  == \A op \in Ops : job[op].st # "leased"

-----------------------------------------------------------------------------
(* claim_next_job, mark_leased_job_started, and what the handler reads. *)

\* The job longest available; a delayed one may become available at any time.
FirstInLine(op) ==
    \A other \in Ops : job[other].pos > 0 => job[op].pos <= job[other].pos

\* A source's step may run again meanwhile: whatever job carries the queued
\* task, an observation too, sets it running.
Claim(w) ==
    /\ pc[w] = "idle" /\ mode[w] = "looping" /\ NothingDue
    /\ wf.status \notin WorkflowTerminal /\ ~wf.cancel
    /\ \E op \in Ops :
          /\ job[op].st = "queued" /\ FirstInLine(op)
          /\ job' = [job EXCEPT ![op].st = "leased", ![op].tok = w, ![op].pos = 0]
          /\ task' = IF HasTask(op) /\ task[op[2]] = "queued"
                     THEN [task EXCEPT ![op[2]] = "running"] ELSE task
          /\ loc' = [loc EXCEPT ![w] =
                        [op |-> op, att |-> job[op].att, rev |-> wf.rev,
                         inv |-> IF op[1] = "decide" THEN loop[SourceOf(op)].inv
                                                     ELSE "none"]]
          /\ Goto(w, "exec")
    /\ UNCHANGED <<wf, failedRun, passed, loop, gateway, mode, bounds>>

\* finish_job's token and the guard that ends every handler's transaction.
\* Mutant: the transaction ends without the guard.
PublishableMut(w) == Holds(w, loc[w].op, loc[w].att)
Publishable(w) ==
    /\ Holds(w, loc[w].op, loc[w].att)
    /\ wf.rev = loc[w].rev /\ ~wf.cancel

\* A handler's only transaction: it ends the job and queues the next one.
Finish(w, next, jobs) ==
    job' = Enqueued(Ended(jobs, loc[w].op, "succeeded", "none"), next, 1)

-----------------------------------------------------------------------------
(* execute-task and review-workflow. *)

InPhase(s) == IF s = Review THEN wf.status = "reviewing"
              ELSE wf.status = "running" /\ task[s] = "running"

\* _handle_task: the output is observed before anything else starts.
StepSucceeds(w, s) ==
    /\ s \in Tasks
    /\ task' = [task EXCEPT ![s] = "completed"]
    /\ Finish(w, Ctl("observe", <<s, loc[w].att>>), job)
    /\ UNCHANGED <<wf, failedRun, passed>>

\* A run that failed for a transient reason: the workflow is blocked and the
\* failure observed, all in one transaction (_handlers/dataset.py).
StepFailsTransiently(w, s) ==
    /\ s \in Tasks
    /\ task' = [task EXCEPT ![s] = "failed"]
    /\ job' = Enqueued(Ended(job, Run(s), "failed", "transient"),
                       Ctl("observe", <<s, loc[w].att>>), 1)
    /\ wf' = WorkflowMoved("blocked")
    /\ failedRun' = s
    /\ UNCHANGED passed

\* Only a passed review goes to the agent; any other verdict blocks.
ReviewEnds(w, s) ==
    /\ s = Review
    /\ \/ /\ passed' = TRUE
          /\ Finish(w, Ctl("observe", <<s, loc[w].att>>), job)
          /\ UNCHANGED wf
       \/ /\ job' = Ended(job, Run(s), "succeeded", "none")
          /\ wf' = WorkflowMoved("blocked")
          /\ UNCHANGED passed
    /\ UNCHANGED <<task, failedRun>>

\* Any run may also fail for good, and must when its phase is over.
ExecuteRun(w) ==
    LET s == loc[w].op[2] IN
    /\ pc[w] = "exec" /\ loc[w].op[1] = "run"
    /\ \/ /\ Publishable(w) /\ InPhase(s)
          /\ StepSucceeds(w, s) \/ StepFailsTransiently(w, s) \/ ReviewEnds(w, s)
          /\ UNCHANGED loop
          /\ Return(w)
       \/ Raise(w)
    /\ UNCHANGED <<gateway, bounds>>

-----------------------------------------------------------------------------
(* observe-step, decide-next-action, apply-agent-decision. *)

Subject(w, k) == pc[w] = "exec" /\ loc[w].op[1] = k
Source(w) == SourceOf(loc[w].op)

\* _build_observation.  An attempt that has a successor failed for good.
\* Mutant: the newest attempt's outcome is taken for that of any attempt.
ObservedKindMut(x) ==
    LET run == job[Run(x[1])] IN
    CASE run.st = "failed" -> IF run.code = "transient" THEN "transient" ELSE "failed"
      [] x[1] = Review -> "reviewed"
      [] OTHER -> "output"
ObservedKind(x) ==
    LET run == job[Run(x[1])] IN
    CASE ~Newest(x) \/ run.st = "failed" ->
            IF Newest(x) /\ run.code = "transient" THEN "transient" ELSE "failed"
      [] x[1] = Review -> "reviewed"
      [] OTHER -> IF task[x[1]] = "failed" THEN "failed" ELSE "output"

\* Mutant: the decision is never asked for.
AskedForMut(x) == Ctl("observe", x)
AskedFor(x) == Ctl("decide", x)

Observe(w) ==
    LET x == Source(w) IN
    /\ Subject(w, "observe")
    /\ IF Publishable(w)
       THEN /\ loop' = [loop EXCEPT ![x].obs = ObservedKind(x)]
            /\ Finish(w, AskedFor(x), job)
            /\ UNCHANGED <<wf, task, failedRun, passed>>
            /\ Return(w)
       ELSE Raise(w)
    /\ UNCHANGED <<gateway, bounds>>

Propose(w, action, inv) ==
    LET x == Source(w) IN
    /\ loop' = [loop EXCEPT ![x] = [@ EXCEPT !.act = action, !.rev = wf.rev,
                                            !.st = "proposed", !.inv = inv]]
    /\ Finish(w, Ctl("apply", x), job)
    /\ UNCHANGED <<wf, task, failedRun, passed>>
    /\ Return(w)

\* What the handler does with the invocation it has read.
\* Mutant: a request that was persisted by an earlier attempt is sent again.
ResumesMut(w) == FALSE
Resumes(w) == loc[w].inv # "none"
Asks(w) == ~Resumes(w) /\ NeedsJudgment(Source(w))

Refuses(w) ==
    \/ ~gateway
    \/ ~Asks(w) /\ ~Publishable(w)
    \/ Resumes(w) /\ loop[Source(w)].inv # "pending"

\* assert_remote_gateway_matches_creation precedes everything; the request of
\* an earlier attempt is answered by the fallback, never sent again.
Decide(w) ==
    LET x == Source(w) IN
    /\ Subject(w, "decide")
    /\ \/ /\ gateway /\ Publishable(w)
          /\ \/ /\ ~Resumes(w) /\ ~NeedsJudgment(x)
                /\ \E action \in Allowed(x) : Propose(w, action, "none")
             \/ /\ Resumes(w) /\ loop[x].inv = "pending"
                /\ Propose(w, Fallback, "done")
       \/ Refuses(w) /\ Raise(w)
    /\ UNCHANGED <<gateway, bounds>>

\* _begin_decision_invocation commits before anything is sent and without a
\* look at the lease; the request's key, which hashes what was read, is unique.
BeginInvocation(w) ==
    LET x == Source(w) IN
    /\ Subject(w, "decide") /\ gateway /\ Asks(w)
    /\ IF loop[x].inv = loc[w].inv
       THEN /\ loop' = [loop EXCEPT ![x].inv = "pending"]
            /\ Goto(w, "send")
            /\ UNCHANGED <<wf, task, job, failedRun, passed, mode, loc>>
       ELSE Raise(w)
    /\ UNCHANGED <<gateway, bounds>>

\* The reloaded rows: lease, then cancellation, then the request itself.
Send(w) ==
    LET x == Source(w) IN
    /\ pc[w] = "send"
    /\ \/ ~Holds(w, loc[w].op, loc[w].att) /\ Raise(w)
       \/ /\ Holds(w, loc[w].op, loc[w].att) /\ wf.cancel
          /\ loop' = [loop EXCEPT ![x].inv = "failed"]
          /\ Goto(w, "settle")
          /\ UNCHANGED <<wf, task, job, failedRun, passed, mode, loc>>
       \/ /\ Holds(w, loc[w].op, loc[w].att) /\ ~wf.cancel
          /\ loop' = [loop EXCEPT ![x].calls = @ + 1]
          /\ loc' = [loc EXCEPT ![w].rev = wf.rev]
          /\ Goto(w, "called")
          /\ UNCHANGED <<wf, task, job, failedRun, passed, mode>>
    /\ UNCHANGED <<gateway, bounds>>

\* The model chose an allowed action, or failed and the fallback is taken.
AnswerArrives(w) ==
    LET x == Source(w) IN
    /\ pc[w] = "called"
    /\ IF Publishable(w) /\ loop[x].inv = "pending"
       THEN \E action \in Allowed(x) \cup {Fallback} : Propose(w, action, "done")
       ELSE Raise(w)
    /\ UNCHANGED <<gateway, bounds>>

\* _apply_continue: the target must still be the next step.
ApplyContinue(x, jobs) ==
    LET next == NextStep(x) IN
    /\ loop[x].act = "continue" /\ "continue" \in Allowed(x)
    /\ job' = Enqueued(jobs, Run(next), 1)
    /\ IF next = Review
       THEN wf' = (IF wf.status = "running" THEN WorkflowMoved("reviewing") ELSE wf)
            /\ UNCHANGED task
       ELSE task' = [task EXCEPT ![next] = "queued"] /\ UNCHANGED wf

\* _apply_retry: the failed step again, under its own operation.
RetryPhase == IF wf.status \in {"blocked", "failed"} THEN WorkflowMoved("running")
              ELSE wf
ApplyRetry(x, jobs) ==
    LET s == x[1] IN
    /\ loop[x].act = "retry" /\ task[s] = "failed"
    /\ loop[x].obs = "transient"
    /\ job' = Enqueued(jobs, Run(s), jobs[Run(s)].att + 1)
    /\ task' = [task EXCEPT ![s] = "queued"]
    /\ wf' = RetryPhase

\* _apply_complete.
ApplyComplete(x, jobs) ==
    /\ loop[x].act = "complete" /\ loop[x].obs = "reviewed" /\ Completable
    /\ WorkflowMayMove(wf.status, "completed")
    /\ job' = jobs
    /\ wf' = WorkflowMoved("completed")
    /\ UNCHANGED task

\* _apply_stop: only a workflow that works is blocked.
ApplyStop(x, jobs) ==
    /\ loop[x].act = "stop"
    /\ job' = jobs
    /\ wf' = (IF wf.status \in {"running", "reviewing"}
              THEN WorkflowMoved("blocked") ELSE wf)
    /\ UNCHANGED task

\* Whatever changed the workflow since makes a decision stale.
Fresh(x) == loop[x].st = "proposed" /\ wf.rev = loop[x].rev

StillApplies(x) ==
    CASE loop[x].act = "continue" -> "continue" \in Allowed(x)
      [] loop[x].act = "retry" -> task[x[1]] = "failed" /\ loop[x].obs = "transient"
      [] loop[x].act = "complete" -> /\ loop[x].obs = "reviewed" /\ Completable
                                     /\ WorkflowMayMove(wf.status, "completed")
      [] OTHER -> TRUE

ApplyDecision(w) ==
    LET x    == Source(w)
        jobs == Ended(job, loc[w].op, "succeeded", "none") IN
    /\ Subject(w, "apply")
    /\ \/ /\ Publishable(w) /\ Fresh(x)
          /\ \/ ApplyContinue(x, jobs) \/ ApplyRetry(x, jobs)
             \/ ApplyComplete(x, jobs) \/ ApplyStop(x, jobs)
          /\ loop' = [loop EXCEPT ![x].st = "applied"]
          /\ UNCHANGED <<failedRun, passed>>
          /\ Return(w)
       \/ /\ ~(Publishable(w) /\ Fresh(x) /\ StillApplies(x))
          /\ Raise(w)
    /\ UNCHANGED <<gateway, bounds>>

-----------------------------------------------------------------------------
(* The lease clock, the life of a process, the user. *)

\* The heartbeat of a looping process keeps its lease; nobody renews what a
\* stopped or stopping process or a failed settlement left behind.
Renewed(op) ==
    \E w \in Workers : /\ mode[w] = "looping" /\ pc[w] \notin {"idle", "down"}
                       /\ loc[w].op = op /\ Holds(w, op, loc[w].att)
LeaseExpires(op) ==
    /\ job[op].st = "leased" /\ ~job[op].exp /\ ~Renewed(op)
    /\ job' = [job EXCEPT ![op].exp = TRUE]
    /\ UNCHANGED <<wf, task, failedRun, passed, loop, gateway, procs, bounds>>

Boot(w) ==
    /\ mode[w] = "down" /\ \A v \in Workers : mode[v] \in {"down", "draining"}
    /\ mode' = [mode EXCEPT ![w] = "booting"]
    /\ Goto(w, "idle")
    /\ UNCHANGED <<rows, loc, gateway, bounds>>

\* The end of recover(): the loop's jobs are recreated.  The scan for orphaned
\* tasks before it and the sweep of cancellations find nothing
\* (NothingAbandoned).
BootDone(w) ==
    /\ pc[w] = "idle" /\ mode[w] = "booting" /\ NothingDue
    /\ job' = IF wf.status \in WorkflowTerminal THEN job ELSE Healed
    /\ mode' = [mode EXCEPT ![w] = "looping"]
    /\ UNCHANGED <<wf, task, failedRun, passed, loop, gateway, pc, loc, bounds>>

Crash(w) ==
    /\ mode[w] # "down" /\ stops < MaxStops
    /\ mode' = [mode EXCEPT ![w] = "down"]
    /\ Goto(w, "down") /\ Forget(w)
    /\ stops' = stops + 1
    /\ UNCHANGED <<rows, gateway, asked, changes>>

\* stop() gives up on the thread in flight, which goes on without a heartbeat.
Drain(w) ==
    /\ mode[w] = "looping" /\ pc[w] # "idle" /\ stops < MaxStops
    /\ mode' = [mode EXCEPT ![w] = "draining"]
    /\ stops' = stops + 1
    /\ UNCHANGED <<rows, pc, loc, gateway, asked, changes>>

\* A settlement that finds the database locked writes nothing.
SettlementFails(w) ==
    /\ pc[w] = "settle" /\ stops < MaxStops
    /\ stops' = stops + 1
    /\ Leave(w)
    /\ UNCHANGED <<rows, gateway, asked, changes>>

\* The settings of the model are read when the process starts.
Reconfigure ==
    /\ gateway /\ changes < MaxReconfigurations
    /\ \A w \in Workers : mode[w] = "down"
    /\ gateway' = FALSE
    /\ changes' = changes + 1
    /\ UNCHANGED <<rows, procs, asked, stops>>

\* retry_workflow: from the newest failed step or review, never from a control
\* job.
RetryWorkflow ==
    LET s == failedRun IN
    /\ wf.status = "failed" /\ asked < MaxRequests
    /\ s # 0 /\ job[Run(s)].st = "failed"
    /\ s \in Tasks => task[s] = "failed"
    /\ asked' = asked + 1
    /\ job' = Enqueued(job, Run(s), job[Run(s)].att + 1)
    /\ task' = IF s \in Tasks THEN [task EXCEPT ![s] = "queued"] ELSE task
    /\ wf' = WorkflowMoved(IF s = Review THEN "reviewing" ELSE "running")
    /\ UNCHANGED <<failedRun, passed, loop, gateway, procs, stops, changes>>

\* request_cancel: carried out at once unless a job is leased.
RequestCancel ==
    /\ wf.status \notin {"cancelled", "completed"} /\ ~wf.cancel
    /\ IF NoneLeased
       THEN /\ job' = [op \in Ops |-> IF job[op].st = "queued"
                                      THEN [job[op] EXCEPT !.st = "cancelled", !.pos = 0]
                                      ELSE job[op]]
            /\ task' = [s \in Tasks |-> IF task[s] \in TaskCancellable
                                        THEN "cancelled" ELSE task[s]]
            /\ wf' = [status |-> "cancelled", rev |-> wf.rev + 2, cancel |-> TRUE]
       ELSE /\ wf' = [wf EXCEPT !.cancel = TRUE, !.rev = @ + 1]
            /\ UNCHANGED <<job, task>>
    /\ UNCHANGED <<failedRun, passed, loop, gateway, procs, bounds>>

-----------------------------------------------------------------------------
(* The specification, from the state the approval of the plan commits. *)

Init ==
    /\ wf = [status |-> "running", rev |-> 1, cancel |-> FALSE]
    /\ task = [s \in Tasks |-> IF s = 1 THEN "queued" ELSE "pending"]
    /\ job = [op \in Ops |-> IF op = Run(1) THEN Queued(1, 1) ELSE NoJob]
    /\ failedRun = 0 /\ passed = FALSE
    /\ loop = [x \in Sources |-> NoLoop]
    /\ gateway = TRUE
    /\ mode = [w \in Workers |-> "down"]
    /\ pc = [w \in Workers |-> "down"]
    /\ loc = [w \in Workers |-> NoLoc]
    /\ asked = 0 /\ stops = 0 /\ changes = 0

WorkerStep(w) ==
    \/ RecoverExpired(w) \/ BootDone(w) \/ Claim(w)
    \/ ExecuteRun(w)     \/ Observe(w)
    \/ Decide(w)         \/ BeginInvocation(w) \/ Send(w) \/ AnswerArrives(w)
    \/ ApplyDecision(w)  \/ Settle(w) \/ Heal(w)

Next ==
    \/ \E w \in Workers : \/ WorkerStep(w) \/ Boot(w) \/ Crash(w) \/ Drain(w)
                          \/ SettlementFails(w)
    \/ \E op \in Ops : LeaseExpires(op)
    \/ Reconfigure \/ RetryWorkflow \/ RequestCancel

Spec == Init /\ [][Next]_vars

\* The loop polls, a closed application is opened again, and a lease nobody
\* renews expires.  Users, crashes and new settings owe nothing.
Fairness ==
    /\ \A w \in Workers : WF_vars(WorkerStep(w))
    /\ WF_vars(\E w \in Workers : Boot(w))
    /\ WF_vars(\E op \in Ops : LeaseExpires(op))

FairSpec == Spec /\ Fairness

-----------------------------------------------------------------------------
(* Type invariant and safety. *)

\* Every variable holds what its row or its thread can hold.
TypeOK ==
    /\ wf \in [status: Phases, rev: Nat, cancel: BOOLEAN]
    /\ task \in [Tasks -> TaskStatuses]
    /\ job \in [Ops -> [att: Nat, tok: Workers \cup {NoWorker}, exp: BOOLEAN,
                        pos: Nat, st: {"absent", "queued", "leased", "succeeded", "failed",
                             "cancelled"}, code: Codes]]
    /\ failedRun \in 0..Review /\ passed \in BOOLEAN
    /\ loop \in [Sources -> [obs: {"none", "output", "transient", "failed", "reviewed"},
                             act: {"none", "continue", "retry", "complete", "stop"},
                             rev: Nat, st: {"none", "proposed", "applied"},
                             inv: {"none", "pending", "done", "failed"}, calls: Nat]]
    /\ gateway \in BOOLEAN
    /\ mode \in [Workers -> {"down", "booting", "looping", "draining"}]
    /\ pc \in [Workers -> Labels]
    /\ loc \in [Workers -> [op: Ops, att: Nat, rev: Nat,
                            inv: {"none", "pending", "done", "failed"}]]
    /\ asked \in 0..MaxRequests /\ stops \in 0..MaxStops
    /\ changes \in 0..MaxReconfigurations

\* The remote model is asked at most once about an observation, however often
\* the decision's job is lost, taken over or repeated: an answer that may have
\* been paid for is never bought again.
ModelAskedOnce == \A x \in Sources : loop[x].calls <= 1

\* The agent's own retries stay within MAX_STEP_RETRIES although the count is
\* read when a decision is made and the retry happens transactions later.
RetriesBounded == Cardinality(AppliedRetries) <= MaxStepRetries

\* Every attempt of a step is accounted for: the worker repeats a lost one up
\* to MAX_JOB_ATTEMPTS times, everything beyond was decided by the agent about
\* this very step or asked for by the user.
AttemptsAccounted ==
    \A s \in Subjects :
        job[Run(s)].att <= MaxJobAttempts + asked
            + Cardinality({x \in AppliedRetries : x[1] = s})

\* The attempts are budgeted: what the agent retries stays within its limit and
\* whatever else is tried again has somebody who decided it.
AttemptsBudgeted == RetriesBounded /\ AttemptsAccounted

\* The steps and the review run one at a time and in order, whoever queued
\* them: the agent, its recovery, the worker's retry or the user.  A workflow
\* the agent completed has all of them behind it.  (The observation of an
\* attempt the user repeated may still be queued.)
OneRunInOrder ==
    /\ \A s, k \in Subjects :
          s < k /\ job[Run(k)].att > 0 /\ wf.status # "cancelled"
              => task[s] = "completed" /\ ~Active(Run(s))
    /\ wf.status = "completed" => passed /\ ~Active(Run(Review))

\* A step that runs has a job somebody will finish or recover, and a requested
\* cancellation waits only for a job that is leased: the scan for orphans of
\* recover() and the sweep of run_once never find anything.
NothingAbandoned ==
    /\ \A s \in Tasks :
          task[s] = "running" /\ wf.status = "running" =>
              \E op \in Ops : HasTask(op) /\ op[2] = s /\ Active(op)
    /\ wf.cancel /\ wf.status \notin WorkflowTerminal => ~NoneLeased

\* Cancelling empties the queue for good: neither a settlement nor the recovery
\* pass puts a job back.  (A second lease, left behind by a settlement that
\* failed, may outlive the cancellation; its recovery acknowledges it again.)
CancelledStaysEmpty ==
    wf.status = "cancelled" => \A op \in Ops : job[op].st # "queued"

\* The records agree: every row is in a state the code names, what runs has a job, and
\* what was cancelled has none.
RecordsAgree == TypeOK /\ NothingAbandoned /\ CancelledStaysEmpty

-----------------------------------------------------------------------------
(* Liveness, under Fairness. *)

\* An autonomous workflow that works comes to an end or to the user.
WorkEnds ==
    wf.status \in {"running", "reviewing"} ~>
        wf.status \in {"blocked", "failed", "completed", "cancelled"}

\* A step that failed is observed, or tried again, or cancelled.
FailureIsObserved ==
    \A s \in Tasks :
        task[s] = "failed" ~>
            \/ task[s] # "failed"
            \/ loop[<<s, job[Run(s)].att>>].obs # "none"

\* The loop never loses the thread, whichever control job a crash took away: an autonomous
\* workflow that works comes to an end or to the user, and a failure the settlement did
\* not get to queue an observation for is observed all the same.
LoopSettles == WorkEnds /\ FailureIsObserved

\* A lease that ran out is settled.  worker.py:117-119 says recovery is part of
\* the steady-state loop so that no leased job stays invisible until the
\* process is restarted.
ExpiredLeaseIsSettled ==
    \A op \in Ops : Due(op) ~> ~Due(op)
=============================================================================

---------------------------- MODULE AgentIntake ----------------------------
(***************************************************************************)
(* The intake of an autonomous run: from the user's goal to a plan the     *)
(* user approved.  A route job asks a model (or a local rule) what the     *)
(* goal calls for; the answer is a workflow type, a question to the user   *)
(* or a refusal.  A plan job drafts a plan, or asks a scientific question  *)
(* of its own.  The user answers, changes an answer given before,          *)
(* cancels, retries and approves, at any moment, from several windows;     *)
(* a worker process may crash or lose its lease between any two of its     *)
(* transactions, and a request reads before it takes SQLite's write lock.  *)
(***************************************************************************)
EXTENDS Integers, Sequences, FiniteSets, WorkflowState

CONSTANTS
    Processes,      \* science-core processes on the same database
    NoProcess,
    Tabs,           \* requests of the user that may be under way at once
    Modes,          \* generation modes a run may be started in
    MaxAttempts,    \* MAX_JOB_ATTEMPTS
    MaxAnswers,     \* bound: answers the user gives
    MaxTroubles     \* bound: crashes, leases lost by an owner that goes on working,
                    \* and retries the user asks for, in all

ASSUME IntakeAssumption ==
    /\ NoProcess \notin Processes
    /\ Modes \subseteq {"local", "remote"} /\ Modes # {}
    /\ MaxAttempts \in Nat \ {0} /\ MaxAnswers \in Nat /\ MaxTroubles \in Nat

\* A route job is known by the number of the answer it follows, 0 for the goal
\* itself; a plan job by the version it reserves.  Each answer makes one route job
\* or one plan job and each route job at most one plan job, so there are never more.
Routes == 0 .. MaxAnswers
Versions == 1 .. MaxAnswers + 1
Ops == ({"route"} \X Routes) \cup ({"plan"} \X Versions)

VARIABLES
    wf,       \* the workflow row: status, row_version, cancel flag, generation
              \* mode, and the route whose decision is its current one
    dec,      \* the recorded decision of each route
    inv,      \* the model invocation of each route
    job,      \* the newest attempt of each operation
    failed,   \* operation of the job that failed last
    question, \* the interaction requests, oldest first
    answers,  \* the user's responses, oldest first
    plan,     \* the plans, by version
    pc, loc,  \* where each process is, and what it works on
    tab,      \* what each request of the user has read, NoRead when it is idle
    asked,    \* history: how often the model was asked for each route
    troubles  \* crashes, lost leases and retries so far

rows == <<wf, dec, inv, job, failed, question, answers, plan>>
vars == <<wf, dec, inv, job, failed, question, answers, plan, pc, loc, tab, asked, troubles>>

Workflows == {"literature", "dataset"}
Intents == Workflows \cup {"clarify", "unsupported"}
NoDecision == -1
NoOp == <<"route", 0>>
NoRead == [question |-> 0, rev |-> 0]
Idle == [op |-> NoOp, att |-> 0, rev |-> 0, intent |-> "none"]
-----------------------------------------------------------------------------
(* Rows                                                                    *)

NoJob == [att |-> 0, st |-> "absent", holder |-> NoProcess, live |-> FALSE, in |-> 0]
Ended(jobs, op, status) ==
    [jobs EXCEPT ![op].st = status, ![op].holder = NoProcess, ![op].live = FALSE]
CancelQueuedMut(jobs) == jobs
CancelQueued(jobs) ==
    [op \in Ops |-> IF jobs[op].st = "queued" THEN Ended(jobs, op, "cancelled")[op] ELSE jobs[op]]

Leased == {op \in Ops : job[op].st = "leased"}
Expired == {op \in Leased : ~job[op].live}
Holds(p) ==
    job[loc[p].op].st = "leased" /\ job[loc[p].op].holder = p /\ job[loc[p].op].att = loc[p].att

\* What a job's input hash binds: a route, the answers; a plan, the decision.  The
\* hash of a plan cannot even be computed while the workflow has no decision.
InputOf(op) == IF op[1] = "route" THEN Len(answers) ELSE wf.decision
Compatible(op) == job[op].in = InputOf(op)
Unhashable(op) == op[1] = "plan" /\ wf.decision = NoDecision

Enqueued(jobs, op, att, in) ==
    [jobs EXCEPT ![op] = [NoJob EXCEPT !.att = att, !.st = "queued", !.in = in]]

\* _next_plan_version: plans have the version their job reserved.
NextVersion(jobs) ==
    1 + Cardinality({v \in Versions : jobs[<<"plan", v>>].st # "absent"})

Moved(status) ==
    IF wf.status = status THEN wf ELSE [wf EXCEPT !.status = status, !.rev = @ + 1]
Type == IF wf.decision = NoDecision THEN "none" ELSE dec[wf.decision]

\* Questions that are pending or answered count as open: an answer may be changed.
Open(i) == question[i].st \in {"pending", "answered"}
Latest(i) == Open(i) /\ \A j \in i + 1 .. Len(question) : ~Open(j)
Closed(status, which(_)) ==
    [i \in DOMAIN question |-> IF which(i) THEN [question[i] EXCEPT !.st = status] ELSE question[i]]
Pending(i) == question[i].st = "pending"
Question(kind, rev) == [kind |-> kind, st |-> "pending", rev |-> rev]

Superseded ==
    [v \in Versions |-> IF plan[v].st = "pending" THEN [plan[v] EXCEPT !.st = "superseded"]
                        ELSE plan[v]]

\* acknowledge_cancellation, and request_cancel when no job is leased
CancelAll(jobs) ==
    /\ job' = CancelQueued(jobs)
    /\ question' = Closed("cancelled", Pending)
    /\ UNCHANGED <<dec, inv, failed, answers, plan>>

Move(p, to) == pc' = [pc EXCEPT ![p] = to]
Done(p) == Move(p, "idle") /\ loc' = [loc EXCEPT ![p] = Idle]
-----------------------------------------------------------------------------
(* A worker process: taking a job                                          *)

\* claim_next_job, mark_leased_job_started.  A pass of the loop recovers the expired
\* leases before it claims.  The order of available_at is left open.
Claim(p, op) ==
    /\ pc[p] = "idle" /\ Expired = {} /\ job[op].st = "queued"
    /\ ~wf.cancel /\ wf.status \notin WorkflowTerminal
    /\ job' = [job EXCEPT ![op].st = "leased", ![op].holder = p, ![op].live = TRUE]
    /\ loc' = [loc EXCEPT ![p] = [Idle EXCEPT !.op = op, !.att = job[op].att]]
    /\ Move(p, "claimed")
    /\ UNCHANGED <<wf, dec, inv, failed, question, answers, plan, tab, asked, troubles>>

\* "job-lease-lost": the settlement that follows finds somebody else's lease too.
LeaseLost(p) ==
    /\ pc[p] \notin {"idle", "down", "sending", "answered"} /\ ~Holds(p)
    /\ Done(p)
    /\ UNCHANGED <<rows, tab, asked, troubles>>

Acknowledge(p) ==
    /\ pc[p] = "claimed" /\ Holds(p) /\ wf.cancel
    /\ wf' = Moved("cancelled")
    /\ CancelAll(Ended(job, loc[p].op, "cancelled"))
    /\ Done(p)
    /\ UNCHANGED <<tab, asked, troubles>>

\* The job's inputs changed, the workflow is elsewhere, or a source, the gateway or
\* the data is refused; what was not committed is rolled back, so a handler may as
\* well fail at its start, unless it committed a decision before.
HandlerFails(p) ==
    /\ Holds(p)
    /\ \/ pc[p] = "claimed" /\ ~wf.cancel
       \/ pc[p] = "decided" /\ dec[loc[p].op[2]] = "dataset"
    /\ Move(p, "settling")
    /\ UNCHANGED <<rows, loc, tab, asked, troubles>>

Reads(p, kind, status) ==
    /\ pc[p] = "claimed" /\ Holds(p) /\ ~wf.cancel
    /\ loc[p].op[1] = kind /\ wf.status = status /\ Compatible(loc[p].op)
-----------------------------------------------------------------------------
(* handle_route_intent                                                     *)

Route(p) == loc[p].op[2]
Decided(p, intent) ==
    /\ loc' = [loc EXCEPT ![p].intent = intent, ![p].rev = wf.rev]
    /\ Move(p, "decided")

\* A local run decides in the transaction that publishes.
RouteLocally(p, intent) ==
    /\ Reads(p, "route", "routing") /\ inv[Route(p)] = "none" /\ wf.mode = "local"
    /\ Decided(p, intent)
    /\ UNCHANGED <<rows, tab, asked, troubles>>

\* _begin_model_invocation: the request is durable before it is sent.
BeginInvocation(p) ==
    /\ Reads(p, "route", "routing") /\ inv[Route(p)] = "none" /\ wf.mode = "remote"
    /\ inv' = [inv EXCEPT ![Route(p)] = "pending"]
    /\ Move(p, "begun")
    /\ UNCHANGED <<wf, dec, job, failed, question, answers, plan, loc, tab, asked, troubles>>

\* A pending invocation may have been sent: the local rule decides instead of it.
RecoverInvocationMut(p, intent) ==
    /\ Reads(p, "route", "routing")
    /\ inv[Route(p)] = "pending" /\ dec[Route(p)] = "none"
    /\ Move(p, "begun")
    /\ UNCHANGED <<rows, loc, tab, asked, troubles>>
RecoverInvocation(p, intent) ==
    /\ Reads(p, "route", "routing")
    /\ inv[Route(p)] = "pending" /\ dec[Route(p)] = "none"
    /\ inv' = [inv EXCEPT ![Route(p)] = "ended"]
    /\ dec' = [dec EXCEPT ![Route(p)] = intent]
    /\ Decided(p, intent)
    /\ UNCHANGED <<wf, job, failed, question, answers, plan, tab, asked, troubles>>

ReuseDecision(p) ==
    /\ Reads(p, "route", "routing") /\ inv[Route(p)] = "ended" /\ dec[Route(p)] # "none"
    /\ Decided(p, dec[Route(p)])
    /\ UNCHANGED <<rows, tab, asked, troubles>>

\* The lease and the cancel flag are read again between the two transactions.
CheckBeforeSending(p) ==
    /\ pc[p] = "begun" /\ Holds(p)
    /\ IF wf.cancel
       THEN inv' = [inv EXCEPT ![Route(p)] = IF @ = "pending" THEN "ended" ELSE @]
            /\ Move(p, "settling")
       ELSE Move(p, "sending") /\ UNCHANGED inv
    /\ UNCHANGED <<wf, dec, job, failed, question, answers, plan, loc, tab, asked, troubles>>

\* An answer that chose between the two workflows needs no model: the decision is
\* local after all, and nothing ends the invocation.
UseExplicitChoice(p, intent) ==
    /\ pc[p] = "sending" /\ Route(p) > 0 /\ intent \in Workflows
    /\ loc' = [loc EXCEPT ![p].intent = intent, ![p].rev = wf.rev]
    /\ Move(p, "decided")
    /\ UNCHANGED <<rows, tab, asked, troubles>>

\* The request; what came back, or a fallback when nothing usable did.
AskModel(p, intent) ==
    /\ pc[p] = "sending"
    /\ asked' = [asked EXCEPT ![Route(p)] = @ + 1]
    /\ loc' = [loc EXCEPT ![p].intent = intent]
    /\ Move(p, "answered")
    /\ UNCHANGED <<rows, tab, troubles>>

\* _finalize_model_invocation takes the invocation from pending or uses the decision
\* that somebody else recorded; then the publication state is read afresh.
FinalIntentMut(p) == loc[p].intent
FinalIntent(p) == IF inv[Route(p)] = "pending" THEN loc[p].intent ELSE dec[Route(p)]
FinalizeInvocation(p) ==
    /\ pc[p] = "answered"
    /\ inv' = [inv EXCEPT ![Route(p)] = "ended"]
    /\ dec' = [dec EXCEPT ![Route(p)] = FinalIntent(p)]
    /\ IF Holds(p) THEN Decided(p, FinalIntent(p)) ELSE Done(p)
    /\ UNCHANGED <<wf, job, failed, question, answers, plan, tab, asked, troubles>>

\* The guards of the publishing transaction, and the one that ends every handler's.
Publishes(p) == Holds(p) /\ wf.rev = loc[p].rev /\ ~wf.cancel

PublicationFails(p) ==
    /\ pc[p] \in {"decided", "planning"} /\ Holds(p) /\ ~Publishes(p)
    /\ Move(p, "settling")
    /\ UNCHANGED <<rows, loc, tab, asked, troubles>>

Recorded(p) == dec' = [dec EXCEPT ![Route(p)] = loc[p].intent]

\* _resolve_agent_workflow and the first job of the plan
PublishWorkflow(p) ==
    LET ended == Ended(job, loc[p].op, "succeeded") IN
    /\ pc[p] = "decided" /\ Publishes(p) /\ loc[p].intent \in Workflows
    /\ Recorded(p)
    /\ wf' = [Moved("planning") EXCEPT !.decision = Route(p)]
    /\ job' = Enqueued(ended, <<"plan", NextVersion(ended)>>, 1, Route(p))
    /\ Done(p)
    /\ UNCHANGED <<inv, failed, question, answers, plan, tab, asked, troubles>>

\* _create_intent_interaction
SupersededByIntentMut == question
SupersededByIntent == Closed("superseded", Open)
PublishQuestion(p) ==
    /\ pc[p] = "decided" /\ Publishes(p) /\ loc[p].intent = "clarify"
    /\ Recorded(p)
    /\ wf' = [Moved("waiting-clarification") EXCEPT !.decision = Route(p)]
    /\ question' = Append(SupersededByIntent, Question("intent", wf.rev + 1))
    /\ job' = Ended(job, loc[p].op, "succeeded")
    /\ Done(p)
    /\ UNCHANGED <<inv, failed, answers, plan, tab, asked, troubles>>

PublishRefusal(p) ==
    /\ pc[p] = "decided" /\ Publishes(p) /\ loc[p].intent = "unsupported"
    /\ Recorded(p)
    /\ wf' = [Moved("unsupported") EXCEPT !.decision = Route(p)]
    /\ job' = Ended(job, loc[p].op, "succeeded")
    /\ Done(p)
    /\ UNCHANGED <<inv, failed, question, answers, plan, tab, asked, troubles>>
-----------------------------------------------------------------------------
(* handle_generate_plan                                                    *)

BeginPlan(p) ==
    /\ Reads(p, "plan", "planning")
    /\ loc' = [loc EXCEPT ![p].rev = wf.rev]
    /\ Move(p, "planning")
    /\ UNCHANGED <<rows, tab, asked, troubles>>

\* A pending plan is never found here: whatever leads back to planning superseded it.
PublishPlan(p) ==
    LET v == loc[p].op[2] IN
    /\ pc[p] = "planning" /\ Publishes(p)
    /\ \A w \in Versions : plan[w].st # "none" => w < v
    /\ plan' = [plan EXCEPT ![v] = [st |-> "pending", seen |-> Len(answers)]]
    /\ wf' = Moved("waiting-plan-approval")
    /\ job' = Ended(job, loc[p].op, "succeeded")
    /\ Done(p)
    /\ UNCHANGED <<dec, inv, failed, question, answers, tab, asked, troubles>>

\* create_scientific_interaction: the workflow's revision stays what it is.  The same
\* question asked again at the same revision is the pending one.
Scientific(i) == Pending(i) /\ question[i].kind = "science"
AskScientifically(p) ==
    /\ pc[p] = "planning" /\ Publishes(p) /\ Type = "dataset"
    /\ \/ /\ question' = Append(Closed("superseded", Scientific), Question("science", wf.rev))
       \/ /\ \E i \in DOMAIN question : Scientific(i) /\ question[i].rev = wf.rev
          /\ UNCHANGED question
    /\ job' = Ended(job, loc[p].op, "succeeded")
    /\ Done(p)
    /\ UNCHANGED <<wf, dec, inv, failed, answers, plan, tab, asked, troubles>>

\* UnsupportedAnalysis
BlockAnalysis(p) ==
    /\ pc[p] = "planning" /\ Publishes(p) /\ Type = "dataset"
    /\ wf' = Moved("blocked")
    /\ job' = Ended(job, loc[p].op, "succeeded")
    /\ Done(p)
    /\ UNCHANGED <<dec, inv, failed, question, answers, plan, tab, asked, troubles>>
-----------------------------------------------------------------------------
(* Settlement and recovery                                                 *)

Fail(op) ==
    /\ job' = Ended(job, op, "failed")
    /\ wf' = Moved("failed")
    /\ failed' = op
    /\ UNCHANGED <<dec, inv, question, answers, plan>>

\* settle_leased_job_error.  A failure the workflow's status does not admit raises:
\* the job stays leased, to a process that has gone on.
Settle(p) ==
    /\ pc[p] = "settling" /\ Holds(p)
    /\ \/ /\ wf.cancel
          /\ wf' = Moved("cancelled")
          /\ CancelAll(Ended(job, loc[p].op, "cancelled"))
       \/ /\ ~wf.cancel /\ WorkflowMayMove(wf.status, "failed")
          /\ Fail(loc[p].op)
       \/ /\ ~wf.cancel /\ ~WorkflowMayMove(wf.status, "failed")
          /\ UNCHANGED rows
    /\ Done(p)
    /\ UNCHANGED <<tab, asked, troubles>>

\* The settlement of an expired lease raises, in every pass and every process.
Raises(op) ==
    /\ ~wf.cancel
    /\ \/ Unhashable(op)
       \/ /\ ~(Compatible(op) /\ job[op].att < MaxAttempts)
          /\ ~WorkflowMayMove(wf.status, "failed")
Stuck == \E op \in Expired : Raises(op)

\* _recover_expired_jobs takes the lease over and settles it.
RecoverCancelled(p, op) ==
    /\ pc[p] = "idle" /\ op \in Expired /\ wf.cancel
    /\ wf' = Moved("cancelled")
    /\ CancelAll(Ended(job, op, "cancelled"))
    /\ UNCHANGED <<pc, loc, tab, asked, troubles>>

RecoverAgainMut(p, op) ==     \* the attempt it enqueues is the one that just ended
    /\ pc[p] = "idle" /\ op \in Expired /\ ~wf.cancel
    /\ ~Unhashable(op) /\ Compatible(op) /\ job[op].att < MaxAttempts
    /\ job' = Ended(job, op, "failed")
    /\ failed' = op
    /\ UNCHANGED <<wf, dec, inv, question, answers, plan, pc, loc, tab, asked, troubles>>
RecoverAgain(p, op) ==
    /\ pc[p] = "idle" /\ op \in Expired /\ ~wf.cancel
    /\ ~Unhashable(op) /\ Compatible(op) /\ job[op].att < MaxAttempts
    /\ job' = Enqueued(job, op, job[op].att + 1, job[op].in)
    /\ failed' = op
    /\ UNCHANGED <<wf, dec, inv, question, answers, plan, pc, loc, tab, asked, troubles>>

RecoverFailed(p, op) ==
    /\ pc[p] = "idle" /\ op \in Expired /\ ~wf.cancel /\ ~Raises(op)
    /\ ~(Compatible(op) /\ job[op].att < MaxAttempts)
    /\ Fail(op)
    /\ UNCHANGED <<pc, loc, tab, asked, troubles>>

\* The take-over is committed before the settlement raises.
RecoverRaises(p, op) ==
    /\ pc[p] = "idle" /\ op \in Expired /\ Raises(op) /\ job[op].holder # NoProcess
    /\ job' = [job EXCEPT ![op].holder = NoProcess]
    /\ UNCHANGED <<wf, dec, inv, failed, question, answers, plan, pc, loc, tab, asked, troubles>>
-----------------------------------------------------------------------------
(* The user                                                                *)

\* respond_to_interaction up to its first write.  What it reads may change until it
\* writes; the revision is compared again then, the leases and the questions are not.
ReadQuestion(t, i) ==
    LET science == question[i].kind = "science" IN
    /\ tab[t] = NoRead /\ Len(answers) < MaxAnswers
    /\ Latest(i)
    /\ wf.status \in {"waiting-clarification", "planning", "waiting-plan-approval"}
    /\ science => Type = "dataset"
    /\ (science \/ wf.status # "waiting-clarification") => Leased = {}
    /\ tab' = [tab EXCEPT ![t] = [question |-> i, rev |-> wf.rev]]
    /\ UNCHANGED <<rows, pc, loc, asked, troubles>>

UnchangedFor(t) == wf.rev = tab[t].rev

Answered(t) ==
    /\ answers' = Append(answers, tab[t])
    /\ question' = [question EXCEPT ![tab[t].question].st = "answered"]

\* A scientific answer plans again, a changed answer about the intent routes again,
\* without the model; the plan of the old answers and its queued jobs are given up.
SupersedePlanMut == plan
SupersedePlan == Superseded

AnswerScienceMut(t) ==        \* the queued jobs are cancelled after the new one is there
    /\ question[tab[t].question].kind = "science"
    /\ wf' = [wf EXCEPT !.status = "planning", !.rev = @ + 1]
    /\ plan' = SupersedePlan
    /\ job' = CancelQueued(Enqueued(job, <<"plan", NextVersion(job)>>, 1, wf.decision))
AnswerScience(t) ==
    LET rest == CancelQueued(job) IN
    /\ question[tab[t].question].kind = "science"
    /\ wf' = [wf EXCEPT !.status = "planning", !.rev = @ + 1]
    /\ plan' = SupersedePlan
    /\ job' = Enqueued(rest, <<"plan", NextVersion(rest)>>, 1, wf.decision)

ChangeIntentMut(t) ==         \* the old decision stays bound
    /\ question[tab[t].question].kind = "intent" /\ wf.status # "waiting-clarification"
    /\ wf' = [wf EXCEPT !.status = "routing", !.rev = @ + 1, !.mode = "local"]
    /\ plan' = SupersedePlan
    /\ job' = Enqueued(CancelQueued(job), <<"route", Len(answers) + 1>>, 1, Len(answers) + 1)
ChangeIntent(t) ==
    /\ question[tab[t].question].kind = "intent" /\ wf.status # "waiting-clarification"
    /\ wf' = [wf EXCEPT !.status = "routing", !.rev = @ + 1, !.decision = NoDecision,
                        !.mode = "local"]
    /\ plan' = SupersedePlan
    /\ job' = Enqueued(CancelQueued(job), <<"route", Len(answers) + 1>>, 1, Len(answers) + 1)

AnswerIntent(t) ==
    /\ question[tab[t].question].kind = "intent" /\ wf.status = "waiting-clarification"
    /\ wf' = [wf EXCEPT !.status = "routing", !.rev = @ + 1, !.decision = NoDecision]
    /\ job' = Enqueued(job, <<"route", Len(answers) + 1>>, 1, Len(answers) + 1)
    /\ UNCHANGED plan

SubmitAnswer(t) ==
    /\ tab[t] # NoRead /\ UnchangedFor(t) /\ Len(answers) < MaxAnswers
    /\ AnswerScience(t) \/ ChangeIntent(t) \/ AnswerIntent(t)
    /\ Answered(t)
    /\ tab' = [tab EXCEPT ![t] = NoRead]
    /\ UNCHANGED <<dec, inv, failed, pc, loc, asked, troubles>>

\* "workflow-revision-conflict"
AnswerRefused(t) ==
    /\ tab[t] # NoRead /\ ~UnchangedFor(t)
    /\ tab' = [tab EXCEPT ![t] = NoRead]
    /\ UNCHANGED <<rows, pc, loc, asked, troubles>>

\* request_cancel; what comes after the approval is not the intake's.
RequestCancel ==
    /\ wf.status \notin {"cancelled", "unsupported", "running"} /\ ~wf.cancel
    /\ IF Leased = {}
       THEN /\ wf' = [wf EXCEPT !.status = "cancelled", !.rev = @ + 2, !.cancel = TRUE]
            /\ CancelAll(job)
       ELSE /\ wf' = [wf EXCEPT !.rev = @ + 1, !.cancel = TRUE]
            /\ UNCHANGED <<dec, inv, job, failed, question, answers, plan>>
    /\ UNCHANGED <<pc, loc, tab, asked, troubles>>

\* _retry_workflow_once: the job that failed last, if its inputs are still the same
\* and its next attempt is not there already.
RetryTarget == IF failed[1] = "route" THEN "routing" ELSE "planning"
Retry ==
    /\ wf.status = "failed" /\ troubles < MaxTroubles
    /\ \A v \in Versions : plan[v].st # "approved"
    /\ job[failed].st = "failed" /\ Compatible(failed)
    /\ job' = Enqueued(job, failed, job[failed].att + 1, job[failed].in)
    /\ wf' = Moved(RetryTarget)
    /\ troubles' = troubles + 1
    /\ UNCHANGED <<dec, inv, failed, question, answers, plan, pc, loc, tab, asked>>

\* approve_plan ends the intake.
Approve(v) ==
    /\ wf.status = "waiting-plan-approval" /\ plan[v].st = "pending"
    /\ plan' = [plan EXCEPT ![v].st = "approved"]
    /\ wf' = Moved("running")
    /\ UNCHANGED <<dec, inv, job, failed, question, answers, pc, loc, tab, asked, troubles>>
-----------------------------------------------------------------------------
(* Leases and crashes                                                      *)

Lapse(op) == job' = [job EXCEPT ![op].live = FALSE]

\* The owner is gone: nobody renews the lease.
LeaseRunsOut(op) ==
    /\ op \in Leased /\ job[op].live
    /\ ~\E p \in Processes : Holds(p) /\ loc[p].op = op /\ pc[p] \notin {"idle", "down"}
    /\ Lapse(op)
    /\ UNCHANGED <<wf, dec, inv, failed, question, answers, plan, pc, loc, tab, asked, troubles>>

Works(p) == pc[p] \notin {"idle", "down"} /\ Holds(p)

\* The owner works on, but its heartbeats come too late.
Stall(p) ==
    /\ Works(p) /\ job[loc[p].op].live /\ troubles < MaxTroubles
    /\ Lapse(loc[p].op)
    /\ troubles' = troubles + 1
    /\ UNCHANGED <<wf, dec, inv, failed, question, answers, plan, pc, loc, tab, asked>>

\* The heartbeat renews by token, also a lease that has expired but was not taken.
Heartbeat(p) ==
    /\ Works(p) /\ ~job[loc[p].op].live
    /\ job' = [job EXCEPT ![loc[p].op].live = TRUE]
    /\ UNCHANGED <<wf, dec, inv, failed, question, answers, plan, pc, loc, tab, asked, troubles>>

Crash(p) ==
    /\ pc[p] # "down" /\ troubles < MaxTroubles
    /\ Move(p, "down") /\ loc' = [loc EXCEPT ![p] = Idle]
    /\ troubles' = troubles + 1
    /\ UNCHANGED <<rows, tab, asked>>

Boot(p) ==
    /\ pc[p] = "down"
    /\ Move(p, "idle")
    /\ UNCHANGED <<rows, loc, tab, asked, troubles>>

\* start_agent_run: the workflow and its first route job, in one transaction.
Init ==
    /\ \E mode \in Modes :
          wf = [status |-> "routing", rev |-> 1, cancel |-> FALSE, mode |-> mode,
                decision |-> NoDecision]
    /\ dec = [n \in Routes |-> "none"]
    /\ inv = [n \in Routes |-> "none"]
    /\ job = Enqueued([op \in Ops |-> NoJob], <<"route", 0>>, 1, 0)
    /\ failed = NoOp
    /\ question = <<>>
    /\ answers = <<>>
    /\ plan = [v \in Versions |-> [st |-> "none", seen |-> 0]]
    /\ pc = [p \in Processes |-> "idle"]
    /\ loc = [p \in Processes |-> Idle]
    /\ tab = [t \in Tabs |-> NoRead]
    /\ asked = [n \in Routes |-> 0]
    /\ troubles = 0

Step(p) ==
    \/ \E op \in Ops : Claim(p, op)
    \/ LeaseLost(p) \/ Acknowledge(p) \/ HandlerFails(p)
    \/ \E intent \in Intents :
          \/ RouteLocally(p, intent) \/ RecoverInvocation(p, intent)
          \/ UseExplicitChoice(p, intent) \/ AskModel(p, intent)
    \/ BeginInvocation(p) \/ ReuseDecision(p) \/ CheckBeforeSending(p) \/ FinalizeInvocation(p)
    \/ PublicationFails(p) \/ PublishWorkflow(p) \/ PublishQuestion(p) \/ PublishRefusal(p)
    \/ BeginPlan(p) \/ PublishPlan(p) \/ AskScientifically(p) \/ BlockAnalysis(p)
    \/ Settle(p) \/ Boot(p)
    \/ \E op \in Ops :
          \/ RecoverCancelled(p, op) \/ RecoverAgain(p, op)
          \/ RecoverFailed(p, op) \/ RecoverRaises(p, op)

User ==
    \/ \E t \in Tabs :
          \/ SubmitAnswer(t) \/ AnswerRefused(t)
          \/ \E i \in DOMAIN question : ReadQuestion(t, i)
    \/ RequestCancel \/ Retry \/ \E v \in Versions : Approve(v)

Next ==
    \/ User
    \/ \E p \in Processes : Step(p) \/ Stall(p) \/ Heartbeat(p) \/ Crash(p)
    \/ \E op \in Ops : LeaseRunsOut(op)

\* The workers' loops go on, a process that went down is started again, the model's
\* client times out and a lease nobody renews runs out; the user owes nothing.
Fairness ==
    /\ \A p \in Processes : WF_vars(Step(p))
    /\ WF_vars(\E op \in Ops : LeaseRunsOut(op))

Spec == Init /\ [][Next]_vars /\ Fairness
-----------------------------------------------------------------------------
(* Properties                                                              *)

\* Every row and every process is in a state the code names, the workflow's type and
\* status agree (ck_workflow_intake_state), and a plan exists only for its own job.
TypeOK ==
    /\ wf \in [status : WorkflowStatuses, rev : Nat, cancel : BOOLEAN,
               mode : {"local", "remote"}, decision : Routes \cup {NoDecision}]
    /\ dec \in [Routes -> Intents \cup {"none"}]
    /\ inv \in [Routes -> {"none", "pending", "ended"}]
    /\ \A op \in Ops : job[op] \in
          [att : Nat, st : {"absent", "queued", "leased", "succeeded", "failed", "cancelled"},
           holder : Processes \cup {NoProcess}, live : BOOLEAN, in : Int]
    /\ wf.status \in {"routing", "waiting-clarification", "unsupported"} => Type \notin Workflows
    /\ wf.status \in {"planning", "waiting-plan-approval", "running"} => Type \in Workflows
    /\ \A v \in Versions : plan[v].st # "none" => job[<<"plan", v>>].st = "succeeded"
    /\ \A t \in Tabs : tab[t] # NoRead => tab[t].question \in DOMAIN question

\* A route is decided once.  The goal and the source titles are sent to the model at most
\* once for it, over crashes, takeovers and retries: the invocation is durable before the
\* request, and a pending one is never sent again.  And what was decided stays: an answer of
\* the model that comes after its request was given up for lost does not replace the
\* decision taken instead of it.
RoutedOnce ==
    [][\A n \in Routes :
          /\ asked'[n] <= 1
          /\ dec[n] # "none" /\ inv[n] = "ended" => dec'[n] = dec[n]]_<<asked, dec, inv>>

\* The plan shown for approval, and the one approved, were drafted with every answer
\* the user gave, also one given while it was drafted or while it was approved.
PlanFollowsAnswers ==
    \A v \in Versions : plan[v].st \in {"pending", "approved"} => plan[v].seen = Len(answers)

\* The intake never just stands: while it routes the job of the newest answer is
\* there, and while it plans there is a job of the current decision or a question
\* which the user can answer.
Live(op) == job[op].st \in {"queued", "leased"} /\ Compatible(op)
IntakeIsNotStranded ==
    /\ wf.status = "routing" => Live(<<"route", Len(answers)>>)
    /\ wf.status = "planning" /\ ~wf.cancel =>
          \/ \E v \in Versions : Live(<<"plan", v>>)
          \/ Type = "dataset" /\ \E i \in DOMAIN question : Latest(i) /\ Scientific(i)

\* The user is never asked two things at once, and a workflow that waits for a
\* clarification shows the question it waits for.
OneOpenQuestion ==
    /\ Cardinality({i \in DOMAIN question : Pending(i)}) <= 1
    /\ wf.status = "waiting-clarification" =>
          \E i \in DOMAIN question : Latest(i) /\ Pending(i) /\ question[i].kind = "intent"

\* Nothing waits for a cancelled run: no job is queued for it and no question is put
\* for it, whatever was under way when it was cancelled.
CancelledIsQuiet ==
    wf.status = "cancelled" =>
        /\ \A op \in Ops : job[op].st # "queued"
        /\ \A i \in DOMAIN question : ~Pending(i)

\* The records agree: type, status, plan and decision fit, a cancelled run waits for
\* nothing, and any other for somebody who can move it on.
RecordsAgree == TypeOK /\ CancelledIsQuiet /\ IntakeIsNotStranded

\* Routing ends in a plan, a question, a refusal or a failure the user sees, and a
\* cancellation is carried out, whatever happens meanwhile, unless an expired job
\* whose settlement raises keeps every process from its work.
Due == wf.status = "routing" \/ (wf.cancel /\ wf.status # "cancelled")
IntakeGoesOn == Due ~> (~Due \/ Stuck)
=============================================================================

-------------------------- MODULE AnalysisExecution --------------------------
(***************************************************************************)
(* The approved analysis of a dataset workflow.  A user approves immutable *)
(* code; a worker process leases the job, claims the approval in one       *)
(* transaction, runs the code in a container outside any transaction, and  *)
(* writes the outcome in another.  Any other process may start in between, *)
(* fail what it finds running, or take over a lease that expired; the user *)
(* may cancel at any time, and change or remove the project's files.       *)
(***************************************************************************)
EXTENDS Integers

CONSTANTS
    Processes,      \* science-core processes on the same database
    NoProcess,
    MaxRepairs,     \* MAX_ANALYSIS_REPAIR_ATTEMPTS
    MaxAttempts,    \* MAX_JOB_ATTEMPTS
    MaxFaults,      \* bound: crashes, leases lost by an owner that goes on working and
                    \* changes of the project's files, together
    MaxRetries      \* bound: retries the user or the agent asks for

ASSUME AnalysisAssumption ==
    /\ NoProcess \notin Processes
    /\ MaxRepairs \in Nat /\ MaxAttempts \in Nat \ {0}
    /\ MaxFaults \in Nat /\ MaxRetries \in Nat

VARIABLES
    wf,      \* the workflow row: status, cancel_requested_at set, row_version, run by the agent
             \* (whose code is compiled from a specification and never repaired)
    task,    \* status of the execute-analysis step
    job,     \* the newest job row of that step
    intent,  \* the immutable intents: the first one and its repairs
    run,     \* the run record an intent was claimed with
    exch,    \* the exchange directory a process's runtime works in
    disk,    \* the project's folder: the dataset file, and the directory of each run
    pc,      \* where each process is
    loc,     \* what it read or decided before its next transaction
    starts,  \* history: how often the runtime was started for an intent
    budget   \* faults and retries so far, approvals the agent renewed, and whether a
             \* starting process has undone what another one had produced

vars == <<wf, task, job, intent, run, exch, disk, pc, loc, starts, budget>>

Intents == 1 .. (MaxRepairs + 1)

\* Error codes, as far as a repair ("timeout", "code") or the agent's retry ("timeout")
\* tells them apart.
Errors == {"none", "timeout", "code", "other"}

Idle == [intent |-> 0, rev |-> 0, bytes |-> "none", out |-> "none", error |-> "none", next |-> "idle"]

NoRun == [status |-> "none", evidence |-> "none"]

\* create_workflow_analysis_intent: bound to the workflow's revision of that moment.
Proposed(rev) == [status |-> "waiting-approval", rev |-> rev, error |-> "none"]

Init ==
    /\ wf \in [status : {"running"}, cancel : {FALSE}, rev : {1}, agent : BOOLEAN]
    /\ task = "waiting-approval"
    /\ job = [intent |-> 0, status |-> "none", holder |-> NoProcess, live |-> FALSE, attempt |-> 0,
              error |-> "none"]
    /\ intent = [i \in Intents |->
                    IF i = 1 THEN Proposed(1) ELSE [status |-> "none", rev |-> 0, error |-> "none"]]
    /\ run = [i \in Intents |-> NoRun]
    /\ exch = [p \in Processes |-> "none"]
    /\ disk = [data |-> "approved", dir |-> [i \in Intents |-> "none"]]
    /\ pc \in [Processes -> {"idle", "down"}]
    /\ loc = [p \in Processes |-> Idle]
    /\ starts = [i \in Intents |-> 0]
    /\ budget = [faults |-> 0, retries |-> 0, renewed |-> 0, undone |-> FALSE]

-----------------------------------------------------------------------------
(* Helpers                                                                 *)

Holds(p) == job.status = "leased" /\ job.holder = p

WorkflowRuns == wf.status = "running" /\ ~wf.cancel

\* transition_workflow: a compare-and-swap that always advances the revision.
WorkflowTo(status) == wf' = [wf EXCEPT !.status = status, !.rev = @ + 1]

EndJobMut(status) == [job EXCEPT !.status = status]
EndJob(status) == [job EXCEPT !.status = status, !.holder = NoProcess, !.live = FALSE]

CancellableTaskMut == {"pending", "queued", "running", "waiting-approval", "blocked", "failed", "completed"}
CancellableTask == {"pending", "queued", "running", "waiting-approval", "blocked", "failed"}
CancelTask == IF task \in CancellableTask THEN "cancelled" ELSE task

\* Every write of a failure spares a cancelled step, and only that.
FailTask == IF task = "cancelled" THEN task ELSE "failed"

Failed(rec, error) == [rec EXCEPT !.status = "failed", !.error = error]

\* recovery_error_summary: "analysis-interrupted" is not a failure repairs are for.
InterruptedMut(rec) == Failed(rec, "timeout")
Interrupted(rec) == Failed(rec, "other")

\* What a starting process takes for abandoned.
LostRunsMut == {i \in Intents : run[i].status # "none"}
LostRuns == {i \in Intents : run[i].status = "running"}
Orphaned == {i \in Intents : intent[i].status = "executing"}

TakeableMut == job.status = "leased" /\ ~job.live /\ job.attempt < MaxAttempts
Takeable == job.status = "leased" /\ ~job.live

\* cleanup_stale_exchange_entries(reject_recent=True): a recent exchange entry of
\* anybody refuses the execution, an old one is removed under whoever still works in it.
Occupied == \E q \in Processes : exch[q] = "recent"
WithoutStale == [q \in Processes |-> IF exch[q] = "old" THEN "none" ELSE exch[q]]

Move(p, to) == pc' = [pc EXCEPT ![p] = to]
Remember(p, out, error, next) ==
    loc' = [loc EXCEPT ![p] = [@ EXCEPT !.out = out, !.error = error, !.next = next]]
Done(p) == Move(p, "idle") /\ loc' = [loc EXCEPT ![p] = Idle]

\* The newest intent of the step: the one the snapshot shows for approval.
Current == CHOOSE i \in Intents :
    /\ intent[i].status # "none"
    /\ \A j \in Intents : j > i => intent[j].status = "none"

\* The project's directory chain, opened without following a link.
FolderThere == disk.data # "gone"

\* assert_failed_run_binding, assert_completed_run_binding: the artifacts a run that ended
\* is shown with are exactly those its row names; a completed one shows all of them.
FailedBound(i) == run[i].evidence # "torn"
CompletedBound(i) == run[i].evidence = "full"

\* assert_repair_lineage: a repair stands on its predecessor's approved and failed run.
Lineage(i) == i > 1 => intent[i - 1].status = "failed" /\ run[i - 1].status = "failed"

\* assert_intent_binding: of all the rows an intent is compared with, plan, specification
\* and dataset row stand while its step is open; its predecessor may move.
RowsBind(i) == Lineage(i)

\* recompute_approval_hash: the payload hash is that of one revision of the workflow.
ApprovedAt(i, rev) == intent[i].rev = rev

\* assert_approval_record, and the decision and the status it has led to.
Decided(i) == intent[i].status = "approved"

\* _assert_run_status_binding: only a run that failed may have left its step behind.
StatusesAgree(i) ==
    \/ run[i].status = "running" /\ intent[i].status = "executing" /\ task = "running"
    \/ run[i].status = "completed" /\ intent[i].status = "completed" /\ task = "completed"
    \/ run[i].status = "failed" /\ intent[i].status = "failed"

\* analysis_run_out: what a run must satisfy to be read back.
Readable(i) ==
    /\ RowsBind(i) /\ StatusesAgree(i)
    /\ run[i].status = "completed" => CompletedBound(i)
    /\ run[i].status = "failed" => FailedBound(i)

\* validated_execution_records: what an approval must still satisfy to be claimed,
\* re-read by the claim; the revision is the one read by the preflight.
ExecutableMut(p) ==      \* the decision is compared, not the status
    LET i == loc[p].intent IN
    /\ WorkflowRuns /\ intent[i].status # "waiting-approval" /\ ApprovedAt(i, loc[p].rev)
Executable(p) ==
    LET i == loc[p].intent IN
    /\ WorkflowRuns
    /\ task \notin {"completed", "failed", "cancelled"}
    /\ RowsBind(i) /\ Decided(i) /\ ApprovedAt(i, loc[p].rev)

\* _intent_fingerprint, _task_fingerprint and the run's own columns, taken by the claim and
\* compared by _revalidate_claimed_execution: nothing it fixed has moved since.  A step that
\* was cancelled carries another finishing time, which is part of what is compared.
Claimed == [status |-> "running", evidence |-> "none"]
Fingerprint(i) == <<intent[i].status, run[i], task>>

RevalidatesMut(p) == run[loc[p].intent].evidence = "none"
Revalidates(p) == Fingerprint(loc[p].intent) = <<"executing", Claimed, "running">>

\* The workflow moved on while the runtime worked: the run counts as failed.
SupersededMut(p) == wf.status # "running" \/ task = "cancelled"
Superseded(p) ==
    ~WorkflowRuns \/ task = "cancelled" \/ wf.rev # loc[p].rev
-----------------------------------------------------------------------------
(* The user                                                                *)

Approve ==
    LET i == Current IN
    /\ WorkflowRuns
    /\ intent[i].status = "waiting-approval" /\ intent[i].rev = wf.rev
    /\ intent' = [intent EXCEPT ![i].status = "approved"]
    /\ task = "waiting-approval" /\ task' = "queued"
    /\ job' = [intent |-> i, status |-> "queued", holder |-> NoProcess,
               live |-> FALSE, attempt |-> 1, error |-> "none"]
    /\ UNCHANGED <<wf, run, exch, disk, pc, loc, starts, budget>>

Reject ==
    LET i == Current IN
    /\ WorkflowRuns
    /\ intent[i].status = "waiting-approval" /\ intent[i].rev = wf.rev
    /\ intent' = [intent EXCEPT ![i].status = "rejected"]
    /\ task = "waiting-approval" /\ task' = "blocked"
    /\ WorkflowTo("blocked")
    /\ UNCHANGED <<job, run, exch, disk, pc, loc, starts, budget>>

\* acknowledge_cancellation.  Every end of a leased job acknowledges a cancellation
\* here, so the sweep of the loop finds nothing to do.
CancelRest ==
    /\ job' = IF job.status = "queued" THEN EndJob("cancelled") ELSE job
    /\ task' = CancelTask
    /\ UNCHANGED <<intent, run, exch, disk, starts, budget>>

\* A cancellation waits for the worker while a job is leased.
RequestCancel ==
    /\ wf.status # "cancelled"
    /\ IF job.status = "leased"
       THEN /\ ~wf.cancel
            /\ wf' = [wf EXCEPT !.cancel = TRUE, !.rev = @ + 1]
            /\ UNCHANGED <<task, job, intent, run, exch, disk, starts, budget>>
       ELSE /\ wf' = [wf EXCEPT !.status = "cancelled", !.cancel = TRUE,
                                 !.rev = @ + (IF wf.cancel THEN 1 ELSE 2)]
            /\ CancelRest
    /\ UNCHANGED <<pc, loc>>

Retry ==
    /\ wf.status = "failed"
    /\ budget.retries < MaxRetries
    /\ job.status = "failed" /\ task = "failed" /\ task' = "queued"
    /\ job' = [job EXCEPT !.status = "queued", !.attempt = @ + 1, !.error = "none"]
    /\ WorkflowTo("running")
    /\ budget' = [budget EXCEPT !.retries = @ + 1]
    /\ UNCHANGED <<intent, run, exch, disk, pc, loc, starts>>

\* AgentLoopCoordinator._apply_retry, decided on the observation of a failed run:
\* the spent approval is set back to "approved", while the workflow that starts to
\* run again is at a revision the approval does not bind any more.
Renewed(rec) == IF rec.status = "failed" THEN [rec EXCEPT !.status = "approved"] ELSE rec

AgentRetry ==
    /\ wf.agent /\ wf.status \in {"blocked", "failed"} /\ ~wf.cancel
    /\ budget.retries < MaxRetries
    /\ job.status = "failed" /\ job.error = "timeout"
    /\ task = "failed" /\ task' = "queued"
    /\ intent' = [intent EXCEPT ![job.intent] = Renewed(@)]
    /\ job' = [job EXCEPT !.status = "queued", !.attempt = @ + 1, !.error = "none"]
    /\ WorkflowTo("running")
    /\ budget' = [budget EXCEPT !.retries = @ + 1,
                      !.renewed = @ + (IF intent[job.intent].status = "failed" THEN 1 ELSE 0)]
    /\ UNCHANGED <<run, exch, disk, pc, loc, starts>>
-----------------------------------------------------------------------------
(* A worker process: leasing                                               *)

\* recover_interrupted_analysis_state, then cleanup_stale_analysis_exchange; the worker's
\* recover() repeats the first, so the start goes round until it finds nothing.  Nothing
\* is locked while the rows are read.
BootReads(p) ==
    /\ pc[p] = "down"
    /\ IF LostRuns \cup Orphaned = {}
       THEN /\ Move(p, "idle")
            /\ exch' = WithoutStale
            /\ UNCHANGED loc
       ELSE /\ \E i \in LostRuns \cup Orphaned :
                  loc' = [loc EXCEPT ![p] = [Idle EXCEPT
                             !.intent = i, !.rev = budget.renewed, !.next = run[i].status,
                             !.out = IF task \in {"cancelled", "failed"} THEN "none" ELSE "failed"]]
            /\ Move(p, "booting")
            /\ UNCHANGED exch
    /\ UNCHANGED <<wf, task, job, intent, run, disk, starts, budget>>

\* It was read as running, and another process has come further since.
Overtaken(p, came) == budget' = [budget EXCEPT !.undone = @ \/ (came /\ loc[p].next = "running")]

\* The directory of a run keeps its input; a directory that is not there is left alone.
Cleared(dir) == IF dir = "none" THEN dir ELSE "cleared"

\* clear_recovered_run_outputs, still before the first write: it raises, and the process
\* does not start, when the project's folder is gone.
BootClears(p) ==
    LET i == loc[p].intent IN
    /\ pc[p] = "booting" /\ FolderThere
    /\ disk' = [disk EXCEPT !.dir[i] = Cleared(@)]
    /\ Overtaken(p, disk.dir[i] = "outputs")
    /\ Move(p, "cleared")
    /\ UNCHANGED <<wf, task, job, intent, run, exch, loc, starts>>

\* _normalize_recovered_run_failure and what follows it: no status is compared.  The
\* paths a run has named meanwhile stay in its row, their artifacts are deleted.
BootWrites(p) ==
    LET i == loc[p].intent IN
    /\ pc[p] = "cleared"
    /\ run' = IF loc[p].rev # budget.renewed THEN run
              ELSE [run EXCEPT ![i] = [status |-> "failed",
                                       evidence |-> IF @.evidence = "none" THEN "none" ELSE "torn"]]
    /\ intent' = [intent EXCEPT ![i] = Interrupted(@)]
    /\ task' = IF loc[p].out = "failed" THEN "failed" ELSE task
    /\ Overtaken(p, run[i].status = "completed" \/ task = "completed")
    /\ pc' = [pc EXCEPT ![p] = "down"] /\ loc' = [loc EXCEPT ![p] = Idle]
    /\ UNCHANGED <<wf, job, exch, disk, starts>>

\* claim_next_job
LeaseJob(p) ==
    /\ pc[p] = "idle" /\ job.status = "queued"
    /\ wf.status # "cancelled" /\ ~wf.cancel
    /\ job' = [job EXCEPT !.status = "leased", !.holder = p, !.live = TRUE]
    /\ Move(p, "leased")
    /\ UNCHANGED <<wf, task, intent, run, exch, disk, loc, starts, budget>>

\* _recover_expired_jobs: the lease gets a new owner first, and is settled after.
TakeExpired(p) ==
    /\ pc[p] = "idle" /\ Takeable
    /\ job' = [job EXCEPT !.holder = p, !.live = TRUE]
    /\ Move(p, "recovering")
    /\ UNCHANGED <<wf, task, intent, run, exch, disk, loc, starts, budget>>

\* recover_leased_analysis_job, then _analysis_job_is_unclaimed
RecoverLease(p) ==
    LET i == job.intent IN
    /\ pc[p] = "recovering"
    /\ loc' = [loc EXCEPT ![p] = [Idle EXCEPT !.intent = i, !.error = "other",
          !.out = IF ~Holds(p) THEN "failed"
                  ELSE IF Readable(i) /\ run[i].status \in {"completed", "failed"} THEN run[i].status
                  ELSE IF intent[i].status = "approved" /\ run[i].status = "none" THEN "expired"
                  ELSE "unknown"]]
    /\ Move(p, CASE Holds(p) /\ Readable(i) /\ run[i].status = "completed" -> "publishing"
                 [] Holds(p) /\ Readable(i) /\ run[i].status = "failed" -> "reporting"
                 [] OTHER -> "settling")
    /\ UNCHANGED <<wf, task, job, intent, run, exch, disk, starts, budget>>

ExpireLease == job.live /\ job' = [job EXCEPT !.live = FALSE]

\* The owner is gone: nobody renews the lease.
LeaseRunsOut ==
    /\ job.status = "leased" /\ pc[job.holder] \in {"idle", "down"}
    /\ ExpireLease
    /\ UNCHANGED <<wf, task, intent, run, exch, disk, pc, loc, starts, budget>>

\* The owner works on, but its heartbeats come too late.
Stall ==
    /\ job.status = "leased" /\ pc[job.holder] \notin {"idle", "down"}
    /\ budget.faults < MaxFaults
    /\ ExpireLease
    /\ budget' = [budget EXCEPT !.faults = @ + 1]
    /\ UNCHANGED <<wf, task, intent, run, exch, disk, pc, loc, starts>>

\* The heartbeat renews by token, also a lease that has expired but was not taken.
Heartbeat(p) ==
    /\ Holds(p) /\ ~job.live /\ pc[p] \notin {"idle", "down", "recovering", "leased"}
    /\ job' = [job EXCEPT !.live = TRUE]
    /\ UNCHANGED <<wf, task, intent, run, exch, disk, pc, loc, starts, budget>>

\* mark_leased_job_started
Start(p) ==
    /\ pc[p] = "leased"
    /\ IF Holds(p) /\ ~wf.cancel
       THEN /\ task' = IF task = "queued" THEN "running" ELSE task
            /\ Move(p, "started")
            /\ UNCHANGED loc
       ELSE /\ Remember(p, "failed", "other", "idle")
            /\ Move(p, "settling")
            /\ UNCHANGED task
    /\ UNCHANGED <<wf, job, intent, run, exch, disk, starts, budget>>
-----------------------------------------------------------------------------
(* A worker process: executing                                             *)

\* _analysis_execution_preflight: the approval must bind the current revision.
Binds(i) == RowsBind(i) /\ Decided(i) /\ ApprovedAt(i, wf.rev)

Preflight(p) ==
    LET i == job.intent IN
    /\ pc[p] = "started"
    /\ IF Holds(p) /\ WorkflowRuns /\ task = "running" /\ Binds(i)
       THEN /\ loc' = [loc EXCEPT ![p] = [Idle EXCEPT !.intent = i, !.rev = wf.rev]]
            /\ Move(p, "ready")
       ELSE /\ Remember(p, "failed", "other", "idle")
            /\ Move(p, "settling")
    /\ UNCHANGED <<wf, task, job, intent, run, exch, disk, starts, budget>>

\* _verify_dataset_before_claim
DatasetIsApproved == disk.data = "approved"

EnterExchange(p) ==
    /\ pc[p] = "ready" /\ ~Occupied /\ DatasetIsApproved
    /\ exch' = WithoutStale
    /\ Move(p, "checked")
    /\ UNCHANGED <<wf, task, job, intent, run, disk, loc, starts, budget>>

RefuseEntry(p) ==
    /\ pc[p] = "ready"
    /\ Remember(p, "failed", "other", "idle")
    /\ Move(p, "reporting")
    /\ UNCHANGED <<wf, task, job, intent, run, exch, disk, starts, budget>>

\* _claim_execution: one transaction, a compare-and-swap on the intent.  The job
\* lease is not looked at.
ClaimIntent(p) ==
    LET i == loc[p].intent IN
    /\ pc[p] = "checked"
    /\ IF Executable(p)
       THEN /\ intent' = [intent EXCEPT ![i].status = "executing"]
            /\ run' = [run EXCEPT ![i] = Claimed]
            /\ task' = "running"
            /\ Move(p, "claimed")
            /\ UNCHANGED loc
       ELSE /\ Remember(p, "failed", "other", "idle")
            /\ Move(p, "reporting")
            /\ UNCHANGED <<intent, run, task>>
    /\ UNCHANGED <<wf, job, exch, disk, starts, budget>>

\* _prepare_runtime_inputs: one read of the dataset file fills the run's directory and
\* the runtime's exchange directory.
CopyInputs(p) ==
    /\ pc[p] = "claimed" /\ FolderThere
    /\ exch' = [exch EXCEPT ![p] = "recent"]
    /\ disk' = [disk EXCEPT !.dir[loc[p].intent] = "input"]
    /\ loc' = [loc EXCEPT ![p].bytes = disk.data]
    /\ Move(p, "copied")
    /\ UNCHANGED <<wf, task, job, intent, run, starts, budget>>

\* copy_dataset_from_safe_descriptor: the digest is of the bytes that were copied.
CopiedAsApprovedMut(p) == exch[p] # "none"      \* the check before the claim is trusted
CopiedAsApproved(p) == loc[p].bytes = "approved"

StartRuntime(p) ==
    /\ pc[p] = "copied" /\ CopiedAsApproved(p)
    /\ starts' = [starts EXCEPT ![loc[p].intent] = @ + 1]
    /\ Move(p, "running")
    /\ UNCHANGED <<wf, task, job, intent, run, exch, disk, loc, budget>>

\* The inputs, the runtime or the collection of its outputs fail; only a timeout
\* is of the kind a repair is proposed for.
ExecutionErrs(p, error) ==
    /\ pc[p] \in {"claimed", "copied", "running", "answered"}
    /\ error = "timeout" => pc[p] = "running"
    /\ Remember(p, "failed", error, "reporting")
    /\ Move(p, "failing")
    /\ UNCHANGED <<wf, task, job, intent, run, exch, disk, starts, budget>>

\* The poll of _execute_with_cancellation, while the runtime is awaited.
Interrupt(p) ==
    /\ pc[p] = "running"
    /\ ~Holds(p) \/ ~WorkflowRuns
    /\ Remember(p, "failed", "other", "settling")
    /\ Move(p, "failing")
    /\ UNCHANGED <<wf, task, job, intent, run, exch, disk, starts, budget>>

\* The directory the runtime works in is found under the identity it was created with.
ExchangeThere(p) == exch[p] # "none"

\* execute_in_runtime: an answer that names a status, unless the exchange directory was
\* removed under the runtime.
RuntimeAnswers(p, out) ==
    /\ pc[p] = "running" /\ ExchangeThere(p)
    /\ Remember(p, out, "none", "idle")
    /\ Move(p, "answered")
    /\ UNCHANGED <<wf, task, job, intent, run, exch, disk, starts, budget>>

\* The directory of the run, under the identity of its creation, and what copying every
\* file under its announced hash makes of it.
DestinationThere(i) == disk.dir[i] # "none"
WithOutputs(i) == [disk EXCEPT !.dir[i] = "outputs"]

\* collect_runtime_artifacts, and the end of the exchange directory (remove_exchange_run).
CollectOutputs(p) ==
    LET i == loc[p].intent IN
    /\ pc[p] = "answered" /\ ExchangeThere(p) /\ DestinationThere(i)
    /\ disk' = WithOutputs(i)
    /\ exch' = [exch EXCEPT ![p] = "none"]
    /\ Move(p, "ran")
    /\ UNCHANGED <<wf, task, job, intent, run, loc, starts, budget>>

\* _finalize_execution: outcome, artifacts, intent and step in one transaction.
Finalize(p) ==
    LET i == loc[p].intent
        status == IF Superseded(p) THEN "failed" ELSE loc[p].out
    IN
    /\ pc[p] = "ran"
    /\ IF Revalidates(p)
       THEN /\ run' = [run EXCEPT ![i] = [status |-> status, evidence |-> "full"]]
            /\ intent' = [intent EXCEPT ![i] =
                            IF status = "failed" THEN Failed(@, IF Superseded(p) THEN "other" ELSE "code")
                            ELSE [@ EXCEPT !.status = status]]
            /\ task' = status
            /\ Remember(p, status, "none", "idle")
            /\ Move(p, IF status = "completed" THEN "publishing" ELSE "reporting")
       ELSE /\ Remember(p, "failed", "other", "reporting")
            /\ Move(p, "failing")
            /\ UNCHANGED <<run, intent, task>>
    /\ UNCHANGED <<wf, job, exch, disk, starts, budget>>

\* clear_run_outputs, then write_run_error_log: the input and an error log remain.
Logged(dir) == IF dir = "none" THEN dir ELSE "log"

\* _persist_execution_failure: no status is compared, whoever wrote last.
PersistFailure(p) ==
    LET i == loc[p].intent IN
    /\ pc[p] = "failing"
    /\ run' = [run EXCEPT ![i] = [status |-> "failed", evidence |-> "none"]]
    /\ intent' = [intent EXCEPT ![i] = Failed(@, loc[p].error)]
    /\ task' = FailTask
    /\ exch' = [exch EXCEPT ![p] = "none"]
    /\ disk' = [disk EXCEPT !.dir[i] = Logged(@)]
    /\ Move(p, loc[p].next)
    /\ UNCHANGED <<wf, job, loc, starts, budget>>
-----------------------------------------------------------------------------
(* A worker process: publishing the outcome under the job lease            *)

\* _publish_analysis_result
Publish(p) ==
    LET i == loc[p].intent IN
    /\ pc[p] = "publishing"
    /\ IF Holds(p) /\ WorkflowRuns /\ task = "completed" /\ run[i].status = "completed" /\ Readable(i)
       THEN job' = EndJob("succeeded") /\ Done(p)
       ELSE /\ Remember(p, "failed", "other", "idle")
            /\ Move(p, "settling")
            /\ UNCHANGED job
    /\ UNCHANGED <<wf, task, intent, run, exch, disk, starts, budget>>

\* _publish_analysis_failure_or_repair: a new intent for the user to approve, or
\* the workflow blocked; when the failure cannot be bound, the settlement decides.
Repairable(i) == ~wf.agent /\ intent[i].error \in {"timeout", "code"} /\ i <= MaxRepairs

Report(p) ==
    LET i == loc[p].intent IN
    /\ pc[p] = "reporting"
    /\ IF /\ Holds(p) /\ WorkflowRuns /\ task = "failed"
          /\ intent[i].status = "failed" /\ run[i].status = "failed" /\ Readable(i)
       THEN /\ job' = [EndJob("failed") EXCEPT !.error = intent[i].error]
            /\ Done(p)
            /\ IF Repairable(i)
               THEN /\ intent' = [intent EXCEPT ![i + 1] = Proposed(wf.rev)]
                    /\ task' = "waiting-approval"
                    /\ UNCHANGED wf
               ELSE /\ WorkflowTo("blocked")
                    /\ UNCHANGED <<intent, task>>
       ELSE /\ Remember(p, "failed", "other", "idle")
            /\ Move(p, "settling")
            /\ UNCHANGED <<wf, task, job, intent>>
    /\ UNCHANGED <<run, exch, disk, starts, budget>>

\* settle_leased_job_error
Settle(p) ==
    /\ pc[p] = "settling"
    /\ Done(p)
    /\ UNCHANGED <<intent, run, exch, disk, starts, budget>>
    /\ CASE ~Holds(p) -> UNCHANGED <<wf, task, job>>
         [] Holds(p) /\ wf.cancel ->
              /\ WorkflowTo("cancelled")
              /\ task' = CancelTask
              /\ job' = EndJob("cancelled")
         [] Holds(p) /\ ~wf.cancel /\ loc[p].out = "expired" /\ job.attempt < MaxAttempts ->
              /\ task' = IF task = "running" THEN "queued" ELSE task
              /\ job' = [EndJob("queued") EXCEPT !.attempt = @ + 1]
              /\ UNCHANGED wf
         [] OTHER ->
              /\ task' = IF task \in {"queued", "running"} THEN "failed" ELSE task
              /\ job' = [EndJob("failed") EXCEPT
                            !.error = IF loc[p].out = "expired" THEN "timeout" ELSE "other"]
              /\ WorkflowTo(IF loc[p].out = "unknown" THEN "blocked" ELSE "failed")
-----------------------------------------------------------------------------
(* The environment                                                         *)

Crash(p) ==
    /\ pc[p] # "down" /\ budget.faults < MaxFaults
    /\ pc' = [pc EXCEPT ![p] = "down"] /\ loc' = [loc EXCEPT ![p] = Idle]
    /\ budget' = [budget EXCEPT !.faults = @ + 1]
    /\ UNCHANGED <<wf, task, job, intent, run, exch, disk, starts>>

\* An exchange entry outlives the longest execution by the grace period.
Age(p) ==
    /\ exch[p] = "recent"
    /\ exch' = [exch EXCEPT ![p] = "old"]
    /\ UNCHANGED <<wf, task, job, intent, run, disk, pc, loc, starts, budget>>

\* The user edits the dataset file, or removes the folder of the project.
ChangeFiles(data) ==
    /\ disk.data = "approved" /\ data # "approved" /\ budget.faults < MaxFaults
    /\ disk' = [data |-> data, dir |-> [i \in Intents |-> IF data = "gone" THEN "none" ELSE disk.dir[i]]]
    /\ budget' = [budget EXCEPT !.faults = @ + 1]
    /\ UNCHANGED <<wf, task, job, intent, run, exch, pc, loc, starts>>

User == AgentRetry \/ Approve \/ Reject \/ RequestCancel \/ Retry

Step(p) ==
    \/ BootReads(p) \/ BootClears(p) \/ BootWrites(p) \/ LeaseJob(p) \/ TakeExpired(p) \/ RecoverLease(p) \/ Start(p)
    \/ Preflight(p) \/ EnterExchange(p) \/ RefuseEntry(p) \/ ClaimIntent(p)
    \/ CopyInputs(p) \/ StartRuntime(p) \/ CollectOutputs(p) \/ Interrupt(p)
    \/ \E error \in {"timeout", "other"} : ExecutionErrs(p, error)
    \/ \E out \in {"completed", "failed"} : RuntimeAnswers(p, out)
    \/ Finalize(p) \/ PersistFailure(p) \/ Publish(p) \/ Report(p) \/ Settle(p)

Next ==
    \/ User \/ LeaseRunsOut \/ Stall
    \/ \E data \in {"changed", "gone"} : ChangeFiles(data)
    \/ \E p \in Processes : Step(p) \/ Heartbeat(p) \/ Crash(p) \/ Age(p)

\* The worker's loop goes on, a process that went down is started again, and a lease
\* nobody renews runs out; the user and the crashes owe nothing.
Fairness ==
    /\ \A p \in Processes : WF_vars(Step(p)) /\ WF_vars(Age(p))
    /\ WF_vars(LeaseRunsOut)

Spec == Init /\ [][Next]_vars /\ Fairness
-----------------------------------------------------------------------------
(* Properties                                                              *)

TaskStatuses == CancellableTask \cup {"completed", "cancelled"}
IntentStatuses == {"none", "waiting-approval", "approved", "rejected",
                   "executing", "completed", "failed"}

\* Every row and every process is in a state the code names, and a lease has an
\* owner exactly while the job is leased.
TypeOK ==
    /\ wf \in [status : {"running", "blocked", "failed", "cancelled"}, cancel : BOOLEAN, rev : Nat, agent : BOOLEAN]
    /\ task \in TaskStatuses
    /\ job.status \in {"none", "queued", "leased", "succeeded", "failed", "cancelled"}
    /\ job.error \in Errors /\ job.intent \in 0 .. MaxRepairs + 1 /\ job.attempt \in Nat
    /\ (job.holder \in Processes) <=> (job.status = "leased")
    /\ job.live => job.status = "leased"
    /\ intent \in [Intents -> [status : IntentStatuses, rev : Nat, error : Errors]]
    /\ run \in [Intents -> [status : {"none", "running", "completed", "failed"}, evidence : {"none", "full", "torn"}]]
    /\ exch \in [Processes -> {"none", "recent", "old"}]
    /\ starts \in [Intents -> Nat]
    /\ disk \in [data : {"approved", "changed", "gone"},
                 dir : [Intents -> {"none", "input", "outputs", "cleared", "log"}]]

\* An approval the agent's retry gave back after its execution is spent all the same,
\* also when a thread that overslept its lease executes it once more.
PhaseOf(i) ==
    IF budget.renewed > 0 /\ intent[i].status \in {"approved", "executing"}
    THEN "failed" ELSE intent[i].status

\* An approval buys one execution: whatever expires, is taken over, crashes or is
\* retried by the user, the runtime is never started twice for an intent, and never
\* for one that was not approved (_claim_execution's compare-and-swap on the intent,
\* while the job that asked for it may be leased a second time).  Only an agent's
\* retry, which sets the spent approval back, may buy one more.
OneRunPerApproval ==
    \A i \in Intents :
        /\ starts[i] <= 1 + budget.renewed
        /\ starts[i] = 1 => run[i].status # "none" /\ PhaseOf(i) \in {"executing", "completed", "failed"}

\* Two processes never execute code of this step at the same time, also when one
\* lost its lease long ago: the failure a starting process records for a run it
\* found is not one a repair is proposed for.  An approval the agent's retry has set back
\* may be claimed by a thread that passed its preflight before, while the thread that
\* spent it first, whose run was taken for abandoned, still works.  What the runtime works on
\* are always the bytes the approval names: the digest is taken of the copy
\* (copy_dataset_...), not of a file the user may edit between the check before the
\* claim and the copy after it.
OneRuntimeAtATime ==
    /\ \A p, q \in Processes :
          pc[p] = "running" /\ pc[q] = "running" => p = q \/ budget.renewed > 0
    /\ \A p \in Processes : pc[p] \in {"running", "answered", "ran"} => loc[p].bytes = "approved"

\* A job settled as succeeded stands on a completed step, a completed intent and
\* a run whose artifacts are recorded, whatever is cancelled or recovered later; and the
\* files of a completed run are there as long as the folder is.  Neither is so once
\* a starting process has failed a run that another one finished meanwhile.
SucceededIsBacked ==
    ~budget.undone =>
        /\ job.status = "succeeded" =>
              /\ task = "completed" /\ intent[job.intent].status = "completed"
              /\ run[job.intent] = [status |-> "completed", evidence |-> "full"]
        /\ disk.data # "gone" =>
              \A i \in Intents : run[i].status = "completed" => disk.dir[i] = "outputs"

\* The records agree: every row is in a state the code names, and what was settled as
\* succeeded is backed by a completed step, intent and run, and by its files.
RecordsAgree == TypeOK /\ SucceededIsBacked

\* An approval is executed once, by one process at a time and on the data it names,
\* whatever expires, is taken over, crashes, is edited or is retried between lease,
\* claim, copy, runtime and outcome.
OneExecution == OneRunPerApproval /\ OneRuntimeAtATime

\* A starting process that had read the run as running writes "failed" over whatever
\* its owner has made of it in between: no status is compared.
Undoes(i) == \E p \in Processes :
    pc[p] = "cleared" /\ loc[p].intent = i /\ loc[p].next = "running" /\ pc'[p] = "down"

\* A result is accepted only while the workflow runs, uncancelled, at the very revision its
\* approval was given for (_finalize_execution), also when a thread that overslept its lease
\* executes an approval the agent has set back meanwhile; and once accepted it stands:
\* _persist_execution_failure compares no status before it writes "failed", and still never
\* meets a run or a step that completed, and the recovery at startup takes a result back only
\* when it came between its own read and its own write.
ResultsStand ==
    [][/\ \A i \in Intents :
             IF run[i].status = "completed" THEN run'[i] = run[i] \/ Undoes(i)
             ELSE run'[i].status = "completed" =>
                     WorkflowRuns /\ wf.rev = intent[i].rev /\ intent[i].status = "executing"
       /\ task = "completed" => task' = "completed" \/ \E i \in Intents : Undoes(i)]_vars

\* The rows move as the approvals they record promise.
Promise == INSTANCE ApprovedAnalysis WITH
    Proposals <- Intents, phase <- [i \in Intents |-> PhaseOf(i)]
ImplementsApproval == Promise!PSpec

\* An approved analysis is executed, or its workflow stops where the user sees it, and
\* none stays "executing" for ever, across crashes, lost leases and old exchange entries;
\* unless the project's folder is gone, where a run left running keeps every process that
\* starts from coming up.
Open(i) ==
    intent[i].status = "executing" \/ (intent[i].status = "approved" /\ wf.status = "running")
ApprovalSettles == \A i \in Intents : Open(i) ~> (~Open(i) \/ disk.data = "gone")
=============================================================================

------------------------------ MODULE Discovery ------------------------------
(***************************************************************************)
(* The paper discovery of an autonomous literature workflow.  The user     *)
(* approved a set of operations (a query at a provider) and a stop policy. *)
(* The agent selects one operation after the other; a worker process       *)
(* leases its job, records an invocation as "prepared", authorizes it as    *)
(* "pending", calls the provider outside any transaction, records the       *)
(* answer and settles the job, each in a transaction of its own.  A process *)
(* may crash or lose its lease between any two of them, and whoever takes   *)
(* the lease over knows only what the invocation says.                      *)
(***************************************************************************)
EXTENDS Integers, Sequences, FiniteSets

CONSTANTS
    Queries, Providers,
    Processes,      \* science-core processes on the same database
    NoProcess,
    MaxAttempts,    \* MAX_JOB_ATTEMPTS
    MaxStepRetries, \* MAX_STEP_RETRIES
    MinCandidates, MaxSearches, MaxNoNovelty,   \* the approved stop policy
    MaxCrashes,     \* bound: crashes in a behaviour
    MaxStalls,      \* bound: leases lost by an owner that goes on working
    MaxRetries,     \* bound: retries the user asks for
    MaxTroubles     \* bound: crashes, lost leases and retries of the user together

Operations == Queries \X Providers

ASSUME DiscoveryAssumption ==
    /\ NoProcess \notin Processes
    /\ MaxAttempts \in Nat \ {0} /\ MaxStepRetries \in Nat
    /\ MinCandidates \in Nat \ {0} /\ MaxNoNovelty \in Nat \ {0}
    /\ MaxSearches \in 1 .. Cardinality(Operations)     \* DiscoverySpec.validate_budgets
    /\ MaxCrashes \in Nat /\ MaxStalls \in Nat /\ MaxRetries \in Nat /\ MaxTroubles \in Nat

VARIABLES
    wf,      \* the workflow row: status, cancel_requested_at set
    task,    \* status of each operation's step
    job,     \* the newest execute-task job
    inv,     \* the invocations of each operation, by attempt
    found,   \* the successful searches in the order they were recorded
    pc,      \* where each process is
    loc,     \* what it works on
    served,  \* history: how often a provider executed the operation
    budget   \* retries the agent applied; crashes, stalls and the user's retries so far

vars == <<wf, task, job, inv, found, pc, loc, served, budget>>

Troubles == budget.user + budget.crashes + budget.stalls

NoOperation == <<>>
Idle == [op |-> NoOperation, attempt |-> 0, out |-> "none", answer |-> "none"]

\* What a search may bring: candidates new to the project, candidates only this
\* specification had not seen, or no candidate.
Results == {"novel", "known", "nothing"}
\* "unavailable" and "rate-limited" say that the provider executed nothing.
Refusals == {"unavailable", "rate-limited"}
Answers == Results \cup Refusals \cup {"permanent", "malformed", "lost"}

\* Error codes as the retry policies tell them apart: "safe" (connector-unavailable,
\* rate-limited), "unsent" (prepared-not-sent) and the others.
Codes == {"none", "safe", "unsent", "other"}
-----------------------------------------------------------------------------
(* Helpers                                                                 *)

Holds(p) == job.status = "leased" /\ job.holder = p

EndJobMut(status, error) == [job EXCEPT !.status = status, !.live = FALSE, !.error = error]
EndJob(status, error) ==
    [job EXCEPT !.status = status, !.holder = NoProcess, !.live = FALSE, !.error = error]

Move(p, to) == pc' = [pc EXCEPT ![p] = to]
Done(p) == Move(p, "idle") /\ loc' = [loc EXCEPT ![p] = Idle]
Leave(p, out) == Move(p, "settling") /\ loc' = [loc EXCEPT ![p].out = out]

Row(status, code) == [status |-> status, code |-> code]
\* The invocation a process works on.
Mine(p) == inv[loc[p].op][loc[p].attempt]
Mark(p, status, code) == inv' = [inv EXCEPT ![loc[p].op][loc[p].attempt] = Row(status, code)]

Last(o) == inv[o][Len(inv[o])]

\* _validate_lease_binding and _validate_loaded_task_binding
Authority(p) ==
    Holds(p) /\ job.live /\ ~wf.cancel /\ task[loc[p].op] = "running"

\* _assert_attempt_is_safe: attempts are contiguous, and follow a failure that
\* proves the provider executed nothing.
SafeAttempt(o, a) ==
    IF inv[o] = <<>> THEN a = 1
    ELSE a = Len(inv[o]) + 1 /\ Last(o).status = "failed" /\ Last(o).code \in {"safe", "unsent"}

CancellableTask == {"pending", "queued", "running", "blocked", "failed"}
CancelTasks == [o \in Operations |-> IF task[o] \in CancellableTask THEN "cancelled" ELSE task[o]]

\* _settle_known_discovery_failure and its kin spare a step that moved on.
TaskTo(o, status) ==
    task' = IF task[o] \in {"queued", "running"} THEN [task EXCEPT ![o] = status] ELSE task

\* Searches without a novel candidate since the last one that brought some.
BarrenMut(s) == Cardinality({i \in DOMAIN s : \A j \in i .. Len(s) : s[j].result = "nothing"})
Barren(s) == Cardinality({i \in DOMAIN s : \A j \in i .. Len(s) : s[j].result # "novel"})
Candidates(s) == Cardinality({i \in DOMAIN s : s[i].result # "nothing"})

\* _discovery_stop_reason, and the same three conditions in the selector
StopReason(s) ==
    Candidates(s) >= MinCandidates \/ Barren(s) >= MaxNoNovelty \/ Len(s) >= MaxSearches
-----------------------------------------------------------------------------
(* The agent's decisions on an ended job                                   *)

\* _select_discovery_next_task: what forbids a further search, or what it takes for
\* a history that cannot be.
Halted ==
    \/ \E o \in Operations :
          /\ inv[o] # <<>>
          /\ \/ \E a \in DOMAIN inv[o] :
                   inv[o][a].status \in {"prepared", "pending", "outcome-unknown", "cancelled"}
             \/ Last(o).status = "failed"
    \/ \E o \in Operations : task[o] \in {"queued", "running", "failed", "blocked"}
    \/ StopReason(found)

InvalidHistory ==
    \E o \in Operations : \E a \in DOMAIN inv[o] :
        a < Len(inv[o]) /\ inv[o][a].status = "failed" /\ inv[o][a].code # "safe"

\* The rank: searches of the query so far, then of the provider, then those of the
\* query that brought nothing new; what remains equal is ordered by a hash.
OfQuery(o) == {i \in DOMAIN found : found[i].op[1] = o[1]}
OfProvider(o) == {i \in DOMAIN found : found[i].op[2] = o[2]}
RankMut(o) == <<Cardinality(OfProvider(o)), 0>>
Rank(o) ==
    <<Cardinality(OfQuery(o)), Cardinality(OfProvider(o)),
      Cardinality({i \in OfQuery(o) : found[i].result # "novel"})>>
Before(r, s) == \E k \in DOMAIN r : r[k] < s[k] /\ \A l \in 1 .. k - 1 : r[l] = s[l]

Eligible == {o \in Operations : task[o] = "pending"}
Best == {o \in Eligible : \A r \in Eligible : ~Before(Rank(r), Rank(o))}

\* The loop decides once per ended job, while nobody cancelled.
Decides == wf.status = "running" /\ ~wf.cancel

\* Every budget of the loop stops it, also the retries that succeeded.
Continues == Decides /\ job.status = "succeeded" /\ budget.agent < MaxStepRetries

Queued(o, attempt) ==
    job' = [op |-> o, attempt |-> attempt, status |-> "queued", holder |-> NoProcess,
            live |-> FALSE, error |-> "none"]

\* _apply_continue
Select(o) ==
    /\ Continues /\ ~InvalidHistory /\ ~Halted
    /\ o \in Best
    /\ task' = [task EXCEPT ![o] = "queued"]
    /\ Queued(o, 1)
    /\ UNCHANGED <<wf, inv, found, pc, loc, served, budget>>

\* "discovery-selection-history-invalid" fails the decision's own job.
SelectRaises ==
    /\ Continues /\ InvalidHistory
    /\ wf' = [wf EXCEPT !.status = "failed"]
    /\ UNCHANGED <<task, job, inv, found, pc, loc, served, budget>>

\* _apply_retry
AgentRetry ==
    /\ Decides /\ job.status = "failed" /\ job.error = "safe"
    /\ task[job.op] = "failed" /\ budget.agent < MaxStepRetries
    /\ task' = [task EXCEPT ![job.op] = "queued"]
    /\ Queued(job.op, job.attempt + 1)
    /\ budget' = [budget EXCEPT !.agent = @ + 1]
    /\ UNCHANGED <<wf, inv, found, pc, loc, served>>

\* _apply_stop: a failure, or one of the loop's budgets
AgentStop ==
    /\ Decides /\ job.status \in {"succeeded", "failed"}
    /\ wf' = [wf EXCEPT !.status = "blocked"]
    /\ UNCHANGED <<task, job, inv, found, pc, loc, served, budget>>
-----------------------------------------------------------------------------
(* The user                                                                *)

CancelRest ==
    /\ job' = IF job.status = "queued" THEN EndJob("cancelled", "none") ELSE job
    /\ task' = CancelTasks
    /\ UNCHANGED <<inv, found, served, budget>>

\* A cancellation waits for the worker while the job is leased.
RequestCancel ==
    /\ wf.status # "cancelled"
    /\ IF job.status = "leased"
       THEN /\ ~wf.cancel
            /\ wf' = [wf EXCEPT !.cancel = TRUE]
            /\ UNCHANGED <<task, job, inv, found, served, budget>>
       ELSE wf' = [status |-> "cancelled", cancel |-> TRUE] /\ CancelRest
    /\ UNCHANGED <<pc, loc>>

Retry ==
    /\ wf.status = "failed" /\ ~wf.cancel /\ budget.user < MaxRetries /\ Troubles < MaxTroubles
    /\ job.status = "failed" /\ task[job.op] = "failed"
    /\ wf' = [wf EXCEPT !.status = "running"]
    /\ task' = [task EXCEPT ![job.op] = "queued"]
    /\ Queued(job.op, job.attempt + 1)
    /\ budget' = [budget EXCEPT !.user = @ + 1]
    /\ UNCHANGED <<inv, found, pc, loc, served>>
-----------------------------------------------------------------------------
(* A worker process: executing a search                                    *)

\* claim_next_job
LeaseJob(p) ==
    /\ pc[p] = "idle" /\ job.status = "queued" /\ ~wf.cancel /\ wf.status # "cancelled"
    /\ job' = [job EXCEPT !.status = "leased", !.holder = p, !.live = TRUE]
    /\ loc' = [loc EXCEPT ![p] = [Idle EXCEPT !.op = job.op, !.attempt = job.attempt]]
    /\ Move(p, "leased")
    /\ UNCHANGED <<wf, task, inv, found, served, budget>>

\* mark_leased_job_started
Start(p) ==
    /\ pc[p] = "leased"
    /\ IF Holds(p) /\ ~wf.cancel
       THEN /\ task' = [task EXCEPT ![job.op] = "running"]
            /\ Move(p, "started")
            /\ UNCHANGED loc
       ELSE Leave(p, "failed") /\ UNCHANGED task
    /\ UNCHANGED <<wf, job, inv, found, served, budget>>

\* PaperSearchAdapter.execute up to its first commit
Enter(p) ==
    LET o == loc[p].op  a == loc[p].attempt IN
    /\ pc[p] = "started"
    /\ IF Authority(p) /\ SafeAttempt(o, a)
       THEN /\ inv' = [inv EXCEPT ![o] = Append(@, Row("prepared", "none"))]
            /\ Move(p, "prepared")
            /\ UNCHANGED loc
       ELSE /\ Leave(p, "failed")
            /\ UNCHANGED inv
    /\ UNCHANGED <<wf, task, job, found, served, budget>>

\* build_paper_search_request refuses the query: recorded and never sent.
RejectRequest(p) ==
    LET o == loc[p].op IN
    /\ pc[p] = "started"
    /\ Authority(p) /\ SafeAttempt(o, loc[p].attempt)
    /\ inv' = [inv EXCEPT ![o] = Append(@, Row("failed", "other"))]
    /\ Move(p, "recorded")
    /\ UNCHANGED <<wf, task, job, found, loc, served, budget>>

\* What is written when the authority is gone, before the call or after it.
GiveUp(p) == Mark(p, IF wf.cancel THEN "cancelled" ELSE "failed",
                     IF wf.cancel THEN "none" ELSE "other")

\* "pending" is the durable point from which the request may be sent.
Authorize(p) ==
    /\ pc[p] = "prepared"
    /\ CASE Mine(p).status # "prepared" -> Leave(p, "failed") /\ UNCHANGED inv
         [] Mine(p).status = "prepared" /\ Authority(p) ->
              Mark(p, "pending", "none") /\ Move(p, "authorized") /\ UNCHANGED loc
         [] OTHER -> GiveUp(p) /\ Move(p, "recorded") /\ UNCHANGED loc
    /\ UNCHANGED <<wf, task, job, found, served, budget>>

\* broker.call_tool; an answer that was lost is taken for executed.
Call(p, answer) ==
    /\ pc[p] = "authorized"
    /\ served' = IF answer \in Refusals THEN served ELSE [served EXCEPT ![loc[p].op] = @ + 1]
    /\ loc' = [loc EXCEPT ![p].answer = answer]
    /\ Move(p, "answered")
    /\ UNCHANGED <<wf, task, job, inv, found, budget>>

\* The answer is recorded if the invocation still waits for it and the authority
\* is intact; with a success the candidates and the step's outputs are written too.
MarkAnswer(p) ==
    LET answer == loc[p].answer IN
    CASE answer \in Results    -> Mark(p, "succeeded", "none")
      [] answer \in Refusals   -> Mark(p, "failed", "safe")
      [] answer = "lost"       -> Mark(p, "outcome-unknown", "other")
      [] OTHER                 -> Mark(p, "failed", "other")

Record(p) ==
    /\ pc[p] = "answered"
    /\ CASE Mine(p).status # "pending" -> Leave(p, "failed") /\ UNCHANGED <<inv, found>>
         [] Mine(p).status = "pending" /\ Authority(p) ->
              /\ MarkAnswer(p)
              /\ found' = IF loc[p].answer \in Results
                          THEN Append(found, [op |-> loc[p].op, result |-> loc[p].answer])
                          ELSE found
              /\ Move(p, "recorded") /\ UNCHANGED loc
         [] OTHER -> GiveUp(p) /\ Move(p, "recorded") /\ UNCHANGED <<found, loc>>
    /\ UNCHANGED <<wf, task, job, served, budget>>

\* The step is completed and, at the stop policy, the workflow waits for sources.
Complete(o) ==
    /\ task' = [task EXCEPT ![o] = "completed"]
    /\ job' = EndJob("succeeded", "none")
    /\ wf' = IF StopReason(found) /\ wf.status = "running"
             THEN [wf EXCEPT !.status = "blocked"] ELSE wf

\* execute_leased_discovery_job after the adapter returned
Conclude(p) ==
    LET o == loc[p].op IN
    /\ pc[p] = "recorded"
    /\ IF ~Holds(p)
       THEN Leave(p, "failed") /\ UNCHANGED <<wf, task, job>>
       ELSE /\ Done(p)
            /\ IF Mine(p).status = "succeeded"
               THEN Complete(o)
               ELSE /\ job' = EndJob("failed", Mine(p).code)
                    /\ TaskTo(o, IF Mine(p).status = "outcome-unknown" THEN "blocked" ELSE "failed")
                    /\ UNCHANGED wf
    /\ UNCHANGED <<inv, found, served, budget>>
-----------------------------------------------------------------------------
(* A worker process: recovering a lease that ran out                       *)

TakeableMut == job.status = "leased" /\ ~job.live /\ job.attempt < MaxAttempts
Takeable == job.status = "leased" /\ ~job.live

\* _recover_expired_jobs: the lease gets a new owner first.
TakeExpired(p) ==
    /\ pc[p] = "idle" /\ Takeable
    /\ job' = [job EXCEPT !.holder = p, !.live = TRUE]
    /\ loc' = [loc EXCEPT ![p] = [Idle EXCEPT !.op = job.op, !.attempt = job.attempt]]
    /\ Move(p, "recovering")
    /\ UNCHANGED <<wf, task, inv, found, served, budget>>

\* What the durable invocation says of the search its lost owner was to do.
EvidenceMut(p) ==    \* looks only for what is unresolved
    IF Len(inv[loc[p].op]) < loc[p].attempt \/ Mine(p).status = "succeeded" THEN "none"
    ELSE Mine(p).status
Evidence(p) ==
    IF Len(inv[loc[p].op]) < loc[p].attempt THEN "none" ELSE Mine(p).status

UnsentMut(status) == status \in {"prepared", "pending"}
Unsent(status) == status = "prepared"

Recovers(p) == pc[p] = "recovering" /\ Holds(p)

\* Nothing was recorded, so nothing was sent, and the generic retry decides.
RecoverNothing(p) ==
    /\ Recovers(p) /\ Evidence(p) = "none"
    /\ Leave(p, "expired")
    /\ UNCHANGED <<wf, task, job, inv, found, served, budget>>

\* Recorded and not authorized: repeated once, by the generic retry, which is a
\* transaction of its own; a later attempt is given up.
RecoverUnsent(p) ==
    /\ Recovers(p) /\ Unsent(Evidence(p))
    /\ IF loc[p].attempt = 1
       THEN Mark(p, "failed", "unsent") /\ Leave(p, "expired")
       ELSE Mark(p, "failed", "other") /\ UNCHANGED <<pc, loc>>
    /\ UNCHANGED <<wf, task, job, found, served, budget>>

\* Authorized, or known to be lost: whether it was executed nobody knows.
RecoverUnknown(p) ==
    /\ Recovers(p) /\ Evidence(p) \in {"pending", "outcome-unknown"} /\ ~Unsent(Evidence(p))
    /\ Mark(p, "outcome-unknown", "other")
    /\ TaskTo(loc[p].op, "blocked")
    /\ job' = EndJob("failed", "other")
    /\ wf' = [wf EXCEPT !.status = "blocked"]
    /\ Done(p)
    /\ UNCHANGED <<found, served, budget>>

RecoverAnswered(p) ==
    /\ Recovers(p) /\ Evidence(p) = "succeeded"
    /\ Complete(loc[p].op)
    /\ Done(p)
    /\ UNCHANGED <<inv, found, served, budget>>

RecoverCancelled(p) ==
    /\ Recovers(p) /\ Evidence(p) = "cancelled"
    /\ job' = EndJob("cancelled", "none")
    /\ TaskTo(loc[p].op, "cancelled")
    /\ Done(p)
    /\ UNCHANGED <<wf, inv, found, served, budget>>

RecoverFailed(p) ==
    /\ Recovers(p) /\ Evidence(p) = "failed"
    /\ job' = EndJob("failed", Mine(p).code)
    /\ TaskTo(loc[p].op, "failed")
    /\ Done(p)
    /\ UNCHANGED <<wf, inv, found, served, budget>>

RecoverLost(p) ==
    /\ pc[p] = "recovering" /\ ~Holds(p)
    /\ Done(p)
    /\ UNCHANGED <<wf, task, job, inv, found, served, budget>>

Recover(p) ==
    \/ RecoverNothing(p) \/ RecoverUnsent(p) \/ RecoverUnknown(p) \/ RecoverAnswered(p)
    \/ RecoverCancelled(p) \/ RecoverFailed(p) \/ RecoverLost(p)

\* settle_leased_job_error
Settle(p) ==
    LET o == loc[p].op IN
    /\ pc[p] = "settling"
    /\ Done(p)
    /\ CASE ~Holds(p) -> UNCHANGED <<wf, task, job>>
         [] Holds(p) /\ wf.cancel ->
              /\ wf' = [wf EXCEPT !.status = "cancelled"]
              /\ task' = CancelTasks
              /\ job' = EndJob("cancelled", "none")
         [] Holds(p) /\ ~wf.cancel /\ loc[p].out = "expired" /\ job.attempt < MaxAttempts ->
              /\ TaskTo(o, "queued")
              /\ Queued(o, job.attempt + 1)
              /\ UNCHANGED wf
         [] OTHER ->
              /\ TaskTo(o, "failed")
              /\ job' = EndJob("failed", "other")
              /\ wf' = [wf EXCEPT !.status = "failed"]
    /\ UNCHANGED <<inv, found, served, budget>>

SweepableMut == wf.cancel /\ wf.status = "running" /\ job.status # "leased"
Sweepable == wf.cancel /\ wf.status # "cancelled" /\ job.status # "leased"

\* _sweep_cancellations
Sweep(p) ==
    /\ pc[p] = "idle" /\ Sweepable
    /\ wf' = [wf EXCEPT !.status = "cancelled"]
    /\ CancelRest
    /\ UNCHANGED <<pc, loc>>
-----------------------------------------------------------------------------
(* Leases and crashes                                                      *)

ExpireLease == job.status = "leased" /\ job.live /\ job' = [job EXCEPT !.live = FALSE]

\* The owner is gone: nobody renews the lease.
LeaseRunsOut ==
    /\ ExpireLease /\ pc[job.holder] \in {"idle", "down"}
    /\ UNCHANGED <<wf, task, inv, found, pc, loc, served, budget>>

\* The owner works on, but its heartbeats come too late.
Stall ==
    /\ ExpireLease /\ pc[job.holder] \notin {"idle", "down"} /\ budget.stalls < MaxStalls
    /\ Troubles < MaxTroubles
    /\ budget' = [budget EXCEPT !.stalls = @ + 1]
    /\ UNCHANGED <<wf, task, inv, found, pc, loc, served>>

\* The heartbeat renews by token, also a lease that has expired but was not taken.
Heartbeat(p) ==
    /\ Holds(p) /\ ~job.live /\ pc[p] \notin {"idle", "down", "recovering", "leased"}
    /\ job' = [job EXCEPT !.live = TRUE]
    /\ UNCHANGED <<wf, task, inv, found, pc, loc, served, budget>>

Boot(p) ==
    /\ pc[p] = "down"
    /\ Move(p, "idle")
    /\ UNCHANGED <<wf, task, job, inv, found, loc, served, budget>>

Crash(p) ==
    /\ pc[p] # "down" /\ budget.crashes < MaxCrashes /\ Troubles < MaxTroubles
    /\ Move(p, "down") /\ loc' = [loc EXCEPT ![p] = Idle]
    /\ budget' = [budget EXCEPT !.crashes = @ + 1]
    /\ UNCHANGED <<wf, task, job, inv, found, served>>

\* The approval queued the first operation of the plan.
Init ==
    \E first \in Operations :
        /\ wf = [status |-> "running", cancel |-> FALSE]
        /\ task = [o \in Operations |-> IF o = first THEN "queued" ELSE "pending"]
        /\ job = [op |-> first, attempt |-> 1, status |-> "queued", holder |-> NoProcess,
                  live |-> FALSE, error |-> "none"]
        /\ inv = [o \in Operations |-> <<>>]
        /\ found = <<>>
        /\ pc = [p \in Processes |-> "idle"]
        /\ loc = [p \in Processes |-> Idle]
        /\ served = [o \in Operations |-> 0]
        /\ budget = [agent |-> 0, user |-> 0, crashes |-> 0, stalls |-> 0]

Agent == SelectRaises \/ AgentRetry \/ AgentStop \/ \E o \in Operations : Select(o)

Step(p) ==
    \/ LeaseJob(p) \/ Start(p) \/ Enter(p) \/ RejectRequest(p) \/ Authorize(p)
    \/ \E answer \in Answers : Call(p, answer)
    \/ Record(p) \/ Conclude(p) \/ TakeExpired(p) \/ Recover(p) \/ Settle(p) \/ Sweep(p) \/ Boot(p)

Next ==
    \/ Agent \/ RequestCancel \/ Retry \/ LeaseRunsOut \/ Stall
    \/ \E p \in Processes : Step(p) \/ Heartbeat(p) \/ Crash(p)

\* The workers' loops go on, a process that went down is started again, the broker
\* times out, a lease nobody renews runs out, and the agent's control jobs are run
\* by the same workers; the user and the crashes owe nothing.
Fairness ==
    /\ \A p \in Processes : WF_vars(Step(p))
    /\ WF_vars(LeaseRunsOut) /\ WF_vars(Agent)

Spec == Init /\ [][Next]_vars /\ Fairness
-----------------------------------------------------------------------------
(* Properties                                                              *)

\* Every row and every process is in a state the code names, and a lease has an
\* owner exactly while the job is leased.
TypeOK ==
    /\ wf \in [status : {"running", "blocked", "failed", "cancelled"}, cancel : BOOLEAN]
    /\ task \in [Operations -> CancellableTask \cup {"completed", "cancelled"}]
    /\ job.status \in {"queued", "leased", "succeeded", "failed", "cancelled"}
    /\ job.op \in Operations /\ job.attempt \in Nat \ {0} /\ job.error \in Codes
    /\ (job.holder \in Processes) <=> (job.status = "leased")
    /\ job.live => job.status = "leased"
    /\ \A o \in Operations : \A a \in DOMAIN inv[o] :
          inv[o][a] \in [status : {"prepared", "pending", "succeeded", "failed",
                                   "outcome-unknown", "cancelled"}, code : Codes]
    /\ found \in Seq([op : Operations, result : Results])
    /\ served \in [Operations -> Nat]
    /\ \A p \in Processes : pc[p] \in {"started", "prepared", "authorized", "answered"}
          => loc[p].op \in Operations

\* A provider never executes a search twice: neither a takeover, nor a crash at any
\* point around the call, nor a retry of the worker, the agent or the user repeats a
\* request that may have been sent (recover_expired_discovery_job never calls, and
\* _assert_attempt_is_safe asks for proof that the last attempt was not executed).
ServedAtMostOnce == \A o \in Operations : served[o] <= 1

\* An operation whose every attempt is recorded as one that may be repeated was not
\* executed: "prepared-not-sent" is written by whoever takes the lease over, while
\* the process it was taken from may still be about to send.
RepeatableIsUnserved ==
    \A o \in Operations :
        (\A a \in DOMAIN inv[o] : inv[o][a].status = "failed" /\ inv[o][a].code \in {"safe", "unsent"})
            => served[o] = 0

\* A provider never executes a search twice, and never one that the records say may
\* be repeated.
ServedOnce == ServedAtMostOnce /\ RepeatableIsUnserved

\* An answer that was recorded is not lost: its step is completed, or its job is
\* still leased and will be settled from the record, or the user cancelled.
AnswerIsKept ==
    \A i \in DOMAIN found :
        \/ task[found[i].op] = "completed" \/ wf.cancel
        \/ job.op = found[i].op /\ job.status = "leased"

\* The records agree: every row is in a state the code names, and no answer that was
\* paid for is missing from the steps.
RecordsAgree == TypeOK /\ AnswerIsKept

\* The searches follow the approved policy over crashes, takeovers and retries: the queries
\* take turns, none a second search ahead of one that still has operations to offer
\* (_select_discovery_next_task), and no search is made after the policy said stop, with
\* the count of novel candidates kept right (_discovery_stop_reason is evaluated by
\* whoever settles the job).
PolicyIsKept ==
    /\ \A o, r \in Operations :
          task[r] = "pending" => Cardinality(OfQuery(o)) <= Cardinality(OfQuery(r)) + 1
    /\ Len(found) <= MaxSearches
    /\ \A k \in 1 .. Len(found) - 1 :
          /\ Cardinality({i \in 1 .. k : found[i].result \in {"novel", "known"}}) < MinCandidates
          /\ k >= MaxNoNovelty => \E i \in k - MaxNoNovelty + 1 .. k : found[i].result = "novel"

\* The searches are asked as the abstract specification promises.
PhaseOf(o) ==
    IF inv[o] = <<>> THEN "open"
    ELSE CASE Last(o).status = "prepared" -> "open"
           [] Last(o).status = "pending" -> "asked"
           [] Last(o).status = "succeeded" -> "found"
           [] Last(o).status = "outcome-unknown" -> "unknown"
           [] Last(o).status = "failed" /\ Last(o).code \in {"safe", "unsent"} -> "open"
           [] OTHER -> "closed"

Promise == INSTANCE SearchOnce WITH
    phase <- [o \in Operations |-> PhaseOf(o)], done <- {o \in Operations : served[o] > 0}
ImplementsSearchOnce == Promise!SSpec

\* recover_expired_discovery_job's description lets a prepared and unsent search be retried; so
\* a selection after a search that succeeded should not fail the workflow.
RetriedSuccessIsAccepted == job.status = "succeeded" => wf.status # "failed"

Waits(o) == inv[o] # <<>> /\ Last(o).status = "pending"

\* The discovery comes to rest where the user sees it, across a crash and a lost lease:
\* blocked for sources or for a decision, failed or cancelled, with a requested
\* cancellation carried out and no authorized request left without an outcome.
Busy ==
    \/ wf.status = "running"
    \/ wf.cancel /\ wf.status # "cancelled"
    \/ \E o \in Operations : Waits(o)
DiscoverySettles == Busy ~> ~Busy
=============================================================================

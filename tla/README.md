# A verification project for the research workflow of Spark Agent

Spark Agent is a desktop application for scientific work. Its core logic is
`services/science-core`, a FastAPI process over one SQLite database (WAL mode) that
plans, runs, reviews and audits *research workflows*; a Tauri shell starts and stops it
with the other local programs. This project models that core and the shell's process
management in TLA+, checks the models with TLC and proves all their safety
properties with TLAPS. Paths are relative to
`src/services/science-core/src/open_science_core/` unless they start with `src/`.

1. The system · 2. What makes the parts correct · 3. Modules · 4. Runs · 5. Proofs ·
6. Where the code does not keep what one expects · 7. What the models leave out ·
8. Plan · 9. Not modelled

## 1. The system

| Component | State it keeps | Operations | Interacts by |
|---|---|---|---|
| Status tables `workflow/state.py` | none | what may follow what | consulted by every transition |
| Durable worker `workflow/worker.py` | lease (owner, token, expiry) on job rows | recover, sweep, claim, start, execute, heartbeat, settle | rows only; its threads run the handlers |
| Job lifecycle `workflow/_handlers/lifecycle.py` | job, task and workflow rows | start, execute, advance, settle, acknowledge a cancellation, finish | called by the worker, calls the handlers |
| User requests `workflow/_service/lifecycle.py` | plan, approval, workflow rows, idempotency keys | start, approve, cancel, retry, resume, analysis decisions | HTTP threads on the same rows as the worker |
| Queue and transitions `workflow/_service/jobs.py`, `events.py` | job table, event ledger | enqueue, compare-and-swap of a status | called by the two above |
| Handlers `workflow/_handlers/*.py` | plans, evidence, claims, reviews | one per job kind | one transaction each, inside execute |
| Agent loop `workflow/agent_loop/` | observations, decisions, budgets | observe, decide, apply, recreate lost control jobs | three more job kinds of the same worker |
| Analysis execution `_analysis_service/`, `analysis.py` | intents, approvals, runs, artifacts | approve, claim, run, finalize, recover | a job that spans several transactions and an external runtime |
| Paper discovery `workflow/discovery_*.py` | specs, tool invocations, candidates | prepare, authorize, send, reconcile | a job that must not send twice |
| Autonomous intake `workflow/agent_service.py`, `intent_router.py`, `scientific_interactions.py` | route decision, questions, answers, plan versions | route, ask, answer, plan, approve | requests from several windows, two job kinds |
| Method selection and data inspection `analysis_spec/`, `dataset_inspector.py` | none (pure) | profile, select, ask, validate, compile, review | called by intake, planning and preparation |
| Skills `workflow/skill_*.py` | candidates, activations, one project file | propose, install, roll back, recover | database row and file in two phases |
| Research memory `workflow/research_memory.py` | revisions of remembered passages, observations, answers | propose, review, supersede, invalidate | requests; the origin of a skill |
| Source import `app.py` | source row, managed file, candidate attachment | upload, parse, attach | coroutines that give way only while receiving and parsing |
| Curation `api/screening.py`, `candidate_triage.py`, `extraction.py`, `evidence_directions.py`, projects in `app.py` | judgments, matrix cells, briefs, project row | edit, delete, freeze, rename, archive | several windows with versions they showed |
| Desktop shell `src/apps/desktop/src-tauri/src/` | child processes, their handles and locks | start, stop, restart, reset, exit | threads, mutexes, operating-system processes |
| Everything else | | migration, gateways, report drafts, snapshots, the React interface, packages | see section 9 |

What is hard here is concurrency over the rows. HTTP threads, the worker's threads and the
threads of a process that is still shutting down all write the same few rows. pysqlite
opens a transaction at the *first write*: whatever a handler selects before is a
snapshot anything may overtake, and whatever comes after is atomic. The code defends
itself with compare-and-swap on `row_version` and on status, with lease tokens, a final
cancellation guard, unique indexes and, around anything outside the database, with a row
committed before and a row committed after. Whether these, together, are enough is what
the project asks.

## 2. What makes the parts correct

* Worker, lifecycle, requests: a workflow in a working phase has exactly the job of that
  phase and nothing else is active; steps run once and in order; a cancellation is final,
  publishes nothing and is always carried out; a lost lease gives no authority; retries
  are bounded; nothing hangs.
* Agent loop: one decision per observation, never against a revision it did not see;
  budgets hold across crashes; the model is asked once.
* Analysis: an approval buys one execution, on the bytes it names; a result stands only
  where its approval still holds, and stays.
* Discovery: a search that may have been sent is never sent again; no paid answer is lost;
  the approved stop policy is kept.
* Intake: a goal is routed once; answers are never lost; somebody can always move it on;
  what planning lets through runs.
* Skills: file and row agree after every crash; a file the user changed is never lost.
* Import and curation: row, file and attachment agree; no edit is lost or made twice.
* Shell: every process it started is known until it is down; the exit leaves nothing.

`PROJECT.json` lists each hazard at its line, with the properties that cover it.

## 3. Modules

| Component | Model | Abstract specification | Instance | Proofs |
|---|---|---|---|---|
| Worker, lifecycle, requests | `WorkflowCore`, `WorkflowState` (tables), `WorkflowCoreInv` (`IInv`) | `StepPipeline` | `MCWorkflowCore` | `WorkflowCoreProofs` |
| Agent loop | `AgentLoop` | | `MCAgentLoop` | `AgentLoopProofs` |
| Analysis execution | `AnalysisExecution` | `ApprovedAnalysis` | `MCAnalysisExecution` | `AnalysisExecutionProofs` |
| Paper discovery | `Discovery` | `SearchOnce` | `MCDiscovery` | `DiscoveryProofs` |
| Intake, method selection, inspection | `AgentIntake`; `MethodSelection` over `DatasetProfile`; `SpecExecution`; together in `AnalysisPlanning` | | `MCAgentIntake` | `AgentIntakeProofs`, `AnalysisPlanningProofs` |
| Memory and skills; import; curation | `SkillActivation`, `SourceImport`, `SharedRecords`, composed in `ProjectRecords` | | `MCProjectRecords` | `ProjectRecordsProofs` |
| Desktop shell | `SkillPack`, `OpenCodeSidecar`, `NotebookKernels`, `JupyterLab`, `ScienceCoreLifecycle` over `DesktopProcess`, composed in `DesktopShell` | | `MCDesktopShell` | `DesktopShellProofs` |

**Conventions.** A handler that selects before it writes is a *read* action and a *write*
action; a handler that begins with `BEGIN IMMEDIATE`, or never gives way, is one. `pc[t]` is
where a thread stands, `loc[t]` the rows its session has read. A comparison that fails
rolls the transaction back and raises, and where the exception goes is kept. A lease token
is the name of the worker that drew it: the code draws a uuid, and a worker never draws one
while it still uses another. A lease is live or not and may run out at any time, because a
laptop sleeps; its owner may wake up later and go on. What is counted without bound in
the code is bounded in the guards by a constant `Max...`, declared with its reason.

### `WorkflowCore`

`wf`, `plan`, `task`, `job` are the rows. A job is known by its operation (the plan, a step,
the review): `enqueue_job` keys rows by operation and attempt and only the newest attempt
matters; `lastFailed` keeps what `ORDER BY finished_at DESC` would find. `req[c]` is for an
HTTP request what `loc[w]` is for a worker.

| Code | Actions |
|---|---|
| `_recover_expired_jobs` | `RecoverExpired`, `SettleNextExpired`, then the settlement |
| `_sweep_cancellations` | `SweepRead`, `SweepWrite` |
| `_recover_orphaned_workflows` | `OrphanRead`, `OrphanCheck`, `OrphanWrite` |
| `claim_next_job` | `ClaimSelect`, `ClaimWrite` |
| `mark_leased_job_started` | `StartRead`, `StartWrite` |
| `execute_leased_job` and the handlers | `ExecRead`, `ExecWrite` (`PublishPlan`, `PublishStep`, `PublishReview`) |
| `settle_leased_job_error` | `SettleRead`, `SettleWrite` (cancelled, retry, blocked, failed, conflict) |
| `_heartbeat`, lease clock | `Heartbeat`, `LeaseExpires` |
| `start`, `stop`, end of the process | `Boot`, `Drain`, `Crash` |
| a database that stays locked | `Busy` |
| approve, cancel, retry, resume | `AskX` (read and validate), then `Approve`, `RequestCancel`, `RetryWorkflow`, `ResumeWorkflow` |
| a PDF becomes ready | `ImportPdf` |

Two workers exist because `stop()` waits only so long and then cancels the asyncio task,
which does not stop the thread behind it: a process may be draining while the next one
boots. `src/services/science-core/tests/test_workflow.py` likewise runs a second worker
over the lease of a first.

### `AgentLoop`

An autonomous dataset workflow in remote-model-assisted mode. Every finished step is a
*source*: its observation, the decision about it and the application of the decision are
records of `loop`, each written by a durable control job (`<<source, kind>>` among `Ops`)
next to the step's own job. A control job reads everything in `Claim` and writes in one
transaction whose last statement compares revision and cancel flag; only the remote model
is asked between two. Claim and start, and takeover and settlement, are one step
here; `WorkflowCore` has them in finer steps. `Allowed` is `determine_allowed_actions`,
`recover_agent_loop_jobs` is part of every recovery pass.

### `AnalysisExecution`

The intents of one execute-analysis step, each with its run and directory. A worker leases
the job (`Lease`), checks what may run (`Preflight`), makes its exchange directory, claims
the approval, copies the data, runs and finalizes, each in a transaction of its own or
outside any; `RecoverLease`, `Boot...` are the recoveries of another process. `disk` is the
project's folder, which the user may change or remove (`ChangeFiles`); `exch` ages because
old exchange directories are swept. `budget` counts repairs, retries and faults, and
remembers the two things the properties must know: an approval the agent's retry set
back (`renewed`) and a run a starting process failed over its owner (`undone`).

### `Discovery`

Operations are the pairs of query and provider the user approved. `inv[o]` is the sequence
of attempts of an operation, `found` the recorded answers, `served[o]` what the provider
executed. A thread passes `started`, `prepared`, `authorized`, `answered`, each with its
commit; `RecoverExpired` is what a new owner of the lease concludes from the last
invocation, `Select` the agent's choice with `_discovery_stop_reason`.

### Intake and method selection

`AgentIntake` follows a goal to an approved plan: route and plan jobs per number of answers,
questions, the router's one invocation, answers that redirect. `respond`, which reads before
it takes the write lock, is a step that reads (`tab`) and one that writes.
`MethodSelection` and `SpecExecution` are operators: the local selector with the questions
it asks, and what becomes of a selected specification from the sampled profile
(`DatasetProfile`) through the exact preflight, the repeated validation and the compiled
program to the review. A cell is a text out of a few that stand for the kinds the inspector
tells apart; what pandas and scipy do is modelled as far as they can fail or count.
`AnalysisPlanning` puts the three together and states what the user is asked and approves.

### `SkillActivation`, `SourceImport`, `SharedRecords`

They share a database and nothing else, so a behaviour of `ProjectRecords` follows one of
them (`part`). In `SkillActivation` a request first finishes whatever row is pending
(`Recover`), so several threads may install or roll back the same one: `Inspect`, `Replace`,
`Verify`, `MarkActive` look at and write the file outside any transaction, `Restore`, `Undo`,
`Restored` keep the writer lock. A temporary file has the name of the thread that writes it;
a crash leaves it as `NoClient`'s. `SourceImport` follows the uploads of one content hash
between the two points where their coroutines give way. In `SharedRecords` a write is known
by its number, which stands for its content, and a row by the write that made it, so an edit
that overwrites what its window never showed is visible whatever the versions say.

### The shell

One module per program over `DesktopProcess` (what the shell is doing, which launch it is).
`DesktopShell` composes them with the order of the exit (`lib.rs:130-147`), a kill of the
shell between any two steps and the next launch; `used` says which program a behaviour
follows, because they share only the exit.

## 4. Runs

| Run | Instance | States | What it shows |
|---|---|---|---|
| `core` | 2 steps, 2 workers, 1 client, 2 requests, 1 fault, 2 attempts | 0.4 M | `PhaseHasItsJob`, `StepsInOrder`, `OnlyHolderSettles`, `NothingPublishedAfterCancel`, `TerminalIsFinal`, `ImplementsPipeline` |
| `requests` | 1 step, 1 worker, 2 clients, 2 keys, 4 requests, 1 fault | 0.8 M | `IInv`, `CancelledIsQuiet`, `AutoRetryBounded` |
| `live` | 1 step, 2 workers, 1 client, 2 requests, 1 fault | 0.4 M | `CancelSettles`, `PhasesSettle` |
| `loop` | 2 steps, 2 workers, 1 attempt and 1 agent retry per step, 1 user retry, 1 stop, 1 change of settings | 0.2 M | `RecordsAgree`, `OneRunInOrder`, `AttemptsBudgeted` |
| `loop_live` | the same with 2 attempts, no user requests | 28 k | `ModelAskedOnce`, `LoopSettles` |
| `loop_starved` | 1 step, 1 worker, 1 change of settings | violation | `ExpiredLeaseIsSettled` |
| `analysis` | 2 processes, 1 repair, 1 fault, 2 attempts, 2 retries | 0.2 M | `RecordsAgree`, `OneExecution`, `ResultsStand`, `ImplementsApproval`, `ApprovalSettles` |
| `discovery` | 2 queries at 2 providers, 2 processes, 2 troubles | 0.2 M | `RecordsAgree`, `ServedOnce`, `PolicyIsKept`, `ImplementsSearchOnce`, `DiscoverySettles` |
| `discovery_retried` | 2 queries, 1 provider, 1 crash | violation | `RetriedSuccessIsAccepted` |
| `intake` | 2 processes, 1 window, 2 answers, 1 trouble; 6,498 pairs of file and specification, dialogs of up to 5 questions | 0.2 M | `RecordsAgree`, `QuestionsSettle`, `PlansExecute`, `RoutedOnce`, `IntakeGoesOn` |
| `skills` | 2 threads, 2 approvals, 2 revisions, 1 edit, 1 crash; 2 uploads of 4, 2 candidates, 1 interruption; 2 windows, 3 writes | 0.3 M | `RecordsAgree`, `LibraryAgrees`, `EditsAreKept`, `PriorIsKept`, `PendingSettles` |
| `desktop` | per program 1 or 2 launches, 2 or 3 commands, 1 fault | 0.2 M | `SkillIsKept`, `ProcessesAreKnown`, `ExitLeavesNothing`, `DesktopSettles` |

Each property has a *mutant*, an operator `...Mut` next to the one it stands for, with a
plausible bug (a dropped guard, an off-by-one, a missing write) under which TLC finds the
property violated.

**Bounds.** The constants `Max...` bound what users, faults and the agent do; threads and
handlers are unbounded. Each instance is the least in which its hazards happen: two
requests are an approval and one that races the worker, the four of `requests` allow
approve, fail, retry and a competing cancel or duplicate; one fault is a drain with a
takeover, a crash between two commits or a lost lease; two attempts are the least with a
retry and its limit (`MAX_JOB_ATTEMPTS` is 3); two steps, queries or candidates are the least
with an order or a choice. `discovery` has two troubles because a retry after a crash is its
hazard. In `skills` the judgments are two of four handlers that differ in nothing the model
keeps, and one mutation key (two give 272 k states for that part, no error). Larger instances tried by hand:
`analysis` with 2 faults, safety only (1.2 M states); `SkillActivation` with 3 edits or
3 approvals (10.3 M); OpenCode with 3 commands. Where a theorem covers
a property (section 5) the bounds no longer matter. Symmetry is used for safety only.

**Fairness.** Weak, and only of what the code schedules by itself: the step of a thread in a
process that lives (the loop polls at least every `poll_interval`, `worker.py:95-114`, and
the broker's and the model's client time out); the start of a process that is down, because
liveness is promised to a user who opens the application again; the running out of a lease
nobody renews; the agent's control jobs in `discovery`, which run on the same loop; in
`skills` the requests, since recovery has no thread of its own (somebody looks at the skill
again); in `desktop` threads that are not blocked and the steps of an exit. Nothing is
assumed of users, crashes, drains, heartbeats, cells that run for ever, or a locked database.

## 5. Proofs

The theorems hold for every number of processes, threads, clients, steps, attempts, keys,
operations, uploads, windows, edits, launches, commands, starts and crashes, and for every
file, goal and answer, from the named assumptions of the modules:
bounds are natural numbers, there is at least one step and one attempt, and null names
are not members; a goal mentions a column once, a question lists no more columns than the
limit, and what is answered in advance belongs to questions only the model asks
(`MethodAssumption`). Each part has one inductive invariant, which TLC checked on an instance
before it was proved. They cover every invariant and every action property of the runs.

| Module | Theorems |
|---|---|
| `WorkflowCoreProofs` | `TypeCorrect`, `InvariantCorrect`, `PhaseHasItsJobCorrect`, `StepsInOrderCorrect`, `TerminalIsFinalCorrect`, `NothingPublishedAfterCancelCorrect`, `CancelledIsQuietCorrect`, `OnlyHolderSettlesCorrect`, `AutoRetryBoundedCorrect`, `ImplementsPipelineCorrect` |
| `AgentLoopProofs` | `RecordsAgreeCorrect`, `OneRunInOrderCorrect`, `AttemptsBudgetedCorrect`, `ModelAskedOnceCorrect` |
| `AnalysisExecutionProofs` | `RecordsAgreeCorrect`, `OneExecutionCorrect`, `ResultsStandCorrect`, `ImplementsApprovalCorrect` |
| `DiscoveryProofs` | `ServedOnceCorrect`, `RecordsAgreeCorrect`, `PolicyIsKeptCorrect`, `ImplementsSearchOnceCorrect` |
| `AgentIntakeProofs` | `RecordsAgreeCorrect`, `RoutedOnceCorrect`, `PlanFollowsAnswersCorrect`, `OneOpenQuestionCorrect` |
| `AnalysisPlanningProofs` | `PlansExecuteCorrect`, `QuestionsSettleCorrect` |
| `ProjectRecordsProofs` | `EditsAreKeptCorrect`, `LibraryAgreesCorrect`, `RecordsAgreeCorrect`, `PriorIsKeptCorrect` |
| `DesktopShellProofs` | `SkillIsKeptCorrect`, `ProcessesAreKnownCorrect`, `ExitLeavesNothingCorrect` |

**`WorkflowCore`.** `PhaseHasItsJob` is not inductive: a thread writes what it read some time
ago. `IInv` adds what the rows say about each other (`PlanGate`, `NoEarlyJob`,
`CancelWaitsForJob`) and, for each thread and request, that what was read is still there
*or the revision has moved on* (`Current`). Each writing action is shown to keep the rows
agreeing and to take them *onward* (`Onward`): revisions never go back, and a row with the
same revision is the same up to what a stale reader may miss. Onward steps keep every other
thread's belief, so one lemma per action suffices instead of one per pair. What a step
may never do follows: in an ended workflow no comparison can succeed; under a cancel flag a
thread that read no flag read an older revision (`UnawareIsStale`); while a job is leased
it is the one active job, so only its holder ends it. `AutoRetryBounded` counts: the
worker's own retry begins only below the limit, and each attempt beyond uses up a key.
The refinement of `StepPipeline` maps jobs, leases and revisions away: a step the user did
not see leaves status, flag, plan and the set of completed steps; the step a handler
publishes is the next one, the last exactly when all are complete; and a retry or resume
finds the phase that is due, because the row it takes up was read under `IInv`.

**`AgentLoop`** (`LInv`: types, `RowInv`, `Calls`). The records of a source are written in
order, each with the job that writes the next; a step begins only when the decision about
the one before is carried out, so everything before it is completed and at most one step
has failed. The retry limit is read at the decision and used at the application: it still
holds there because carrying out a retry moves the revision and makes every other proposal
stale. Only a lease holder that read no invocation sends, so nobody has called before it.

**`AnalysisExecution`** (`AInv`: eight named parts). Only the newest intent has not failed.
A retry moves the revision past the one the approval binds, so a result can
complete only if nothing was renewed. Without a renewal at most one thread is active, on the
newest intent, and the failure a starting process writes under it is of a kind no repair
follows (`Solo`). Starts made, threads about to start and the unspent approval together are at
most one more than the renewals (`Counted`). In the refinement of `ApprovedAnalysis` a report is a
proposal, a claim spends the approval, a finalization delivers, a starting process takes back;
everything else stutters, the agent's retry through `PhaseOf`. The proof found an error in the model: with three
processes a thread that passed its preflight before may claim an approval the agent has set
back while the first thread still runs; the code has no guard against it, so
`OneRuntimeAtATime` now excepts renewed approvals (two processes cannot show it).

**`Discovery`** (`DInv`). Only the last attempt of an operation may stand for a request that
was sent; all before are failures recorded as repeatable. Each row has one maker, and a
thread at or after sending has the last row pending or of unknown outcome; so whatever
the provider executed has a last row that is neither prepared nor repeatable. For the
refinement every operation but the job's is unasked or answered (`OthersRest`).
`PolicyIsKept` compares counts over the history, so its invariant speaks of the moment of the
last choice: until the newest job is answered, the stop policy has not said stop and the job's
query was asked least often among the open ones (`Searching`); a recorded answer moves the
counts, and the next choice looks at them again (`PolicyInv`).

**`AgentIntake`** (`IntakeInv`: who asks, what the rows say, what is believed). A process that may
still send, or waits for the model, began the invocation itself, and nobody asked before
(`Asks`); a decision is recorded with its invocation ended or with its route's job done
(`Decides`), so what a process that lost its lease brings home changes nothing. Only the newest answer is
routed and, while it is, no decision is current (`Routing`); plan versions are reserved no faster
than answers come (`Reserved`). A drafting process and a window believe what still is so, or
the revision has moved on (`Planners`, `Windows`). The exception is the scientific question,
which moves no revision: an answer to the question it superseded is still accepted, and nothing
is lost because the new question is the newest one and stays open. The invariant also gives
`PlanFollowsAnswers` and `OneOpenQuestion`, the parts of `PlansExecute` and `QuestionsSettle`
that are about the behaviour of the intake; the other parts are about data.

**What runs** (`AllSpecsExecute`). Planning refuses with a set of codes, so what is not refused
meets a conjunction of conditions. Normalising twice changes nothing more, and validation reads
nothing that normalising changes: so the approved specification prepares unchanged. The profile of
a complete sample that lost nothing counts the very cells the program reads, and the exact
preflight and the program work on the same sets of rows. A review that passes ties all seven parts
of an output to the code compiled from the specification and to the result, so a part altered
after the run does not pass. That holds for files of any size and any sample size; the two
names no file can have (`Altered`, the cell "other") are devices of the model.

**What is asked** (`AllDialogsSettle`). A role is a column that fits, one the user typed, or open,
and each decision says which roles it found open. When a question comes again, what it asks
for is still open, which its answer rules out unless the answer was of no use. Group values are
asked for only when both columns are settled; later answers unsettle neither, and the values stay
those of the group column (`Dialog`): dialogs of any length keep that, though the property looks
at five. The proof found a clause of `Settles` that was true of every question; it
now says that some answer is of use, and names the questions that have none (`Unanswerable`).

**Sources and edits.** For an import it is enough to add that a parser has made its row and
that a row that waits has its parser. For edits, versions alone are not unique, since a cell
deleted and made again starts at 1: the invariant follows the write that *created* a row; a
window and a row of one creation agree as soon as their versions do, and only the cell has
several creations. A project mutation that still may commit is at the version it read, and then
nobody has recorded its key.

**Skills** (`SkillInv`). What keeps two threads from replacing each other's file is neither row
nor lock but the temporary file: who is about to write has one in the directory, and nobody
begins to write where one is (`OneWriter`; a removal needs none but holds the lock). So
between a thread's look and its write only the user's hand, which makes the thread late, puts a
file of the user's there (`WritersSound`), which gives `PriorIsKept` also when threads overlap. As
long as none overlap, the one at work is on the row that is pending or on one that recovery has
blocked under it, and then no other row is active; and a template that was there before an
installation belongs to another, blocked row (`TemplateAccounted`), so a rollback that
leaves a template leaves a row that says so.

**Desktop shell** (`DesktopInv`, one invariant per program). The programs meet only in the process
of the shell, so each invariant is kept by its own steps, by a relaunch, and by whatever the
others do to the process (`Moves`). *Skill pack*: unless damage took the last copy, the target is
complete or a backup exists at every point of a deployment. *OpenCode*: only the holder of the mutex has a process in
its hands; for everybody else none is alive but the recorded child (`Owned`), and once the main
thread has been through, none but what a record without a handle remembers (`Stopped`).
*Kernels*: a thread makes a kernel at most once, so one that has left the map stays out.
*jupyter-lab*: nothing is alive when the holder of the lock is about to spawn. *Science Core*: a
start under way is the current one and nobody else stops under its number; so a container that
runs is the active one, and before the exit a stop is alone. `LeftKnown` carries this through
the exit, where the exceptions of `ExitLeavesNothing` come from.

**Only model-checked.** Liveness (`CancelSettles`, `PhasesSettle`, `LoopSettles`, `ApprovalSettles`,
`DiscoverySettles`, `IntakeGoesOn`, `PendingSettles`, `DesktopSettles`): fairness and ENABLED are
beyond the prover. So are the two runs of section 6 that end in a counterexample.

## 6. Where the code does not keep what one expects

Two runs show a disagreement between the code and its own text (`findings` in `PROJECT.json`):

* `loop_starved`: an expired job of a blocked workflow whose attempts are used up cannot be
  settled (`workflow/state.py:22` admits no way from blocked to failed), so every recovery
  pass raises before it claims, for all workflows (`worker.py:117`, `:405`).
* `discovery_retried`: a search repeated as intended after "prepared-not-sent" succeeds, and
  the selector fails the workflow over its history (`coordinator.py:2178`).

Others appear as named exceptions of the properties, so a reader should know them:

* *Analysis.* The recovery of a starting process reads without a lock, clears the files and
  writes "failed" without a comparison, over a run a draining process completed in between
  (`Undoes`). A run left running in a project whose folder is gone keeps every process from
  starting. The agent's retry gives a spent approval back; a thread that overslept its lease may
  use it. A user's retry after a failure before the claim can never execute.
* *Discovery.* After a crash before the first invocation record, attempt 2 is refused
  (`discovery_adapter.py:1257`).
* *Intake.* An answer may be changed while its plan job is claimed (`agent_service.py:1660`),
  since the claim moves no revision; after a reset to routing the stale leased job's
  settlement raises in every pass (`Stuck`). An explicit choice of a route leaves its
  invocation pending.
* *Method selection.* A negative number in the sample makes every two-group comparison on a file refused; the
  method confirmation is asked for ever when the goal names two methods (`selector.py:309`);
  header blanks become a KeyError after approval; what planning overlooks is `Overlooked`.
* *Skills.* A crash between creating the temporary file and replacing SKILL.md leaves a file
  every later inspection refuses (the docstring at `skill_activations.py:830` promises otherwise); overlapping
  threads may install a template over a restored prior file, undo a newer activation or turn a
  blocked row active (`overlap`); a skill whose origin was invalidated can be neither invoked
  nor rolled back.
* *Import.* An upload that fails removes the managed file, also of another upload's ready
  source (`spoilt`); a row left "processing" by a crash is returned for ever; a file sealed
  before its commit makes every retry fail unless privileged.
* *Curation.* A cell deleted and made again has version 1 again (against the comment near `extraction.py:630`);
  archiving looks for active workflows before its write; a mutation that changes nothing is
  recorded without comparing the version.
* *Shell.* A retry's cleanup under way at the exit may start a new container; jupyter-lab may be
  recorded after the kill; an OpenCode whose end was not confirmed stays as a tombstone; a stop
  during a retry's cleanup is dropped. These are the exceptions in `ExitLeavesNothing`.

## 7. What the models leave out

* Content: plans, evidence, claims, verdicts, prompts. Handlers succeed, block, fail or are
  retried, by choice, wherever the code can. The statistics themselves; what the parsers read.
* Hashes of job inputs: an expired job may or may not still match its inputs.
* The event ledger, timestamps, messages; other workflows, which only delay; retry delays.
* `AgentLoop`: clarifications, specification revisions, warnings a user accepts, the discovery
  variant (in `Discovery`). `AnalysisExecution`: standalone analyses. `Discovery`: creation of
  the run, ties in the selection, the step budget, which is not reached.
* `AgentIntake`: stale and replayed requests, which leave no trace; claim and start are one step;
  the local mode of the instance. Method selection: the model's own column questions, Unicode
  digits, numbers too large, blank lines; its bounds (sample rows and cells, few values, group
  sizes) are scaled down and named.
* `SkillActivation`: one subject of the memory, one target; directory and temporary file are
  made with the inspection; the n-th approval has key n; the user never removes the directory.
* `SourceImport`, `SharedRecords`: one file and one row of each kind; columns of the matrix,
  quote locations.
* Shell: damage to the pack only between deployments; settings commands, setup of jupyter,
  choice of interpreters, builds without the packaged Science Core.

## 8. Plan

1. Report drafts and evidence coverage: what a frozen draft may still cite.
2. The variants of the agent loop left out (clarifications, specification revisions, accepted
   warnings), on the invariant of `AgentLoopProofs`.
3. The column questions the remote model proposes, next to those of the local selector.

## 9. Not modelled

Snapshots and integrity checks are read-only. Report drafts and evidence coverage freeze
derived documents. The literature search and the policy over generated code are pure functions
of texts. The schema migration runs alone before anything else. The model gateway and the
downloader are network I/O whose result is a success or a failure of their caller. The
analysis runtime is an external actor of `AnalysisExecution`. The remaining commands of the
shell are one action each over files and remote machines and share no state with what it manages.
The interface and the packages hold views, types and prompt files.

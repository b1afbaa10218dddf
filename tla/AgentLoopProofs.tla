--------------------------- MODULE AgentLoopProofs ---------------------------
(***************************************************************************)
(* The agent loop's records agree, its steps run one at a time and in      *)
(* order, its retries are budgeted and its model is asked once about an    *)
(* observation: for any number of steps, workers, attempts, retries,       *)
(* crashes, lost leases and requests.                                      *)
(***************************************************************************)
EXTENDS AgentLoop, FiniteSetTheorems, WellFoundedInduction, TLAPS

\* What a row may say by itself.
Rows ==
    /\ task \in [Tasks -> {"pending", "queued", "running", "completed", "failed", "cancelled"}]
    /\ \A op \in Ops :
          /\ job[op].st = "absent" <=> job[op].att = 0
          /\ job[op].code = "lost" => job[op].att >= MaxJobAttempts
          /\ job[op].code = "transient" => op[1] = "run" /\ op[2] \in Tasks

\* A task and the job that runs it, and what the workflow's status says about both.
TaskJobs ==
    \A s \in Tasks :
        /\ task[s] = "pending" => job[Run(s)].att = 0
        /\ job[Run(s)].att = 0 => task[s] \in {"pending", "cancelled"}
        /\ task[s] \in {"queued", "running"} => Active(Run(s))
        /\ task[s] = "completed" <=> job[Run(s)].st = "succeeded"
        /\ task[s] = "failed" => wf.status \in {"blocked", "failed"}
        /\ task[s] = "cancelled" => wf.status = "cancelled"

\* The workflow's status, its cancel flag and its review.
Flags ==
    /\ wf.status = "cancelled" => wf.cancel
    /\ wf.status = "completed" => passed
    /\ wf.cancel /\ wf.status \notin WorkflowTerminal => ~NoneLeased
    /\ CancelledStaysEmpty
    /\ passed => job[Run(Review)].st = "succeeded"

\* The loop's records of a source are written in order, each with the job that writes the
\* next, and an attempt that ended is observed or nobody was left to queue that yet.
Concluded(x) == Newest(x) /\ job[Run(x[1])].st = "succeeded" /\ (x[1] = Review => passed)
Records ==
    \A x \in Sources :
        /\ loop[x].obs # "none" =>
              job[Ctl("observe", x)].st = "succeeded" /\ job[Ctl("decide", x)].att > 0
        /\ Answered(x) =>
              job[Ctl("decide", x)].st = "succeeded" /\ job[Ctl("apply", x)].att > 0
        /\ loop[x].st = "applied" => job[Ctl("apply", x)].st = "succeeded"
        /\ job[Ctl("observe", x)].att > 0 =>
              /\ x[2] <= job[Run(x[1])].att
              /\ Newest(x) => job[Run(x[1])].st \in {"succeeded", "failed"}
        /\ Concluded(x) => job[Ctl("observe", x)].att > 0
        /\ loop[x].obs = "transient" => x[1] \in Tasks
        /\ loop[x].obs = "output" => x[1] \in Tasks /\ Newest(x) /\ task[x[1]] = "completed"

\* A step begins only when the decision about the one before it has been carried out.
Order ==
    \A s \in Tasks, k \in Subjects : s < k /\ job[Run(k)].att > 0 =>
        task[s] = "completed" /\ loop[<<s, job[Run(s)].att>>].st = "applied"

\* A retry that was proposed and can still be carried out is within the limit.
Budget ==
    /\ AttemptsBudgeted
    /\ \A x \in Sources :
          /\ loop[x].rev <= wf.rev
          /\ loop[x].st = "proposed" /\ loop[x].act = "retry" /\ loop[x].rev = wf.rev
                 => ~LimitReached

\* Only who holds the decision's lease sends, and found no request before.
Calls ==
    /\ \A x \in Sources : loop[x].calls <= 1 /\ (loop[x].calls = 1 => loop[x].inv # "none")
    /\ \A w \in Workers : pc[w] = "send" => loc[w].op[1] = "decide" /\ loc[w].inv = "none"
    /\ \A w \in Workers : pc[w] = "called" => loc[w].op[1] = "decide"
    /\ \A w \in Workers :
          (/\ pc[w] \in {"exec", "send"} /\ loc[w].op[1] = "decide" /\ loc[w].inv = "none"
           /\ Holds(w, loc[w].op, loc[w].att))
             => loop[SourceOf(loc[w].op)].calls = 0
    /\ \A w \in Workers :
          pc[w] = "send" /\ Holds(w, loc[w].op, loc[w].att) => loop[SourceOf(loc[w].op)].inv # "none"
-----------------------------------------------------------------------------
(* The operations, the last place in the queue, and the types of the rows. *)

JobRow == [att: Nat, tok: Workers \cup {NoWorker}, exp: BOOLEAN, pos: Nat,
           st: {"absent", "queued", "leased", "succeeded", "failed", "cancelled"},
           code: Codes]
LocRow == [op: Ops, att: Nat, rev: Nat, inv: {"none", "pending", "done", "failed"}]
LoopRow == [obs: {"none", "output", "transient", "failed", "reviewed"},
            act: {"none", "continue", "retry", "complete", "stop"},
            rev: Nat, st: {"none", "proposed", "applied"},
            inv: {"none", "pending", "done", "failed"}, calls: Nat]

LEMMA StepsTyped == Steps \in Nat /\ Steps > 0 /\ MaxJobAttempts \in Nat /\ MaxJobAttempts > 0
  BY LoopStepsAssumption, LoopAttemptsAssumption

LEMMA Names ==
  /\ \A s \in Tasks : s \in Subjects /\ s \in Nat /\ s > 0 /\ s < Review
  /\ Review \in Subjects /\ Review \notin Tasks /\ Review \in Nat
  /\ \A s \in Subjects : s \in Nat /\ s > 0 /\ (s = Review \/ s \in Tasks)
  BY StepsTyped DEF Tasks, Subjects, Review

LEMMA SourceNames ==
  /\ \A x \in Sources : x = <<x[1], x[2]>> /\ x[1] \in Subjects /\ x[2] \in Nat \ {0}
  /\ \A x, y \in Sources : x = y <=> x[1] = y[1] /\ x[2] = y[2]
<1>1. MaxRuns \in Nat
  BY StepsTyped, LoopBoundsAssumption DEF MaxRuns
<1> QED BY <1>1 DEF Sources

LEMMA OpNames ==
  /\ \A s \in Subjects : Run(s) \in Ops /\ Run(s)[1] = "run" /\ Run(s)[2] = s
  /\ \A x \in Sources, k \in Control :
        Ctl(k, x) \in Ops /\ Ctl(k, x)[1] = k /\ Ctl(k, x)[2] = x[1] /\ SourceOf(Ctl(k, x)) = x
  /\ \A s, t : Run(s) = Run(t) <=> s = t
  /\ \A x, y \in Sources : \A k, l : Ctl(k, x) = Ctl(l, y) <=> k = l /\ x = y
  /\ \A s, x : \A k \in Control : Run(s) # Ctl(k, x)
<1>1. \A s, t : Run(s) = Run(t) <=> s = t
  BY DEF Run
<1>2. \A s \in Subjects : Run(s) \in Ops /\ Run(s)[1] = "run" /\ Run(s)[2] = s
  BY DEF Run, Ops
<1>3. \A x \in Sources, k \in Control :
        Ctl(k, x) \in Ops /\ Ctl(k, x)[1] = k /\ Ctl(k, x)[2] = x[1] /\ SourceOf(Ctl(k, x)) = x
  BY SourceNames DEF Ctl, Ops, SourceOf
<1>4. \A x, y \in Sources : \A k, l : Ctl(k, x) = Ctl(l, y) <=> k = l /\ x = y
  BY SourceNames DEF Ctl
<1>5. \A s, x : \A k \in Control : Run(s) # Ctl(k, x)
  BY DEF Run, Ctl, Control
<1> QED BY <1>1, <1>2, <1>3, <1>4, <1>5

LEMMA OpKinds ==
  ASSUME NEW op \in Ops
  PROVE  \/ op[1] = "run" /\ op[2] \in Subjects /\ op = Run(op[2])
         \/ op[1] \in Control /\ SourceOf(op) \in Sources /\ op = Ctl(op[1], SourceOf(op)) /\ op[2] = SourceOf(op)[1]
<1>1. CASE \E s \in Subjects : op = Run(s)
  BY <1>1, OpNames
<1>2. CASE \E k \in Control, x \in Sources : op = Ctl(k, x)
  BY <1>2, OpNames
<1> QED BY <1>1, <1>2 DEF Ops

LEMMA OpsFinite == IsFiniteSet(Ops) /\ IsFiniteSet(Sources)
<1>1. IsFiniteSet(Subjects) /\ IsFiniteSet(1..MaxRuns)
  <2>1. Review \in Int /\ MaxRuns \in Int
    BY StepsTyped, LoopBoundsAssumption DEF Review, MaxRuns
  <2> QED BY <2>1, FS_Interval DEF Subjects
<1>2. IsFiniteSet(Sources)
  BY <1>1, FS_Product DEF Sources
<1> DEFINE Runs == {Run(s) : s \in Subjects}
           Ctls == {Ctl(k, x) : k \in Control, x \in Sources}
<1>3. IsFiniteSet(Runs)
  <2>1. [s \in Subjects |-> Run(s)] \in Surjection(Subjects, Runs)
    BY DEF Surjection
  <2> QED BY <1>1, <2>1, FS_Surjection
<1>4. IsFiniteSet(Control)
  <2>1. Control = {"observe"} \cup {"decide"} \cup {"apply"}
    BY DEF Control
  <2> QED BY <2>1, FS_Singleton, FS_Union
<1>5. IsFiniteSet(Ctls)
  <2> DEFINE f == [c \in Control \X Sources |-> Ctl(c[1], c[2])]
  <2>1. IsFiniteSet(Control \X Sources)
    BY <1>2, <1>4, FS_Product
  <2>2. f \in [Control \X Sources -> Ctls]
    OBVIOUS
  <2>3. \A c \in Ctls : \E p \in Control \X Sources : f[p] = c
    <3> SUFFICES ASSUME NEW k \in Control, NEW x \in Sources
                 PROVE  \E p \in Control \X Sources : f[p] = Ctl(k, x)
      OBVIOUS
    <3> WITNESS <<k, x>> \in Control \X Sources
    <3> QED OBVIOUS
  <2>4. f \in Surjection(Control \X Sources, Ctls)
    <3> HIDE DEF f, Ctls
    <3> QED BY <2>2, <2>3 DEF Surjection
  <2> QED BY <2>1, <2>4, FS_Surjection
<1>6. Ops = Runs \cup Ctls
  BY DEF Ops
<1> HIDE DEF Runs, Ctls
<1> QED BY <1>2, <1>3, <1>5, <1>6, FS_Union

\* A finite set of places that is not empty has a last one.
LEMMA LastPlace ==
  ASSUME NEW S \in SUBSET Nat, IsFiniteSet(S), S # {}
  PROVE  \E n \in S : \A m \in S : m <= n
<1> DEFINE HasLast(T) == \E n \in T : \A m \in T : m <= n
           Open == {n \in Nat : \E T \in SUBSET Nat : IsFiniteSet(T) /\ Cardinality(T) = n /\ T # {} /\ ~HasLast(T)}
<1> SUFFICES ASSUME Open # {} PROVE FALSE
  <2>1. Cardinality(S) \in Nat
    BY FS_CardinalityType
  <2> QED BY <2>1
<1>1. PICK n \in Open : \A m \in Open : ~(<<m, n>> \in OpToRel(<, Nat))
  <2>1. Open \subseteq Nat
    OBVIOUS
  <2> QED BY <2>1, NatLessThanWellFounded, WFMin
<1>2. \A m \in Open : ~(m < n)
  BY <1>1 DEF OpToRel
<1>3. PICK T \in SUBSET Nat : IsFiniteSet(T) /\ Cardinality(T) = n /\ T # {} /\ ~HasLast(T)
  OBVIOUS
<1>4. PICK t \in T : TRUE
  BY <1>3
<1>5. IsFiniteSet(T \ {t}) /\ Cardinality(T \ {t}) = n - 1 /\ n \in Nat /\ n - 1 \in Nat
  <2>1. IsFiniteSet(T \ {t}) /\ Cardinality(T \ {t}) = n - 1
    BY <1>3, <1>4, FS_RemoveElement
  <2> QED BY <2>1, FS_CardinalityType
<1>6. T \ {t} # {}
  BY <1>3, <1>4
<1>7. HasLast(T \ {t})
  <2>1. n - 1 \notin Open
    BY <1>2, <1>5
  <2> QED BY <1>5, <1>6, <2>1
<1>8. PICK m \in T \ {t} : \A k \in T \ {t} : k <= m
  BY <1>7
<1>9. CASE t <= m
  BY <1>3, <1>4, <1>8, <1>9
<1>10. CASE m <= t
  <2>1. \A k \in T : k <= t
    BY <1>4, <1>8, <1>10
  <2> QED BY <1>3, <1>4, <2>1
<1> QED BY <1>4, <1>8, <1>9, <1>10

LEMMA LastTyped == ASSUME NEW jobs \in [Ops -> JobRow] PROVE Last(jobs) \in Nat
<1> DEFINE S == {jobs[op].pos : op \in Ops}
<1>1. \A op \in Ops : jobs[op].pos \in Nat
  BY DEF JobRow
<1>2. S \in SUBSET Nat /\ S # {}
  BY <1>1, OpNames, Names
<1>3. [op \in Ops |-> jobs[op].pos] \in Surjection(Ops, S)
  BY DEF Surjection
<1>4. IsFiniteSet(S)
  BY <1>3, OpsFinite, FS_Surjection
<1>5. \E n \in S : \A op \in Ops : jobs[op].pos <= n
  BY <1>2, <1>4, LastPlace
<1> QED BY <1>2, <1>5 DEF Last

RowsTyped ==
    /\ wf \in [status: Phases, rev: Nat, cancel: BOOLEAN]
    /\ task \in [Tasks -> TaskStatuses]
    /\ job \in [Ops -> JobRow]
    /\ failedRun \in 0..Review /\ passed \in BOOLEAN
    /\ loop \in [Sources -> LoopRow]
ThreadsTyped ==
    /\ gateway \in BOOLEAN
    /\ mode \in [Workers -> {"down", "booting", "looping", "draining"}]
    /\ pc \in [Workers -> Labels]
    /\ loc \in [Workers -> LocRow]
    /\ asked \in 0..MaxRequests /\ stops \in 0..MaxStops
    /\ changes \in 0..MaxReconfigurations

LEMMA TypeParts == TypeOK <=> RowsTyped /\ ThreadsTyped
  BY DEF TypeOK, RowsTyped, ThreadsTyped, JobRow, LocRow, LoopRow

LEMMA QueuedRow ==
  ASSUME NEW att \in Nat, NEW pos \in Nat
  PROVE  /\ Queued(att, pos) \in JobRow /\ NoJob \in JobRow
         /\ Queued(att, pos).att = att /\ Queued(att, pos).st = "queued" /\ Queued(att, pos).code = "none"
  BY DEF Queued, NoJob, JobRow, Codes

LEMMA EndedRow ==
  ASSUME NEW jobs \in [Ops -> JobRow], NEW op \in Ops,
         NEW status \in {"absent", "queued", "leased", "succeeded", "failed", "cancelled"}, NEW code \in Codes
  PROVE  /\ Ended(jobs, op, status, code) \in [Ops -> JobRow]
         /\ \A o \in Ops \ {op} : Ended(jobs, op, status, code)[o] = jobs[o]
         /\ Ended(jobs, op, status, code)[op].att = jobs[op].att
         /\ Ended(jobs, op, status, code)[op].st = status
         /\ Ended(jobs, op, status, code)[op].code = code
<1> DEFINE row == [NoJob EXCEPT !.att = jobs[op].att, !.st = status, !.code = code]
<1>1. jobs[op].att \in Nat
  BY DEF JobRow
<1>2. row \in JobRow /\ row.att = jobs[op].att /\ row.st = status /\ row.code = code
  BY <1>1 DEF NoJob, JobRow
<1> HIDE DEF row
<1> QED BY <1>2 DEF Ended, row

LEMMA EnqueuedRow ==
  ASSUME NEW jobs \in [Ops -> JobRow], NEW op, NEW att \in Nat
  PROVE  /\ Enqueued(jobs, op, att) \in [Ops -> JobRow]
         /\ \A o \in Ops : o # op \/ jobs[o].att >= att => Enqueued(jobs, op, att)[o] = jobs[o]
         /\ op \in Ops /\ jobs[op].att < att =>
               /\ Enqueued(jobs, op, att)[op].att = att
               /\ Enqueued(jobs, op, att)[op].st = "queued"
               /\ Enqueued(jobs, op, att)[op].code = "none"
<1>1. Last(jobs) + 1 \in Nat
  BY LastTyped
<1>2. \A o \in Ops : jobs[o].att \in Nat
  BY DEF JobRow
<1>3. CASE op \in Ops
  <2>1. Queued(att, Last(jobs) + 1) \in JobRow
    BY <1>1, QueuedRow
  <2>2. CASE jobs[op].att >= att
    <3>1. ~(jobs[op].att < att)
      BY <1>2, <1>3, <2>2
    <3> QED BY <2>2, <3>1 DEF Enqueued
  <2>3. CASE ~(jobs[op].att >= att)
    <3>1. Enqueued(jobs, op, att) = [jobs EXCEPT ![op] = Queued(att, Last(jobs) + 1)]
      BY <2>3 DEF Enqueued
    <3> QED BY <1>1, <1>3, <2>1, <2>3, <3>1, QueuedRow
  <2> QED BY <2>2, <2>3
<1>4. CASE op \notin Ops
  <2>1. Enqueued(jobs, op, att) = jobs
    BY <1>4 DEF Enqueued
  <2> QED BY <1>4, <2>1
<1> QED BY <1>3, <1>4

LEMMA HealedRow ==
  ASSUME RowsTyped
  PROVE  /\ Healed \in [Ops -> JobRow]
         /\ \A op \in Ops : ~Missing(op) => Healed[op] = job[op]
         /\ \A op \in Ops : Missing(op) =>
               Healed[op].att = job[op].att + 1 /\ Healed[op].st = "queued" /\ Healed[op].code = "none"
<1>1. job \in [Ops -> JobRow]
  BY DEF RowsTyped
<1>2. Last(job) + 1 \in Nat /\ \A o \in Ops : job[o].att + 1 \in Nat
  BY <1>1, LastTyped DEF JobRow
<1> QED BY <1>1, <1>2, QueuedRow DEF Healed

\* The jobs that wait are cancelled, the others stay.
LEMMA EmptiedRow ==
  ASSUME NEW jobs \in [Ops -> JobRow]
  PROVE  LET emptied == [op \in Ops |-> IF jobs[op].st = "queued"
                                        THEN [jobs[op] EXCEPT !.st = "cancelled", !.pos = 0] ELSE jobs[op]]
         IN  /\ emptied \in [Ops -> JobRow]
             /\ \A op \in Ops : /\ emptied[op].att = jobs[op].att /\ emptied[op].code = jobs[op].code
                                /\ emptied[op].st = IF jobs[op].st = "queued" THEN "cancelled" ELSE jobs[op].st
<1>1. \A op \in Ops : /\ [jobs[op] EXCEPT !.st = "cancelled", !.pos = 0] \in JobRow
                      /\ [jobs[op] EXCEPT !.st = "cancelled", !.pos = 0].att = jobs[op].att
                      /\ [jobs[op] EXCEPT !.st = "cancelled", !.pos = 0].code = jobs[op].code
                      /\ [jobs[op] EXCEPT !.st = "cancelled", !.pos = 0].st = "cancelled"
  BY DEF JobRow
<1> DEFINE emptied == [op \in Ops |-> IF jobs[op].st = "queued"
                                      THEN [jobs[op] EXCEPT !.st = "cancelled", !.pos = 0] ELSE jobs[op]]
<1>2. emptied \in [Ops -> JobRow]
  BY <1>1
<1>3. \A op \in Ops : /\ emptied[op].att = jobs[op].att /\ emptied[op].code = jobs[op].code
                      /\ emptied[op].st = IF jobs[op].st = "queued" THEN "cancelled" ELSE jobs[op].st
  <2> TAKE op \in Ops
  <2>1. CASE jobs[op].st = "queued"
    <3>1. emptied[op] = [jobs[op] EXCEPT !.st = "cancelled", !.pos = 0]
      BY <2>1
    <3> HIDE DEF emptied
    <3> QED BY <1>1, <2>1, <3>1
  <2>2. CASE jobs[op].st # "queued"
    BY <2>2
  <2> QED BY <2>1, <2>2
<1> QED BY <1>2, <1>3

LEMMA MovedRow ==
  ASSUME RowsTyped, NEW status \in Phases
  PROVE  /\ WorkflowMoved(status) \in [status: Phases, rev: Nat, cancel: BOOLEAN]
         /\ WorkflowMoved(status).status = status /\ WorkflowMoved(status).cancel = wf.cancel
         /\ WorkflowMoved(status).rev = IF wf.status = status THEN wf.rev ELSE wf.rev + 1
<1>1. wf \in [status: Phases, rev: Nat, cancel: BOOLEAN]
  BY DEF RowsTyped
<1>2. CASE wf.status = status
  BY <1>1, <1>2 DEF WorkflowMoved
<1>3. CASE wf.status # status
  <2>1. WorkflowMoved(status) = [wf EXCEPT !.status = status, !.rev = wf.rev + 1]
    BY <1>3 DEF WorkflowMoved
  <2>2. wf.rev + 1 \in Nat
    BY <1>1
  <2> QED BY <1>1, <1>3, <2>1, <2>2
<1> QED BY <1>2, <1>3

-----------------------------------------------------------------------------
(* What each write does to the rows. *)

LEMMA CancelledWrite ==
  ASSUME RowsTyped, NEW op \in Ops, Cancelled(Ended(job, op, "cancelled", "none"))
  PROVE  /\ RowsTyped' /\ UNCHANGED <<failedRun, passed, loop>> /\ wf' = WorkflowMoved("cancelled")
         /\ \A o \in Ops : /\ job'[o].att = job[o].att
                           /\ job'[o].st = IF o = op \/ job[o].st = "queued" THEN "cancelled" ELSE job[o].st
                           /\ job'[o].code = IF o = op THEN "none" ELSE job[o].code
                           /\ job'[o].st = "leased" => job'[o] = job[o]
         /\ \A s \in Tasks : task'[s] = IF task[s] \in TaskCancellable THEN "cancelled" ELSE task[s]
<1> DEFINE jobs == Ended(job, op, "cancelled", "none")
<1>1. /\ jobs \in [Ops -> JobRow] /\ \A o \in Ops \ {op} : jobs[o] = job[o]
      /\ jobs[op].att = job[op].att /\ jobs[op].st = "cancelled" /\ jobs[op].code = "none"
  BY EndedRow DEF RowsTyped, Codes
<1>2. /\ job' = [o \in Ops |-> IF jobs[o].st = "queued" THEN [jobs[o] EXCEPT !.st = "cancelled", !.pos = 0] ELSE jobs[o]]
      /\ task' = [s \in Tasks |-> IF task[s] \in TaskCancellable THEN "cancelled" ELSE task[s]]
      /\ wf' = WorkflowMoved("cancelled") /\ UNCHANGED <<failedRun, passed, loop>>
  BY DEF Cancelled
<1> HIDE DEF jobs
<1>3. /\ job' \in [Ops -> JobRow]
      /\ \A o \in Ops : /\ job'[o].att = jobs[o].att /\ job'[o].code = jobs[o].code
                        /\ job'[o].st = IF jobs[o].st = "queued" THEN "cancelled" ELSE jobs[o].st
  BY <1>1, <1>2, EmptiedRow, Zenon
<1>4. \A o \in Ops : job'[o].st = "leased" => job'[o] = job[o]
  BY <1>1, <1>2, <1>3
<1>5. wf' \in [status: Phases, rev: Nat, cancel: BOOLEAN]
  BY <1>2, MovedRow DEF Phases
<1>6. task' \in [Tasks -> TaskStatuses]
  BY <1>2 DEF RowsTyped, TaskStatuses
<1>7. RowsTyped'
  BY <1>2, <1>3, <1>5, <1>6 DEF RowsTyped
<1>8. \A o \in Ops : /\ job'[o].att = job[o].att
                     /\ job'[o].st = IF o = op \/ job[o].st = "queued" THEN "cancelled" ELSE job[o].st
                     /\ job'[o].code = IF o = op THEN "none" ELSE job[o].code
  BY <1>1, <1>3
<1>9. \A s \in Tasks : task'[s] = IF task[s] \in TaskCancellable THEN "cancelled" ELSE task[s]
  BY <1>2
<1> QED BY <1>2, <1>4, <1>7, <1>8, <1>9

LEMMA RequeueWrite ==
  ASSUME RowsTyped, NEW op \in Ops, Requeue(op)
  PROVE  /\ RowsTyped' /\ UNCHANGED <<wf, passed, loop>>
         /\ \A o \in Ops \ {op} : job'[o] = job[o]
         /\ job'[op].att = job[op].att + 1 /\ job'[op].st = "queued" /\ job'[op].code = "none"
         /\ \A s \in Tasks : task'[s] = IF HasTask(op) /\ op[2] = s /\ task[s] = "running" THEN "queued" ELSE task[s]
<1>1. job[op].att + 1 \in Nat
  BY DEF RowsTyped, JobRow
<1>2. job' = [job EXCEPT ![op] = Queued(job[op].att + 1, 0)]
  BY DEF Requeue
<1>3. /\ job' \in [Ops -> JobRow] /\ \A o \in Ops \ {op} : job'[o] = job[o]
      /\ job'[op].att = job[op].att + 1 /\ job'[op].st = "queued" /\ job'[op].code = "none"
  BY <1>1, <1>2, QueuedRow DEF RowsTyped
<1>4. task' \in [Tasks -> TaskStatuses]
  BY DEF Requeue, RowsTyped, TaskStatuses
<1>5. failedRun' \in 0..Review
  BY OpKinds, Names DEF Requeue, NewestFailed, RowsTyped, Subjects, Control
<1>6. \A s \in Tasks : task'[s] = IF HasTask(op) /\ op[2] = s /\ task[s] = "running" THEN "queued" ELSE task[s]
  BY DEF Requeue, HasTask, RowsTyped
<1> QED BY <1>3, <1>4, <1>5, <1>6 DEF Requeue, RowsTyped

LEMMA FailWrite ==
  ASSUME RowsTyped, NEW op \in Ops, NEW code \in Codes, FailJob(op, code)
  PROVE  /\ RowsTyped' /\ UNCHANGED <<passed, loop>> /\ wf' = WorkflowMoved("failed")
         /\ WorkflowMayMove(wf.status, "failed")
         /\ \A o \in Ops \ {op} : job'[o] = job[o]
         /\ job'[op].att = job[op].att /\ job'[op].st = "failed" /\ job'[op].code = code
         /\ \A s \in Tasks : task'[s] = IF HasTask(op) /\ op[2] = s /\ task[s] \in {"queued", "running"}
                                         THEN "failed" ELSE task[s]
<1>1. job' = Ended(job, op, "failed", code)
  BY DEF FailJob
<1>2. /\ job' \in [Ops -> JobRow] /\ \A o \in Ops \ {op} : job'[o] = job[o]
      /\ job'[op].att = job[op].att /\ job'[op].st = "failed" /\ job'[op].code = code
  BY <1>1, EndedRow DEF RowsTyped
<1>3. task' \in [Tasks -> TaskStatuses]
  BY DEF FailJob, RowsTyped, TaskStatuses
<1>4. failedRun' \in 0..Review
  BY OpKinds, Names DEF FailJob, NewestFailed, RowsTyped, Subjects, Control
<1>5. wf' \in [status: Phases, rev: Nat, cancel: BOOLEAN]
  BY MovedRow DEF FailJob, Phases
<1>6. \A s \in Tasks : task'[s] = IF HasTask(op) /\ op[2] = s /\ task[s] \in {"queued", "running"}
                                   THEN "failed" ELSE task[s]
  BY DEF FailJob, HasTask, RowsTyped
<1> QED BY <1>2, <1>3, <1>4, <1>5, <1>6 DEF FailJob, RowsTyped

\* A run or a control job that ends well and queues the first attempt of the next.
LEMMA FinishWrite ==
  ASSUME RowsTyped, NEW w \in Workers, loc[w].op \in Ops, NEW next, next # loc[w].op, Finish(w, next, job)
  PROVE  /\ job' \in [Ops -> JobRow]
         /\ \A o \in Ops \ {loc[w].op, next} : job'[o] = job[o]
         /\ job'[loc[w].op].att = job[loc[w].op].att /\ job'[loc[w].op].st = "succeeded"
         /\ job'[loc[w].op].code = "none"
         /\ next \in Ops => IF job[next].att = 0 THEN /\ job'[next].att = 1 /\ job'[next].st = "queued"
                                                      /\ job'[next].code = "none"
                                                 ELSE job'[next] = job[next]
<1> DEFINE op == loc[w].op
           jobs == Ended(job, op, "succeeded", "none")
<1>1. /\ jobs \in [Ops -> JobRow] /\ \A o \in Ops \ {op} : jobs[o] = job[o]
      /\ jobs[op].att = job[op].att /\ jobs[op].st = "succeeded" /\ jobs[op].code = "none"
  BY EndedRow DEF RowsTyped, Codes
<1>2. job' = Enqueued(jobs, next, 1)
  BY DEF Finish
<1>3. \A o \in Ops : job[o].att \in Nat
  BY DEF RowsTyped, JobRow
<1> HIDE DEF jobs
<1> QED BY <1>1, <1>2, <1>3, EnqueuedRow

-----------------------------------------------------------------------------
(* What a write must leave for the parts of the invariant to go on. *)

RowInv == Rows /\ TaskJobs /\ Flags /\ Records /\ Order /\ Budget

\* The records stay but for decisions carried out: no job of the loop is undone, no ended run is touched, and a job that
\* observes is queued for a run that ended.
LEMMA RecordsKept ==
  ASSUME RowsTyped, RowsTyped', Records, TaskJobs,
         \A x \in Sources : /\ loop'[x].obs = loop[x].obs
                            /\ \/ loop'[x].st = loop[x].st
                               \/ loop[x].st = "proposed" /\ job'[Ctl("apply", x)].st = "succeeded",
         \A x \in Sources, k \in Control :
            /\ job[Ctl(k, x)].st = "succeeded" => job'[Ctl(k, x)].st = "succeeded"
            /\ job[Ctl(k, x)].att > 0 => job'[Ctl(k, x)].att > 0,
         \A s \in Subjects :
            \/ /\ job'[Run(s)].att = job[Run(s)].att
               /\ job[Run(s)].st \in {"succeeded", "failed"} => job'[Run(s)].st = job[Run(s)].st
            \/ /\ job'[Run(s)].att > job[Run(s)].att /\ job[Run(s)].st # "succeeded",
         \A s \in Tasks : task[s] = "completed" => task'[s] = "completed",
         \A x \in Sources : job'[Ctl("observe", x)].att > 0 =>
            \/ job[Ctl("observe", x)].att > 0
            \/ Newest(x)' /\ job'[Run(x[1])].st \in {"succeeded", "failed"},
         \A x \in Sources : Concluded(x)' => Concluded(x) \/ job'[Ctl("observe", x)].att > 0
  PROVE  Records'
<1> SUFFICES ASSUME NEW x \in Sources
             PROVE  (/\ loop[x].obs # "none" =>
                          job[Ctl("observe", x)].st = "succeeded" /\ job[Ctl("decide", x)].att > 0
                     /\ Answered(x) =>
                          job[Ctl("decide", x)].st = "succeeded" /\ job[Ctl("apply", x)].att > 0
                     /\ loop[x].st = "applied" => job[Ctl("apply", x)].st = "succeeded"
                     /\ job[Ctl("observe", x)].att > 0 =>
                          /\ x[2] <= job[Run(x[1])].att
                          /\ Newest(x) => job[Run(x[1])].st \in {"succeeded", "failed"}
                     /\ Concluded(x) => job[Ctl("observe", x)].att > 0
                     /\ loop[x].obs = "transient" => x[1] \in Tasks
                     /\ loop[x].obs = "output" => x[1] \in Tasks /\ Newest(x) /\ task[x[1]] = "completed")'
  BY DEF Records
<1> DEFINE s == x[1]
<1>1. /\ s \in Subjects /\ x[2] \in Nat
      /\ {"observe", "decide", "apply"} = Control
  BY SourceNames DEF Control
<1>2. Run(s) \in Ops /\ job[Run(s)].att \in Nat /\ job'[Run(s)].att \in Nat
  BY <1>1, OpNames DEF RowsTyped, JobRow
<1>3. job[Ctl("observe", x)].att > 0 =>
        /\ x[2] <= job[Run(s)].att
        /\ x[2] = job[Run(s)].att => job[Run(s)].st \in {"succeeded", "failed"}
  BY DEF Records, Newest
<1>4. job'[Ctl("observe", x)].att > 0 =>
        /\ x[2] <= job'[Run(s)].att
        /\ x[2] = job'[Run(s)].att => job'[Run(s)].st \in {"succeeded", "failed"}
  BY <1>1, <1>2, <1>3 DEF Newest
<1>5. loop[x].obs = "output" => s \in Tasks /\ x[2] = job[Run(s)].att /\ task[s] = "completed"
                                /\ job[Run(s)].st = "succeeded"
  BY DEF Records, Newest, TaskJobs
<1>6. loop[x].obs = "output" => s \in Tasks /\ x[2] = job'[Run(s)].att /\ task'[s] = "completed"
  BY <1>1, <1>2, <1>5
<1>7. Concluded(x)' => job'[Ctl("observe", x)].att > 0
  BY <1>1 DEF Records
<1> QED BY <1>1, <1>4, <1>6, <1>7 DEF Records, Newest, Answered

\* The order of the steps stays: what is completed and carried out stays, and no step begins.
LEMMA OrderKept ==
  ASSUME RowsTyped, RowsTyped', Order,
         \A x \in Sources : loop[x].st = "applied" => loop'[x].st = "applied",
         \A k \in Subjects : job'[Run(k)].att > 0 => job[Run(k)].att > 0,
         \A s \in Tasks : task[s] = "completed" => task'[s] = "completed" /\ job'[Run(s)].att = job[Run(s)].att,
         \A s \in Tasks : task[s] = "completed" => <<s, job[Run(s)].att>> \in Sources
  PROVE  Order'
  BY DEF Order

\* The budgets stay: nobody answers or carries out anything, and no run is tried beyond the
\* worker's own attempts.
LEMMA BudgetKept ==
  ASSUME RowsTyped, RowsTyped', Budget,
         \A x \in Sources : /\ loop'[x].st = loop[x].st /\ loop'[x].act = loop[x].act
                            /\ loop'[x].rev = loop[x].rev,
         wf'.rev >= wf.rev, asked' = asked,
         \A s \in Subjects : job'[Run(s)].att <= job[Run(s)].att \/ job'[Run(s)].att <= MaxJobAttempts,
         asked \in Nat
  PROVE  Budget'
<1>1. AppliedRetries' = AppliedRetries
  BY DEF AppliedRetries
<1>2. \A x \in Sources : loop[x].rev \in Nat /\ wf.rev \in Nat /\ wf'.rev \in Nat
  BY DEF RowsTyped, LoopRow
<1>3. \A s \in Subjects : /\ job[Run(s)].att \in Nat /\ job'[Run(s)].att \in Nat
                          /\ Cardinality({x \in AppliedRetries : x[1] = s}) \in Nat
  <2> TAKE s \in Subjects
  <2>1. {x \in AppliedRetries : x[1] = s} \in SUBSET Sources
    BY DEF AppliedRetries
  <2>2. IsFiniteSet({x \in AppliedRetries : x[1] = s})
    BY <2>1, OpsFinite, FS_Subset
  <2> QED BY <2>2, FS_CardinalityType, OpNames DEF RowsTyped, JobRow
<1>4. AttemptsBudgeted'
  BY <1>1, <1>3, StepsTyped DEF Budget, AttemptsBudgeted, RetriesBounded, AttemptsAccounted
<1>5. ASSUME NEW x \in Sources
      PROVE (/\ loop[x].rev <= wf.rev
             /\ loop[x].st = "proposed" /\ loop[x].act = "retry" /\ loop[x].rev = wf.rev => ~LimitReached)'
  <2>1. loop[x].rev <= wf.rev /\ (loop[x].st = "proposed" /\ loop[x].act = "retry" /\ loop[x].rev = wf.rev => ~LimitReached)
    BY DEF Budget
  <2>2. loop'[x].rev = wf'.rev => loop[x].rev = wf.rev
    BY <1>2, <2>1
  <2> QED BY <1>1, <1>2, <2>1, <2>2 DEF LimitReached
<1> QED BY <1>4, <1>5 DEF Budget

\* MaxRuns bounds nothing: every attempt is a source.
LEMMA WithinRuns ==
  ASSUME RowsTyped, ThreadsTyped, Budget, NEW s \in Subjects, job[Run(s)].att > 0
  PROVE  <<s, job[Run(s)].att>> \in Sources
<1> DEFINE Mine == {x \in AppliedRetries : x[1] = s}
<1>1. AppliedRetries \in SUBSET Sources
  BY DEF AppliedRetries
<1>2. IsFiniteSet(AppliedRetries)
  BY <1>1, OpsFinite, FS_Subset
<1>3. IsFiniteSet(Mine) /\ Cardinality(Mine) <= Cardinality(AppliedRetries)
  BY <1>2, FS_Subset
<1>4. Cardinality(Mine) \in Nat /\ Cardinality(AppliedRetries) \in Nat
  BY <1>2, <1>3, FS_CardinalityType
<1>5. job[Run(s)].att \in Nat /\ asked \in Nat /\ asked <= MaxRequests
  BY OpNames, LoopBoundsAssumption DEF RowsTyped, ThreadsTyped, JobRow
<1>6. job[Run(s)].att <= MaxJobAttempts + asked + Cardinality(Mine) /\ Cardinality(AppliedRetries) <= MaxStepRetries
  BY DEF Budget, AttemptsBudgeted, AttemptsAccounted, RetriesBounded
<1> HIDE DEF Mine
<1>7. job[Run(s)].att <= MaxRuns
  BY <1>3, <1>4, <1>5, <1>6, StepsTyped, LoopBoundsAssumption DEF MaxRuns
<1>8. MaxRuns \in Int
  BY StepsTyped, LoopBoundsAssumption DEF MaxRuns
<1> QED BY <1>5, <1>7, <1>8 DEF Sources

\* A write that leaves the loop's records alone.
LEMMA LoopKept ==
  ASSUME RowsTyped, RowsTyped', ThreadsTyped, RowInv,
         \A x \in Sources : /\ loop'[x].obs = loop[x].obs /\ loop'[x].st = loop[x].st
                            /\ loop'[x].act = loop[x].act /\ loop'[x].rev = loop[x].rev,
         \A x \in Sources, k \in Control :
            /\ job[Ctl(k, x)].st = "succeeded" => job'[Ctl(k, x)].st = "succeeded"
            /\ job[Ctl(k, x)].att > 0 => job'[Ctl(k, x)].att > 0,
         \A s \in Subjects :
            \/ /\ job'[Run(s)].att = job[Run(s)].att
               /\ job[Run(s)].st \in {"succeeded", "failed"} => job'[Run(s)].st = job[Run(s)].st
            \/ /\ job[Run(s)].att > 0 /\ job[Run(s)].st # "succeeded"
               /\ job'[Run(s)].att > job[Run(s)].att /\ job'[Run(s)].att <= MaxJobAttempts,
         \A s \in Tasks : task[s] = "completed" => task'[s] = "completed",
         \A x \in Sources : job'[Ctl("observe", x)].att > 0 =>
            \/ job[Ctl("observe", x)].att > 0
            \/ Newest(x)' /\ job'[Run(x[1])].st \in {"succeeded", "failed"},
         \A x \in Sources : Concluded(x)' => Concluded(x) \/ job'[Ctl("observe", x)].att > 0,
         wf'.rev >= wf.rev, asked' = asked
  PROVE  Records' /\ Order' /\ Budget'
<1>1. \A s \in Subjects : job[Run(s)].att \in Nat /\ job'[Run(s)].att \in Nat
  BY OpNames DEF RowsTyped, JobRow
<1>2. Records'
  BY RecordsKept DEF RowInv
<1>3. asked \in Nat
  BY LoopBoundsAssumption DEF ThreadsTyped
<1>4. Budget'
  BY <1>1, <1>3, BudgetKept DEF RowInv
<1>5. \A s \in Tasks : task[s] = "completed" =>
        job[Run(s)].st = "succeeded" /\ job[Run(s)].att > 0 /\ s \in Subjects
  <2> TAKE s \in Tasks
  <2>1. s \in Subjects /\ Run(s) \in Ops /\ job[Run(s)].att \in Nat
    BY <1>1, Names, OpNames
  <2> QED BY <2>1 DEF RowInv, TaskJobs, Rows
<1>6. \A s \in Tasks : task[s] = "completed" =>
        job'[Run(s)].att = job[Run(s)].att /\ <<s, job[Run(s)].att>> \in Sources
  BY <1>1, <1>5, WithinRuns DEF RowInv
<1>7. \A k \in Subjects : job'[Run(k)].att > 0 => job[Run(k)].att > 0
  BY <1>1
<1> QED BY <1>2, <1>4, <1>6, <1>7, OrderKept DEF RowInv

-----------------------------------------------------------------------------
(* The worker's own writes: settlements, recovery, claims. *)

LEMMA Attempted ==
  ASSUME RowsTyped, Rows
  PROVE  /\ \A op \in Ops : job[op].att \in Nat /\ (job[op].att = 0 <=> job[op].st = "absent")
         /\ \A op \in Ops : job[op].st # "absent" => job[op].att > 0
  BY DEF RowsTyped, JobRow, Rows

\* The jobs that wait and one that is settled are cancelled with the tasks.
LEMMA CancelKeeps ==
  ASSUME RowsTyped, RowsTyped', ThreadsTyped, RowInv, UNCHANGED <<failedRun, passed, loop, asked>>,
         wf'.status = "cancelled", wf'.cancel, wf'.rev >= wf.rev,
         NEW ended \in SUBSET Ops, \A o \in ended : job[o].st = "leased",
         \A o \in Ops : /\ job'[o].att = job[o].att
                        /\ job'[o].st = IF o \in ended \/ job[o].st = "queued" THEN "cancelled" ELSE job[o].st
                        /\ job'[o].code \in {"none", job[o].code},
         \A s \in Tasks : task'[s] = IF task[s] \in TaskCancellable THEN "cancelled" ELSE task[s]
  PROVE  RowInv'
<1>1. \A s \in Tasks : /\ s \in Subjects /\ Run(s) \in Ops
                       /\ task[s] \in {"pending", "queued", "running", "completed", "failed", "cancelled"}
                       /\ task'[s] = IF task[s] = "completed" THEN "completed" ELSE "cancelled"
  BY Names, OpNames DEF RowInv, Rows, TaskCancellable
<1>2. Rows'
  <2>1. task' \in [Tasks -> {"pending", "queued", "running", "completed", "failed", "cancelled"}]
    BY <1>1 DEF RowsTyped
  <2>2. ASSUME NEW op \in Ops
        PROVE  (/\ job[op].st = "absent" <=> job[op].att = 0
                /\ job[op].code = "lost" => job[op].att >= MaxJobAttempts
                /\ job[op].code = "transient" => op[1] = "run" /\ op[2] \in Tasks)'
    BY DEF RowInv, Rows
  <2> QED BY <2>1, <2>2 DEF Rows
<1>3. TaskJobs'
  <2> SUFFICES ASSUME NEW s \in Tasks
      PROVE (/\ task[s] = "pending" => job[Run(s)].att = 0
             /\ job[Run(s)].att = 0 => task[s] \in {"pending", "cancelled"}
             /\ task[s] \in {"queued", "running"} => Active(Run(s))
             /\ (task[s] = "completed" <=> job[Run(s)].st = "succeeded")
             /\ task[s] = "failed" => wf.status \in {"blocked", "failed"}
             /\ task[s] = "cancelled" => wf.status = "cancelled")'
    BY DEF TaskJobs
  <2>1. /\ job[Run(s)].att = 0 => task[s] \in {"pending", "cancelled"}
        /\ task[s] = "completed" <=> job[Run(s)].st = "succeeded"
    BY DEF RowInv, TaskJobs
  <2> QED BY <1>1, <2>1
<1>4. Flags'
  <2>1. passed => job[Run(Review)].st = "succeeded"
    BY DEF RowInv, Flags
  <2>2. Run(Review) \in Ops
    BY Names, OpNames
  <2> QED BY <2>1, <2>2 DEF Flags, CancelledStaysEmpty, WorkflowTerminal
<1>5. Records' /\ Order' /\ Budget'
  <2>1. \A x \in Sources : Run(x[1]) \in Ops /\ \A k \in Control : Ctl(k, x) \in Ops
    BY SourceNames, OpNames
  <2>2. \A s \in Subjects : Run(s) \in Ops
    BY OpNames
  <2>3. "observe" \in Control
    BY DEF Control
  <2>4. \A x \in Sources : Concluded(x)' => Concluded(x)
    BY <2>1 DEF Concluded, Newest
  <2> QED BY <1>1, <2>1, <2>2, <2>3, <2>4, LoopKept
<1> QED BY <1>2, <1>3, <1>4, <1>5 DEF RowInv

LEMMA CancelledKeeps ==
  ASSUME RowsTyped, ThreadsTyped, RowInv, UNCHANGED asked, wf.cancel,
         NEW op \in Ops, job[op].st = "leased", Cancelled(Ended(job, op, "cancelled", "none"))
  PROVE  RowsTyped' /\ RowInv'
<1>1. /\ RowsTyped' /\ UNCHANGED <<failedRun, passed, loop>> /\ wf' = WorkflowMoved("cancelled")
      /\ \A o \in Ops : /\ job'[o].att = job[o].att
                        /\ job'[o].st = IF o = op \/ job[o].st = "queued" THEN "cancelled" ELSE job[o].st
                        /\ job'[o].code = IF o = op THEN "none" ELSE job[o].code
      /\ \A s \in Tasks : task'[s] = IF task[s] \in TaskCancellable THEN "cancelled" ELSE task[s]
  BY CancelledWrite
<1>2. wf'.status = "cancelled" /\ wf'.cancel /\ wf'.rev >= wf.rev
  <2>1. wf.rev \in Nat /\ "cancelled" \in Phases
    BY DEF RowsTyped, Phases
  <2>2. /\ WorkflowMoved("cancelled").status = "cancelled" /\ WorkflowMoved("cancelled").cancel = wf.cancel
        /\ WorkflowMoved("cancelled").rev = IF wf.status = "cancelled" THEN wf.rev ELSE wf.rev + 1
    BY <2>1, MovedRow, Zenon
  <2>3. WorkflowMoved("cancelled").rev >= wf.rev
    BY <2>1, <2>2
  <2> QED BY <1>1, <2>2, <2>3, Zenon
<1>3. /\ {op} \in SUBSET Ops /\ \A o \in {op} : job[o].st = "leased"
      /\ \A o \in Ops : /\ job'[o].att = job[o].att
                        /\ job'[o].st = IF o \in {op} \/ job[o].st = "queued" THEN "cancelled" ELSE job[o].st
                        /\ job'[o].code \in {"none", job[o].code}
  BY <1>1
<1> QED BY <1>1, <1>2, <1>3, CancelKeeps

\* A leased job is tried again.
LEMMA RequeueKeeps ==
  ASSUME RowsTyped, ThreadsTyped, RowInv, UNCHANGED asked, ~wf.cancel,
         NEW op \in Ops, job[op].st = "leased", Retried(op), Requeue(op)
  PROVE  RowsTyped' /\ RowInv'
<1>1. /\ RowsTyped' /\ UNCHANGED <<wf, passed, loop>>
      /\ \A o \in Ops \ {op} : job'[o] = job[o]
      /\ job'[op].att = job[op].att + 1 /\ job'[op].st = "queued" /\ job'[op].code = "none"
      /\ \A s \in Tasks : task'[s] = IF HasTask(op) /\ op[2] = s /\ task[s] = "running" THEN "queued" ELSE task[s]
  BY RequeueWrite
<1>2. /\ \A o \in Ops : job[o].att \in Nat /\ (job[o].att = 0 <=> job[o].st = "absent")
      /\ job[op].att > 0 /\ job[op].att < MaxJobAttempts
  BY Attempted DEF RowInv, Retried
<1>3. Rows'
  <2>1. task' \in [Tasks -> {"pending", "queued", "running", "completed", "failed", "cancelled"}]
    BY <1>1 DEF RowsTyped, RowInv, Rows
  <2>2. ASSUME NEW o \in Ops
        PROVE  (/\ job[o].st = "absent" <=> job[o].att = 0
                /\ job[o].code = "lost" => job[o].att >= MaxJobAttempts
                /\ job[o].code = "transient" => o[1] = "run" /\ o[2] \in Tasks)'
    BY <1>1, <1>2 DEF RowInv, Rows
  <2> QED BY <2>1, <2>2 DEF Rows
<1>4. TaskJobs'
  <2> SUFFICES ASSUME NEW s \in Tasks
      PROVE (/\ task[s] = "pending" => job[Run(s)].att = 0
             /\ job[Run(s)].att = 0 => task[s] \in {"pending", "cancelled"}
             /\ task[s] \in {"queued", "running"} => Active(Run(s))
             /\ (task[s] = "completed" <=> job[Run(s)].st = "succeeded")
             /\ task[s] = "failed" => wf.status \in {"blocked", "failed"}
             /\ task[s] = "cancelled" => wf.status = "cancelled")'
    BY DEF TaskJobs
  <2>1. Run(s) \in Ops
    BY Names, OpNames
  <2> QED BY <1>1, <1>2, <2>1 DEF RowInv, TaskJobs, Active
<1>5. Flags'
  <2>1. wf.status # "cancelled" /\ (passed => job[Run(Review)].st = "succeeded") /\ (wf.status = "completed" => passed)
    BY DEF RowInv, Flags
  <2>2. Run(Review) \in Ops
    BY Names, OpNames
  <2> QED BY <1>1, <2>1, <2>2 DEF Flags, CancelledStaysEmpty
<1>6. Records' /\ Order' /\ Budget'
  <2>1. \A x \in Sources : Run(x[1]) \in Ops /\ \A k \in Control : Ctl(k, x) \in Ops
    BY SourceNames, OpNames
  <2>2. \A s \in Subjects : Run(s) \in Ops
    BY OpNames
  <2>3. "observe" \in Control
    BY DEF Control
  <2>4. \A x \in Sources : Concluded(x)' => Concluded(x)
    BY <1>1, <2>1 DEF Concluded, Newest
  <2>5. wf'.rev >= wf.rev
    BY <1>1 DEF RowsTyped
  <2>6. ASSUME NEW s \in Subjects
        PROVE  \/ /\ job'[Run(s)].att = job[Run(s)].att
                  /\ job[Run(s)].st \in {"succeeded", "failed"} => job'[Run(s)].st = job[Run(s)].st
               \/ /\ job[Run(s)].att > 0 /\ job[Run(s)].st # "succeeded"
                  /\ job'[Run(s)].att > job[Run(s)].att /\ job'[Run(s)].att <= MaxJobAttempts
    <3>1. CASE op = Run(s)
      BY <1>1, <1>2, <3>1, StepsTyped
    <3>2. CASE op # Run(s)
      BY <1>1, <2>2, <3>2
    <3> QED BY <3>1, <3>2
  <2>7. ASSUME NEW x \in Sources, NEW k \in Control
        PROVE  /\ job[Ctl(k, x)].st = "succeeded" => job'[Ctl(k, x)].st = "succeeded"
               /\ job[Ctl(k, x)].att > 0 <=> job'[Ctl(k, x)].att > 0
    BY <1>1, <1>2, <2>1
  <2>8. \A s \in Tasks : task[s] = "completed" => task'[s] = "completed"
    BY <1>1
  <2> QED BY <1>1, <2>3, <2>4, <2>5, <2>6, <2>7, <2>8, LoopKept
<1> QED BY <1>1, <1>3, <1>4, <1>5, <1>6 DEF RowInv

\* A leased job fails for good and the workflow with it.
LEMMA FailKeeps ==
  ASSUME RowsTyped, ThreadsTyped, RowInv, UNCHANGED asked, ~wf.cancel,
         NEW op \in Ops, job[op].st = "leased", NEW code \in {"lost", "fatal"},
         code = "lost" => ~Retried(op), FailJob(op, code)
  PROVE  RowsTyped' /\ RowInv'
<1>1. /\ RowsTyped' /\ UNCHANGED <<passed, loop>> /\ wf' = WorkflowMoved("failed")
      /\ \A o \in Ops \ {op} : job'[o] = job[o]
      /\ job'[op].att = job[op].att /\ job'[op].st = "failed" /\ job'[op].code = code
      /\ \A s \in Tasks : task'[s] = IF HasTask(op) /\ op[2] = s /\ task[s] \in {"queued", "running"}
                                      THEN "failed" ELSE task[s]
  BY FailWrite DEF Codes
<1>2. /\ \A o \in Ops : job[o].att \in Nat /\ (job[o].att = 0 <=> job[o].st = "absent")
      /\ job[op].att > 0 /\ (code = "lost" => job[op].att >= MaxJobAttempts)
  BY Attempted, StepsTyped DEF RowInv, Retried
<1>3. wf'.status = "failed" /\ wf'.cancel = wf.cancel /\ wf'.rev >= wf.rev
  BY <1>1, MovedRow DEF Phases, RowsTyped
<1>4. Rows'
  <2>1. task' \in [Tasks -> {"pending", "queued", "running", "completed", "failed", "cancelled"}]
    BY <1>1 DEF RowsTyped, RowInv, Rows
  <2>2. ASSUME NEW o \in Ops
        PROVE  (/\ job[o].st = "absent" <=> job[o].att = 0
                /\ job[o].code = "lost" => job[o].att >= MaxJobAttempts
                /\ job[o].code = "transient" => o[1] = "run" /\ o[2] \in Tasks)'
    BY <1>1, <1>2 DEF RowInv, Rows
  <2> QED BY <2>1, <2>2 DEF Rows
<1>5. wf.status # "cancelled" /\ (passed => job[Run(Review)].st = "succeeded")
  BY DEF RowInv, Flags
<1>6. TaskJobs'
  <2> SUFFICES ASSUME NEW s \in Tasks
      PROVE (/\ task[s] = "pending" => job[Run(s)].att = 0
             /\ job[Run(s)].att = 0 => task[s] \in {"pending", "cancelled"}
             /\ task[s] \in {"queued", "running"} => Active(Run(s))
             /\ (task[s] = "completed" <=> job[Run(s)].st = "succeeded")
             /\ task[s] = "failed" => wf.status \in {"blocked", "failed"}
             /\ task[s] = "cancelled" => wf.status = "cancelled")'
    BY DEF TaskJobs
  <2>1. s \in Subjects /\ Run(s) \in Ops /\ (op = Run(s) => HasTask(op) /\ op[2] = s)
    BY Names, OpNames DEF HasTask
  <2> QED BY <1>1, <1>2, <1>3, <1>5, <2>1 DEF RowInv, TaskJobs, Active
<1>7. Flags'
  <2>1. Run(Review) \in Ops
    BY Names, OpNames
  <2> QED BY <1>1, <1>3, <1>5, <2>1 DEF Flags, CancelledStaysEmpty
<1>8. Records' /\ Order' /\ Budget'
  <2>1. \A x \in Sources : Run(x[1]) \in Ops /\ \A k \in Control : Ctl(k, x) \in Ops
    BY SourceNames, OpNames
  <2>2. \A s \in Subjects : Run(s) \in Ops
    BY OpNames
  <2>3. "observe" \in Control
    BY DEF Control
  <2>4. \A x \in Sources : Concluded(x)' => Concluded(x)
    BY <1>1, <2>1 DEF Concluded, Newest
  <2> QED BY <1>1, <1>2, <1>3, <2>1, <2>2, <2>3, <2>4, LoopKept
<1> QED BY <1>1, <1>4, <1>6, <1>7, <1>8 DEF RowInv

\* What recovery recreates is an observation of a run that ended.
LEMMA HealKeeps ==
  ASSUME RowsTyped, ThreadsTyped, RowInv, UNCHANGED <<wf, task, failedRun, passed, loop, asked>>, job' = Healed
  PROVE  RowsTyped' /\ RowInv'
<1>1. /\ job' \in [Ops -> JobRow]
      /\ \A op \in Ops : ~Missing(op) => job'[op] = job[op]
      /\ \A op \in Ops : Missing(op) => job'[op].att = job[op].att + 1 /\ job'[op].st = "queued" /\ job'[op].code = "none"
  BY HealedRow
<1>2. RowsTyped'
  BY <1>1 DEF RowsTyped
<1>3. \A o \in Ops : job[o].att \in Nat /\ (job[o].att = 0 <=> job[o].st = "absent")
  BY Attempted DEF RowInv
<1>4. \A op \in Ops : Missing(op) =>
        /\ job[op].att = 0 /\ op[1] = "observe" /\ SourceOf(op) \in Sources
        /\ op = Ctl("observe", SourceOf(op)) /\ Observable(SourceOf(op))
  <2> SUFFICES ASSUME NEW op \in Ops, Missing(op)
               PROVE  /\ job[op].att = 0 /\ op[1] = "observe" /\ SourceOf(op) \in Sources
                      /\ op = Ctl("observe", SourceOf(op)) /\ Observable(SourceOf(op))
    OBVIOUS
  <2>1. job[op].att = 0
    BY <1>3, StepsTyped DEF Missing, Repeatable, RowInv, Rows
  <2>2. op[1] \in Control /\ SourceOf(op) \in Sources /\ op = Ctl(op[1], SourceOf(op))
    BY OpKinds DEF Missing
  <2>3. WantedFor(op[1], SourceOf(op))
    BY DEF Missing
  <2>4. ASSUME op[1] = "decide" PROVE FALSE
    <3>1. loop[SourceOf(op)].obs # "none"
      BY <2>3, <2>4 DEF WantedFor
    <3> QED BY <2>1, <2>2, <2>4, <3>1 DEF RowInv, Records
  <2>5. ASSUME op[1] = "apply" PROVE FALSE
    <3>1. loop[SourceOf(op)].st = "proposed"
      BY <2>3, <2>5 DEF WantedFor
    <3> QED BY <2>1, <2>2, <2>5, <3>1 DEF RowInv, Records, Answered
  <2> QED BY <2>1, <2>2, <2>3, <2>4, <2>5 DEF WantedFor, Control
<1>5. \A s \in Subjects : Run(s) \in Ops /\ job'[Run(s)] = job[Run(s)]
  <2> TAKE s \in Subjects
  <2>1. Run(s) \in Ops /\ ~Missing(Run(s))
    BY OpNames DEF Missing
  <2> QED BY <1>1, <2>1
<1>6. Rows'
  <2>1. ASSUME NEW o \in Ops
        PROVE  (/\ job[o].st = "absent" <=> job[o].att = 0
                /\ job[o].code = "lost" => job[o].att >= MaxJobAttempts
                /\ job[o].code = "transient" => o[1] = "run" /\ o[2] \in Tasks)'
    BY <1>1, <1>3 DEF RowInv, Rows
  <2> QED BY <2>1 DEF Rows, RowInv
<1>7. TaskJobs'
  BY <1>5, Names DEF RowInv, TaskJobs, Active
<1>8. wf.status = "cancelled" => \A op \in Ops : ~Missing(op)
  <2> SUFFICES ASSUME wf.status = "cancelled", NEW op \in Ops, Missing(op) PROVE FALSE
    OBVIOUS
  <2> DEFINE x == SourceOf(op)
  <2>1. x \in Sources /\ job[Ctl("observe", x)].att = 0 /\ Observable(x)
    BY <1>4
  <2>2. ~Concluded(x)
    BY <2>1 DEF RowInv, Records
  <2>3. x[1] \in Tasks /\ task[x[1]] \in {"failed", "blocked"}
    BY <2>1, <2>2, SourceNames, Names DEF Observable, Concluded
  <2> QED BY <2>3 DEF RowInv, TaskJobs, Rows
<1>9. Flags'
  <2>1. \A op \in Ops : job[op].st = "leased" => job'[op] = job[op]
    BY <1>1, <1>3, <1>4
  <2>2. NoneLeased' => NoneLeased
    BY <2>1 DEF NoneLeased
  <2>3. CancelledStaysEmpty'
    BY <1>1, <1>8 DEF RowInv, Flags, CancelledStaysEmpty
  <2> QED BY <1>5, <2>2, <2>3, Names DEF RowInv, Flags
<1>10. Records' /\ Order' /\ Budget'
  <2>1. \A x \in Sources : x[1] \in Subjects /\ \A k \in Control : Ctl(k, x) \in Ops
    BY SourceNames, OpNames
  <2>2. "observe" \in Control
    BY DEF Control
  <2>3. \A x \in Sources : Concluded(x)' => Concluded(x)
    BY <1>5, <2>1 DEF Concluded, Newest
  <2>4. wf'.rev >= wf.rev
    BY DEF RowsTyped
  <2>5. ASSUME NEW x \in Sources, job'[Ctl("observe", x)].att > 0
        PROVE  \/ job[Ctl("observe", x)].att > 0
               \/ Newest(x)' /\ job'[Run(x[1])].st \in {"succeeded", "failed"}
    <3>1. CASE Missing(Ctl("observe", x))
      <4>1. Observable(x)
        BY <1>4, <2>1, <2>2, <3>1, OpNames
      <4> QED BY <1>5, <2>1, <4>1 DEF Observable, Newest
    <3> QED BY <1>1, <2>1, <2>2, <2>5, <3>1
  <2>6. ASSUME NEW x \in Sources, NEW k \in Control
        PROVE  /\ job[Ctl(k, x)].st = "succeeded" => job'[Ctl(k, x)].st = "succeeded"
               /\ job[Ctl(k, x)].att > 0 => job'[Ctl(k, x)].att > 0
    BY <1>1, <1>3, <1>4, <2>1
  <2> QED BY <1>2, <1>5, <2>3, <2>4, <2>5, <2>6, LoopKept
<1> QED BY <1>2, <1>6, <1>7, <1>9, <1>10 DEF RowInv

\* A new token, an expiry, a request to the model: nothing the rows are compared by.
LEMMA QuietKeeps ==
  ASSUME RowsTyped, RowsTyped', ThreadsTyped, RowInv, UNCHANGED <<wf, task, passed, asked>>,
         \A op \in Ops : job'[op].att = job[op].att /\ job'[op].st = job[op].st /\ job'[op].code = job[op].code,
         \A x \in Sources : /\ loop'[x].obs = loop[x].obs /\ loop'[x].st = loop[x].st
                            /\ loop'[x].act = loop[x].act /\ loop'[x].rev = loop[x].rev
  PROVE  RowInv'
<1>1. \A s \in Tasks : Run(s) \in Ops
  BY Names, OpNames
<1>2. Run(Review) \in Ops
  BY Names, OpNames
<1>3. Rows'
  <2>1. ASSUME NEW op \in Ops
        PROVE  (/\ job[op].st = "absent" <=> job[op].att = 0
                /\ job[op].code = "lost" => job[op].att >= MaxJobAttempts
                /\ job[op].code = "transient" => op[1] = "run" /\ op[2] \in Tasks)'
    BY DEF RowInv, Rows
  <2> QED BY <2>1 DEF RowInv, Rows
<1>4. TaskJobs'
  BY <1>1 DEF RowInv, TaskJobs, Active
<1>5. Flags'
  BY <1>2 DEF RowInv, Flags, NoneLeased, CancelledStaysEmpty
<1>6. Records' /\ Order' /\ Budget'
  <2>1. \A x \in Sources : Run(x[1]) \in Ops /\ \A k \in Control : Ctl(k, x) \in Ops
    BY SourceNames, OpNames
  <2>2. \A s \in Subjects : Run(s) \in Ops
    BY OpNames
  <2>3. "observe" \in Control
    BY DEF Control
  <2>4. \A x \in Sources : Concluded(x)' => Concluded(x)
    BY <2>1 DEF Concluded, Newest
  <2>5. wf'.rev >= wf.rev
    BY DEF RowsTyped
  <2> QED BY <2>1, <2>2, <2>3, <2>4, <2>5, LoopKept
<1> QED BY <1>3, <1>4, <1>5, <1>6 DEF RowInv

\* A queued job is leased and its task runs.
LEMMA ClaimKeeps ==
  ASSUME RowsTyped, ThreadsTyped, RowInv, NEW w \in Workers,
         UNCHANGED <<wf, failedRun, passed, loop, asked>>, NEW op \in Ops, job[op].st = "queued",
         wf.status \notin WorkflowTerminal,
         job' = [job EXCEPT ![op].st = "leased", ![op].tok = w, ![op].pos = 0],
         task' = IF HasTask(op) /\ task[op[2]] = "queued" THEN [task EXCEPT ![op[2]] = "running"] ELSE task
  PROVE  RowsTyped' /\ RowInv'
<1>1. /\ job' \in [Ops -> JobRow] /\ \A o \in Ops \ {op} : job'[o] = job[o]
      /\ job'[op].att = job[op].att /\ job'[op].st = "leased" /\ job'[op].code = job[op].code
  <2>1. ASSUME NEW r \in JobRow PROVE [[[r EXCEPT !.st = "leased"] EXCEPT !.tok = w] EXCEPT !.pos = 0] \in JobRow
    <3>1. r \in [att: Nat, tok: Workers \cup {NoWorker}, exp: BOOLEAN, pos: Nat,
                 st: {"absent", "queued", "leased", "succeeded", "failed", "cancelled"}, code: Codes]
      BY DEF JobRow
    <3>2. [r EXCEPT !.st = "leased"] \in JobRow
      BY <3>1 DEF JobRow
    <3>3. [[r EXCEPT !.st = "leased"] EXCEPT !.tok = w] \in JobRow
      BY <3>2 DEF JobRow
    <3> QED BY <3>3 DEF JobRow
  <2>2. job' = [job EXCEPT ![op] = [[[job[op] EXCEPT !.st = "leased"] EXCEPT !.tok = w] EXCEPT !.pos = 0]]
    BY DEF RowsTyped
  <2>3. job[op] \in JobRow
    BY DEF RowsTyped
  <2> DEFINE row == [[[job[op] EXCEPT !.st = "leased"] EXCEPT !.tok = w] EXCEPT !.pos = 0]
  <2>4. row \in JobRow
    BY <2>1, <2>3
  <2>5. row.att = job[op].att /\ row.st = "leased" /\ row.code = job[op].code
    BY <2>3 DEF JobRow
  <2>6. job' = [job EXCEPT ![op] = row] /\ job \in [Ops -> JobRow]
    BY <2>2 DEF RowsTyped
  <2> HIDE DEF row
  <2> QED BY <2>4, <2>5, <2>6
<1>2. /\ \A s \in Tasks : task'[s] = IF HasTask(op) /\ op[2] = s /\ task[s] = "queued" THEN "running" ELSE task[s]
      /\ task' \in [Tasks -> {"pending", "queued", "running", "completed", "failed", "cancelled"}]
  BY DEF RowsTyped, RowInv, Rows, HasTask
<1>3. RowsTyped'
  BY <1>1, <1>2 DEF RowsTyped, TaskStatuses
<1>4. /\ \A o \in Ops : job[o].att \in Nat /\ (job[o].att = 0 <=> job[o].st = "absent")
      /\ job[op].att > 0
  BY Attempted DEF RowInv
<1>5. Rows'
  <2>1. ASSUME NEW o \in Ops
        PROVE  (/\ job[o].st = "absent" <=> job[o].att = 0
                /\ job[o].code = "lost" => job[o].att >= MaxJobAttempts
                /\ job[o].code = "transient" => o[1] = "run" /\ o[2] \in Tasks)'
    BY <1>1, <1>4 DEF RowInv, Rows
  <2> QED BY <1>2, <2>1 DEF Rows
<1>6. TaskJobs'
  <2> SUFFICES ASSUME NEW s \in Tasks
      PROVE (/\ task[s] = "pending" => job[Run(s)].att = 0
             /\ job[Run(s)].att = 0 => task[s] \in {"pending", "cancelled"}
             /\ task[s] \in {"queued", "running"} => Active(Run(s))
             /\ (task[s] = "completed" <=> job[Run(s)].st = "succeeded")
             /\ task[s] = "failed" => wf.status \in {"blocked", "failed"}
             /\ task[s] = "cancelled" => wf.status = "cancelled")'
    BY DEF TaskJobs
  <2>1. Run(s) \in Ops
    BY Names, OpNames
  <2> QED BY <1>1, <1>2, <1>4, <2>1 DEF RowInv, TaskJobs, Active
<1>7. Flags'
  <2>1. passed => job[Run(Review)].st = "succeeded"
    BY DEF RowInv, Flags
  <2>2. Run(Review) \in Ops
    BY Names, OpNames
  <2>3. NoneLeased' => NoneLeased
    BY <1>1 DEF NoneLeased
  <2> QED BY <1>1, <2>1, <2>2, <2>3 DEF RowInv, Flags, CancelledStaysEmpty
<1>8. Records' /\ Order' /\ Budget'
  <2>1. \A x \in Sources : Run(x[1]) \in Ops /\ \A k \in Control : Ctl(k, x) \in Ops
    BY SourceNames, OpNames
  <2>2. \A s \in Subjects : Run(s) \in Ops
    BY OpNames
  <2>3. "observe" \in Control
    BY DEF Control
  <2>4. \A x \in Sources : Concluded(x)' => Concluded(x)
    BY <1>1, <2>1 DEF Concluded, Newest
  <2>5. wf'.rev >= wf.rev
    BY DEF RowsTyped
  <2> QED BY <1>1, <1>2, <1>3, <1>4, <2>1, <2>2, <2>3, <2>4, <2>5, LoopKept
<1> QED BY <1>3, <1>5, <1>6, <1>7, <1>8 DEF RowInv

-----------------------------------------------------------------------------
(* What a run writes. *)

LEMMA HeldRun ==
  ASSUME RowsTyped, ThreadsTyped, NEW w \in Workers, loc[w].op[1] = "run"
  PROVE  /\ loc[w].op[2] \in Subjects /\ loc[w].op = Run(loc[w].op[2]) /\ loc[w].op \in Ops
         /\ Publishable(w) => job[Run(loc[w].op[2])].st = "leased" /\ loc[w].att = job[Run(loc[w].op[2])].att
<1>1. loc[w].op \in Ops
  BY DEF ThreadsTyped, LocRow
<1> QED BY <1>1, OpKinds DEF Control, Publishable, Holds

\* A run that succeeds or passes the review, and queues its observation.
LEMMA SucceedKeeps ==
  ASSUME RowsTyped, ThreadsTyped, RowInv, NEW w \in Workers, NEW s \in Subjects, loc[w].op = Run(s),
         job[Run(s)].st = "leased", loc[w].att = job[Run(s)].att, ~wf.cancel,
         Finish(w, Ctl("observe", <<s, loc[w].att>>), job), UNCHANGED <<wf, failedRun, loop, asked>>,
         \/ s \in Tasks /\ task' = [task EXCEPT ![s] = "completed"] /\ UNCHANGED passed
         \/ s = Review /\ passed' = TRUE /\ UNCHANGED task
  PROVE  RowsTyped' /\ RowInv'
<1> DEFINE next == Ctl("observe", <<s, loc[w].att>>)
<1>1. Run(s) \in Ops /\ next # Run(s) /\ \A x \in Sources : next = Ctl("observe", x) <=> x = <<s, loc[w].att>>
  <2>1. next # Run(s) /\ \A x \in Sources : next = Ctl("observe", x) <=> x = <<s, loc[w].att>>
    BY SourceNames DEF Ctl, Run
  <2> QED BY <2>1, OpNames
<1>2. /\ job' \in [Ops -> JobRow]
      /\ \A o \in Ops \ {Run(s), next} : job'[o] = job[o]
      /\ job'[Run(s)].att = job[Run(s)].att /\ job'[Run(s)].st = "succeeded"
      /\ job'[Run(s)].code = "none"
      /\ next \in Ops => IF job[next].att = 0 THEN /\ job'[next].att = 1 /\ job'[next].st = "queued"
                                                   /\ job'[next].code = "none"
                                              ELSE job'[next] = job[next]
  BY <1>1, FinishWrite
<1> HIDE DEF next
<1>3. task' \in [Tasks -> {"pending", "queued", "running", "completed", "failed", "cancelled"}]
  BY DEF RowInv, Rows
<1>4. RowsTyped'
  BY <1>2, <1>3 DEF RowsTyped, TaskStatuses
<1>5. \A o \in Ops : job[o].att \in Nat /\ (job[o].att = 0 <=> job[o].st = "absent")
  BY Attempted DEF RowInv
<1>6. Rows'
  <2>1. ASSUME NEW o \in Ops
        PROVE  (/\ job[o].st = "absent" <=> job[o].att = 0
                /\ job[o].code = "lost" => job[o].att >= MaxJobAttempts
                /\ job[o].code = "transient" => o[1] = "run" /\ o[2] \in Tasks)'
    BY <1>2, <1>5 DEF RowInv, Rows
  <2> QED BY <1>3, <2>1 DEF Rows
<1>7. \A k \in Subjects \ {s} : Run(k) \in Ops /\ job'[Run(k)] = job[Run(k)]
  <2> TAKE k \in Subjects \ {s}
  <2>1. Run(k) \in Ops /\ Run(k) # Run(s)
    BY OpNames
  <2>2. Run(k) # next
    BY DEF next, Run, Ctl
  <2> QED BY <1>2, <2>1, <2>2
<1>8. TaskJobs'
  <2> SUFFICES ASSUME NEW t \in Tasks
      PROVE (/\ task[t] = "pending" => job[Run(t)].att = 0
             /\ job[Run(t)].att = 0 => task[t] \in {"pending", "cancelled"}
             /\ task[t] \in {"queued", "running"} => Active(Run(t))
             /\ (task[t] = "completed" <=> job[Run(t)].st = "succeeded")
             /\ task[t] = "failed" => wf.status \in {"blocked", "failed"}
             /\ task[t] = "cancelled" => wf.status = "cancelled")'
    BY DEF TaskJobs
  <2>1. CASE t = s
    BY <1>1, <1>2, <1>5, <2>1, Names DEF RowsTyped
  <2>2. CASE t # s
    <3>1. task'[t] = task[t] /\ t \in Subjects \ {s}
      BY <2>2, Names DEF RowsTyped
    <3> QED BY <1>7, <3>1 DEF RowInv, TaskJobs, Active
  <2> QED BY <2>1, <2>2
<1>9. Flags'
  <2>1. CancelledStaysEmpty' /\ wf.status # "cancelled"
    BY DEF RowInv, Flags, CancelledStaysEmpty
  <2>2. passed => s # Review
    BY DEF RowInv, Flags
  <2>3. passed' => job'[Run(Review)].st = "succeeded"
    BY <1>2, <1>7, Names DEF RowInv, Flags
  <2> QED BY <2>1, <2>2, <2>3 DEF RowInv, Flags
<1>10. Records' /\ Order' /\ Budget'
  <2>1. \A x \in Sources, k \in Control : Ctl(k, x) \in Ops /\ Ctl(k, x) # Run(s)
    BY OpNames
  <2>2. ASSUME NEW x \in Sources, NEW k \in Control
        PROVE  /\ job[Ctl(k, x)].st = "succeeded" => job'[Ctl(k, x)].st = "succeeded"
               /\ job[Ctl(k, x)].att > 0 => job'[Ctl(k, x)].att > 0
    BY <1>2, <1>5, <2>1
  <2>3. ASSUME NEW x \in Sources, job'[Ctl("observe", x)].att > 0
        PROVE  \/ job[Ctl("observe", x)].att > 0
               \/ Newest(x)' /\ job'[Run(x[1])].st \in {"succeeded", "failed"}
    <3>1. CASE Ctl("observe", x) = next
      BY <1>1, <1>2, <3>1 DEF Newest
    <3>2. CASE Ctl("observe", x) # next
      BY <1>2, <2>1, <2>3, <3>2 DEF Control
    <3> QED BY <3>1, <3>2
  <2>4. ASSUME NEW x \in Sources, Concluded(x)' PROVE Concluded(x) \/ job'[Ctl("observe", x)].att > 0
    <3>1. CASE x[1] = s
      <4>1. x = <<s, loc[w].att>>
        BY <1>2, <2>4, <3>1, SourceNames DEF Concluded, Newest
      <4>2. next = Ctl("observe", x) /\ next \in Ops
        BY <1>1, <2>1, <4>1 DEF Control
      <4> QED BY <1>2, <1>5, <4>2
    <3>2. CASE x[1] # s
      <4>1. job'[Run(x[1])] = job[Run(x[1])]
        BY <1>7, <3>2, SourceNames
      <4>2. x[1] = Review => passed' = passed
        BY <3>2, Names
      <4> QED BY <2>4, <4>1, <4>2 DEF Concluded, Newest
    <3> QED BY <3>1, <3>2
  <2>5. wf'.rev >= wf.rev
    BY DEF RowsTyped
  <2>6. \A t \in Tasks : task[t] = "completed" => task'[t] = "completed"
    BY DEF RowsTyped
  <2> QED BY <1>2, <1>4, <1>5, <1>7, <2>2, <2>3, <2>4, <2>5, <2>6, LoopKept
<1> QED BY <1>4, <1>6, <1>8, <1>9, <1>10 DEF RowInv

\* A run that fails for a transient reason blocks the workflow and queues its observation.
LEMMA TransientKeeps ==
  ASSUME RowsTyped, ThreadsTyped, RowInv, NEW w \in Workers, NEW s \in Tasks, loc[w].op = Run(s),
         job[Run(s)].st = "leased", loc[w].att = job[Run(s)].att, ~wf.cancel,
         StepFailsTransiently(w, s), UNCHANGED <<loop, asked>>
  PROVE  RowsTyped' /\ RowInv'
<1> DEFINE next == Ctl("observe", <<s, loc[w].att>>)
           jobs == Ended(job, Run(s), "failed", "transient")
<1>1. /\ Run(s) \in Ops /\ next # Run(s) /\ s \in Subjects /\ s # Review
      /\ \A x \in Sources : next = Ctl("observe", x) <=> x = <<s, loc[w].att>>
  <2>1. next # Run(s) /\ \A x \in Sources : next = Ctl("observe", x) <=> x = <<s, loc[w].att>>
    BY SourceNames DEF Ctl, Run
  <2> QED BY <2>1, OpNames, Names
<1>2. /\ job' \in [Ops -> JobRow]
      /\ \A o \in Ops \ {Run(s), next} : job'[o] = job[o]
      /\ job'[Run(s)].att = job[Run(s)].att /\ job'[Run(s)].st = "failed"
      /\ job'[Run(s)].code = "transient"
      /\ next \in Ops => IF job[next].att = 0 THEN /\ job'[next].att = 1 /\ job'[next].st = "queued"
                                                   /\ job'[next].code = "none"
                                              ELSE job'[next] = job[next]
  <2>1. /\ jobs \in [Ops -> JobRow] /\ \A o \in Ops \ {Run(s)} : jobs[o] = job[o]
        /\ jobs[Run(s)].att = job[Run(s)].att /\ jobs[Run(s)].st = "failed" /\ jobs[Run(s)].code = "transient"
    BY <1>1, EndedRow DEF RowsTyped, Codes
  <2>2. job' = Enqueued(jobs, next, 1)
    BY DEF StepFailsTransiently
  <2>3. \A o \in Ops : job[o].att \in Nat
    BY DEF RowsTyped, JobRow
  <2> HIDE DEF jobs, next
  <2> QED BY <1>1, <2>1, <2>2, <2>3, EnqueuedRow
<1>0. /\ wf' = WorkflowMoved("blocked") /\ task' = [task EXCEPT ![s] = "failed"]
      /\ failedRun' = s /\ UNCHANGED <<passed, loop, asked>>
  BY DEF StepFailsTransiently
<1>00. /\ wf' \in [status: Phases, rev: Nat, cancel: BOOLEAN]
       /\ wf'.status = "blocked" /\ wf'.cancel = wf.cancel /\ wf'.rev >= wf.rev
  BY <1>0, MovedRow DEF Phases, RowsTyped
<1> HIDE DEF next
<1>3. task' \in [Tasks -> {"pending", "queued", "running", "completed", "failed", "cancelled"}]
  BY <1>0 DEF RowInv, Rows
<1>4. RowsTyped'
  <2>1. failedRun' \in 0..Review
    BY <1>0, <1>1 DEF Subjects
  <2> QED BY <1>2, <1>3, <1>0, <1>00, <2>1 DEF RowsTyped, TaskStatuses
<1>5. \A o \in Ops : job[o].att \in Nat /\ (job[o].att = 0 <=> job[o].st = "absent")
  BY Attempted DEF RowInv
<1>6. Rows'
  <2>1. ASSUME NEW o \in Ops
        PROVE  (/\ job[o].st = "absent" <=> job[o].att = 0
                /\ job[o].code = "lost" => job[o].att >= MaxJobAttempts
                /\ job[o].code = "transient" => o[1] = "run" /\ o[2] \in Tasks)'
    BY <1>1, <1>2, <1>5, OpNames DEF RowInv, Rows
  <2> QED BY <1>3, <2>1 DEF Rows
<1>7. \A k \in Subjects \ {s} : Run(k) \in Ops /\ job'[Run(k)] = job[Run(k)]
  <2> TAKE k \in Subjects \ {s}
  <2>1. Run(k) \in Ops /\ Run(k) # Run(s)
    BY OpNames
  <2>2. Run(k) # next
    BY DEF next, Run, Ctl
  <2> QED BY <1>2, <2>1, <2>2
<1>8. TaskJobs'
  <2> SUFFICES ASSUME NEW t \in Tasks
      PROVE (/\ task[t] = "pending" => job[Run(t)].att = 0
             /\ job[Run(t)].att = 0 => task[t] \in {"pending", "cancelled"}
             /\ task[t] \in {"queued", "running"} => Active(Run(t))
             /\ (task[t] = "completed" <=> job[Run(t)].st = "succeeded")
             /\ task[t] = "failed" => wf.status \in {"blocked", "failed"}
             /\ task[t] = "cancelled" => wf.status = "cancelled")'
    BY DEF TaskJobs
  <2>0. wf.status # "cancelled"
    BY DEF RowInv, Flags
  <2>1. CASE t = s
    <3>1. task'[t] = "failed"
      BY <1>0, <2>1 DEF RowsTyped
    <3> QED BY <1>00, <1>1, <1>2, <1>5, <2>1, <3>1
  <2>2. CASE t # s
    <3>1. task'[t] = task[t] /\ t \in Subjects \ {s}
      BY <1>0, <2>2, Names DEF RowsTyped
    <3> QED BY <1>00, <1>7, <2>0, <3>1 DEF RowInv, TaskJobs, Active
  <2> QED BY <2>1, <2>2
<1>9. Flags'
  <2>1. passed => job[Run(Review)].st = "succeeded"
    BY DEF RowInv, Flags
  <2>2. job'[Run(Review)] = job[Run(Review)]
    BY <1>1, <1>7, Names
  <2> QED BY <1>0, <1>00, <2>1, <2>2 DEF Flags, CancelledStaysEmpty
<1>10. Records' /\ Order' /\ Budget'
  <2>1. \A x \in Sources, k \in Control : Ctl(k, x) \in Ops /\ Ctl(k, x) # Run(s)
    BY OpNames
  <2>2. ASSUME NEW x \in Sources, NEW k \in Control
        PROVE  /\ job[Ctl(k, x)].st = "succeeded" => job'[Ctl(k, x)].st = "succeeded"
               /\ job[Ctl(k, x)].att > 0 => job'[Ctl(k, x)].att > 0
    BY <1>2, <1>5, <2>1
  <2>3. ASSUME NEW x \in Sources, job'[Ctl("observe", x)].att > 0
        PROVE  \/ job[Ctl("observe", x)].att > 0
               \/ Newest(x)' /\ job'[Run(x[1])].st \in {"succeeded", "failed"}
    <3>1. CASE Ctl("observe", x) = next
      BY <1>1, <1>2, <3>1 DEF Newest
    <3>2. CASE Ctl("observe", x) # next
      BY <1>2, <2>1, <2>3, <3>2 DEF Control
    <3> QED BY <3>1, <3>2
  <2>4. ASSUME NEW x \in Sources, Concluded(x)' PROVE Concluded(x) \/ job'[Ctl("observe", x)].att > 0
    <3>1. CASE x[1] = s
      BY <1>2, <2>4, <3>1 DEF Concluded
    <3>2. CASE x[1] # s
      <4>1. job'[Run(x[1])] = job[Run(x[1])]
        BY <1>7, <3>2, SourceNames
      <4>2. x[1] = Review => passed' = passed
        BY <1>0
      <4> QED BY <2>4, <4>1, <4>2 DEF Concluded, Newest
    <3> QED BY <3>1, <3>2
  <2>6. ASSUME NEW t \in Tasks, task[t] = "completed" PROVE task'[t] = "completed"
    <3>1. t # s
      BY <2>6 DEF RowInv, TaskJobs
    <3> QED BY <1>0, <2>6, <3>1 DEF RowsTyped
  <2>5. \A k \in Subjects : \/ /\ job'[Run(k)].att = job[Run(k)].att
                              /\ job[Run(k)].st \in {"succeeded", "failed"} => job'[Run(k)].st = job[Run(k)].st
    BY <1>2, <1>7
  <2> QED BY <1>0, <1>00, <1>2, <1>4, <1>5, <1>7, <2>2, <2>3, <2>4, <2>5, <2>6, LoopKept
<1> QED BY <1>4, <1>6, <1>8, <1>9, <1>10 DEF RowInv

\* Any other verdict of the review blocks the workflow.
LEMMA VerdictKeeps ==
  ASSUME RowsTyped, ThreadsTyped, RowInv, UNCHANGED <<task, failedRun, passed, loop, asked>>,
         job[Run(Review)].st = "leased", ~wf.cancel,
         job' = Ended(job, Run(Review), "succeeded", "none"), wf' = WorkflowMoved("blocked")
  PROVE  RowsTyped' /\ RowInv'
<1>1. Run(Review) \in Ops /\ \A s \in Tasks : Run(s) \in Ops /\ Run(s) # Run(Review)
  BY Names, OpNames
<1>2. /\ job' \in [Ops -> JobRow] /\ \A o \in Ops \ {Run(Review)} : job'[o] = job[o]
      /\ job'[Run(Review)].att = job[Run(Review)].att /\ job'[Run(Review)].st = "succeeded"
      /\ job'[Run(Review)].code = "none"
  <2>1. job \in [Ops -> JobRow] /\ "none" \in Codes
    BY DEF RowsTyped, Codes
  <2> QED BY <1>1, <2>1, EndedRow
<1>3. /\ wf' \in [status: Phases, rev: Nat, cancel: BOOLEAN]
      /\ wf'.status = "blocked" /\ wf'.cancel = wf.cancel /\ wf'.rev >= wf.rev
  BY MovedRow DEF Phases, RowsTyped
<1>4. RowsTyped'
  BY <1>2, <1>3 DEF RowsTyped
<1>5. \A o \in Ops : job[o].att \in Nat /\ (job[o].att = 0 <=> job[o].st = "absent")
  BY Attempted DEF RowInv
<1>6. ~passed /\ wf.status # "cancelled"
  BY DEF RowInv, Flags
<1>7. Rows'
  <2>1. ASSUME NEW o \in Ops
        PROVE  (/\ job[o].st = "absent" <=> job[o].att = 0
                /\ job[o].code = "lost" => job[o].att >= MaxJobAttempts
                /\ job[o].code = "transient" => o[1] = "run" /\ o[2] \in Tasks)'
    BY <1>1, <1>2, <1>5 DEF RowInv, Rows
  <2> QED BY <2>1 DEF Rows, RowInv
<1>8. TaskJobs'
  BY <1>1, <1>2, <1>3, <1>6 DEF RowInv, TaskJobs, Active
<1>9. Flags'
  BY <1>1, <1>2, <1>3, <1>6 DEF Flags, CancelledStaysEmpty
<1>10. Records' /\ Order' /\ Budget'
  <2>1. \A x \in Sources : Run(x[1]) \in Ops /\ \A k \in Control : Ctl(k, x) \in Ops /\ Ctl(k, x) # Run(Review)
    BY SourceNames, OpNames
  <2>2. \A s \in Subjects : Run(s) \in Ops
    BY OpNames
  <2>3. "observe" \in Control
    BY DEF Control
  <2>4. ASSUME NEW x \in Sources, Concluded(x)' PROVE Concluded(x)
    <3>1. x[1] # Review
      BY <1>6, <2>4 DEF Concluded
    <3>2. job'[Run(x[1])] = job[Run(x[1])]
      BY <1>2, <2>1, <3>1, OpNames
    <3> QED BY <2>4, <3>1, <3>2 DEF Concluded, Newest
  <2> QED BY <1>2, <1>3, <1>4, <2>1, <2>2, <2>3, <2>4, LoopKept
<1> QED BY <1>4, <1>7, <1>8, <1>9, <1>10 DEF RowInv

-----------------------------------------------------------------------------
(* What the loop's jobs write. *)

LEMMA HeldControl ==
  ASSUME RowsTyped, ThreadsTyped, NEW w \in Workers, loc[w].op[1] \in Control
  PROVE  /\ Source(w) \in Sources /\ loc[w].op = Ctl(loc[w].op[1], Source(w)) /\ loc[w].op \in Ops
         /\ Publishable(w) => job[loc[w].op].st = "leased" /\ ~wf.cancel
<1>1. loc[w].op \in Ops
  BY DEF ThreadsTyped, LocRow
<1>2. loc[w].op[1] # "run"
  BY DEF Control
<1> QED BY <1>1, <1>2, OpKinds DEF Publishable, Holds, Source

\* A control job that ends well and queues the first attempt of another: the rows but the
\* loop's records.
LEMMA ControlKeeps ==
  ASSUME RowsTyped, RowInv, NEW w \in Workers, NEW x \in Sources, NEW k \in Control, NEW l \in Control, k # l,
         loc[w].op = Ctl(k, x), job[Ctl(k, x)].st = "leased", ~wf.cancel,
         Finish(w, Ctl(l, x), job), UNCHANGED <<wf, task, passed>>
  PROVE  /\ job' \in [Ops -> JobRow]
         /\ \A o \in Ops \ {Ctl(k, x), Ctl(l, x)} : job'[o] = job[o]
         /\ job'[Ctl(k, x)].att = job[Ctl(k, x)].att /\ job'[Ctl(k, x)].st = "succeeded"
         /\ job'[Ctl(l, x)].att > 0
         /\ job[Ctl(l, x)].att > 0 => job'[Ctl(l, x)] = job[Ctl(l, x)]
         /\ \A s \in Subjects : job'[Run(s)] = job[Run(s)]
         /\ Rows' /\ TaskJobs' /\ Flags'
<1>1. Ctl(k, x) \in Ops /\ Ctl(l, x) \in Ops /\ Ctl(k, x) # Ctl(l, x)
  BY OpNames
<1>2. \A o \in Ops : job[o].att \in Nat /\ (job[o].att = 0 <=> job[o].st = "absent")
  BY Attempted DEF RowInv
<1>3. /\ job' \in [Ops -> JobRow]
      /\ \A o \in Ops \ {Ctl(k, x), Ctl(l, x)} : job'[o] = job[o]
      /\ job'[Ctl(k, x)].att = job[Ctl(k, x)].att /\ job'[Ctl(k, x)].st = "succeeded"
      /\ job'[Ctl(k, x)].code = "none"
      /\ IF job[Ctl(l, x)].att = 0
         THEN job'[Ctl(l, x)].att = 1 /\ job'[Ctl(l, x)].st = "queued" /\ job'[Ctl(l, x)].code = "none"
         ELSE job'[Ctl(l, x)] = job[Ctl(l, x)]
  BY <1>1, FinishWrite
<1>4. \A s \in Subjects : job'[Run(s)] = job[Run(s)] /\ Run(s) \in Ops
  BY <1>3, OpNames
<1>5. Rows'
  <2>1. ASSUME NEW o \in Ops
        PROVE  (/\ job[o].st = "absent" <=> job[o].att = 0
                /\ job[o].code = "lost" => job[o].att >= MaxJobAttempts
                /\ job[o].code = "transient" => o[1] = "run" /\ o[2] \in Tasks)'
    <3>1. job[o].st = "absent" <=> job[o].att = 0
      BY <1>2
    <3>2. CASE o = Ctl(k, x)
      BY <1>1, <1>2, <1>3, <3>2
    <3>3. CASE o = Ctl(l, x)
      BY <1>1, <1>2, <1>3, <3>3 DEF RowInv, Rows
    <3>4. CASE o \notin {Ctl(k, x), Ctl(l, x)}
      BY <1>3, <3>4 DEF RowInv, Rows
    <3> QED BY <3>2, <3>3, <3>4
  <2> QED BY <2>1 DEF Rows, RowInv
<1>6. TaskJobs'
  BY <1>4, Names DEF RowInv, TaskJobs, Active
<1>7. Flags'
  BY <1>4, Names DEF RowInv, Flags, CancelledStaysEmpty
<1> QED BY <1>1, <1>2, <1>3, <1>4, <1>5, <1>6, <1>7

LEMMA ObserveKeeps ==
  ASSUME RowsTyped, ThreadsTyped, RowInv, NEW w \in Workers, NEW x \in Sources, loc[w].op = Ctl("observe", x),
         job[Ctl("observe", x)].st = "leased", ~wf.cancel,
         loop' = [loop EXCEPT ![x].obs = ObservedKind(x)], Finish(w, Ctl("decide", x), job),
         UNCHANGED <<wf, task, failedRun, passed, asked>>
  PROVE  RowsTyped' /\ RowInv'
<1>1. /\ job' \in [Ops -> JobRow]
      /\ \A o \in Ops \ {Ctl("observe", x), Ctl("decide", x)} : job'[o] = job[o]
      /\ job'[Ctl("observe", x)].att = job[Ctl("observe", x)].att /\ job'[Ctl("observe", x)].st = "succeeded"
      /\ job'[Ctl("decide", x)].att > 0
      /\ job[Ctl("decide", x)].att > 0 => job'[Ctl("decide", x)] = job[Ctl("decide", x)]
      /\ \A s \in Subjects : job'[Run(s)] = job[Run(s)]
      /\ Rows' /\ TaskJobs' /\ Flags'
  BY ControlKeeps DEF Control
<1>2. ObservedKind(x) \in {"output", "transient", "failed", "reviewed"}
  BY DEF ObservedKind
<1>3. /\ loop' \in [Sources -> LoopRow] /\ \A y \in Sources \ {x} : loop'[y] = loop[y]
      /\ loop'[x].obs = ObservedKind(x) /\ loop'[x].act = loop[x].act /\ loop'[x].rev = loop[x].rev
      /\ loop'[x].st = loop[x].st
  <2>1. ASSUME NEW r \in LoopRow, NEW o \in {"output", "transient", "failed", "reviewed"}
        PROVE  /\ [r EXCEPT !.obs = o] \in LoopRow /\ [r EXCEPT !.obs = o].obs = o /\ [r EXCEPT !.obs = o].act = r.act
               /\ [r EXCEPT !.obs = o].rev = r.rev /\ [r EXCEPT !.obs = o].st = r.st
    BY DEF LoopRow
  <2>2. loop' = [loop EXCEPT ![x] = [loop[x] EXCEPT !.obs = ObservedKind(x)]] /\ loop[x] \in LoopRow
    BY DEF RowsTyped
  <2> DEFINE row == [loop[x] EXCEPT !.obs = ObservedKind(x)]
  <2>3. /\ row \in LoopRow /\ row.obs = ObservedKind(x) /\ row.act = loop[x].act
        /\ row.rev = loop[x].rev /\ row.st = loop[x].st
    BY <1>2, <2>1, <2>2
  <2>4. loop' = [loop EXCEPT ![x] = row] /\ loop \in [Sources -> LoopRow]
    BY <2>2 DEF RowsTyped
  <2> HIDE DEF row
  <2> QED BY <2>3, <2>4
<1>4. RowsTyped'
  BY <1>1, <1>3 DEF RowsTyped
<1>5. /\ x[1] \in Subjects /\ Run(x[1]) \in Ops /\ job[Run(x[1])].att \in Nat
      /\ \A y \in Sources, k \in Control : Ctl(k, y) \in Ops
      /\ \A y \in Sources \ {x}, k \in Control : job'[Ctl(k, y)] = job[Ctl(k, y)]
      /\ job'[Ctl("apply", x)] = job[Ctl("apply", x)]
      /\ {"observe", "decide", "apply"} = Control
  <2>1. {"observe", "decide", "apply"} = Control
    BY DEF Control
  <2>2. \A y \in Sources, k \in Control : Ctl(k, y) \in Ops
    BY OpNames
  <2>3. x[1] \in Subjects /\ Run(x[1]) \in Ops /\ job[Run(x[1])].att \in Nat
    BY SourceNames, OpNames DEF RowsTyped, JobRow
  <2>4. \A y \in Sources \ {x}, k \in Control : job'[Ctl(k, y)] = job[Ctl(k, y)]
    BY <1>1, <2>2, OpNames
  <2>5. job'[Ctl("apply", x)] = job[Ctl("apply", x)]
    BY <1>1, <2>1, <2>2, OpNames
  <2> QED BY <2>1, <2>2, <2>3, <2>4, <2>5
<1>6. job[Ctl("observe", x)].att > 0
  BY <1>5, Attempted DEF RowInv
<1>7. Newest(x) => job[Run(x[1])].st \in {"succeeded", "failed"}
  BY <1>6 DEF RowInv, Records
<1>8. ObservedKind(x) = "transient" => x[1] \in Tasks
  <2>1. ObservedKind(x) = "transient" => job[Run(x[1])].code = "transient"
    BY DEF ObservedKind
  <2> QED BY <1>5, <2>1, OpNames DEF RowInv, Rows
<1>9. ObservedKind(x) = "output" => x[1] \in Tasks /\ Newest(x) /\ task[x[1]] = "completed"
  <2>1. ObservedKind(x) = "output" => Newest(x) /\ job[Run(x[1])].st # "failed" /\ x[1] # Review
    BY DEF ObservedKind
  <2> QED BY <1>5, <1>7, <2>1, Names DEF RowInv, TaskJobs
<1>10. Records'
  <2> SUFFICES ASSUME NEW y \in Sources
             PROVE  (/\ loop[y].obs # "none" =>
                          job[Ctl("observe", y)].st = "succeeded" /\ job[Ctl("decide", y)].att > 0
                     /\ Answered(y) =>
                          job[Ctl("decide", y)].st = "succeeded" /\ job[Ctl("apply", y)].att > 0
                     /\ loop[y].st = "applied" => job[Ctl("apply", y)].st = "succeeded"
                     /\ job[Ctl("observe", y)].att > 0 =>
                          /\ y[2] <= job[Run(y[1])].att
                          /\ Newest(y) => job[Run(y[1])].st \in {"succeeded", "failed"}
                     /\ Concluded(y) => job[Ctl("observe", y)].att > 0
                     /\ loop[y].obs = "transient" => y[1] \in Tasks
                     /\ loop[y].obs = "output" => y[1] \in Tasks /\ Newest(y) /\ task[y[1]] = "completed")'
    BY DEF Records
  <2>1. y[1] \in Subjects /\ job'[Run(y[1])] = job[Run(y[1])] /\ (Newest(y)' <=> Newest(y)) /\ (Concluded(y)' <=> Concluded(y))
    BY <1>1, SourceNames DEF Newest, Concluded
  <2>2. CASE y = x
    <3>1. /\ Answered(x) => job[Ctl("decide", x)].st = "succeeded" /\ job[Ctl("apply", x)].att > 0
          /\ loop[x].st = "applied" => job[Ctl("apply", x)].st = "succeeded"
          /\ x[2] <= job[Run(x[1])].att
      BY <1>6 DEF RowInv, Records
    <3>2. job[Ctl("decide", x)].st = "succeeded" => job'[Ctl("decide", x)] = job[Ctl("decide", x)]
      BY <1>1, <1>5, Attempted DEF RowInv
    <3> QED BY <1>1, <1>3, <1>5, <1>6, <1>7, <1>8, <1>9, <2>1, <2>2, <3>1, <3>2 DEF Answered
  <2>3. CASE y # x
    <3>1. loop'[y] = loop[y] /\ \A k \in Control : job'[Ctl(k, y)] = job[Ctl(k, y)]
      BY <1>3, <1>5, <2>3
    <3>2. /\ loop[y].obs # "none" =>
                job[Ctl("observe", y)].st = "succeeded" /\ job[Ctl("decide", y)].att > 0
          /\ Answered(y) => job[Ctl("decide", y)].st = "succeeded" /\ job[Ctl("apply", y)].att > 0
          /\ loop[y].st = "applied" => job[Ctl("apply", y)].st = "succeeded"
          /\ job[Ctl("observe", y)].att > 0 =>
                /\ y[2] <= job[Run(y[1])].att
                /\ Newest(y) => job[Run(y[1])].st \in {"succeeded", "failed"}
          /\ Concluded(y) => job[Ctl("observe", y)].att > 0
          /\ loop[y].obs = "transient" => y[1] \in Tasks
          /\ loop[y].obs = "output" => y[1] \in Tasks /\ Newest(y) /\ task[y[1]] = "completed"
      BY DEF RowInv, Records
    <3>3. Answered(y)' <=> Answered(y)
      BY <3>1 DEF Answered
    <3> QED BY <1>5, <2>1, <3>1, <3>2, <3>3
  <2> QED BY <2>2, <2>3
<1>11. Budget'
  <2>1. \A s \in Subjects : job'[Run(s)].att <= job[Run(s)].att
    BY <1>1, OpNames DEF RowsTyped, JobRow
  <2>2. wf'.rev >= wf.rev /\ asked \in Nat
    BY LoopBoundsAssumption DEF RowsTyped, ThreadsTyped
  <2>3. \A y \in Sources : loop'[y].st = loop[y].st /\ loop'[y].act = loop[y].act /\ loop'[y].rev = loop[y].rev
    BY <1>3
  <2> QED BY <1>4, <2>1, <2>2, <2>3, BudgetKept DEF RowInv
<1>12. Order'
  <2>1. \A y \in Sources : loop'[y].st = loop[y].st
    BY <1>3
  <2>2. \A s \in Tasks : task[s] = "completed" => <<s, job[Run(s)].att>> \in Sources
    BY WithinRuns, Attempted, Names, OpNames DEF RowInv, TaskJobs
  <2> QED BY <1>1, <1>4, <2>1, <2>2, Names, OrderKept DEF RowInv
<1> QED BY <1>1, <1>4, <1>10, <1>11, <1>12 DEF RowInv

LEMMA ProposeKeeps ==
  ASSUME RowsTyped, ThreadsTyped, RowInv, NEW w \in Workers, NEW x \in Sources, loc[w].op = Ctl("decide", x),
         job[Ctl("decide", x)].st = "leased", ~wf.cancel,
         NEW action \in {"continue", "retry", "complete", "stop"}, NEW inv \in {"none", "done"},
         action = "retry" => ~LimitReached,
         loop' = [loop EXCEPT ![x] = [@ EXCEPT !.act = action, !.rev = wf.rev, !.st = "proposed", !.inv = inv]],
         Finish(w, Ctl("apply", x), job), UNCHANGED <<wf, task, failedRun, passed, asked>>
  PROVE  /\ RowsTyped' /\ RowInv'
         /\ \A y \in Sources \ {x} : loop'[y] = loop[y]
         /\ loop'[x].calls = loop[x].calls /\ loop'[x].inv = inv
<1>1. /\ job' \in [Ops -> JobRow]
      /\ \A o \in Ops \ {Ctl("decide", x), Ctl("apply", x)} : job'[o] = job[o]
      /\ job'[Ctl("decide", x)].att = job[Ctl("decide", x)].att /\ job'[Ctl("decide", x)].st = "succeeded"
      /\ job'[Ctl("apply", x)].att > 0
      /\ job[Ctl("apply", x)].att > 0 => job'[Ctl("apply", x)] = job[Ctl("apply", x)]
      /\ \A s \in Subjects : job'[Run(s)] = job[Run(s)]
      /\ Rows' /\ TaskJobs' /\ Flags'
  BY ControlKeeps DEF Control
<1>2. wf.rev \in Nat /\ loop[x] \in LoopRow
  BY DEF RowsTyped
<1>3. /\ loop' \in [Sources -> LoopRow] /\ \A y \in Sources \ {x} : loop'[y] = loop[y]
      /\ loop'[x].obs = loop[x].obs /\ loop'[x].act = action /\ loop'[x].rev = wf.rev
      /\ loop'[x].st = "proposed" /\ loop'[x].calls = loop[x].calls /\ loop'[x].inv = inv
  <2> DEFINE row == [loop[x] EXCEPT !.act = action, !.rev = wf.rev, !.st = "proposed", !.inv = inv]
  <2>1. /\ row.obs = loop[x].obs /\ row.act = action /\ row.rev = wf.rev
        /\ row.st = "proposed" /\ row.calls = loop[x].calls /\ row.inv = inv
    BY <1>2 DEF LoopRow
  <2>2. row \in LoopRow
    BY <1>2 DEF LoopRow
  <2>3. loop' = [loop EXCEPT ![x] = row] /\ loop \in [Sources -> LoopRow]
    BY DEF RowsTyped
  <2> HIDE DEF row
  <2> QED BY <2>1, <2>2, <2>3
<1>4. RowsTyped'
  BY <1>1, <1>3 DEF RowsTyped
<1>5. {"observe", "decide", "apply"} = Control
  BY DEF Control
<1>6. \A y \in Sources, k \in Control : Ctl(k, y) \in Ops
  BY OpNames
<1>7. /\ \A y \in Sources \ {x}, k \in Control : job'[Ctl(k, y)] = job[Ctl(k, y)]
      /\ job'[Ctl("observe", x)] = job[Ctl("observe", x)]
  BY <1>1, <1>5, <1>6, OpNames
<1>8. job[Ctl("decide", x)].att > 0 /\ loop[x].st = "none"
  <2>1. ~Answered(x)
    BY DEF RowInv, Records
  <2> QED BY <1>5, <1>6, <2>1, Attempted DEF RowInv, Answered
<1>9. Records'
  <2> SUFFICES ASSUME NEW y \in Sources
             PROVE  (/\ loop[y].obs # "none" =>
                          job[Ctl("observe", y)].st = "succeeded" /\ job[Ctl("decide", y)].att > 0
                     /\ Answered(y) =>
                          job[Ctl("decide", y)].st = "succeeded" /\ job[Ctl("apply", y)].att > 0
                     /\ loop[y].st = "applied" => job[Ctl("apply", y)].st = "succeeded"
                     /\ job[Ctl("observe", y)].att > 0 =>
                          /\ y[2] <= job[Run(y[1])].att
                          /\ Newest(y) => job[Run(y[1])].st \in {"succeeded", "failed"}
                     /\ Concluded(y) => job[Ctl("observe", y)].att > 0
                     /\ loop[y].obs = "transient" => y[1] \in Tasks
                     /\ loop[y].obs = "output" => y[1] \in Tasks /\ Newest(y) /\ task[y[1]] = "completed")'
    BY DEF Records
  <2>1. /\ y[1] \in Subjects /\ job'[Run(y[1])] = job[Run(y[1])]
        /\ (Newest(y)' <=> Newest(y)) /\ (Concluded(y)' <=> Concluded(y))
    BY <1>1, SourceNames DEF Newest, Concluded
  <2>2. CASE y = x
    BY <1>1, <1>3, <1>7, <1>8, <2>1, <2>2 DEF RowInv, Records, Answered
  <2>3. CASE y # x
    <3>1. loop'[y] = loop[y] /\ \A k \in Control : job'[Ctl(k, y)] = job[Ctl(k, y)]
      BY <1>3, <1>7, <2>3
    <3>2. /\ loop[y].obs # "none" =>
                job[Ctl("observe", y)].st = "succeeded" /\ job[Ctl("decide", y)].att > 0
          /\ Answered(y) => job[Ctl("decide", y)].st = "succeeded" /\ job[Ctl("apply", y)].att > 0
          /\ loop[y].st = "applied" => job[Ctl("apply", y)].st = "succeeded"
          /\ job[Ctl("observe", y)].att > 0 =>
                /\ y[2] <= job[Run(y[1])].att
                /\ Newest(y) => job[Run(y[1])].st \in {"succeeded", "failed"}
          /\ Concluded(y) => job[Ctl("observe", y)].att > 0
          /\ loop[y].obs = "transient" => y[1] \in Tasks
          /\ loop[y].obs = "output" => y[1] \in Tasks /\ Newest(y) /\ task[y[1]] = "completed"
      BY DEF RowInv, Records
    <3>3. Answered(y)' <=> Answered(y)
      BY <3>1 DEF Answered
    <3> QED BY <1>5, <2>1, <3>1, <3>2, <3>3
  <2> QED BY <2>2, <2>3
<1>10. Budget'
  <2>1. AppliedRetries' = AppliedRetries
    BY <1>3, <1>8 DEF AppliedRetries
  <2>2. AttemptsBudgeted'
    BY <1>1, <2>1 DEF RowInv, Budget, AttemptsBudgeted, RetriesBounded, AttemptsAccounted
  <2>3. ASSUME NEW y \in Sources
        PROVE (/\ loop[y].rev <= wf.rev
               /\ loop[y].st = "proposed" /\ loop[y].act = "retry" /\ loop[y].rev = wf.rev => ~LimitReached)'
    BY <1>2, <1>3, <2>1 DEF RowInv, Budget, LimitReached
  <2> QED BY <2>2, <2>3 DEF Budget
<1>11. Order'
  <2>1. \A y \in Sources : loop[y].st = "applied" => loop'[y].st = "applied"
    BY <1>3, <1>8
  <2>2. \A s \in Tasks : task[s] = "completed" => <<s, job[Run(s)].att>> \in Sources
    BY WithinRuns, Attempted, Names, OpNames DEF RowInv, TaskJobs
  <2> QED BY <1>1, <1>4, <2>1, <2>2, Names, OrderKept DEF RowInv
<1> QED BY <1>1, <1>3, <1>4, <1>9, <1>10, <1>11 DEF RowInv

-----------------------------------------------------------------------------
(* What the application of a decision writes. *)

\* At most one task has failed, and what runs next is the first that waits.
LEMMA Frontier ==
  ASSUME RowsTyped, RowInv, NEW s \in Tasks, task[s] = "failed"
  PROVE  /\ \A t \in Tasks \ {s} : task[t] # "failed"
         /\ job[Run(s)].att > 0 /\ wf.status \in {"blocked", "failed"}
<1>1. \A t \in Tasks : task[t] = "failed" => t \in Subjects /\ t \in Nat /\ job[Run(t)].att > 0
  <2> TAKE t \in Tasks
  <2>1. t \in Subjects /\ t \in Nat /\ Run(t) \in Ops
    BY Names, OpNames
  <2> QED BY <2>1, Attempted DEF RowInv, TaskJobs
<1>2. ASSUME NEW t \in Tasks, t # s, task[t] = "failed" PROVE FALSE
  <2>1. CASE t < s
    BY <1>1, <1>2, <2>1 DEF RowInv, Order
  <2>2. CASE s < t
    BY <1>1, <1>2, <2>2 DEF RowInv, Order
  <2> QED BY <1>1, <1>2, <2>1, <2>2
<1> QED BY <1>1, <1>2 DEF RowInv, TaskJobs

\* The rows of a decision that is carried out.
LEMMA AppliedRow ==
  ASSUME RowsTyped, NEW x \in Sources, loop' = [loop EXCEPT ![x].st = "applied"]
  PROVE  /\ loop' \in [Sources -> LoopRow] /\ \A y \in Sources \ {x} : loop'[y] = loop[y]
         /\ loop'[x].obs = loop[x].obs /\ loop'[x].act = loop[x].act /\ loop'[x].rev = loop[x].rev
         /\ loop'[x].st = "applied" /\ loop'[x].calls = loop[x].calls /\ loop'[x].inv = loop[x].inv
<1> DEFINE row == [loop[x] EXCEPT !.st = "applied"]
<1>1. loop[x] \in LoopRow
  BY DEF RowsTyped
<1>2. /\ row \in LoopRow /\ row.obs = loop[x].obs /\ row.act = loop[x].act /\ row.rev = loop[x].rev
      /\ row.st = "applied" /\ row.calls = loop[x].calls /\ row.inv = loop[x].inv
  BY <1>1 DEF LoopRow
<1>3. loop' = [loop EXCEPT ![x] = row] /\ loop \in [Sources -> LoopRow]
  BY DEF RowsTyped
<1> HIDE DEF row
<1> QED BY <1>2, <1>3

\* A retry that is carried out is paid from the budget and makes every other proposal stale.
LEMMA AppliedBudget ==
  ASSUME RowsTyped, RowsTyped', ThreadsTyped, Budget, NEW x \in Sources,
         loop[x].st = "proposed", loop[x].rev = wf.rev, loop' = [loop EXCEPT ![x].st = "applied"],
         wf'.rev >= wf.rev, loop[x].act = "retry" => wf'.rev > wf.rev, asked' = asked,
         \A s \in Subjects : \/ job'[Run(s)].att <= job[Run(s)].att \/ job'[Run(s)].att <= MaxJobAttempts
                             \/ s = x[1] /\ loop[x].act = "retry" /\ job'[Run(s)].att <= job[Run(s)].att + 1
  PROVE  Budget'
<1>1. /\ \A y \in Sources \ {x} : loop'[y] = loop[y]
      /\ loop'[x].act = loop[x].act /\ loop'[x].rev = loop[x].rev /\ loop'[x].st = "applied"
  BY AppliedRow
<1>2. /\ AppliedRetries \in SUBSET Sources /\ x \notin AppliedRetries
      /\ AppliedRetries' = IF loop[x].act = "retry" THEN AppliedRetries \cup {x} ELSE AppliedRetries
  BY <1>1 DEF AppliedRetries
<1>3. /\ IsFiniteSet(AppliedRetries) /\ Cardinality(AppliedRetries) \in Nat
      /\ Cardinality(AppliedRetries \cup {x}) = Cardinality(AppliedRetries) + 1
  BY <1>2, OpsFinite, FS_Subset, FS_CardinalityType, FS_AddElement
<1>4. loop[x].act = "retry" => ~LimitReached
  BY DEF Budget
<1>5. RetriesBounded'
  <2>1. CASE loop[x].act = "retry"
    BY <1>2, <1>3, <1>4, <2>1, LoopBoundsAssumption DEF RetriesBounded, LimitReached
  <2>2. CASE loop[x].act # "retry"
    BY <1>2, <2>2 DEF RetriesBounded, Budget, AttemptsBudgeted
  <2> QED BY <2>1, <2>2
<1>6. AttemptsAccounted'
  <2> SUFFICES ASSUME NEW s \in Subjects
               PROVE  job'[Run(s)].att <= MaxJobAttempts + asked
                                           + Cardinality({y \in AppliedRetries' : y[1] = s})
    BY DEF AttemptsAccounted
  <2> DEFINE Mine == {y \in AppliedRetries : y[1] = s}
             Mine1 == {y \in AppliedRetries' : y[1] = s}
  <2>1. IsFiniteSet(Mine) /\ Cardinality(Mine) \in Nat
    BY <1>3, FS_Subset, FS_CardinalityType
  <2>2. Mine1 = IF loop[x].act = "retry" /\ x[1] = s THEN Mine \cup {x} ELSE Mine
    BY <1>2
  <2>3. Cardinality(Mine1) = IF loop[x].act = "retry" /\ x[1] = s THEN Cardinality(Mine) + 1 ELSE Cardinality(Mine)
    <3>1. x \notin Mine
      BY <1>2
    <3> HIDE DEF Mine, Mine1
    <3> QED BY <2>1, <2>2, <3>1, FS_AddElement
  <2>4. job[Run(s)].att <= MaxJobAttempts + asked + Cardinality(Mine)
    BY DEF Budget, AttemptsBudgeted, AttemptsAccounted
  <2>5. job[Run(s)].att \in Nat /\ job'[Run(s)].att \in Nat /\ asked \in Nat
    BY OpNames, LoopBoundsAssumption DEF RowsTyped, JobRow, ThreadsTyped
  <2> HIDE DEF Mine, Mine1
  <2>6. job'[Run(s)].att <= MaxJobAttempts + asked + Cardinality(Mine1)
    BY <2>1, <2>3, <2>4, <2>5, StepsTyped
  <2> QED BY <2>6 DEF Mine1
<1>7. ASSUME NEW y \in Sources
      PROVE (/\ loop[y].rev <= wf.rev
             /\ loop[y].st = "proposed" /\ loop[y].act = "retry" /\ loop[y].rev = wf.rev => ~LimitReached)'
  <2>1. loop[y].rev \in Nat /\ wf.rev \in Nat /\ wf'.rev \in Nat /\ loop[y].rev <= wf.rev
    BY DEF RowsTyped, LoopRow, Budget
  <2>2. CASE y = x
    BY <1>1, <2>1, <2>2
  <2>3. CASE y # x /\ loop[x].act = "retry"
    BY <1>1, <2>1, <2>3
  <2>4. CASE y # x /\ loop[x].act # "retry"
    BY <1>1, <1>2, <2>1, <2>4 DEF Budget, LimitReached
  <2> QED BY <2>2, <2>3, <2>4
<1> QED BY <1>5, <1>6, <1>7 DEF Budget, AttemptsBudgeted

\* The decision's own job, once it is carried out.
LEMMA AppliedJob ==
  ASSUME RowsTyped, RowInv, NEW x \in Sources, job[Ctl("apply", x)].st = "leased"
  PROVE  LET jobs == Ended(job, Ctl("apply", x), "succeeded", "none")
         IN  /\ jobs \in [Ops -> JobRow] /\ Ctl("apply", x) \in Ops
             /\ \A o \in Ops \ {Ctl("apply", x)} : jobs[o] = job[o]
             /\ jobs[Ctl("apply", x)].att = job[Ctl("apply", x)].att /\ jobs[Ctl("apply", x)].att > 0
             /\ jobs[Ctl("apply", x)].st = "succeeded" /\ jobs[Ctl("apply", x)].code = "none"
             /\ \A s \in Subjects : Run(s) \in Ops /\ jobs[Run(s)] = job[Run(s)]
<1>1. Ctl("apply", x) \in Ops /\ \A s \in Subjects : Run(s) \in Ops /\ Run(s) # Ctl("apply", x)
  BY OpNames DEF Control
<1>2. job[Ctl("apply", x)].att > 0
  BY <1>1, Attempted DEF RowInv
<1> QED BY <1>1, <1>2, EndedRow DEF RowsTyped, Codes

\* A decision that starts nothing: the workflow stops, or is completed.
LEMMA ConcludeKeeps ==
  ASSUME RowsTyped, ThreadsTyped, RowInv, NEW x \in Sources, job[Ctl("apply", x)].st = "leased", ~wf.cancel,
         loop[x].st = "proposed", loop[x].rev = wf.rev, loop[x].act # "retry",
         loop' = [loop EXCEPT ![x].st = "applied"],
         job' = Ended(job, Ctl("apply", x), "succeeded", "none"),
         \/ wf' = wf \/ wf' = WorkflowMoved("blocked")
         \/ wf' = WorkflowMoved("completed") /\ Completable,
         UNCHANGED <<task, failedRun, passed, asked>>
  PROVE  RowsTyped' /\ RowInv'
<1>1. /\ job' \in [Ops -> JobRow] /\ Ctl("apply", x) \in Ops
      /\ \A o \in Ops \ {Ctl("apply", x)} : job'[o] = job[o]
      /\ job'[Ctl("apply", x)].att = job[Ctl("apply", x)].att /\ job'[Ctl("apply", x)].att > 0
      /\ job'[Ctl("apply", x)].st = "succeeded" /\ job'[Ctl("apply", x)].code = "none"
      /\ \A s \in Subjects : Run(s) \in Ops /\ job'[Run(s)] = job[Run(s)]
  BY AppliedJob, Zenon
<1>2. /\ loop' \in [Sources -> LoopRow] /\ \A y \in Sources \ {x} : loop'[y] = loop[y]
      /\ loop'[x].obs = loop[x].obs /\ loop'[x].st = "applied"
  BY AppliedRow
<1>3. /\ wf' \in [status: Phases, rev: Nat, cancel: BOOLEAN]
      /\ wf'.rev >= wf.rev /\ wf'.cancel = wf.cancel
      /\ wf'.status \in {wf.status, "blocked", "completed"}
      /\ wf'.status = "completed" => wf.status = "completed" \/ Completable
      /\ wf'.status = wf.status \/ wf'.status = "blocked" \/ Completable
  <2>1. wf \in [status: Phases, rev: Nat, cancel: BOOLEAN] /\ wf.rev \in Nat
    BY DEF RowsTyped
  <2>2. CASE wf' = wf
    BY <2>1, <2>2
  <2>3. CASE wf' = WorkflowMoved("blocked")
    BY <2>1, <2>3, MovedRow DEF Phases
  <2>4. CASE wf' = WorkflowMoved("completed") /\ Completable
    BY <2>1, <2>4, MovedRow DEF Phases
  <2> QED BY <2>2, <2>3, <2>4
<1>4. RowsTyped'
  BY <1>1, <1>2, <1>3 DEF RowsTyped
<1>5. \A o \in Ops : job[o].att \in Nat /\ (job[o].att = 0 <=> job[o].st = "absent")
  BY Attempted DEF RowInv
<1>6. wf.status # "cancelled"
  BY DEF RowInv, Flags
<1>7. Rows'
  <2>1. ASSUME NEW o \in Ops
        PROVE  (/\ job[o].st = "absent" <=> job[o].att = 0
                /\ job[o].code = "lost" => job[o].att >= MaxJobAttempts
                /\ job[o].code = "transient" => o[1] = "run" /\ o[2] \in Tasks)'
    BY <1>1, <1>5 DEF RowInv, Rows
  <2> QED BY <2>1 DEF Rows, RowInv
<1>8. TaskJobs'
  BY <1>1, <1>3, <1>6, Names DEF RowInv, TaskJobs, Active, Completable
<1>9. Flags'
  BY <1>1, <1>3, <1>6, Names DEF RowInv, Flags, CancelledStaysEmpty, Completable
<1>10. Budget'
  <2>1. \A s \in Subjects : job'[Run(s)].att <= job[Run(s)].att
    BY <1>1, <1>5
  <2> QED BY <1>3, <1>4, <2>1, AppliedBudget DEF RowInv
<1>11. Order'
  <2>1. \A y \in Sources : loop[y].st = "applied" => loop'[y].st = "applied"
    BY <1>2
  <2>2. \A s \in Tasks : task[s] = "completed" => <<s, job[Run(s)].att>> \in Sources
    BY WithinRuns, Attempted, Names, OpNames DEF RowInv, TaskJobs
  <2> QED BY <1>1, <1>4, <2>1, <2>2, Names, OrderKept DEF RowInv
<1>12. Records'
  <2>1. \A y \in Sources : /\ loop'[y].obs = loop[y].obs
                           /\ \/ loop'[y].st = loop[y].st
                              \/ loop[y].st = "proposed" /\ job'[Ctl("apply", y)].st = "succeeded"
    BY <1>1, <1>2
  <2>2. \A y \in Sources, k \in Control :
            /\ job[Ctl(k, y)].st = "succeeded" => job'[Ctl(k, y)].st = "succeeded"
            /\ job[Ctl(k, y)].att > 0 <=> job'[Ctl(k, y)].att > 0
    BY <1>1, OpNames
  <2>3. \A y \in Sources : Concluded(y)' => Concluded(y)
    BY <1>1, SourceNames DEF Concluded, Newest
  <2> QED BY <1>1, <1>4, <2>1, <2>2, <2>3, RecordsKept DEF RowInv, Control
<1> QED BY <1>4, <1>7, <1>8, <1>9, <1>10, <1>11, <1>12 DEF RowInv

\* The failed step again.
LEMMA ApplyRetryKeeps ==
  ASSUME RowsTyped, ThreadsTyped, RowInv, NEW x \in Sources, job[Ctl("apply", x)].st = "leased", ~wf.cancel,
         loop[x].st = "proposed", loop[x].rev = wf.rev,
         loop' = [loop EXCEPT ![x].st = "applied"],
         ApplyRetry(x, Ended(job, Ctl("apply", x), "succeeded", "none")),
         UNCHANGED <<failedRun, passed, asked>>
  PROVE  RowsTyped' /\ RowInv'
<1> DEFINE s == x[1]
           jobs == Ended(job, Ctl("apply", x), "succeeded", "none")
<1>1. s \in Tasks /\ s \in Subjects /\ s # Review /\ task[s] = "failed" /\ loop[x].act = "retry"
  BY Names DEF ApplyRetry, RowInv, Records
<1>2. /\ jobs \in [Ops -> JobRow] /\ Ctl("apply", x) \in Ops
      /\ \A o \in Ops \ {Ctl("apply", x)} : jobs[o] = job[o]
      /\ jobs[Ctl("apply", x)].att = job[Ctl("apply", x)].att /\ jobs[Ctl("apply", x)].att > 0
      /\ jobs[Ctl("apply", x)].st = "succeeded" /\ jobs[Ctl("apply", x)].code = "none"
      /\ \A k \in Subjects : Run(k) \in Ops /\ jobs[Run(k)] = job[Run(k)]
  BY AppliedJob, Zenon
<1>3. \A o \in Ops : job[o].att \in Nat /\ (job[o].att = 0 <=> job[o].st = "absent")
  BY Attempted DEF RowInv
<1>4. /\ \A t \in Tasks \ {s} : task[t] # "failed"
      /\ job[Run(s)].att > 0 /\ wf.status \in {"blocked", "failed"}
  BY <1>1, Frontier
<1>5. /\ wf' \in [status: Phases, rev: Nat, cancel: BOOLEAN]
      /\ wf'.rev > wf.rev /\ wf'.cancel = wf.cancel /\ wf'.status = "running"
  <2>1. wf.rev \in Nat /\ "running" \in Phases
    BY DEF RowsTyped, Phases
  <2>2. wf' = WorkflowMoved("running")
    BY <1>4 DEF ApplyRetry, RetryPhase
  <2> QED BY <1>4, <2>1, <2>2, MovedRow
<1>6. /\ job' \in [Ops -> JobRow]
      /\ \A o \in Ops \ {Ctl("apply", x), Run(s)} : job'[o] = job[o]
      /\ job'[Ctl("apply", x)] = jobs[Ctl("apply", x)]
      /\ job'[Run(s)].att = job[Run(s)].att + 1 /\ job'[Run(s)].st = "queued" /\ job'[Run(s)].code = "none"
      /\ \A k \in Subjects \ {s} : job'[Run(k)] = job[Run(k)]
  <2>1. job' = Enqueued(jobs, Run(s), job[Run(s)].att + 1)
    BY <1>1, <1>2 DEF ApplyRetry
  <2>2. job[Run(s)].att + 1 \in Nat /\ jobs[Run(s)].att < job[Run(s)].att + 1 /\ Run(s) \in Ops /\ Run(s) # Ctl("apply", x)
    BY <1>1, <1>2, <1>3, OpNames DEF Control
  <2> HIDE DEF jobs
  <2>3. /\ job' \in [Ops -> JobRow] /\ \A o \in Ops \ {Run(s)} : job'[o] = jobs[o]
        /\ job'[Run(s)].att = job[Run(s)].att + 1 /\ job'[Run(s)].st = "queued" /\ job'[Run(s)].code = "none"
    BY <1>2, <2>1, <2>2, EnqueuedRow
  <2> QED BY <1>2, <2>2, <2>3, OpNames
<1>7. /\ loop' \in [Sources -> LoopRow] /\ \A y \in Sources \ {x} : loop'[y] = loop[y]
      /\ loop'[x].obs = loop[x].obs /\ loop'[x].st = "applied"
  BY AppliedRow
<1>8. /\ task' \in [Tasks -> {"pending", "queued", "running", "completed", "failed", "cancelled"}]
      /\ \A t \in Tasks : task'[t] = IF t = s THEN "queued" ELSE task[t]
  BY <1>1 DEF ApplyRetry, RowInv, Rows
<1>9. RowsTyped'
  BY <1>5, <1>6, <1>7, <1>8 DEF RowsTyped, TaskStatuses
<1>10. Rows'
  <2>1. ASSUME NEW o \in Ops
        PROVE  (/\ job[o].st = "absent" <=> job[o].att = 0
                /\ job[o].code = "lost" => job[o].att >= MaxJobAttempts
                /\ job[o].code = "transient" => o[1] = "run" /\ o[2] \in Tasks)'
    BY <1>2, <1>3, <1>6 DEF RowInv, Rows
  <2> QED BY <1>8, <2>1 DEF Rows
<1>11. TaskJobs'
  <2> SUFFICES ASSUME NEW t \in Tasks
      PROVE (/\ task[t] = "pending" => job[Run(t)].att = 0
             /\ job[Run(t)].att = 0 => task[t] \in {"pending", "cancelled"}
             /\ task[t] \in {"queued", "running"} => Active(Run(t))
             /\ (task[t] = "completed" <=> job[Run(t)].st = "succeeded")
             /\ task[t] = "failed" => wf.status \in {"blocked", "failed"}
             /\ task[t] = "cancelled" => wf.status = "cancelled")'
    BY DEF TaskJobs
  <2>1. CASE t = s
    BY <1>3, <1>6, <1>8, <2>1, <1>1, OpNames DEF Active
  <2>2. CASE t # s
    BY <1>4, <1>6, <1>8, <2>2, Names DEF RowInv, TaskJobs, Active
  <2> QED BY <2>1, <2>2
<1>12. Flags'
  BY <1>1, <1>5, <1>6, Names DEF RowInv, Flags, CancelledStaysEmpty
<1>13. Budget'
  <2>1. \A k \in Subjects : job[Run(k)].att \in Nat
    BY <1>2, <1>3
  <2>2. wf.rev \in Nat /\ wf'.rev \in Nat
    BY <1>5 DEF RowsTyped
  <2>3. \A k \in Subjects : \/ job'[Run(k)].att <= job[Run(k)].att \/ job'[Run(k)].att <= MaxJobAttempts
                            \/ k = x[1] /\ loop[x].act = "retry" /\ job'[Run(k)].att <= job[Run(k)].att + 1
    <3> TAKE k \in Subjects
    <3>1. CASE k = s
      BY <1>1, <1>6, <2>1, <3>1
    <3>2. CASE k # s
      <4>1. job'[Run(k)] = job[Run(k)]
        BY <1>6, <3>2
      <4>2. job'[Run(k)].att <= job[Run(k)].att
        BY <2>1, <4>1
      <4> QED BY <4>2
    <3> QED BY <3>1, <3>2
  <2>4. wf'.rev >= wf.rev
    BY <1>5, <2>2
  <2> QED BY <1>1, <1>5, <1>9, <2>3, <2>4, AppliedBudget DEF RowInv
<1>14. Order'
  <2>1. \A y \in Sources : loop[y].st = "applied" => loop'[y].st = "applied"
    BY <1>7
  <2>2. \A t \in Tasks : task[t] = "completed" =>
           /\ <<t, job[Run(t)].att>> \in Sources
           /\ task'[t] = "completed" /\ job'[Run(t)].att = job[Run(t)].att
    <3> TAKE t \in Tasks
    <3> HAVE task[t] = "completed"
    <3>1. t # s /\ t \in Subjects \ {s} /\ Run(t) \in Ops /\ job[Run(t)].st = "succeeded"
      BY <1>1, <1>2, Names DEF RowInv, TaskJobs
    <3>2. job[Run(t)].att > 0
      BY <1>3, <3>1
    <3> QED BY <1>6, <1>8, <3>1, <3>2, WithinRuns DEF RowInv
  <2>3. \A k \in Subjects : job'[Run(k)].att > 0 => job[Run(k)].att > 0
    BY <1>4, <1>6
  <2> QED BY <1>9, <2>1, <2>2, <2>3, OrderKept DEF RowInv
<1>15. Records'
  <2>1. \A y \in Sources : /\ loop'[y].obs = loop[y].obs
                           /\ \/ loop'[y].st = loop[y].st
                              \/ loop[y].st = "proposed" /\ job'[Ctl("apply", y)].st = "succeeded"
    BY <1>2, <1>6, <1>7
  <2>2. \A y \in Sources, k \in Control :
            /\ job[Ctl(k, y)].st = "succeeded" => job'[Ctl(k, y)].st = "succeeded"
            /\ job[Ctl(k, y)].att > 0 <=> job'[Ctl(k, y)].att > 0
    BY <1>2, <1>6, OpNames
  <2>3. \A y \in Sources : Concluded(y)' => Concluded(y)
    BY <1>6, SourceNames DEF Concluded, Newest
  <2>4. job[Run(s)].st # "succeeded"
    BY <1>1 DEF RowInv, TaskJobs
  <2>5. \A k \in Subjects :
            \/ /\ job'[Run(k)].att = job[Run(k)].att
               /\ job[Run(k)].st \in {"succeeded", "failed"} => job'[Run(k)].st = job[Run(k)].st
            \/ /\ job'[Run(k)].att > job[Run(k)].att /\ job[Run(k)].st # "succeeded"
    BY <1>2, <1>3, <1>6, <2>4
  <2>6. \A t \in Tasks : task[t] = "completed" => task'[t] = "completed"
    BY <1>1, <1>8
  <2> QED BY <1>9, <2>1, <2>2, <2>3, <2>5, <2>6, RecordsKept DEF RowInv, Control
<1> QED BY <1>9, <1>10, <1>11, <1>12, <1>13, <1>14, <1>15 DEF RowInv

\* What may continue is the step right after the last one that began, which is completed.
LEMMA NextInOrder ==
  ASSUME RowsTyped, RowInv, NEW x \in Sources, loop[x].st = "proposed", ~wf.cancel, "continue" \in Allowed(x)
  PROVE  /\ x[1] \in Tasks /\ Newest(x) /\ task[x[1]] = "completed" /\ job[Run(x[1])].att > 0
         /\ NextStep(x) = x[1] + 1 /\ NextStep(x) \in Subjects
         /\ job[Run(NextStep(x))].att = 0
         /\ NextStep(x) # Review => NextStep(x) \in Tasks /\ task[NextStep(x)] = "pending"
         /\ \A t \in Tasks : t < NextStep(x) => task[t] = "completed"
<1> DEFINE s == x[1]
           pending == {t \in Tasks : task[t] = "pending"}
<1>1. loop[x].obs = "output" /\ NextStep(x) # 0
  BY DEF Allowed
<1>2. s \in Tasks /\ Newest(x) /\ task[s] = "completed" /\ s \in Subjects
  BY <1>1, Names DEF RowInv, Records
<1>3. \A o \in Ops : job[o].att \in Nat /\ (job[o].att = 0 <=> job[o].st = "absent")
  BY Attempted DEF RowInv
<1>4. job[Run(s)].st = "succeeded" /\ job[Run(s)].att > 0
  BY <1>2, <1>3, OpNames DEF RowInv, TaskJobs
<1>5. \A k \in Subjects : k > s => job[Run(k)].att = 0
  <2> SUFFICES ASSUME NEW k \in Subjects, k > s, job[Run(k)].att # 0 PROVE FALSE
    OBVIOUS
  <2>1. job[Run(k)].att > 0
    BY <1>3, OpNames
  <2>2. x = <<s, job[Run(s)].att>>
    BY <1>2, SourceNames DEF Newest
  <2>3. s < k
    BY <1>2, Names
  <2>4. loop[<<s, job[Run(s)].att>>].st = "applied"
    BY <1>2, <2>1, <2>3 DEF RowInv, Order
  <2> QED BY <2>2, <2>4, Zenon
<1>6. \A t \in Tasks : t > s => task[t] = "pending"
  <2> TAKE t \in Tasks
  <2> HAVE t > s
  <2>1. job[Run(t)].att = 0
    BY <1>5, Names
  <2>2. wf.status # "cancelled"
    BY DEF RowInv, Flags
  <2> QED BY <2>1, <2>2 DEF RowInv, TaskJobs
<1>7. \A t \in Tasks : t <= s => task[t] = "completed"
  <2> TAKE t \in Tasks
  <2> HAVE t <= s
  <2>1. CASE t = s
    BY <1>2, <2>1
  <2>2. CASE t # s
    <3>1. t < s
      BY <1>2, <2>2, Names
    <3> QED BY <1>2, <1>4, <3>1 DEF RowInv, Order
  <2> QED BY <2>1, <2>2
<1>8. s \in Nat /\ s <= Steps /\ Steps \in Nat /\ Review = Steps + 1 /\ s + 1 \in Subjects
  BY <1>2, StepsTyped DEF Tasks, Review, Subjects
<1>9. CASE s < Steps
  <2>1. s + 1 \in Tasks /\ s + 1 \in pending
    BY <1>6, <1>8, <1>9 DEF Tasks
  <2>2. \A t \in pending : t \in Nat /\ s + 1 <= t
    BY <1>2, <1>7, <1>8, Names
  <2>3. NextStep(x) = CHOOSE t \in pending : \A k \in pending : t <= k
    BY <1>1, <2>1 DEF NextStep
  <2>4. \E t \in pending : \A k \in pending : t <= k
    BY <2>1, <2>2
  <2>5. NextStep(x) \in pending /\ \A k \in pending : NextStep(x) <= k
    <3> HIDE DEF pending
    <3> QED BY <2>3, <2>4
  <2>6. NextStep(x) = s + 1
    <3>1. NextStep(x) \in Nat /\ s + 1 <= NextStep(x) /\ NextStep(x) <= s + 1
      BY <2>1, <2>2, <2>5
    <3> QED BY <1>8, <3>1
  <2> QED BY <1>2, <1>4, <1>5, <1>6, <1>7, <1>8, <2>1, <2>6, Names
<1>10. CASE s = Steps
  <2>1. pending = {}
    BY <1>7, <1>10 DEF Tasks
  <2>2. NextStep(x) = Review
    BY <1>1, <2>1 DEF NextStep
  <2> QED BY <1>2, <1>4, <1>5, <1>7, <1>8, <1>10, <2>2, Names
<1> QED BY <1>8, <1>9, <1>10

\* The next step, or the review, begins.
LEMMA ApplyContinueKeeps ==
  ASSUME RowsTyped, ThreadsTyped, RowInv, NEW x \in Sources, job[Ctl("apply", x)].st = "leased", ~wf.cancel,
         loop[x].st = "proposed", loop[x].rev = wf.rev,
         loop' = [loop EXCEPT ![x].st = "applied"],
         ApplyContinue(x, Ended(job, Ctl("apply", x), "succeeded", "none")),
         UNCHANGED <<failedRun, passed, asked>>
  PROVE  RowsTyped' /\ RowInv'
<1> DEFINE s == x[1]
           jobs == Ended(job, Ctl("apply", x), "succeeded", "none")
<1>0. PICK next : next = NextStep(x)
  OBVIOUS
<1>1. /\ s \in Tasks /\ Newest(x) /\ task[s] = "completed" /\ job[Run(s)].att > 0
      /\ next = s + 1 /\ next \in Subjects
      /\ job[Run(next)].att = 0
      /\ next # Review => next \in Tasks /\ task[next] = "pending"
      /\ \A t \in Tasks : t < next => task[t] = "completed"
  BY <1>0, NextInOrder DEF ApplyContinue
<1>2. /\ jobs \in [Ops -> JobRow] /\ Ctl("apply", x) \in Ops
      /\ \A o \in Ops \ {Ctl("apply", x)} : jobs[o] = job[o]
      /\ jobs[Ctl("apply", x)].att = job[Ctl("apply", x)].att /\ jobs[Ctl("apply", x)].att > 0
      /\ jobs[Ctl("apply", x)].st = "succeeded" /\ jobs[Ctl("apply", x)].code = "none"
      /\ \A k \in Subjects : Run(k) \in Ops /\ jobs[Run(k)] = job[Run(k)]
  BY AppliedJob, Zenon
<1>3. \A o \in Ops : job[o].att \in Nat /\ (job[o].att = 0 <=> job[o].st = "absent")
  BY Attempted DEF RowInv
<1>4. wf.status # "cancelled" /\ loop[x].act = "continue"
  BY DEF RowInv, Flags, ApplyContinue
<1>5. /\ wf' \in [status: Phases, rev: Nat, cancel: BOOLEAN]
      /\ wf'.rev >= wf.rev /\ wf'.cancel = wf.cancel
      /\ wf'.status # wf.status => next = Review /\ wf'.status = "reviewing"
  <2>1. wf \in [status: Phases, rev: Nat, cancel: BOOLEAN] /\ wf.rev \in Nat /\ "reviewing" \in Phases
    BY DEF RowsTyped, Phases
  <2>2. CASE wf' = wf
    BY <2>1, <2>2
  <2>3. CASE wf' = WorkflowMoved("reviewing") /\ next = Review
    BY <2>1, <2>3, MovedRow
  <2> QED BY <1>0, <2>2, <2>3 DEF ApplyContinue
<1>6. /\ job' \in [Ops -> JobRow]
      /\ \A o \in Ops \ {Ctl("apply", x), Run(next)} : job'[o] = job[o]
      /\ job'[Ctl("apply", x)] = jobs[Ctl("apply", x)]
      /\ job'[Run(next)].att = 1 /\ job'[Run(next)].st = "queued" /\ job'[Run(next)].code = "none"
      /\ \A k \in Subjects \ {next} : job'[Run(k)] = job[Run(k)]
  <2>1. job' = Enqueued(jobs, Run(next), 1)
    BY <1>0 DEF ApplyContinue
  <2>2. jobs[Run(next)].att < 1 /\ Run(next) \in Ops /\ Run(next) # Ctl("apply", x)
    BY <1>1, <1>2, OpNames DEF Control
  <2> HIDE DEF jobs
  <2>3. /\ job' \in [Ops -> JobRow] /\ \A o \in Ops \ {Run(next)} : job'[o] = jobs[o]
        /\ job'[Run(next)].att = 1 /\ job'[Run(next)].st = "queued" /\ job'[Run(next)].code = "none"
    BY <1>2, <2>1, <2>2, EnqueuedRow
  <2> QED BY <1>2, <2>2, <2>3, OpNames
<1>7. /\ loop' \in [Sources -> LoopRow] /\ \A y \in Sources \ {x} : loop'[y] = loop[y]
      /\ loop'[x].obs = loop[x].obs /\ loop'[x].st = "applied"
  BY AppliedRow
<1>8. /\ task' \in [Tasks -> {"pending", "queued", "running", "completed", "failed", "cancelled"}]
      /\ \A t \in Tasks : task'[t] = IF t = next THEN "queued" ELSE task[t]
  <2>1. task \in [Tasks -> {"pending", "queued", "running", "completed", "failed", "cancelled"}]
    BY DEF RowInv, Rows
  <2>2. CASE next = Review
    BY <1>0, <2>1, <2>2, Names DEF ApplyContinue
  <2>3. CASE next # Review
    BY <1>0, <1>1, <2>1, <2>3 DEF ApplyContinue
  <2> QED BY <2>2, <2>3
<1>9. RowsTyped'
  BY <1>5, <1>6, <1>7, <1>8 DEF RowsTyped, TaskStatuses
<1>10. Rows'
  <2>1. ASSUME NEW o \in Ops
        PROVE  (/\ job[o].st = "absent" <=> job[o].att = 0
                /\ job[o].code = "lost" => job[o].att >= MaxJobAttempts
                /\ job[o].code = "transient" => o[1] = "run" /\ o[2] \in Tasks)'
    BY <1>2, <1>3, <1>6 DEF RowInv, Rows
  <2> QED BY <1>8, <2>1 DEF Rows
<1>11. next = Review => \A t \in Tasks : task[t] = "completed"
  BY <1>1, Names
<1>12. TaskJobs'
  <2> SUFFICES ASSUME NEW t \in Tasks
      PROVE (/\ task[t] = "pending" => job[Run(t)].att = 0
             /\ job[Run(t)].att = 0 => task[t] \in {"pending", "cancelled"}
             /\ task[t] \in {"queued", "running"} => Active(Run(t))
             /\ (task[t] = "completed" <=> job[Run(t)].st = "succeeded")
             /\ task[t] = "failed" => wf.status \in {"blocked", "failed"}
             /\ task[t] = "cancelled" => wf.status = "cancelled")'
    BY DEF TaskJobs
  <2>1. CASE t = next
    BY <1>6, <1>8, <2>1 DEF Active
  <2>2. CASE t # next
    BY <1>4, <1>5, <1>6, <1>8, <1>11, <2>2, Names DEF RowInv, TaskJobs, Active
  <2> QED BY <2>1, <2>2
<1>13. Flags'
  <2>1. passed => next # Review
    BY <1>1, <1>3, <1>2, Names DEF RowInv, Flags
  <2>2. passed' => job'[Run(Review)].st = "succeeded"
    BY <1>6, <2>1, Names DEF RowInv, Flags
  <2>3. wf'.status # "cancelled" /\ (wf'.status = "completed" => passed)
    BY <1>4, <1>5 DEF RowInv, Flags
  <2> QED BY <1>5, <2>2, <2>3 DEF Flags, CancelledStaysEmpty
<1>14. Budget'
  <2>1. \A k \in Subjects : \/ job'[Run(k)].att <= job[Run(k)].att \/ job'[Run(k)].att <= MaxJobAttempts
                            \/ k = x[1] /\ loop[x].act = "retry" /\ job'[Run(k)].att <= job[Run(k)].att + 1
    <3> TAKE k \in Subjects
    <3>1. CASE k = next
      BY <1>6, <3>1, StepsTyped
    <3>2. CASE k # next
      <4>1. job'[Run(k)] = job[Run(k)] /\ job[Run(k)].att \in Nat
        BY <1>2, <1>3, <1>6, <3>2
      <4> QED BY <4>1
    <3> QED BY <3>1, <3>2
  <2> QED BY <1>4, <1>5, <1>9, <2>1, AppliedBudget DEF RowInv
<1>15. Order'
  <2> SUFFICES ASSUME NEW t \in Tasks, NEW k \in Subjects, t < k, job'[Run(k)].att > 0
               PROVE  task'[t] = "completed" /\ loop'[<<t, job'[Run(t)].att>>].st = "applied"
    BY DEF Order
  <2>1. t \in Subjects /\ t \in Nat /\ s \in Subjects /\ s \in Nat /\ k \in Nat
    BY <1>1, Names
  <2>2. CASE t = s
    <3>1. x = <<s, job[Run(s)].att>>
      BY <1>1, SourceNames DEF Newest
    <3>2. s # next
      BY <1>1, <2>1
    <3>3. job'[Run(s)] = job[Run(s)] /\ task'[s] = "completed"
      BY <1>1, <1>6, <1>8, <2>1, <3>2
    <3>4. loop'[<<s, job'[Run(s)].att>>].st = "applied"
      BY <1>7, <3>1, <3>3, Zenon
    <3> QED BY <2>2, <3>3, <3>4
  <2>3. CASE t # s
    <3>1. PICK j \in Subjects : t < j /\ job[Run(j)].att > 0
      <4>1. CASE k = next
        BY <1>1, <2>1, <2>3, <4>1
      <4>2. CASE k # next
        BY <1>6, <4>2
      <4> QED BY <4>1, <4>2
    <3>2. task[t] = "completed" /\ loop[<<t, job[Run(t)].att>>].st = "applied"
      BY <3>1 DEF RowInv, Order
    <3>3. t # next
      BY <1>1, <3>2, Names
    <3>4. job'[Run(t)] = job[Run(t)] /\ task'[t] = "completed"
      BY <1>6, <1>8, <2>1, <3>2, <3>3
    <3>5. job[Run(t)].st = "succeeded" /\ job[Run(t)].att > 0
      BY <1>2, <1>3, <2>1, <3>2 DEF RowInv, TaskJobs
    <3>6. <<t, job[Run(t)].att>> \in Sources
      BY <2>1, <3>5, WithinRuns DEF RowInv
    <3>7. loop'[<<t, job[Run(t)].att>>].st = "applied"
      BY <1>7, <3>2, <3>6
    <3> QED BY <3>4, <3>7
  <2> QED BY <2>2, <2>3
<1>16. Records'
  <2>1. \A y \in Sources : /\ loop'[y].obs = loop[y].obs
                           /\ \/ loop'[y].st = loop[y].st
                              \/ loop[y].st = "proposed" /\ job'[Ctl("apply", y)].st = "succeeded"
    BY <1>2, <1>6, <1>7
  <2>2. \A y \in Sources, k \in Control :
            /\ job[Ctl(k, y)].st = "succeeded" => job'[Ctl(k, y)].st = "succeeded"
            /\ job[Ctl(k, y)].att > 0 <=> job'[Ctl(k, y)].att > 0
    BY <1>2, <1>6, OpNames
  <2>3. \A y \in Sources : Concluded(y)' => Concluded(y)
    BY <1>6, SourceNames DEF Concluded, Newest
  <2>4. \A k \in Subjects :
            \/ /\ job'[Run(k)].att = job[Run(k)].att
               /\ job[Run(k)].st \in {"succeeded", "failed"} => job'[Run(k)].st = job[Run(k)].st
            \/ /\ job'[Run(k)].att > job[Run(k)].att /\ job[Run(k)].st # "succeeded"
    BY <1>1, <1>2, <1>3, <1>6
  <2>5. \A t \in Tasks : task[t] = "completed" => task'[t] = "completed"
    BY <1>1, <1>8, Names
  <2> QED BY <1>9, <2>1, <2>2, <2>3, <2>4, <2>5, RecordsKept DEF RowInv, Control
<1> QED BY <1>9, <1>10, <1>12, <1>13, <1>14, <1>15, <1>16 DEF RowInv

-----------------------------------------------------------------------------
(* What the user's requests write. *)

LEMMA RetryKeeps ==
  ASSUME RowsTyped, ThreadsTyped, RowInv, RetryWorkflow
  PROVE  RowsTyped' /\ RowInv'
<1> DEFINE s == failedRun
<1>1. /\ s \in Subjects /\ job[Run(s)].st = "failed" /\ wf.status = "failed"
      /\ s \in Tasks => task[s] = "failed"
  BY DEF RetryWorkflow, RowsTyped, Subjects
<1>2. /\ \A o \in Ops : job[o].att \in Nat /\ (job[o].att = 0 <=> job[o].st = "absent")
      /\ \A k \in Subjects : Run(k) \in Ops
  BY Attempted, OpNames DEF RowInv
<1>3. job[Run(s)].att > 0
  BY <1>1, <1>2
<1>4. \A t \in Tasks \ {s} : task[t] # "failed"
  <2>1. CASE s \in Tasks
    BY <1>1, <2>1, Frontier
  <2>2. CASE s = Review
    <3>1. \A t \in Tasks : task[t] = "completed"
      BY <1>3, <2>2, Names DEF RowInv, Order
    <3> QED BY <3>1
  <2> QED BY <1>1, <2>1, <2>2, Names
<1>5. /\ wf' \in [status: Phases, rev: Nat, cancel: BOOLEAN]
      /\ wf'.rev > wf.rev /\ wf'.cancel = wf.cancel /\ wf'.status \in {"running", "reviewing"}
  <2> DEFINE status == IF s = Review THEN "reviewing" ELSE "running"
  <2>1. wf.rev \in Nat /\ status \in Phases /\ status \in {"running", "reviewing"}
    BY DEF RowsTyped, Phases
  <2>2. wf' = WorkflowMoved(status)
    BY DEF RetryWorkflow
  <2> HIDE DEF status
  <2>3. /\ WorkflowMoved(status) \in [status: Phases, rev: Nat, cancel: BOOLEAN]
        /\ WorkflowMoved(status).status = status /\ WorkflowMoved(status).cancel = wf.cancel
        /\ WorkflowMoved(status).rev = IF wf.status = status THEN wf.rev ELSE wf.rev + 1
    BY <2>1, MovedRow
  <2>4. wf.status # status
    BY <1>1, <2>1
  <2> QED BY <2>1, <2>2, <2>3, <2>4
<1>6. /\ job' \in [Ops -> JobRow]
      /\ \A o \in Ops \ {Run(s)} : job'[o] = job[o]
      /\ job'[Run(s)].att = job[Run(s)].att + 1 /\ job'[Run(s)].st = "queued" /\ job'[Run(s)].code = "none"
      /\ \A k \in Subjects \ {s} : job'[Run(k)] = job[Run(k)]
  <2>1. job' = Enqueued(job, Run(s), job[Run(s)].att + 1) /\ job \in [Ops -> JobRow]
    BY DEF RetryWorkflow, RowsTyped
  <2>2. job[Run(s)].att + 1 \in Nat /\ job[Run(s)].att < job[Run(s)].att + 1 /\ Run(s) \in Ops
    BY <1>1, <1>2
  <2>3. /\ job' \in [Ops -> JobRow] /\ \A o \in Ops \ {Run(s)} : job'[o] = job[o]
        /\ job'[Run(s)].att = job[Run(s)].att + 1 /\ job'[Run(s)].st = "queued" /\ job'[Run(s)].code = "none"
    BY <1>2, <2>1, <2>2, EnqueuedRow
  <2> QED BY <1>2, <2>3, OpNames
<1>7. UNCHANGED <<failedRun, passed, loop>> /\ asked' = asked + 1 /\ asked \in Nat
  BY LoopBoundsAssumption DEF RetryWorkflow, ThreadsTyped
<1>8. /\ task' \in [Tasks -> {"pending", "queued", "running", "completed", "failed", "cancelled"}]
      /\ \A t \in Tasks : task'[t] = IF t = s THEN "queued" ELSE task[t]
  BY DEF RetryWorkflow, RowInv, Rows
<1>9. RowsTyped'
  BY <1>5, <1>6, <1>7, <1>8 DEF RowsTyped, TaskStatuses
<1>10. Rows'
  <2>1. ASSUME NEW o \in Ops
        PROVE  (/\ job[o].st = "absent" <=> job[o].att = 0
                /\ job[o].code = "lost" => job[o].att >= MaxJobAttempts
                /\ job[o].code = "transient" => o[1] = "run" /\ o[2] \in Tasks)'
    BY <1>2, <1>6 DEF RowInv, Rows
  <2> QED BY <1>8, <2>1 DEF Rows
<1>11. TaskJobs'
  <2> SUFFICES ASSUME NEW t \in Tasks
      PROVE (/\ task[t] = "pending" => job[Run(t)].att = 0
             /\ job[Run(t)].att = 0 => task[t] \in {"pending", "cancelled"}
             /\ task[t] \in {"queued", "running"} => Active(Run(t))
             /\ (task[t] = "completed" <=> job[Run(t)].st = "succeeded")
             /\ task[t] = "failed" => wf.status \in {"blocked", "failed"}
             /\ task[t] = "cancelled" => wf.status = "cancelled")'
    BY DEF TaskJobs
  <2>1. CASE t = s
    BY <1>1, <1>2, <1>6, <1>8, <2>1 DEF Active
  <2>2. CASE t # s
    BY <1>1, <1>4, <1>6, <1>8, <2>2, Names DEF RowInv, TaskJobs, Active
  <2> QED BY <2>1, <2>2
<1>12. Flags'
  <2>1. passed => job'[Run(Review)].st = "succeeded"
    BY <1>1, <1>6, Names DEF RowInv, Flags
  <2>2. wf.cancel => ~NoneLeased
    BY <1>1 DEF RowInv, Flags, WorkflowTerminal
  <2>3. NoneLeased' => NoneLeased
    BY <1>1, <1>6 DEF NoneLeased
  <2> QED BY <1>5, <1>7, <2>1, <2>2, <2>3 DEF Flags, CancelledStaysEmpty
<1>13. Budget'
  <2>1. AppliedRetries' = AppliedRetries
    BY <1>7 DEF AppliedRetries
  <2>2. RetriesBounded'
    BY <2>1 DEF RetriesBounded, RowInv, Budget, AttemptsBudgeted
  <2>3. AttemptsAccounted'
    <3> SUFFICES ASSUME NEW k \in Subjects
                 PROVE  job'[Run(k)].att <= MaxJobAttempts + asked'
                                             + Cardinality({x \in AppliedRetries : x[1] = k})
      BY <2>1 DEF AttemptsAccounted
    <3> DEFINE n == Cardinality({x \in AppliedRetries : x[1] = k})
    <3>1. n \in Nat
      <4>1. {x \in AppliedRetries : x[1] = k} \in SUBSET Sources
        BY DEF AppliedRetries
      <4> QED BY <4>1, OpsFinite, FS_Subset, FS_CardinalityType
    <3>2. job[Run(k)].att <= MaxJobAttempts + asked + n /\ job[Run(k)].att \in Nat
      BY <1>2 DEF RowInv, Budget, AttemptsBudgeted, AttemptsAccounted
    <3>3. job'[Run(k)].att <= job[Run(k)].att + 1
      <4>1. CASE k = s
        BY <1>6, <3>2, <4>1
      <4>2. CASE k # s
        <5>1. job'[Run(k)] = job[Run(k)]
          BY <1>6, <4>2
        <5> QED BY <3>2, <5>1
      <4> QED BY <4>1, <4>2
    <3>4. job'[Run(k)].att \in Nat
      BY <1>2, <1>6 DEF JobRow
    <3> HIDE DEF n
    <3>5. job'[Run(k)].att <= MaxJobAttempts + asked' + n
      BY <1>7, <3>1, <3>2, <3>3, <3>4, StepsTyped
    <3> QED BY <3>5 DEF n
  <2>4. ASSUME NEW y \in Sources
        PROVE (/\ loop[y].rev <= wf.rev
               /\ loop[y].st = "proposed" /\ loop[y].act = "retry" /\ loop[y].rev = wf.rev => ~LimitReached)'
    <3>1. loop[y].rev \in Nat /\ wf.rev \in Nat /\ wf'.rev \in Nat /\ loop[y].rev <= wf.rev
      BY <1>5 DEF RowsTyped, LoopRow, RowInv, Budget
    <3> QED BY <1>5, <1>7, <3>1
  <2> QED BY <2>2, <2>3, <2>4 DEF Budget, AttemptsBudgeted
<1>14. Order'
  <2>1. \A t \in Tasks : task[t] = "completed" =>
           /\ <<t, job[Run(t)].att>> \in Sources
           /\ task'[t] = "completed" /\ job'[Run(t)].att = job[Run(t)].att
    <3> TAKE t \in Tasks
    <3> HAVE task[t] = "completed"
    <3>1. t # s /\ t \in Subjects \ {s} /\ Run(t) \in Ops /\ job[Run(t)].st = "succeeded"
      BY <1>1, <1>2, Names DEF RowInv, TaskJobs
    <3>2. job[Run(t)].att > 0
      BY <1>2, <3>1
    <3> QED BY <1>6, <1>8, <3>1, <3>2, WithinRuns DEF RowInv
  <2>2. \A k \in Subjects : job'[Run(k)].att > 0 => job[Run(k)].att > 0
    BY <1>3, <1>6
  <2> QED BY <1>7, <1>9, <2>1, <2>2, OrderKept DEF RowInv
<1>15. Records'
  <2>1. \A y \in Sources, k \in Control :
            /\ job[Ctl(k, y)].st = "succeeded" => job'[Ctl(k, y)].st = "succeeded"
            /\ job[Ctl(k, y)].att > 0 <=> job'[Ctl(k, y)].att > 0
    BY <1>6, OpNames
  <2>2. \A y \in Sources : Concluded(y)' => Concluded(y)
    BY <1>6, <1>7, SourceNames DEF Concluded, Newest
  <2>3. \A k \in Subjects :
            \/ /\ job'[Run(k)].att = job[Run(k)].att
               /\ job[Run(k)].st \in {"succeeded", "failed"} => job'[Run(k)].st = job[Run(k)].st
            \/ /\ job'[Run(k)].att > job[Run(k)].att /\ job[Run(k)].st # "succeeded"
    BY <1>1, <1>2, <1>6
  <2>4. \A t \in Tasks : task[t] = "completed" => task'[t] = "completed"
    BY <1>1, <1>8, Names
  <2> QED BY <1>7, <1>9, <2>1, <2>2, <2>3, <2>4, RecordsKept DEF RowInv, Control
<1> QED BY <1>9, <1>10, <1>11, <1>12, <1>13, <1>14, <1>15 DEF RowInv

LEMMA RequestKeeps ==
  ASSUME RowsTyped, ThreadsTyped, RowInv, RequestCancel
  PROVE  RowsTyped' /\ RowInv'
<1>1. UNCHANGED <<failedRun, passed, loop, asked>> /\ ~wf.cancel /\ wf.status \notin {"cancelled", "completed"}
  BY DEF RequestCancel, bounds
<1>2. wf \in [status: Phases, rev: Nat, cancel: BOOLEAN] /\ wf.rev \in Nat /\ job \in [Ops -> JobRow]
  BY DEF RowsTyped
<1>3. CASE NoneLeased
  <2>1. /\ job' = [op \in Ops |-> IF job[op].st = "queued"
                                  THEN [job[op] EXCEPT !.st = "cancelled", !.pos = 0] ELSE job[op]]
        /\ task' = [s \in Tasks |-> IF task[s] \in TaskCancellable THEN "cancelled" ELSE task[s]]
        /\ wf' = [status |-> "cancelled", rev |-> wf.rev + 2, cancel |-> TRUE]
    BY <1>3 DEF RequestCancel
  <2>2. /\ job' \in [Ops -> JobRow]
        /\ \A op \in Ops : /\ job'[op].att = job[op].att /\ job'[op].code = job[op].code
                           /\ job'[op].st = IF job[op].st = "queued" THEN "cancelled" ELSE job[op].st
    BY <1>2, <2>1, EmptiedRow, Zenon
  <2>3. /\ wf' \in [status: Phases, rev: Nat, cancel: BOOLEAN]
        /\ wf'.status = "cancelled" /\ wf'.cancel /\ wf'.rev >= wf.rev
    <3>1. wf.rev + 2 \in Nat /\ "cancelled" \in Phases
      BY <1>2 DEF Phases
    <3>2. wf' \in [status: Phases, rev: Nat, cancel: BOOLEAN]
      BY <2>1, <3>1
    <3>3. wf'.status = "cancelled" /\ wf'.rev = wf.rev + 2 /\ wf'.cancel = TRUE
      BY <2>1
    <3>4. wf'.rev >= wf.rev
      BY <1>2, <3>3
    <3> QED BY <3>2, <3>3, <3>4
  <2>4. RowsTyped'
    BY <1>1, <2>1, <2>2, <2>3 DEF RowsTyped, TaskStatuses
  <2>5. {} \in SUBSET Ops /\ \A o \in {} : job[o].st = "leased"
    OBVIOUS
  <2>6. \A o \in Ops : /\ job'[o].att = job[o].att
                       /\ job'[o].st = IF o \in {} \/ job[o].st = "queued" THEN "cancelled" ELSE job[o].st
                       /\ job'[o].code \in {"none", job[o].code}
    BY <2>2
  <2>7. \A s \in Tasks : task'[s] = IF task[s] \in TaskCancellable THEN "cancelled" ELSE task[s]
    BY <2>1
  <2> QED BY <1>1, <2>3, <2>4, <2>5, <2>6, <2>7, CancelKeeps
<1>4. CASE ~NoneLeased
  <2>1. wf' = [wf EXCEPT !.cancel = TRUE, !.rev = @ + 1] /\ UNCHANGED <<job, task>>
    BY <1>4 DEF RequestCancel
  <2>2. wf' \in [status: Phases, rev: Nat, cancel: BOOLEAN] /\ wf'.status = wf.status /\ wf'.rev = wf.rev + 1
    <3>1. wf.rev + 1 \in Nat
      BY <1>2
    <3>2. wf'.status = wf.status /\ wf'.rev = wf.rev + 1
      BY <1>2, <2>1
    <3>3. wf' \in [status: Phases, rev: Nat, cancel: BOOLEAN]
      BY <1>2, <2>1, <3>1
    <3> QED BY <3>2, <3>3
  <2>3. RowsTyped'
    BY <1>1, <2>1, <2>2 DEF RowsTyped
  <2>4. Rows' /\ TaskJobs'
    BY <2>1, <2>2 DEF RowInv, Rows, TaskJobs, Active
  <2>5. Flags'
    BY <1>1, <1>4, <2>1, <2>2 DEF RowInv, Flags, CancelledStaysEmpty, NoneLeased
  <2>6. Records' /\ Order' /\ Budget'
    <3>1. \A x \in Sources : Concluded(x)' => Concluded(x)
      BY <1>1, <2>1 DEF Concluded, Newest
    <3>2. wf'.rev >= wf.rev
      BY <1>2, <2>2
    <3> QED BY <1>1, <2>1, <2>3, <3>1, <3>2, LoopKept DEF Control
  <2> QED BY <2>3, <2>4, <2>5, <2>6 DEF RowInv
<1> QED BY <1>3, <1>4

-----------------------------------------------------------------------------
(* The threads. *)

\* A thread that leaves its job is idle or ended, and no other notices.
LEMMA EndsTyped ==
  ASSUME ThreadsTyped, NEW w \in Workers, Return(w) \/ Leave(w)
  PROVE  /\ mode' \in [Workers -> {"down", "booting", "looping", "draining"}]
         /\ pc' \in [Workers -> Labels] /\ loc' \in [Workers -> LocRow]
         /\ pc'[w] \in {"idle", "down"}
         /\ \A v \in Workers \ {w} : pc'[v] = pc[v] /\ loc'[v] = loc[v]
<1>1. NoLoc \in LocRow
  BY Names, OpNames DEF NoLoc, LocRow, Subjects
<1>2. loc' = [loc EXCEPT ![w] = NoLoc]
  BY DEF Return, Leave, Forget
<1>3. loc' \in [Workers -> LocRow] /\ \A v \in Workers \ {w} : loc'[v] = loc[v]
  BY <1>1, <1>2 DEF ThreadsTyped
<1>4. PICK l \in {"idle", "down"} : pc' = [pc EXCEPT ![w] = l]
  BY DEF Return, Leave, Goto
<1>5. pc' \in [Workers -> Labels] /\ pc'[w] = l /\ \A v \in Workers \ {w} : pc'[v] = pc[v]
  BY <1>4 DEF ThreadsTyped, Labels
<1>6. mode' \in [Workers -> {"down", "booting", "looping", "draining"}]
  BY DEF Return, Leave, ThreadsTyped
<1> QED BY <1>3, <1>5, <1>6

LEMMA GotoTyped ==
  ASSUME ThreadsTyped, NEW w \in Workers, NEW l \in Labels, Goto(w, l)
  PROVE  /\ pc' \in [Workers -> Labels] /\ pc'[w] = l
         /\ \A v \in Workers \ {w} : pc'[v] = pc[v]
  BY DEF ThreadsTyped, Goto

LEMMA ThreadsKept ==
  ASSUME ThreadsTyped, UNCHANGED <<gateway, bounds>>,
         mode' \in [Workers -> {"down", "booting", "looping", "draining"}],
         pc' \in [Workers -> Labels], loc' \in [Workers -> LocRow]
  PROVE  ThreadsTyped'
  BY DEF ThreadsTyped, bounds

LEMMA SenderKnown ==
  ASSUME ThreadsTyped, Calls, NEW v \in Workers, pc[v] = "send"
  PROVE  SourceOf(loc[v].op) \in Sources /\ loc[v].op = Ctl("decide", SourceOf(loc[v].op))
<1>1. loc[v].op \in Ops /\ loc[v].op[1] = "decide" /\ "decide" # "run"
  BY DEF ThreadsTyped, LocRow, Calls
<1> QED BY <1>1, OpKinds

\* No thread begins to send, no request is sent or forgotten, and no lease is given.
LEMMA CallsKept ==
  ASSUME RowsTyped, ThreadsTyped, Calls,
         \A v \in Workers : pc'[v] \in {"exec", "send", "called"} => pc'[v] = pc[v] /\ loc'[v] = loc[v],
         \A v \in Workers : pc'[v] \in {"exec", "send"} /\ Holds(v, loc[v].op, loc[v].att)'
             => Holds(v, loc[v].op, loc[v].att),
         \A x \in Sources : /\ loop'[x].calls = loop[x].calls
                            /\ loop[x].calls = 1 => loop'[x].inv # "none",
         \A v \in Workers : pc[v] = "send" /\ pc'[v] = "send" /\ Holds(v, loc[v].op, loc[v].att)
             /\ loop[SourceOf(loc[v].op)].inv # "none" => loop'[SourceOf(loc[v].op)].inv # "none"
  PROVE  Calls'
<1>1. \A v \in Workers : loc[v].op \in Ops /\ (loc[v].op[1] = "decide" => SourceOf(loc[v].op) \in Sources)
  <2> TAKE v \in Workers
  <2>1. loc[v].op \in Ops
    BY DEF ThreadsTyped, LocRow
  <2>2. "decide" # "run"
    OBVIOUS
  <2> QED BY <2>1, <2>2, OpKinds
<1>2. \A x \in Sources : loop'[x].calls <= 1 /\ (loop'[x].calls = 1 => loop'[x].inv # "none")
  BY DEF Calls
<1>3. \A v \in Workers : pc'[v] = "send" => loc'[v].op[1] = "decide" /\ loc'[v].inv = "none"
  BY DEF Calls
<1>4. \A v \in Workers : pc'[v] = "called" => loc'[v].op[1] = "decide"
  BY DEF Calls
<1>5. ASSUME NEW v \in Workers, pc'[v] \in {"exec", "send"}, loc'[v].op[1] = "decide", loc'[v].inv = "none",
             Holds(v, loc[v].op, loc[v].att)'
      PROVE  loop'[SourceOf(loc'[v].op)].calls = 0
  <2>1. pc'[v] = pc[v] /\ loc'[v] = loc[v] /\ Holds(v, loc[v].op, loc[v].att)
    BY <1>5
  <2>2. loop[SourceOf(loc[v].op)].calls = 0
    BY <1>5, <2>1 DEF Calls
  <2> QED BY <1>1, <1>5, <2>1, <2>2
<1>6. ASSUME NEW v \in Workers, pc'[v] = "send", Holds(v, loc[v].op, loc[v].att)'
      PROVE  loop'[SourceOf(loc'[v].op)].inv # "none"
  <2>1. pc'[v] = pc[v] /\ loc'[v] = loc[v] /\ Holds(v, loc[v].op, loc[v].att)
    BY <1>6
  <2>2. loop[SourceOf(loc[v].op)].inv # "none"
    BY <1>6, <2>1 DEF Calls
  <2> QED BY <1>6, <2>1, <2>2
<1> QED BY <1>2, <1>3, <1>4, <1>5, <1>6 DEF Calls

\* No lease is given by a write that leases nothing.
LEMMA NoLease ==
  ASSUME ThreadsTyped,
         \A o \in Ops : job'[o].st = "leased" =>
             job[o].st = "leased" /\ job'[o].att = job[o].att /\ job'[o].tok = job[o].tok,
         \A v \in Workers : pc'[v] \in {"exec", "send", "called"} => pc'[v] = pc[v] /\ loc'[v] = loc[v]
  PROVE  \A v \in Workers : pc'[v] \in {"exec", "send"} /\ Holds(v, loc[v].op, loc[v].att)'
             => Holds(v, loc[v].op, loc[v].att)
<1>1. \A v \in Workers : loc[v].op \in Ops
  BY DEF ThreadsTyped, LocRow
<1> QED BY <1>1 DEF Holds

\* The common case: a write by one thread that leases nothing and keeps the records of the
\* requests, and after which the thread neither holds nor sends.
LEMMA QuietThread ==
  ASSUME RowsTyped, ThreadsTyped, Calls, NEW w \in Workers,
         \A v \in Workers \ {w} : pc'[v] = pc[v] /\ loc'[v] = loc[v],
         pc'[w] \notin {"exec", "send", "called"},
         \A o \in Ops : job'[o].st = "leased" =>
             job[o].st = "leased" /\ job'[o].att = job[o].att /\ job'[o].tok = job[o].tok,
         \A x \in Sources : loop'[x].calls = loop[x].calls /\ loop'[x].inv = loop[x].inv
  PROVE  Calls'
<1>1. \A v \in Workers : pc'[v] \in {"exec", "send", "called"} => pc'[v] = pc[v] /\ loc'[v] = loc[v]
  OBVIOUS
<1>2. \A x \in Sources : /\ loop'[x].calls = loop[x].calls
                         /\ loop[x].calls = 1 => loop'[x].inv # "none"
  BY DEF Calls
<1>3. \A v \in Workers : pc[v] = "send" => SourceOf(loc[v].op) \in Sources
  BY SenderKnown
<1> QED BY <1>1, <1>2, <1>3, NoLease, CallsKept

\* The inductive invariant of the loop.
LInv == RowsTyped /\ ThreadsTyped /\ RowInv /\ Calls

LEMMA RaiseKeeps ==
  ASSUME LInv, NEW w \in Workers, Raise(w), UNCHANGED <<gateway, bounds>>
  PROVE  LInv'
<1>1. UNCHANGED <<wf, task, job, failedRun, passed, loop, mode, loc, asked>>
  BY DEF Raise, rows, bounds
<1>2. RowsTyped' /\ RowInv'
  <2>1. RowsTyped'
    BY <1>1 DEF LInv, RowsTyped
  <2> QED BY <1>1, <2>1, QuietKeeps DEF LInv
<1>3. pc' \in [Workers -> Labels] /\ pc'[w] = "settle" /\ \A v \in Workers \ {w} : pc'[v] = pc[v]
  BY GotoTyped DEF LInv, Raise, Labels
<1>4. ThreadsTyped'
  BY <1>1, <1>3, ThreadsKept DEF LInv, ThreadsTyped
<1>5. Calls'
  BY <1>1, <1>3, QuietThread DEF LInv
<1> QED BY <1>2, <1>4, <1>5 DEF LInv

LEMMA RecoverKeeps == ASSUME LInv, NEW w \in Workers, RecoverExpired(w) PROVE LInv'
<1>1. UNCHANGED <<gateway, bounds>> /\ UNCHANGED asked
  BY DEF RecoverExpired, bounds
<1>2. PICK op \in Ops :
        /\ job[op].st = "leased"
        /\ \/ /\ \/ wf.cancel /\ Cancelled(Ended(job, op, "cancelled", "none"))
                 \/ ~wf.cancel /\ Retried(op) /\ Requeue(op)
                 \/ ~wf.cancel /\ ~Retried(op) /\ FailJob(op, "lost")
              /\ Goto(w, "heal")
              /\ loc' = [loc EXCEPT ![w].op = op]
              /\ UNCHANGED mode
           \/ /\ job' = [job EXCEPT ![op].tok = w]
              /\ Leave(w)
              /\ UNCHANGED <<wf, task, failedRun, passed, loop>>
  BY DEF RecoverExpired, Due
<1>3. CASE /\ \/ wf.cancel /\ Cancelled(Ended(job, op, "cancelled", "none"))
              \/ ~wf.cancel /\ Retried(op) /\ Requeue(op)
              \/ ~wf.cancel /\ ~Retried(op) /\ FailJob(op, "lost")
           /\ Goto(w, "heal")
           /\ loc' = [loc EXCEPT ![w].op = op]
           /\ UNCHANGED mode
  <2>1. /\ RowsTyped' /\ RowInv'
        /\ \A o \in Ops : job'[o].st = "leased" => job'[o] = job[o]
        /\ UNCHANGED loop
    <3>1. CASE wf.cancel /\ Cancelled(Ended(job, op, "cancelled", "none"))
      BY <1>1, <1>2, <3>1, CancelledKeeps, CancelledWrite DEF LInv
    <3>2. CASE ~wf.cancel /\ Retried(op) /\ Requeue(op)
      BY <1>1, <1>2, <3>2, RequeueKeeps, RequeueWrite DEF LInv
    <3>3. CASE ~wf.cancel /\ ~Retried(op) /\ FailJob(op, "lost")
      <4>1. "lost" \in Codes
        BY DEF Codes
      <4> QED BY <1>1, <1>2, <3>3, <4>1, FailKeeps, FailWrite DEF LInv
    <3> QED BY <1>3, <3>1, <3>2, <3>3
  <2>2. pc' \in [Workers -> Labels] /\ pc'[w] = "heal" /\ \A v \in Workers \ {w} : pc'[v] = pc[v]
    BY <1>3, GotoTyped DEF LInv, Labels
  <2>3. loc' \in [Workers -> LocRow] /\ \A v \in Workers \ {w} : loc'[v] = loc[v]
    BY <1>3 DEF LInv, ThreadsTyped, LocRow
  <2>4. ThreadsTyped'
    BY <1>1, <1>3, <2>2, <2>3, ThreadsKept DEF LInv, ThreadsTyped
  <2>5. Calls'
    BY <2>1, <2>2, <2>3, QuietThread DEF LInv
  <2> QED BY <2>1, <2>4, <2>5 DEF LInv
<1>4. CASE /\ job' = [job EXCEPT ![op].tok = w]
           /\ Leave(w)
           /\ UNCHANGED <<wf, task, failedRun, passed, loop>>
  <2>1. /\ job' \in [Ops -> JobRow] /\ \A o \in Ops \ {op} : job'[o] = job[o]
        /\ job'[op].att = job[op].att /\ job'[op].st = job[op].st /\ job'[op].code = job[op].code /\ job'[op].tok = w
    <3> DEFINE row == [job[op] EXCEPT !.tok = w]
    <3>1. job[op] \in JobRow
      BY DEF LInv, RowsTyped
    <3>2. row \in JobRow /\ row.att = job[op].att /\ row.st = job[op].st /\ row.code = job[op].code /\ row.tok = w
      BY <3>1 DEF JobRow
    <3>3. job' = [job EXCEPT ![op] = row] /\ job \in [Ops -> JobRow]
      BY <1>4 DEF LInv, RowsTyped
    <3> HIDE DEF row
    <3> QED BY <3>2, <3>3
  <2>2. RowsTyped'
    BY <1>4, <2>1 DEF LInv, RowsTyped
  <2>3. RowInv'
    BY <1>1, <1>4, <2>1, <2>2, QuietKeeps DEF LInv
  <2>4. /\ mode' \in [Workers -> {"down", "booting", "looping", "draining"}]
        /\ pc' \in [Workers -> Labels] /\ loc' \in [Workers -> LocRow] /\ pc'[w] \in {"idle", "down"}
        /\ \A v \in Workers \ {w} : pc'[v] = pc[v] /\ loc'[v] = loc[v]
    BY <1>4, EndsTyped DEF LInv
  <2>5. ThreadsTyped'
    BY <1>1, <2>4, ThreadsKept DEF LInv
  <2>6. ASSUME NEW v \in Workers, pc'[v] \in {"exec", "send"}, Holds(v, loc[v].op, loc[v].att)'
        PROVE  Holds(v, loc[v].op, loc[v].att)
    <3>1. v # w /\ loc'[v] = loc[v] /\ loc[v].op \in Ops
      BY <2>4, <2>6 DEF LInv, ThreadsTyped, LocRow
    <3>2. loc[v].op # op
      BY <2>1, <2>6, <3>1 DEF Holds
    <3> QED BY <2>1, <2>6, <3>1, <3>2 DEF Holds
  <2>7. Calls'
    BY <1>4, <2>4, <2>6, CallsKept DEF LInv, Calls
  <2> QED BY <2>2, <2>3, <2>5, <2>7 DEF LInv
<1> QED BY <1>2, <1>3, <1>4

LEMMA SettleKeeps == ASSUME LInv, NEW w \in Workers, Settle(w) PROVE LInv'
<1> DEFINE op == loc[w].op
<1>1. UNCHANGED <<gateway, bounds>> /\ UNCHANGED asked /\ op \in Ops
  BY DEF Settle, bounds, LInv, ThreadsTyped, LocRow
<1>2. /\ RowsTyped' /\ RowInv'
      /\ \A o \in Ops : job'[o].st = "leased" => job'[o] = job[o]
      /\ UNCHANGED loop
  <2>1. CASE UNCHANGED rows
    <3>1. UNCHANGED <<wf, task, job, failedRun, passed, loop>>
      BY <2>1 DEF rows
    <3>2. RowsTyped'
      BY <3>1 DEF LInv, RowsTyped
    <3> QED BY <1>1, <3>1, <3>2, QuietKeeps DEF LInv
  <2>2. CASE job[op].st = "leased" /\ wf.cancel /\ Cancelled(Ended(job, op, "cancelled", "none"))
    BY <1>1, <2>2, CancelledKeeps, CancelledWrite DEF LInv
  <2>3. CASE job[op].st = "leased" /\ ~wf.cancel /\ FailJob(op, "fatal")
    <3>1. "fatal" \in Codes
      BY DEF Codes
    <3> QED BY <1>1, <2>3, <3>1, FailKeeps, FailWrite DEF LInv
  <2> QED BY <2>1, <2>2, <2>3 DEF Settle, Holds
<1>3. /\ mode' \in [Workers -> {"down", "booting", "looping", "draining"}]
      /\ pc' \in [Workers -> Labels] /\ loc' \in [Workers -> LocRow] /\ pc'[w] \in {"heal", "idle", "down"}
      /\ \A v \in Workers \ {w} : pc'[v] = pc[v] /\ loc'[v] = loc[v]
  <2>1. CASE Goto(w, "heal") /\ UNCHANGED <<mode, loc>>
    BY <2>1, GotoTyped DEF LInv, ThreadsTyped, Labels
  <2>2. CASE Leave(w)
    BY <2>2, EndsTyped DEF LInv
  <2> QED BY <2>1, <2>2 DEF Settle
<1>4. ThreadsTyped'
  BY <1>1, <1>3, ThreadsKept DEF LInv
<1>5. Calls'
  BY <1>2, <1>3, QuietThread DEF LInv
<1> QED BY <1>2, <1>4, <1>5 DEF LInv

-----------------------------------------------------------------------------
(* Every step keeps the invariant. *)

\* A handler that committed and returned.
LEMMA ReturnKeeps ==
  ASSUME LInv, NEW w \in Workers, RowsTyped', RowInv', Return(w), UNCHANGED <<gateway, bounds>>,
         \A o \in Ops : job'[o].st = "leased" =>
             job[o].st = "leased" /\ job'[o].att = job[o].att /\ job'[o].tok = job[o].tok,
         \A x \in Sources : /\ loop'[x].calls = loop[x].calls
                            /\ loop[x].calls = 1 => loop'[x].inv # "none",
         \A v \in Workers \ {w} : pc[v] = "send" /\ Holds(v, loc[v].op, loc[v].att)
             /\ loop[SourceOf(loc[v].op)].inv # "none" => loop'[SourceOf(loc[v].op)].inv # "none"
  PROVE  LInv'
<1>1. /\ mode' \in [Workers -> {"down", "booting", "looping", "draining"}]
      /\ pc' \in [Workers -> Labels] /\ loc' \in [Workers -> LocRow]
      /\ pc'[w] \in {"idle", "down"}
      /\ \A v \in Workers \ {w} : pc'[v] = pc[v] /\ loc'[v] = loc[v]
  BY EndsTyped DEF LInv
<1>2. ThreadsTyped'
  BY <1>1, ThreadsKept DEF LInv
<1>3. \A v \in Workers : pc'[v] \in {"exec", "send", "called"} => pc'[v] = pc[v] /\ loc'[v] = loc[v]
  BY <1>1
<1>4. \A v \in Workers : pc'[v] = "send" => v # w
  BY <1>1
<1>5. Calls'
  BY <1>3, <1>4, NoLease, CallsKept DEF LInv
<1> QED BY <1>2, <1>5 DEF LInv

LEMMA HealedLeases ==
  ASSUME RowsTyped
  PROVE  \A o \in Ops : Healed[o].st = "leased" => Healed[o] = job[o]
<1> TAKE o \in Ops
<1>1. CASE Missing(o)
  BY <1>1, HealedRow
<1>2. CASE ~Missing(o)
  BY <1>2, HealedRow
<1> QED BY <1>1, <1>2

LEMMA HealStep == ASSUME LInv, NEW w \in Workers, Heal(w) PROVE LInv'
<1>1. /\ UNCHANGED <<wf, task, failedRun, passed, loop, gateway, bounds>> /\ UNCHANGED asked
      /\ job' = Healed /\ Return(w)
  BY DEF Heal, bounds
<1>2. RowsTyped' /\ RowInv'
  BY <1>1, HealKeeps DEF LInv
<1>3. \A o \in Ops : job'[o].st = "leased" => job'[o] = job[o]
  BY <1>1, HealedLeases DEF LInv
<1>4. \A x \in Sources : loop'[x] = loop[x] /\ (loop[x].calls = 1 => loop[x].inv # "none")
  BY <1>1 DEF LInv, Calls
<1> QED BY <1>1, <1>2, <1>3, <1>4, ReturnKeeps

LEMMA BootDoneStep == ASSUME LInv, NEW w \in Workers, BootDone(w) PROVE LInv'
<1>1. /\ UNCHANGED <<wf, task, failedRun, passed, loop, gateway, pc, loc, bounds>> /\ UNCHANGED asked
      /\ job' = job \/ job' = Healed
      /\ mode' = [mode EXCEPT ![w] = "looping"] /\ pc[w] = "idle"
  BY DEF BootDone, bounds
<1>2. RowsTyped' /\ RowInv' /\ (\A o \in Ops : job'[o].st = "leased" => job'[o] = job[o])
  <2>1. CASE job' = job
    <3>1. RowsTyped'
      BY <1>1, <2>1 DEF LInv, RowsTyped
    <3> QED BY <1>1, <2>1, <3>1, QuietKeeps DEF LInv
  <2>2. CASE job' = Healed
    BY <1>1, <2>2, HealKeeps, HealedLeases DEF LInv
  <2> QED BY <1>1, <2>1, <2>2
<1>3. ThreadsTyped'
  <2>1. mode' \in [Workers -> {"down", "booting", "looping", "draining"}]
    BY <1>1 DEF LInv, ThreadsTyped
  <2> QED BY <1>1, <2>1, ThreadsKept DEF LInv, ThreadsTyped
<1>4. Calls'
  BY <1>1, <1>2, QuietThread DEF LInv
<1> QED BY <1>2, <1>3, <1>4 DEF LInv

\* Who takes a decision's job over and reads that nobody asked, is the first to ask.
LEMMA ClaimStep == ASSUME LInv, NEW w \in Workers, Claim(w) PROVE LInv'
<1>1. /\ UNCHANGED <<wf, failedRun, passed, loop, gateway, mode, bounds>> /\ UNCHANGED asked
      /\ wf.status \notin WorkflowTerminal /\ pc[w] = "idle"
  BY DEF Claim, bounds
<1>2. PICK op \in Ops :
        /\ job[op].st = "queued"
        /\ job' = [job EXCEPT ![op].st = "leased", ![op].tok = w, ![op].pos = 0]
        /\ task' = IF HasTask(op) /\ task[op[2]] = "queued" THEN [task EXCEPT ![op[2]] = "running"] ELSE task
        /\ loc' = [loc EXCEPT ![w] = [op |-> op, att |-> job[op].att, rev |-> wf.rev,
                                      inv |-> IF op[1] = "decide" THEN loop[SourceOf(op)].inv ELSE "none"]]
        /\ Goto(w, "exec")
  BY DEF Claim
<1>3. RowsTyped' /\ RowInv'
  BY <1>1, <1>2, ClaimKeeps DEF LInv
<1>4. pc' \in [Workers -> Labels] /\ pc'[w] = "exec" /\ \A v \in Workers \ {w} : pc'[v] = pc[v]
  BY <1>2, GotoTyped DEF LInv, Labels
<1> DEFINE read == [op |-> op, att |-> job[op].att, rev |-> wf.rev,
                    inv |-> IF op[1] = "decide" THEN loop[SourceOf(op)].inv ELSE "none"]
<1>5. op[1] = "decide" => SourceOf(op) \in Sources
  <2>1. "decide" # "run"
    OBVIOUS
  <2> QED BY <2>1, OpKinds
<1>6. read \in LocRow /\ read.op = op /\ read.inv = IF op[1] = "decide" THEN loop[SourceOf(op)].inv ELSE "none"
  <2>1. job[op].att \in Nat /\ wf.rev \in Nat
    BY DEF LInv, RowsTyped, JobRow
  <2>2. op[1] = "decide" => loop[SourceOf(op)].inv \in {"none", "pending", "done", "failed"}
    BY <1>5 DEF LInv, RowsTyped, LoopRow
  <2> QED BY <2>1, <2>2 DEF LocRow
<1>7. loc' = [loc EXCEPT ![w] = read]
  BY <1>2
<1> HIDE DEF read
<1>8. loc' \in [Workers -> LocRow] /\ loc'[w] = read /\ \A v \in Workers \ {w} : loc'[v] = loc[v]
  BY <1>6, <1>7 DEF LInv, ThreadsTyped
<1>9. ThreadsTyped'
  BY <1>1, <1>4, <1>8, ThreadsKept DEF LInv, ThreadsTyped
<1>10. /\ \A o \in Ops \ {op} : job'[o] = job[o]
       /\ job'[op].tok = w
  <2> DEFINE row == [job[op] EXCEPT !.st = "leased", !.tok = w, !.pos = 0]
  <2>1. job[op] \in JobRow
    BY DEF LInv, RowsTyped
  <2>2. row.tok = w
    BY <2>1 DEF JobRow
  <2>3. job' = [job EXCEPT ![op] = row] /\ job \in [Ops -> JobRow]
    BY <1>2 DEF LInv, RowsTyped
  <2> HIDE DEF row
  <2> QED BY <2>2, <2>3
<1>11. Calls'
  <2>1. \A x \in Sources : loop'[x].calls <= 1 /\ (loop'[x].calls = 1 => loop'[x].inv # "none")
    BY <1>1 DEF LInv, Calls
  <2>2. \A v \in Workers : pc'[v] = "send" => loc'[v].op[1] = "decide" /\ loc'[v].inv = "none"
    BY <1>4, <1>8 DEF LInv, Calls
  <2>3. \A v \in Workers : pc'[v] = "called" => loc'[v].op[1] = "decide"
    BY <1>4, <1>8 DEF LInv, Calls
  <2>4. ASSUME NEW v \in Workers, pc'[v] \in {"exec", "send"}, loc'[v].op[1] = "decide", loc'[v].inv = "none",
               Holds(v, loc[v].op, loc[v].att)'
        PROVE  loop'[SourceOf(loc'[v].op)].calls = 0
    <3>1. CASE v = w
      <4>1. SourceOf(op) \in Sources /\ loop[SourceOf(op)].inv = "none"
        BY <1>5, <1>6, <1>8, <2>4, <3>1
      <4>2. loop[SourceOf(op)].calls \in Nat /\ loop[SourceOf(op)].calls <= 1
            /\ loop[SourceOf(op)].calls # 1
        BY <4>1 DEF LInv, RowsTyped, LoopRow, Calls
      <4>3. loop[SourceOf(op)].calls = 0
        BY <4>2
      <4> QED BY <1>1, <1>6, <1>8, <3>1, <4>3
    <3>2. CASE v # w
      <4>1. loc'[v] = loc[v] /\ pc'[v] = pc[v] /\ loc[v].op \in Ops
        BY <1>4, <1>8, <3>2 DEF LInv, ThreadsTyped, LocRow
      <4>2. loc[v].op # op
        BY <1>10, <2>4, <3>2, <4>1 DEF Holds
      <4>3. Holds(v, loc[v].op, loc[v].att)
        BY <1>10, <2>4, <4>1, <4>2 DEF Holds
      <4> QED BY <1>1, <2>4, <4>1, <4>3 DEF LInv, Calls
    <3> QED BY <3>1, <3>2
  <2>5. ASSUME NEW v \in Workers, pc'[v] = "send", Holds(v, loc[v].op, loc[v].att)'
        PROVE  loop'[SourceOf(loc'[v].op)].inv # "none"
    <3>1. v # w /\ loc'[v] = loc[v] /\ pc'[v] = pc[v] /\ loc[v].op \in Ops
      BY <1>4, <1>8, <2>5 DEF LInv, ThreadsTyped, LocRow
    <3>2. loc[v].op # op
      BY <1>10, <2>5, <3>1 DEF Holds
    <3>3. Holds(v, loc[v].op, loc[v].att)
      BY <1>10, <2>5, <3>1, <3>2 DEF Holds
    <3> QED BY <1>1, <2>5, <3>1, <3>3 DEF LInv, Calls
  <2> QED BY <2>1, <2>2, <2>3, <2>4, <2>5 DEF Calls
<1> QED BY <1>3, <1>9, <1>11 DEF LInv

\* What a handler's own transaction does to the leases.
LEMMA FinishedLeases ==
  ASSUME RowsTyped, NEW w \in Workers, loc[w].op \in Ops, NEW next \in Ops, next # loc[w].op, Finish(w, next, job)
  PROVE  \A o \in Ops : job'[o].st = "leased" => job'[o] = job[o]
<1>1. /\ \A o \in Ops \ {loc[w].op, next} : job'[o] = job[o]
      /\ job'[loc[w].op].st = "succeeded"
      /\ IF job[next].att = 0 THEN job'[next].st = "queued" ELSE job'[next] = job[next]
  BY FinishWrite
<1> QED BY <1>1

LEMMA ExecuteStep == ASSUME LInv, NEW w \in Workers, ExecuteRun(w) PROVE LInv'
<1> DEFINE s == loc[w].op[2]
<1>1. loc[w].op[1] = "run" /\ UNCHANGED <<gateway, bounds>> /\ UNCHANGED asked
  BY DEF ExecuteRun, bounds
<1>2. /\ s \in Subjects /\ loc[w].op = Run(s) /\ loc[w].op \in Ops
      /\ Publishable(w) => job[Run(s)].st = "leased" /\ loc[w].att = job[Run(s)].att
  BY <1>1, HeldRun DEF LInv
<1> DEFINE x == <<s, loc[w].att>>
<1>3. CASE Raise(w)
  BY <1>1, <1>3, RaiseKeeps
<1>4. CASE /\ Publishable(w)
           /\ StepSucceeds(w, s) \/ StepFailsTransiently(w, s) \/ ReviewEnds(w, s)
           /\ UNCHANGED loop /\ Return(w)
  <2>1. ~wf.cancel /\ job[Run(s)].st = "leased" /\ loc[w].att = job[Run(s)].att
    BY <1>2, <1>4 DEF Publishable
  <2>2. x \in Sources /\ Ctl("observe", x) \in Ops /\ Ctl("observe", x) # Run(s)
    <3>1. job[Run(s)].att > 0
      BY <1>2, <2>1, Attempted DEF LInv, RowInv
    <3>2. x \in Sources
      BY <1>2, <2>1, <3>1, WithinRuns DEF LInv, RowInv
    <3> QED BY <3>2, OpNames DEF Control
  <2>3. RowsTyped' /\ RowInv' /\ (\A o \in Ops : job'[o].st = "leased" => job'[o] = job[o])
    <3>1. CASE StepSucceeds(w, s)
      <4>1. /\ s \in Tasks /\ task' = [task EXCEPT ![s] = "completed"] /\ Finish(w, Ctl("observe", x), job)
            /\ UNCHANGED <<wf, failedRun, passed>>
        BY <3>1 DEF StepSucceeds
      <4>2. RowsTyped' /\ RowInv'
        BY <1>1, <1>2, <1>4, <2>1, <4>1, SucceedKeeps DEF LInv
      <4> QED BY <1>2, <2>2, <4>1, <4>2, FinishedLeases DEF LInv
    <3>2. CASE StepFailsTransiently(w, s)
      <4>1. s \in Tasks /\ job' = Enqueued(Ended(job, Run(s), "failed", "transient"), Ctl("observe", x), 1)
        BY <3>2 DEF StepFailsTransiently
      <4>2. RowsTyped' /\ RowInv'
        BY <1>1, <1>2, <1>4, <2>1, <3>2, <4>1, TransientKeeps DEF LInv
      <4> DEFINE jobs == Ended(job, Run(s), "failed", "transient")
      <4>3. /\ jobs \in [Ops -> JobRow] /\ jobs[Run(s)].st = "failed" /\ \A o \in Ops \ {Run(s)} : jobs[o] = job[o]
        <5>1. "transient" \in Codes
          BY DEF Codes
        <5> QED BY <1>2, <5>1, EndedRow DEF LInv, RowsTyped
      <4>4. job' = Enqueued(jobs, Ctl("observe", x), 1)
        BY <4>1
      <4> HIDE DEF jobs
      <4>5. /\ \A o \in Ops : o # Ctl("observe", x) \/ jobs[o].att >= 1 => job'[o] = jobs[o]
            /\ jobs[Ctl("observe", x)].att < 1 => job'[Ctl("observe", x)].st = "queued"
        <5> DEFINE observe == Ctl("observe", x)
        <5>1. job' = Enqueued(jobs, observe, 1) /\ observe \in Ops /\ 1 \in Nat
          BY <2>2, <4>4
        <5> HIDE DEF observe
        <5>2. /\ \A o \in Ops : o # observe \/ jobs[o].att >= 1 => job'[o] = jobs[o]
              /\ jobs[observe].att < 1 => job'[observe].st = "queued"
          BY <4>3, <5>1, EnqueuedRow
        <5> QED BY <5>2 DEF observe
      <4>6. \A o \in Ops : jobs[o].att \in Nat
        BY <4>3 DEF JobRow
      <4>7. ASSUME NEW o \in Ops, job'[o].st = "leased" PROVE job'[o] = job[o]
        <5>1. job'[o] = jobs[o]
          BY <2>2, <4>5, <4>6, <4>7
        <5> QED BY <4>3, <4>7, <5>1
      <4> QED BY <4>2, <4>7
    <3>3. CASE ReviewEnds(w, s)
      <4>1. s = Review /\ UNCHANGED <<task, failedRun>>
        BY <3>3 DEF ReviewEnds
      <4>2. CASE passed' = TRUE /\ Finish(w, Ctl("observe", x), job) /\ UNCHANGED wf
        <5>1. RowsTyped' /\ RowInv'
          BY <1>1, <1>2, <1>4, <2>1, <4>1, <4>2, SucceedKeeps DEF LInv
        <5> QED BY <1>2, <2>2, <4>2, <5>1, FinishedLeases DEF LInv
      <4>3. CASE job' = Ended(job, Run(s), "succeeded", "none") /\ wf' = WorkflowMoved("blocked") /\ UNCHANGED passed
        <5>1. RowsTyped' /\ RowInv'
          BY <1>1, <1>2, <1>4, <2>1, <4>1, <4>3, VerdictKeeps DEF LInv
        <5>2. job'[Run(s)].st = "succeeded" /\ \A o \in Ops \ {Run(s)} : job'[o] = job[o]
          <6>1. "none" \in Codes
            BY DEF Codes
          <6> QED BY <1>2, <4>3, <6>1, EndedRow DEF LInv, RowsTyped
        <5> QED BY <5>1, <5>2
      <4> QED BY <3>3, <4>2, <4>3 DEF ReviewEnds
    <3> QED BY <1>4, <3>1, <3>2, <3>3
  <2>4. \A y \in Sources : loop'[y] = loop[y] /\ (loop[y].calls = 1 => loop[y].inv # "none")
    BY <1>4 DEF LInv, Calls
  <2> QED BY <1>1, <1>4, <2>3, <2>4, ReturnKeeps
<1> QED BY <1>3, <1>4 DEF ExecuteRun

LEMMA ObserveStep == ASSUME LInv, NEW w \in Workers, Observe(w) PROVE LInv'
<1> DEFINE x == Source(w)
<1>1. loc[w].op[1] = "observe" /\ UNCHANGED <<gateway, bounds>> /\ UNCHANGED asked
  BY DEF Observe, Subject, bounds
<1>2. /\ x \in Sources /\ loc[w].op = Ctl("observe", x) /\ loc[w].op \in Ops
      /\ Publishable(w) => job[loc[w].op].st = "leased" /\ ~wf.cancel
  BY <1>1, HeldControl DEF LInv, Control
<1> HIDE DEF x
<1>3. CASE Raise(w)
  BY <1>1, <1>3, RaiseKeeps
<1>4. CASE /\ Publishable(w)
           /\ loop' = [loop EXCEPT ![x].obs = ObservedKind(x)]
           /\ Finish(w, AskedFor(x), job)
           /\ UNCHANGED <<wf, task, failedRun, passed>>
           /\ Return(w)
  <2>1. Finish(w, Ctl("decide", x), job)
    BY <1>4 DEF AskedFor
  <2>2. RowsTyped' /\ RowInv'
    BY <1>1, <1>2, <1>4, <2>1, ObserveKeeps DEF LInv
  <2>3. Ctl("decide", x) \in Ops /\ Ctl("decide", x) # loc[w].op
    BY <1>2, OpNames DEF Control
  <2>4. \A o \in Ops : job'[o].st = "leased" => job'[o] = job[o]
    BY <1>2, <2>1, <2>3, FinishedLeases DEF LInv
  <2>5. ASSUME NEW y \in Sources
        PROVE  /\ loop'[y].calls = loop[y].calls /\ (loop[y].calls = 1 => loop'[y].inv # "none")
               /\ loop'[y].inv = loop[y].inv
    <3>1. loop[y] \in LoopRow /\ loop \in [Sources -> LoopRow]
      BY DEF LInv, RowsTyped
    <3>2. loop'[y].calls = loop[y].calls /\ loop'[y].inv = loop[y].inv
      BY <1>2, <1>4, <3>1 DEF LoopRow
    <3> QED BY <3>2 DEF LInv, Calls
  <2>6. \A v \in Workers : pc[v] = "send" => SourceOf(loc[v].op) \in Sources
    BY SenderKnown DEF LInv
  <2> QED BY <1>1, <1>4, <2>2, <2>4, <2>5, <2>6, ReturnKeeps
<1> QED BY <1>3, <1>4 DEF Observe, x

\* The decision is written with the request that was answered, or with none.
LEMMA ProposeStep ==
  ASSUME LInv, NEW w \in Workers, loc[w].op[1] = "decide", Publishable(w), UNCHANGED <<gateway, bounds>>,
         NEW action \in {"continue", "retry", "complete", "stop"}, NEW inv \in {"none", "done"},
         action = "retry" => ~LimitReached, Propose(w, action, inv),
         inv = "none" => loop[Source(w)].calls # 1
  PROVE  LInv'
<1> DEFINE x == Source(w)
<1>1. /\ x \in Sources /\ loc[w].op = Ctl("decide", x) /\ loc[w].op \in Ops
      /\ job[loc[w].op].st = "leased" /\ ~wf.cancel
  BY HeldControl DEF LInv, Control
<1>2. /\ loop' = [loop EXCEPT ![x] = [@ EXCEPT !.act = action, !.rev = wf.rev, !.st = "proposed", !.inv = inv]]
      /\ Finish(w, Ctl("apply", x), job)
      /\ UNCHANGED <<wf, task, failedRun, passed>>
      /\ Return(w)
  BY DEF Propose
<1>3. loop[x].calls # 1 \/ inv # "none"
  OBVIOUS
<1> HIDE DEF x
<1>4. UNCHANGED asked
  BY DEF bounds
<1>5. /\ RowsTyped' /\ RowInv'
      /\ \A y \in Sources \ {x} : loop'[y] = loop[y]
      /\ loop'[x].calls = loop[x].calls /\ loop'[x].inv = inv
  BY <1>1, <1>2, <1>4, ProposeKeeps DEF LInv
<1>6. \A o \in Ops : job'[o].st = "leased" => job'[o] = job[o]
  <2>1. Ctl("apply", x) \in Ops /\ Ctl("apply", x) # loc[w].op
    BY <1>1, OpNames DEF Control
  <2> QED BY <1>1, <1>2, <2>1, FinishedLeases DEF LInv
<1>7. \A y \in Sources : loop'[y].calls = loop[y].calls /\ (loop[y].calls = 1 => loop'[y].inv # "none")
  <2> TAKE y \in Sources
  <2>1. CASE y = x
    BY <1>3, <1>5, <2>1
  <2>2. CASE y # x
    BY <1>5, <2>2 DEF LInv, Calls
  <2> QED BY <2>1, <2>2
<1>8. ASSUME NEW v \in Workers \ {w}, pc[v] = "send", Holds(v, loc[v].op, loc[v].att)
      PROVE  loop'[SourceOf(loc[v].op)] = loop[SourceOf(loc[v].op)]
  <2>1. SourceOf(loc[v].op) \in Sources /\ loc[v].op = Ctl("decide", SourceOf(loc[v].op))
    BY <1>8, SenderKnown DEF LInv
  <2>2. loc[v].op # loc[w].op
    BY <1>8 DEF Holds, Publishable
  <2>3. SourceOf(loc[v].op) # x
    BY <1>1, <2>1, <2>2
  <2> QED BY <1>5, <2>1, <2>3
<1> QED BY <1>2, <1>5, <1>6, <1>7, <1>8, ReturnKeeps

LEMMA AllowedActions ==
  ASSUME NEW x
  PROVE  /\ Allowed(x) \subseteq {"continue", "retry", "complete", "stop"}
         /\ "retry" \in Allowed(x) => ~LimitReached
         /\ Fallback \in {"continue", "retry", "complete", "stop"} /\ Fallback # "retry"
<1> DEFINE c == loop[x].obs = "output" /\ NextStep(x) # 0
           t == loop[x].obs = "transient"
           r == loop[x].obs = "reviewed" /\ Completable
<1> HIDE DEF c, t, r
<1>1. Allowed(x) = IF LimitReached THEN {"stop"}
                   ELSE CASE c -> {"continue"} [] t -> {"retry", "stop"} [] r -> {"complete"} [] OTHER -> {"stop"}
  BY Zenon DEF Allowed, c, t, r
<1>2. CASE LimitReached
  BY <1>1, <1>2 DEF Fallback
<1>3. CASE ~LimitReached
  BY <1>1, <1>3 DEF Fallback
<1> QED BY <1>2, <1>3

LEMMA DecideStep == ASSUME LInv, NEW w \in Workers, Decide(w) PROVE LInv'
<1> DEFINE x == Source(w)
<1>1. pc[w] = "exec" /\ loc[w].op[1] = "decide" /\ UNCHANGED <<gateway, bounds>>
  BY DEF Decide, Subject
<1>2. CASE Raise(w)
  BY <1>1, <1>2, RaiseKeeps
<1>3. ASSUME Publishable(w), ~Resumes(w), NEW action \in Allowed(x), Propose(w, action, "none")
      PROVE  LInv'
  <2>1. action \in {"continue", "retry", "complete", "stop"} /\ (action = "retry" => ~LimitReached)
    BY <1>3, AllowedActions
  <2>2. loop[x].calls # 1
    <3>1. loc[w].inv = "none" /\ Holds(w, loc[w].op, loc[w].att)
      BY <1>3 DEF Resumes, Publishable
    <3>2. loop[x].calls = 0
      BY <1>1, <3>1 DEF LInv, Calls, Source
    <3> QED BY <3>2
  <2> QED BY <1>1, <1>3, <2>1, <2>2, ProposeStep
<1>4. CASE Publishable(w) /\ Propose(w, Fallback, "done")
  BY <1>1, <1>4, AllowedActions, ProposeStep
<1> QED BY <1>2, <1>3, <1>4 DEF Decide

\* The invocation is stored, and only then is the thread about to send.
LEMMA BeginStep == ASSUME LInv, NEW w \in Workers, BeginInvocation(w) PROVE LInv'
<1> DEFINE x == Source(w)
<1>1. /\ pc[w] = "exec" /\ loc[w].op[1] = "decide" /\ loc[w].inv = "none"
      /\ UNCHANGED <<gateway, bounds>> /\ UNCHANGED asked
  BY DEF BeginInvocation, Subject, Asks, Resumes, bounds
<1>2. x \in Sources /\ loc[w].op \in Ops /\ x = SourceOf(loc[w].op)
  BY <1>1, HeldControl DEF LInv, Control, Source
<1> HIDE DEF x
<1>3. CASE Raise(w)
  BY <1>1, <1>3, RaiseKeeps
<1>4. CASE /\ loop' = [loop EXCEPT ![x].inv = "pending"]
           /\ Goto(w, "send")
           /\ UNCHANGED <<wf, task, job, failedRun, passed, mode, loc>>
  <2>1. /\ loop' \in [Sources -> LoopRow] /\ \A y \in Sources \ {x} : loop'[y] = loop[y]
        /\ loop'[x].obs = loop[x].obs /\ loop'[x].st = loop[x].st /\ loop'[x].act = loop[x].act
        /\ loop'[x].rev = loop[x].rev /\ loop'[x].calls = loop[x].calls /\ loop'[x].inv = "pending"
    <3> DEFINE row == [loop[x] EXCEPT !.inv = "pending"]
    <3>1. loop[x] \in LoopRow /\ loop \in [Sources -> LoopRow]
      BY <1>2 DEF LInv, RowsTyped
    <3>2. /\ row \in LoopRow /\ row.obs = loop[x].obs /\ row.st = loop[x].st /\ row.act = loop[x].act
          /\ row.rev = loop[x].rev /\ row.calls = loop[x].calls /\ row.inv = "pending"
      BY <3>1 DEF LoopRow
    <3>3. loop' = [loop EXCEPT ![x] = row]
      BY <1>4
    <3> HIDE DEF row
    <3> QED BY <1>2, <3>1, <3>2, <3>3
  <2>2. RowsTyped'
    BY <1>4, <2>1 DEF LInv, RowsTyped
  <2>3. RowInv'
    BY <1>1, <1>4, <2>1, <2>2, QuietKeeps DEF LInv
  <2>4. pc' \in [Workers -> Labels] /\ pc'[w] = "send" /\ \A v \in Workers \ {w} : pc'[v] = pc[v]
    BY <1>4, GotoTyped DEF LInv, Labels
  <2>5. ThreadsTyped'
    BY <1>1, <1>4, <2>4, ThreadsKept DEF LInv, ThreadsTyped
  <2>6. Calls'
    <3>1. \A y \in Sources : loop'[y].calls <= 1 /\ (loop'[y].calls = 1 => loop'[y].inv # "none")
      BY <2>1 DEF LInv, Calls
    <3>2. \A v \in Workers : pc'[v] = "send" => loc'[v].op[1] = "decide" /\ loc'[v].inv = "none"
      BY <1>1, <1>4, <2>4 DEF LInv, Calls
    <3>3. \A v \in Workers : pc'[v] = "called" => loc'[v].op[1] = "decide"
      BY <1>4, <2>4 DEF LInv, Calls
    <3>4. ASSUME NEW v \in Workers, pc'[v] \in {"exec", "send"}, loc'[v].op[1] = "decide", loc'[v].inv = "none",
                 Holds(v, loc[v].op, loc[v].att)'
          PROVE  loop'[SourceOf(loc'[v].op)].calls = 0
      <4>1. loc'[v] = loc[v] /\ Holds(v, loc[v].op, loc[v].att) /\ pc[v] \in {"exec", "send"}
        BY <1>1, <1>4, <2>4, <3>4 DEF Holds
      <4>2. loop[SourceOf(loc[v].op)].calls = 0
        BY <3>4, <4>1 DEF LInv, Calls
      <4>3. SourceOf(loc[v].op) \in Sources
        <5>1. loc[v].op \in Ops /\ loc[v].op[1] = "decide" /\ "decide" # "run"
          BY <3>4, <4>1 DEF LInv, ThreadsTyped, LocRow
        <5> QED BY <5>1, OpKinds
      <4> QED BY <2>1, <4>1, <4>2, <4>3
    <3>5. ASSUME NEW v \in Workers, pc'[v] = "send", Holds(v, loc[v].op, loc[v].att)'
          PROVE  loop'[SourceOf(loc'[v].op)].inv # "none"
      <4>1. loc'[v] = loc[v] /\ Holds(v, loc[v].op, loc[v].att)
        BY <1>4, <3>5 DEF Holds
      <4>2. CASE v = w
        BY <1>2, <2>1, <4>1, <4>2
      <4>3. CASE v # w
        <5>1. pc[v] = "send"
          BY <2>4, <3>5, <4>3
        <5>2. SourceOf(loc[v].op) \in Sources /\ loop[SourceOf(loc[v].op)].inv # "none"
          BY <4>1, <5>1, SenderKnown DEF LInv, Calls
        <5> QED BY <2>1, <4>1, <5>2
      <4> QED BY <4>2, <4>3
    <3> QED BY <3>1, <3>2, <3>3, <3>4, <3>5 DEF Calls
  <2> QED BY <2>2, <2>3, <2>5, <2>6 DEF LInv
<1> QED BY <1>3, <1>4 DEF BeginInvocation, x

\* Only one thread holds the decision's lease, and it found no request before.
LEMMA SendStep == ASSUME LInv, NEW w \in Workers, Send(w) PROVE LInv'
<1> DEFINE x == Source(w)
<1>1. /\ pc[w] = "send" /\ loc[w].op[1] = "decide" /\ loc[w].inv = "none"
      /\ UNCHANGED <<gateway, bounds>> /\ UNCHANGED asked
  BY DEF Send, LInv, Calls, bounds
<1>2. x \in Sources /\ loc[w].op \in Ops /\ x = SourceOf(loc[w].op)
  BY <1>1, HeldControl DEF LInv, Control, Source
<1> HIDE DEF x
<1>3. CASE Raise(w)
  BY <1>1, <1>3, RaiseKeeps
<1>4. CASE /\ loop' = [loop EXCEPT ![x].inv = "failed"]
           /\ Goto(w, "settle")
           /\ UNCHANGED <<wf, task, job, failedRun, passed, mode, loc>>
  <2>1. /\ loop' \in [Sources -> LoopRow] /\ \A y \in Sources \ {x} : loop'[y] = loop[y]
        /\ loop'[x].obs = loop[x].obs /\ loop'[x].st = loop[x].st /\ loop'[x].act = loop[x].act
        /\ loop'[x].rev = loop[x].rev /\ loop'[x].calls = loop[x].calls /\ loop'[x].inv = "failed"
    <3> DEFINE row == [loop[x] EXCEPT !.inv = "failed"]
    <3>1. loop[x] \in LoopRow /\ loop \in [Sources -> LoopRow]
      BY <1>2 DEF LInv, RowsTyped
    <3>2. /\ row \in LoopRow /\ row.obs = loop[x].obs /\ row.st = loop[x].st /\ row.act = loop[x].act
          /\ row.rev = loop[x].rev /\ row.calls = loop[x].calls /\ row.inv = "failed"
      BY <3>1 DEF LoopRow
    <3>3. loop' = [loop EXCEPT ![x] = row]
      BY <1>4
    <3> HIDE DEF row
    <3> QED BY <1>2, <3>1, <3>2, <3>3
  <2>2. RowsTyped'
    BY <1>4, <2>1 DEF LInv, RowsTyped
  <2>3. RowInv'
    BY <1>1, <1>4, <2>1, <2>2, QuietKeeps DEF LInv
  <2>4. pc' \in [Workers -> Labels] /\ pc'[w] = "settle" /\ \A v \in Workers \ {w} : pc'[v] = pc[v]
    BY <1>4, GotoTyped DEF LInv, Labels
  <2>5. ThreadsTyped'
    BY <1>1, <1>4, <2>4, ThreadsKept DEF LInv, ThreadsTyped
  <2>6. Calls'
    <3>1. \A v \in Workers : pc'[v] \in {"exec", "send", "called"} => pc'[v] = pc[v] /\ loc'[v] = loc[v]
      BY <1>4, <2>4
    <3>2. \A v \in Workers : pc'[v] \in {"exec", "send"} /\ Holds(v, loc[v].op, loc[v].att)'
              => Holds(v, loc[v].op, loc[v].att)
      BY <1>4 DEF Holds
    <3>3. \A y \in Sources : loop'[y].calls = loop[y].calls /\ (loop[y].calls = 1 => loop'[y].inv # "none")
      BY <2>1 DEF LInv, Calls
    <3>4. \A v \in Workers : pc[v] = "send" => SourceOf(loc[v].op) \in Sources
      BY SenderKnown DEF LInv
    <3> QED BY <2>1, <3>1, <3>2, <3>3, <3>4, CallsKept DEF LInv
  <2> QED BY <2>2, <2>3, <2>5, <2>6 DEF LInv
<1>5. CASE /\ Holds(w, loc[w].op, loc[w].att)
           /\ loop' = [loop EXCEPT ![x].calls = @ + 1]
           /\ loc' = [loc EXCEPT ![w].rev = wf.rev]
           /\ Goto(w, "called")
           /\ UNCHANGED <<wf, task, job, failedRun, passed, mode>>
  <2>1. loop[x].calls = 0 /\ loop[x].inv \in {"none", "pending", "done", "failed"}
    BY <1>1, <1>2, <1>5 DEF LInv, Calls, RowsTyped, LoopRow
  <2>2. loop[x].inv # "none"
    BY <1>1, <1>2, <1>5 DEF LInv, Calls
  <2>3. /\ loop' \in [Sources -> LoopRow] /\ \A y \in Sources \ {x} : loop'[y] = loop[y]
        /\ loop'[x].obs = loop[x].obs /\ loop'[x].st = loop[x].st /\ loop'[x].act = loop[x].act
        /\ loop'[x].rev = loop[x].rev /\ loop'[x].calls = 1 /\ loop'[x].inv = loop[x].inv
    <3> DEFINE row == [loop[x] EXCEPT !.calls = @ + 1]
    <3>1. loop[x] \in LoopRow /\ loop \in [Sources -> LoopRow]
      BY <1>2 DEF LInv, RowsTyped
    <3>2. /\ row \in LoopRow /\ row.obs = loop[x].obs /\ row.st = loop[x].st /\ row.act = loop[x].act
          /\ row.rev = loop[x].rev /\ row.calls = 1 /\ row.inv = loop[x].inv
      BY <2>1, <3>1 DEF LoopRow
    <3>3. loop' = [loop EXCEPT ![x] = row]
      BY <1>5
    <3> HIDE DEF row
    <3> QED BY <1>2, <3>1, <3>2, <3>3
  <2>4. RowsTyped'
    BY <1>5, <2>3 DEF LInv, RowsTyped
  <2>5. RowInv'
    BY <1>1, <1>5, <2>3, <2>4, QuietKeeps DEF LInv
  <2>6. pc' \in [Workers -> Labels] /\ pc'[w] = "called" /\ \A v \in Workers \ {w} : pc'[v] = pc[v]
    BY <1>5, GotoTyped DEF LInv, Labels
  <2>7. /\ loc' \in [Workers -> LocRow]
        /\ \A v \in Workers : loc'[v].op = loc[v].op
        /\ \A v \in Workers \ {w} : loc'[v] = loc[v]
    <3> DEFINE row == [loc[w] EXCEPT !.rev = wf.rev]
    <3>1. loc[w] \in LocRow /\ loc \in [Workers -> LocRow] /\ wf.rev \in Nat
      BY DEF LInv, ThreadsTyped, RowsTyped
    <3>2. row \in LocRow /\ row.op = loc[w].op
      BY <3>1 DEF LocRow
    <3>3. loc' = [loc EXCEPT ![w] = row]
      BY <1>5
    <3> HIDE DEF row
    <3> QED BY <3>1, <3>2, <3>3
  <2>8. ThreadsTyped'
    BY <1>1, <1>5, <2>6, <2>7, ThreadsKept DEF LInv, ThreadsTyped
  <2>9. Calls'
    <3>1. \A y \in Sources : loop'[y].calls <= 1 /\ (loop'[y].calls = 1 => loop'[y].inv # "none")
      BY <2>2, <2>3 DEF LInv, Calls
    <3>2. \A v \in Workers : pc'[v] = "send" => loc'[v].op[1] = "decide" /\ loc'[v].inv = "none"
      BY <2>6, <2>7 DEF LInv, Calls
    <3>3. \A v \in Workers : pc'[v] = "called" => loc'[v].op[1] = "decide"
      BY <1>1, <2>6, <2>7 DEF LInv, Calls
    <3>4. ASSUME NEW v \in Workers, pc'[v] \in {"exec", "send"}, loc'[v].op[1] = "decide",
                 Holds(v, loc[v].op, loc[v].att)'
          PROVE  /\ v # w /\ loc'[v] = loc[v] /\ pc'[v] = pc[v] /\ Holds(v, loc[v].op, loc[v].att)
                 /\ loop'[SourceOf(loc[v].op)] = loop[SourceOf(loc[v].op)]
      <4>1. v # w /\ loc'[v] = loc[v] /\ pc'[v] = pc[v] /\ Holds(v, loc[v].op, loc[v].att)
        BY <1>5, <2>6, <2>7, <3>4 DEF Holds
      <4>2. loc[v].op # loc[w].op
        BY <1>5, <4>1 DEF Holds
      <4>3. /\ loc[v].op \in Ops /\ loc[v].op[1] = "decide" /\ loc[w].op \in Ops /\ loc[w].op[1] = "decide"
            /\ "decide" # "run"
        BY <1>1, <3>4, <4>1 DEF LInv, ThreadsTyped, LocRow
      <4>4. SourceOf(loc[v].op) \in Sources /\ SourceOf(loc[v].op) # x
        BY <1>2, <4>2, <4>3, OpKinds
      <4> QED BY <2>3, <4>1, <4>4
    <3>5. \A v \in Workers :
            (/\ pc'[v] \in {"exec", "send"} /\ loc'[v].op[1] = "decide" /\ loc'[v].inv = "none"
             /\ Holds(v, loc[v].op, loc[v].att)') => loop'[SourceOf(loc'[v].op)].calls = 0
      BY <3>4 DEF LInv, Calls
    <3>6. ASSUME NEW v \in Workers, pc'[v] = "send", Holds(v, loc[v].op, loc[v].att)'
          PROVE  loop'[SourceOf(loc'[v].op)].inv # "none"
      <4>1. loc'[v].op[1] = "decide"
        BY <3>2, <3>6
      <4> QED BY <3>4, <3>6, <4>1 DEF LInv, Calls
    <3> QED BY <3>1, <3>2, <3>3, <3>5, <3>6 DEF Calls
  <2> QED BY <2>4, <2>5, <2>8, <2>9 DEF LInv
<1> QED BY <1>3, <1>4, <1>5 DEF Send, x

LEMMA AnswerStep == ASSUME LInv, NEW w \in Workers, AnswerArrives(w) PROVE LInv'
<1> DEFINE x == Source(w)
<1>1. pc[w] = "called" /\ loc[w].op[1] = "decide" /\ UNCHANGED <<gateway, bounds>>
  BY DEF AnswerArrives, LInv, Calls
<1>2. CASE Raise(w)
  BY <1>1, <1>2, RaiseKeeps
<1>3. ASSUME Publishable(w), NEW action \in Allowed(x) \cup {Fallback}, Propose(w, action, "done")
      PROVE  LInv'
  <2>1. action \in {"continue", "retry", "complete", "stop"} /\ (action = "retry" => ~LimitReached)
    BY <1>3, AllowedActions
  <2> QED BY <1>1, <1>3, <2>1, ProposeStep
<1> QED BY <1>2, <1>3 DEF AnswerArrives

\* An applied decision leases nothing and forgets no request.
LEMMA ApplyStep == ASSUME LInv, NEW w \in Workers, ApplyDecision(w) PROVE LInv'
<1> DEFINE x    == Source(w)
           jobs == Ended(job, Ctl("apply", x), "succeeded", "none")
<1>1. loc[w].op[1] = "apply" /\ UNCHANGED <<gateway, bounds>> /\ UNCHANGED asked
  BY DEF ApplyDecision, Subject, bounds
<1>2. /\ x \in Sources /\ loc[w].op = Ctl("apply", x) /\ loc[w].op \in Ops
      /\ Publishable(w) => job[loc[w].op].st = "leased" /\ ~wf.cancel
  BY <1>1, HeldControl DEF LInv, Control
<1>3. CASE Raise(w)
  BY <1>1, <1>3, RaiseKeeps
<1>4. CASE /\ Publishable(w) /\ Fresh(x)
           /\ \/ ApplyContinue(x, jobs) \/ ApplyRetry(x, jobs)
              \/ ApplyComplete(x, jobs) \/ ApplyStop(x, jobs)
           /\ loop' = [loop EXCEPT ![x].st = "applied"]
           /\ UNCHANGED <<failedRun, passed>>
           /\ Return(w)
  <2>1. /\ job[Ctl("apply", x)].st = "leased" /\ ~wf.cancel
        /\ loop[x].st = "proposed" /\ loop[x].rev = wf.rev
    BY <1>2, <1>4 DEF Fresh
  <2>2. /\ jobs \in [Ops -> JobRow] /\ \A o \in Ops \ {Ctl("apply", x)} : jobs[o] = job[o]
        /\ jobs[Ctl("apply", x)].st = "succeeded" /\ \A s \in Subjects : Run(s) \in Ops /\ jobs[Run(s)] = job[Run(s)]
    BY <1>2, <2>1, AppliedJob DEF LInv
  <2>3. \A o \in Ops : jobs[o].st = "leased" => jobs[o] = job[o]
    BY <2>2
  <2>4. ASSUME NEW op, NEW att \in Nat
        PROVE  \A o \in Ops : Enqueued(jobs, op, att)[o].st = "leased" => Enqueued(jobs, op, att)[o] = job[o]
    <3> HIDE DEF jobs
    <3>1. \A o \in Ops : jobs[o].att \in Nat
      BY <2>2 DEF JobRow
    <3>2. /\ \A o \in Ops : o # op \/ jobs[o].att >= att => Enqueued(jobs, op, att)[o] = jobs[o]
          /\ op \in Ops /\ jobs[op].att < att => Enqueued(jobs, op, att)[op].st = "queued"
      BY <2>2, EnqueuedRow
    <3>3. ASSUME NEW o \in Ops, Enqueued(jobs, op, att)[o].st = "leased"
          PROVE  Enqueued(jobs, op, att)[o] = jobs[o]
      BY <3>1, <3>2, <3>3
    <3> QED BY <2>3, <3>3
  <2>5. RowsTyped' /\ RowInv' /\ (\A o \in Ops : job'[o].st = "leased" => job'[o] = job[o])
    <3>1. CASE ApplyContinue(x, jobs)
      <4>1. job' = Enqueued(jobs, Run(NextStep(x)), 1)
        BY <3>1 DEF ApplyContinue
      <4>2. RowsTyped' /\ RowInv'
        BY <1>1, <1>2, <1>4, <2>1, <3>1, ApplyContinueKeeps DEF LInv
      <4> QED BY <2>4, <4>1, <4>2
    <3>2. CASE ApplyRetry(x, jobs)
      <4>1. job' = Enqueued(jobs, Run(x[1]), jobs[Run(x[1])].att + 1)
        BY <3>2 DEF ApplyRetry
      <4>2. jobs[Run(x[1])].att + 1 \in Nat
        BY <1>2, <2>2, SourceNames DEF JobRow
      <4>3. RowsTyped' /\ RowInv'
        BY <1>1, <1>2, <1>4, <2>1, <3>2, ApplyRetryKeeps DEF LInv
      <4> QED BY <2>4, <4>1, <4>2, <4>3
    <3>3. CASE ApplyComplete(x, jobs)
      <4>1. /\ job' = jobs /\ wf' = WorkflowMoved("completed") /\ Completable /\ UNCHANGED task
            /\ loop[x].act # "retry"
        BY <3>3 DEF ApplyComplete
      <4>2. RowsTyped' /\ RowInv'
        BY <1>1, <1>2, <1>4, <2>1, <4>1, ConcludeKeeps DEF LInv
      <4> QED BY <2>3, <4>1, <4>2
    <3>4. CASE ApplyStop(x, jobs)
      <4>1. /\ job' = jobs /\ (wf' = WorkflowMoved("blocked") \/ wf' = wf) /\ UNCHANGED task
            /\ loop[x].act # "retry"
        BY <3>4 DEF ApplyStop
      <4>2. RowsTyped' /\ RowInv'
        BY <1>1, <1>2, <1>4, <2>1, <4>1, ConcludeKeeps DEF LInv
      <4> QED BY <2>3, <4>1, <4>2
    <3> QED BY <1>4, <3>1, <3>2, <3>3, <3>4
  <2>6. ASSUME NEW y \in Sources
        PROVE  /\ loop'[y].calls = loop[y].calls /\ (loop[y].calls = 1 => loop'[y].inv # "none")
               /\ loop'[y].inv = loop[y].inv
    <3>1. loop[y] \in LoopRow /\ loop \in [Sources -> LoopRow]
      BY DEF LInv, RowsTyped
    <3>2. loop'[y].calls = loop[y].calls /\ loop'[y].inv = loop[y].inv
      BY <1>2, <1>4, <3>1 DEF LoopRow
    <3> QED BY <3>2 DEF LInv, Calls
  <2>7. \A v \in Workers : pc[v] = "send" => SourceOf(loc[v].op) \in Sources
    BY SenderKnown DEF LInv
  <2> QED BY <1>1, <1>4, <2>5, <2>6, <2>7, ReturnKeeps
<1> QED BY <1>2, <1>3, <1>4 DEF ApplyDecision

\* The life of a process and the lease clock touch no record.
LEMMA LifeStep ==
  ASSUME LInv,
         \/ \E w \in Workers : Boot(w) \/ Crash(w) \/ Drain(w) \/ SettlementFails(w)
         \/ Reconfigure
  PROVE  LInv'
<1>1. UNCHANGED <<wf, task, job, failedRun, passed, loop, asked>>
  BY DEF Boot, Crash, Drain, SettlementFails, Reconfigure, rows, bounds
<1>2. RowsTyped' /\ RowInv'
  <2>1. RowsTyped'
    BY <1>1 DEF LInv, RowsTyped
  <2> QED BY <1>1, <2>1, QuietKeeps DEF LInv
<1>3. ASSUME NEW w \in Workers, Boot(w) \/ Crash(w) \/ Drain(w) \/ SettlementFails(w)
      PROVE  ThreadsTyped' /\ Calls'
  <2>1. gateway' = gateway /\ changes' = changes /\ stops' \in 0..MaxStops
    BY <1>3, LoopBoundsAssumption DEF Boot, Crash, Drain, SettlementFails, bounds, LInv, ThreadsTyped
  <2>2. mode' \in [Workers -> {"down", "booting", "looping", "draining"}]
    <3>1. CASE SettlementFails(w)
      BY <3>1, EndsTyped DEF SettlementFails, LInv
    <3>2. CASE Boot(w) \/ Crash(w) \/ Drain(w)
      BY <3>2 DEF Boot, Crash, Drain, LInv, ThreadsTyped
    <3> QED BY <1>3, <3>1, <3>2
  <2>3. /\ pc' \in [Workers -> Labels] /\ loc' \in [Workers -> LocRow]
        /\ \A v \in Workers \ {w} : pc'[v] = pc[v] /\ loc'[v] = loc[v]
        /\ pc'[w] \in {"idle", "down"} \/ UNCHANGED <<pc, loc>>
    <3>1. CASE SettlementFails(w)
      BY <3>1, EndsTyped DEF SettlementFails, LInv
    <3>2. CASE Boot(w)
      <4>1. Goto(w, "idle") /\ loc' = loc
        BY <3>2 DEF Boot
      <4> QED BY <4>1, GotoTyped DEF LInv, ThreadsTyped, Labels
    <3>3. CASE Crash(w)
      <4>1. Goto(w, "down") /\ loc' = [loc EXCEPT ![w] = NoLoc]
        BY <3>3 DEF Crash, Forget
      <4>2. NoLoc \in LocRow
        BY Names, OpNames DEF NoLoc, LocRow, Subjects
      <4>3. pc' \in [Workers -> Labels] /\ pc'[w] = "down" /\ \A v \in Workers \ {w} : pc'[v] = pc[v]
        BY <4>1, GotoTyped DEF LInv, Labels
      <4>4. loc' \in [Workers -> LocRow] /\ \A v \in Workers \ {w} : loc'[v] = loc[v]
        BY <4>1, <4>2 DEF LInv, ThreadsTyped
      <4> QED BY <4>3, <4>4
    <3>4. CASE Drain(w)
      BY <3>4 DEF Drain, LInv, ThreadsTyped
    <3> QED BY <1>3, <3>1, <3>2, <3>3, <3>4
  <2>4. ThreadsTyped'
    BY <1>1, <2>1, <2>2, <2>3 DEF LInv, ThreadsTyped
  <2>5. Calls'
    <3>1. \A v \in Workers : pc'[v] \in {"exec", "send", "called"} => pc'[v] = pc[v] /\ loc'[v] = loc[v]
      BY <2>3
    <3>2. \A v \in Workers : Holds(v, loc[v].op, loc[v].att)' /\ loc'[v] = loc[v] => Holds(v, loc[v].op, loc[v].att)
      BY <1>1 DEF Holds
    <3>3. \A x \in Sources : loop'[x].calls = loop[x].calls /\ (loop[x].calls = 1 => loop'[x].inv # "none")
      BY <1>1 DEF LInv, Calls
    <3> QED BY <1>1, <3>1, <3>2, <3>3, CallsKept DEF LInv
  <2> QED BY <2>4, <2>5
<1>4. CASE Reconfigure
  <2>1. UNCHANGED <<mode, pc, loc, stops>> /\ gateway' = FALSE
        /\ changes' = changes + 1 /\ changes < MaxReconfigurations
    BY <1>4 DEF Reconfigure, procs
  <2>4. changes' \in 0..MaxReconfigurations
    BY <2>1, LoopBoundsAssumption DEF LInv, ThreadsTyped
  <2>2. ThreadsTyped'
    BY <1>1, <2>1, <2>4 DEF LInv, ThreadsTyped
  <2>3. Calls'
    <3>1. \A v \in Workers : Holds(v, loc[v].op, loc[v].att)' => Holds(v, loc[v].op, loc[v].att)
      BY <1>1, <2>1 DEF Holds
    <3>2. \A x \in Sources : loop'[x].calls = loop[x].calls /\ (loop[x].calls = 1 => loop'[x].inv # "none")
      BY <1>1 DEF LInv, Calls
    <3> QED BY <1>1, <2>1, <3>1, <3>2, CallsKept DEF LInv
  <2> QED BY <1>2, <2>2, <2>3 DEF LInv
<1> QED BY <1>2, <1>3, <1>4 DEF LInv

LEMMA ExpiresStep == ASSUME LInv, NEW op \in Ops, LeaseExpires(op) PROVE LInv'
<1>1. /\ UNCHANGED <<wf, task, failedRun, passed, loop, gateway, mode, pc, loc, asked, stops, changes>>
      /\ job' = [job EXCEPT ![op].exp = TRUE]
  BY DEF LeaseExpires, procs, bounds
<1>2. /\ job' \in [Ops -> JobRow]
      /\ \A o \in Ops : /\ job'[o].att = job[o].att /\ job'[o].st = job[o].st
                        /\ job'[o].code = job[o].code /\ job'[o].tok = job[o].tok
  <2> DEFINE row == [job[op] EXCEPT !.exp = TRUE]
  <2>1. job[op] \in JobRow /\ job \in [Ops -> JobRow]
    BY DEF LInv, RowsTyped
  <2>2. /\ row \in JobRow /\ row.att = job[op].att /\ row.st = job[op].st
        /\ row.code = job[op].code /\ row.tok = job[op].tok
    BY <2>1 DEF JobRow
  <2>3. job' = [job EXCEPT ![op] = row]
    BY <1>1
  <2> HIDE DEF row
  <2> QED BY <2>1, <2>2, <2>3
<1>3. RowsTyped'
  BY <1>1, <1>2 DEF LInv, RowsTyped
<1>4. RowInv'
  BY <1>1, <1>2, <1>3, QuietKeeps DEF LInv
<1>5. ThreadsTyped'
  BY <1>1 DEF LInv, ThreadsTyped
<1>6. Calls'
  <2>1. \A v \in Workers : loc[v].op \in Ops
    BY DEF LInv, ThreadsTyped, LocRow
  <2>2. \A v \in Workers : Holds(v, loc[v].op, loc[v].att)' => Holds(v, loc[v].op, loc[v].att)
    BY <1>1, <1>2, <2>1 DEF Holds
  <2>3. \A x \in Sources : loop'[x].calls = loop[x].calls /\ (loop[x].calls = 1 => loop'[x].inv # "none")
    BY <1>1 DEF LInv, Calls
  <2> QED BY <1>1, <2>2, <2>3, CallsKept DEF LInv
<1> QED BY <1>3, <1>4, <1>5, <1>6 DEF LInv

LEMMA UserStep == ASSUME LInv, RetryWorkflow \/ RequestCancel PROVE LInv'
<1>1. UNCHANGED <<loop, gateway, mode, pc, loc, stops, changes>> /\ asked' \in 0..MaxRequests
  <2>1. /\ UNCHANGED <<loop, gateway, mode, pc, loc, stops, changes>>
        /\ asked' = asked \/ (asked' = asked + 1 /\ asked < MaxRequests)
    BY DEF RetryWorkflow, RequestCancel, procs, bounds
  <2>2. asked \in 0..MaxRequests /\ MaxRequests \in Nat
    BY LoopBoundsAssumption DEF LInv, ThreadsTyped
  <2> QED BY <2>1, <2>2
<1>2. RowsTyped' /\ RowInv'
  BY RetryKeeps, RequestKeeps DEF LInv
<1>3. \A o \in Ops : job'[o].st = "leased" => job'[o] = job[o]
  <2>1. CASE RetryWorkflow
    <3> DEFINE s == failedRun
    <3>1. job' = Enqueued(job, Run(s), job[Run(s)].att + 1) /\ job \in [Ops -> JobRow] /\ s \in Subjects
      BY <2>1 DEF RetryWorkflow, LInv, RowsTyped, Subjects
    <3>2. Run(s) \in Ops /\ \A o \in Ops : job[o].att \in Nat
      BY <3>1, OpNames DEF JobRow
    <3>3. job[Run(s)].att + 1 \in Nat /\ job[Run(s)].att < job[Run(s)].att + 1
      BY <3>2
    <3>4. job'[Run(s)].st = "queued" /\ \A o \in Ops : o # Run(s) => job'[o] = job[o]
      BY <3>1, <3>2, <3>3, EnqueuedRow
    <3> QED BY <3>4
  <2>2. CASE RequestCancel /\ UNCHANGED job
    BY <2>2
  <2>3. CASE job' = [op \in Ops |-> IF job[op].st = "queued"
                                   THEN [job[op] EXCEPT !.st = "cancelled", !.pos = 0] ELSE job[op]]
    <3>1. \A o \in Ops : /\ job'[o].st = IF job[o].st = "queued" THEN "cancelled" ELSE job[o].st
                         /\ job[o].st # "queued" => job'[o] = job[o]
      <4>1. job \in [Ops -> JobRow]
        BY DEF LInv, RowsTyped
      <4> QED BY <2>3, <4>1, EmptiedRow, Zenon
    <3> QED BY <3>1
  <2> QED BY <2>1, <2>2, <2>3 DEF RequestCancel
<1>4. ThreadsTyped'
  BY <1>1 DEF LInv, ThreadsTyped
<1>5. Calls'
  <2>1. \A v \in Workers : loc[v].op \in Ops
    BY DEF LInv, ThreadsTyped, LocRow
  <2>2. \A v \in Workers : Holds(v, loc[v].op, loc[v].att)' => Holds(v, loc[v].op, loc[v].att)
    BY <1>1, <1>3, <2>1 DEF Holds
  <2>3. \A x \in Sources : loop'[x].calls = loop[x].calls /\ (loop[x].calls = 1 => loop'[x].inv # "none")
    BY <1>1 DEF LInv, Calls
  <2> QED BY <1>1, <2>2, <2>3, CallsKept DEF LInv
<1> QED BY <1>2, <1>4, <1>5 DEF LInv

-----------------------------------------------------------------------------
(* The invariant. *)

LEMMA InitHolds == Init => LInv
<1> SUFFICES ASSUME Init PROVE LInv
  OBVIOUS
<1>1. RowsTyped
  <2>1. NoJob \in JobRow /\ Queued(1, 1) \in JobRow
    BY QueuedRow
  <2>2. NoLoop \in LoopRow
    BY DEF NoLoop, LoopRow
  <2>3. job = [op \in Ops |-> IF op = Run(1) THEN Queued(1, 1) ELSE NoJob]
    BY DEF Init
  <2>4. job \in [Ops -> JobRow]
    BY <2>1, <2>3
  <2>5. loop \in [Sources -> LoopRow]
    BY <2>2 DEF Init
  <2>6. wf \in [status: Phases, rev: Nat, cancel: BOOLEAN]
    <3>1. "running" \in Phases /\ 1 \in Nat /\ FALSE \in BOOLEAN
      BY DEF Phases
    <3> QED BY <3>1 DEF Init
  <2>8. failedRun \in 0..Review /\ passed \in BOOLEAN
    <3>1. 0 \in 0..Review
      BY Names
    <3> QED BY <3>1 DEF Init
  <2>7. task \in [Tasks -> TaskStatuses]
    BY DEF Init, TaskStatuses
  <2> QED BY <2>4, <2>5, <2>6, <2>7, <2>8 DEF RowsTyped
<1>2. /\ Run(1) \in Ops /\ 1 \in Tasks /\ 1 \in Subjects
      /\ \A s \in Subjects : Run(s) \in Ops /\ (Run(s) = Run(1) <=> s = 1)
      /\ \A x \in Sources, k \in Control : Ctl(k, x) \in Ops /\ Ctl(k, x) # Run(1)
  <2>1. 1 \in Tasks
    BY StepsTyped DEF Tasks
  <2> QED BY <2>1, Names, OpNames
<1>3. /\ \A op \in Ops \ {Run(1)} : job[op] = NoJob
      /\ job[Run(1)] = Queued(1, 1)
      /\ \A s \in Tasks : task[s] = IF s = 1 THEN "queued" ELSE "pending"
      /\ \A x \in Sources : loop[x] = NoLoop
      /\ wf.status = "running" /\ wf.rev = 1 /\ ~wf.cancel /\ ~passed /\ asked = 0
  BY <1>2 DEF Init
<1>4. /\ NoJob.att = 0 /\ NoJob.st = "absent" /\ NoJob.code = "none"
      /\ Queued(1, 1).att = 1 /\ Queued(1, 1).st = "queued" /\ Queued(1, 1).code = "none"
      /\ NoLoop.obs = "none" /\ NoLoop.st = "none" /\ NoLoop.act = "none" /\ NoLoop.rev = 0
      /\ NoLoop.inv = "none" /\ NoLoop.calls = 0
  BY QueuedRow DEF NoJob, NoLoop
<1>5. Rows
  <2>1. task \in [Tasks -> {"pending", "queued", "running", "completed", "failed", "cancelled"}]
    BY DEF Init
  <2> QED BY <1>3, <1>4, <2>1 DEF Rows
<1>6. TaskJobs
  BY <1>2, <1>3, <1>4, Names DEF TaskJobs, Active
<1>7. Flags
  BY <1>3 DEF Flags, CancelledStaysEmpty
<1>8. Records
  <2> SUFFICES ASSUME NEW x \in Sources
               PROVE  /\ loop[x].obs = "none" /\ loop[x].st = "none"
                      /\ job[Ctl("observe", x)].att = 0 /\ ~Concluded(x)
    BY DEF Records, Answered
  <2>1. job[Ctl("observe", x)].att = 0
    BY <1>2, <1>3, <1>4 DEF Control
  <2>2. job[Run(x[1])].st \in {"absent", "queued"}
    BY <1>2, <1>3, <1>4, SourceNames
  <2> QED BY <1>3, <1>4, <2>1, <2>2 DEF Concluded
<1>9. Order
  <2> SUFFICES ASSUME NEW s \in Tasks, NEW k \in Subjects, s < k, job[Run(k)].att > 0 PROVE FALSE
    BY DEF Order
  <2>1. k # 1
    BY Names
  <2> QED BY <1>2, <1>3, <1>4, <2>1
<1>10. Budget
  <2>1. AppliedRetries = {}
    BY <1>3, <1>4 DEF AppliedRetries
  <2>2. Cardinality(AppliedRetries) = 0 /\ \A s : Cardinality({x \in AppliedRetries : x[1] = s}) = 0
    <3>1. \A s : {x \in AppliedRetries : x[1] = s} = {}
      BY <2>1
    <3> QED BY <2>1, <3>1, FS_EmptySet
  <2>3. RetriesBounded
    BY <2>2, LoopBoundsAssumption DEF RetriesBounded
  <2>4. ASSUME NEW s \in Subjects
        PROVE  job[Run(s)].att <= MaxJobAttempts + asked + Cardinality({x \in AppliedRetries : x[1] = s})
    <3>1. job[Run(s)].att <= 1
      BY <1>2, <1>3, <1>4
    <3>2. job[Run(s)].att \in Nat
      BY <1>1, <1>2 DEF RowsTyped, JobRow
    <3>3. Cardinality({x \in AppliedRetries : x[1] = s}) = 0 /\ asked = 0
      BY <1>3, <2>2
    <3> QED BY <3>1, <3>2, <3>3, StepsTyped
  <2>5. \A x \in Sources : loop[x].rev <= wf.rev /\ loop[x].st # "proposed"
    BY <1>3, <1>4
  <2> QED BY <2>3, <2>4, <2>5 DEF Budget, AttemptsBudgeted, AttemptsAccounted
<1>11. ThreadsTyped
  <2>1. NoLoc \in LocRow
    BY Names, OpNames DEF NoLoc, LocRow, Subjects
  <2> QED BY <2>1, LoopBoundsAssumption DEF Init, ThreadsTyped, Labels
<1>12. Calls
  <2>1. \A w \in Workers : pc[w] = "down"
    BY DEF Init
  <2> QED BY <1>3, <1>4, <2>1 DEF Calls
<1> QED BY <1>1, <1>5, <1>6, <1>7, <1>8, <1>9, <1>10, <1>11, <1>12 DEF LInv, RowInv

LEMMA StepKeeps == LInv /\ [Next]_vars => LInv'
<1> SUFFICES ASSUME LInv, [Next]_vars PROVE LInv'
  OBVIOUS
<1>1. CASE UNCHANGED vars
  <2>1. UNCHANGED <<wf, task, job, failedRun, passed, loop, gateway, mode, pc, loc, asked, stops, changes>>
    BY <1>1 DEF vars
  <2>2. RowsTyped' /\ ThreadsTyped'
    BY <2>1 DEF LInv, RowsTyped, ThreadsTyped
  <2>3. RowInv'
    BY <2>1, <2>2, QuietKeeps DEF LInv
  <2>4. Calls'
    <3>1. \A v \in Workers : Holds(v, loc[v].op, loc[v].att)' => Holds(v, loc[v].op, loc[v].att)
      BY <2>1 DEF Holds
    <3>2. \A x \in Sources : loop'[x].calls = loop[x].calls /\ (loop[x].calls = 1 => loop'[x].inv # "none")
      BY <2>1 DEF LInv, Calls
    <3> QED BY <2>1, <3>1, <3>2, CallsKept DEF LInv
  <2> QED BY <2>2, <2>3, <2>4 DEF LInv
<1>2. CASE \E w \in Workers : WorkerStep(w)
  <2>1. PICK w \in Workers : WorkerStep(w)
    BY <1>2
  <2>2. CASE RecoverExpired(w) BY <2>2, RecoverKeeps
  <2>3. CASE BootDone(w) BY <2>3, BootDoneStep
  <2>4. CASE Claim(w) BY <2>4, ClaimStep
  <2>5. CASE ExecuteRun(w) BY <2>5, ExecuteStep
  <2>6. CASE Observe(w) BY <2>6, ObserveStep
  <2>7. CASE Decide(w) BY <2>7, DecideStep
  <2>8. CASE BeginInvocation(w) BY <2>8, BeginStep
  <2>9. CASE Send(w) BY <2>9, SendStep
  <2>10. CASE AnswerArrives(w) BY <2>10, AnswerStep
  <2>11. CASE ApplyDecision(w) BY <2>11, ApplyStep
  <2>12. CASE Settle(w) BY <2>12, SettleKeeps
  <2>13. CASE Heal(w) BY <2>13, HealStep
  <2> QED BY <2>1, <2>2, <2>3, <2>4, <2>5, <2>6, <2>7, <2>8, <2>9, <2>10, <2>11, <2>12, <2>13 DEF WorkerStep
<1>3. CASE (\E w \in Workers : Boot(w) \/ Crash(w) \/ Drain(w) \/ SettlementFails(w)) \/ Reconfigure
  BY <1>3, LifeStep
<1>4. CASE \E op \in Ops : LeaseExpires(op)
  BY <1>4, ExpiresStep
<1>5. CASE RetryWorkflow \/ RequestCancel
  BY <1>5, UserStep
<1> QED BY <1>1, <1>2, <1>3, <1>4, <1>5 DEF Next

LEMMA Invariant == Spec => []LInv
<1> QED BY InitHolds, StepKeeps, PTL DEF Spec

-----------------------------------------------------------------------------
(* What it says of the loop. *)

\* Every row is in a state the code names, a task that runs has the job that runs it, a
\* requested cancellation waits only for a lease, and what was cancelled stays empty
\* (jobs.py, worker.py, agent_loop/coordinator.py).
THEOREM RecordsAgreeCorrect == Spec => []RecordsAgree
<1>1. LInv => RecordsAgree
  <2> SUFFICES ASSUME LInv PROVE RecordsAgree
    OBVIOUS
  <2>1. TypeOK
    BY TypeParts DEF LInv
  <2>2. ASSUME NEW s \in Tasks, task[s] = "running"
        PROVE  \E op \in Ops : HasTask(op) /\ op[2] = s /\ Active(op)
    <3>1. Active(Run(s))
      BY <2>2 DEF LInv, RowInv, TaskJobs
    <3>2. Run(s) \in Ops /\ Run(s)[1] = "run" /\ Run(s)[2] = s
      BY Names, OpNames
    <3> QED BY <3>1, <3>2 DEF HasTask
  <2>3. NothingAbandoned
    BY <2>2 DEF NothingAbandoned, LInv, RowInv, Flags
  <2>4. CancelledStaysEmpty
    BY DEF LInv, RowInv, Flags
  <2> QED BY <2>1, <2>3, <2>4 DEF RecordsAgree
<1> QED BY <1>1, Invariant, PTL

\* Steps and review run one at a time and in order, whoever queued them, and a workflow
\* the agent completed has all of them behind it (decisions.py, loop application).
THEOREM OneRunInOrderCorrect == Spec => []OneRunInOrder
<1>1. LInv => OneRunInOrder
  <2> SUFFICES ASSUME LInv PROVE OneRunInOrder
    OBVIOUS
  <2>1. ASSUME NEW s \in Subjects, NEW k \in Subjects, s < k, job[Run(k)].att > 0
        PROVE  task[s] = "completed" /\ ~Active(Run(s))
    <3>1. s \in Tasks
      BY <2>1, StepsTyped DEF Subjects, Tasks, Review
    <3>2. task[s] = "completed"
      BY <2>1, <3>1 DEF LInv, RowInv, Order
    <3>3. job[Run(s)].st = "succeeded"
      BY <3>1, <3>2 DEF LInv, RowInv, TaskJobs
    <3> QED BY <3>2, <3>3 DEF Active
  <2>2. wf.status = "completed" => passed /\ ~Active(Run(Review))
    BY DEF LInv, RowInv, Flags, Active
  <2> QED BY <2>1, <2>2 DEF OneRunInOrder
<1> QED BY <1>1, Invariant, PTL

\* The agent's retries stay within MAX_STEP_RETRIES and every attempt of a step is accounted
\* for, although the count is read when a decision is made and used transactions later.
THEOREM AttemptsBudgetedCorrect == Spec => []AttemptsBudgeted
<1>1. LInv => AttemptsBudgeted
  BY DEF LInv, RowInv, Budget
<1> QED BY <1>1, Invariant, PTL

\* The remote model is asked at most once about an observation, however often the job of
\* the decision is lost, taken over or repeated (model_decision.py).
THEOREM ModelAskedOnceCorrect == Spec => []ModelAskedOnce
<1>1. LInv => ModelAskedOnce
  BY DEF LInv, Calls, ModelAskedOnce
<1> QED BY <1>1, Invariant, PTL
=============================================================================

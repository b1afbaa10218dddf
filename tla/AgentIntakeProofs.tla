------------------------- MODULE AgentIntakeProofs -------------------------
(***************************************************************************)
(* The intake's records agree and every goal is routed once, for any       *)
(* number of processes, windows, answers, attempts, crashes and retries.   *)
(*                                                                         *)
(* Who asks (Asks, Decides).  A process may still ask the model about a    *)
(* route, or waits for its answer, only if it began the route's            *)
(* invocation, and only one process ever did.  A decision is recorded only *)
(* with the invocation ended, or with the route's job done and nobody left *)
(* who could bring another.                                                *)
(*                                                                         *)
(* Rows (RowsInv).  Only the newest answer is routed, and while it is      *)
(* there is no current decision; the plan jobs have reserved no more       *)
(* versions than there were answers and the goal.  Who drafts a plan or    *)
(* shows a question has read what still is so, or the revision has moved   *)
(* on since; the scientific question, which moves no revision, is allowed  *)
(* for because it is always appended behind what a window shows.           *)
(***************************************************************************)
EXTENDS AgentIntake, FiniteSetTheorems, TLAPS

Places == {"idle", "down", "claimed", "begun", "sending", "answered", "decided", "planning", "settling"}
JobRow == [att : Nat, st : {"absent", "queued", "leased", "succeeded", "failed", "cancelled"},
           holder : Processes \cup {NoProcess}, live : BOOLEAN, in : Routes \cup {NoDecision}]
LocRow == [op : Ops, att : Nat, rev : Nat, intent : Intents \cup {"none"}]
QuestionRow == [kind : {"intent", "science"}, st : {"pending", "answered", "superseded", "cancelled"},
                rev : Nat]
PlanRow == [st : {"none", "pending", "superseded", "approved"}, seen : Nat]
ReadRow == [question : Nat, rev : Nat]

\* What is not said by TypeOK of the types.
Typed ==
    /\ wf \in [status : WorkflowStatuses, rev : Nat, cancel : BOOLEAN,
               mode : {"local", "remote"}, decision : Routes \cup {NoDecision}]
    /\ dec \in [Routes -> Intents \cup {"none"}]
    /\ inv \in [Routes -> {"none", "pending", "ended"}]
    /\ job \in [Ops -> JobRow] /\ failed \in Ops
    /\ question \in Seq(QuestionRow) /\ answers \in Seq(ReadRow) /\ Len(answers) <= MaxAnswers
    /\ plan \in [Versions -> PlanRow]
    /\ pc \in [Processes -> Places] /\ loc \in [Processes -> LocRow]
    /\ tab \in [Tabs -> ReadRow]
    /\ asked \in [Routes -> Nat]

RouteOp(n) == <<"route", n>>
PlanOp(v) == <<"plan", v>>
Active(op) == job[op].st \in {"queued", "leased"}

\* Where a process is tells what kind of job it works on.
Kinds ==
    \A p \in Processes :
        /\ pc[p] \in {"begun", "sending", "answered", "decided"} => loc[p].op \in {RouteOp(n) : n \in Routes}
        /\ pc[p] = "planning" => loc[p].op \in {PlanOp(v) : v \in Versions}

\* Whoever may still ask the model about a route, or waits for its answer.
Asking(p, n) == pc[p] \in {"begun", "sending", "answered"} /\ loc[p].op = RouteOp(n)
Unasked(n) == \A p \in Processes : ~Asking(p, n)
Asks ==
    /\ \A n \in Routes : asked[n] <= 1 /\ (inv[n] = "none" => asked[n] = 0)
    /\ \A n \in Routes : \A p, q \in Processes : Asking(p, n) /\ Asking(q, n) => p = q
    /\ \A n \in Routes : \A p \in Processes : Asking(p, n) =>
          /\ inv[n] # "none" /\ (pc[p] # "answered" => asked[n] = 0)
          /\ Holds(p) => inv[n] = "pending"

\* A decision stays: nobody who could write another one is left.
Decides ==
    /\ \A n \in Routes : dec[n] # "none" =>
          inv[n] = "ended" \/ (job[RouteOp(n)].st = "succeeded" /\ Unasked(n))
    /\ \A p \in Processes, n \in Routes :
          pc[p] = "decided" /\ Holds(p) /\ loc[p].op = RouteOp(n) =>
             \/ inv[n] = "ended" /\ dec[n] = loc[p].intent
             \/ inv[n] # "ended" /\ dec[n] = "none" /\ Unasked(n)

\* Only the newest answer is routed, and once it is, its decision is the current one
\* until the user changes it.
Routing ==
    /\ \A n \in Routes : n > Len(answers) => job[RouteOp(n)].st = "absent"
    /\ \A n \in Routes : job[RouteOp(n)].st # "absent" => job[RouteOp(n)].in = n
    /\ \A n \in Routes : Active(RouteOp(n)) =>
          n = Len(answers) /\ wf.status \in {"routing", "failed", "cancelled"}
    /\ wf.decision # NoDecision =>
          /\ job[RouteOp(wf.decision)].st = "succeeded" /\ dec[wf.decision] # "none"
          /\ \A n \in Routes : n > wf.decision => job[RouteOp(n)].st = "absent"

\* The versions reserved so far, no more than the answers allow.
Reserved ==
    /\ \E k \in 0 .. Len(answers) + 1 :
          /\ \A v \in Versions : job[PlanOp(v)].st # "absent" <=> v <= k
          /\ job[RouteOp(Len(answers))].st \in {"queued", "leased", "failed"} => k <= Len(answers)
    /\ \A v \in Versions : job[PlanOp(v)].st # "absent" =>
          job[PlanOp(v)].in \in Routes /\ dec[job[PlanOp(v)].in] \in Workflows

Plans ==
    /\ \A v \in Versions : plan[v].st # "none" => job[PlanOp(v)].st = "succeeded"
    /\ \A v \in Versions : plan[v].st = "pending" => wf.status \in {"waiting-plan-approval", "cancelled"}
    /\ \A v \in Versions : plan[v].st = "approved" =>
          /\ wf.status \in {"running", "failed", "cancelled"}
          /\ \A n \in Routes : ~Active(RouteOp(n))
    /\ \A v, w \in Versions : plan[v].st = "pending" /\ plan[w].st = "pending" => v = w
    /\ PlanFollowsAnswers

\* Who drafts a plan has read what still is so, or the revision has moved on.
Planners ==
    \A p \in Processes : pc[p] = "planning" =>
        /\ loc[p].rev <= wf.rev
        /\ loc[p].rev = wf.rev => wf.status = "planning" /\ job[loc[p].op].in = wf.decision

\* What the status says.
Statuses ==
    /\ wf.status \in {"routing", "waiting-clarification", "unsupported"} => Type \notin Workflows
    /\ wf.status \in {"planning", "waiting-plan-approval", "running"} => Type \in Workflows
    /\ wf.status = "cancelled" => wf.cancel
    /\ CancelledIsQuiet

\* The question that is put is the newest one, and a question about the intent is put
\* exactly as long as the workflow waits for its answer.
Questions ==
    /\ \A i \in DOMAIN question : Pending(i) => Latest(i)
    /\ \A i \in DOMAIN question :
          Pending(i) /\ question[i].kind = "intent" => wf.status = "waiting-clarification"
    /\ wf.status = "waiting-clarification" =>
          \E i \in DOMAIN question : Pending(i) /\ question[i].kind = "intent"

\* What a window has read still is so, or the revision has moved on.
Windows ==
    \A t \in Tabs : tab[t] # NoRead =>
        /\ tab[t].question \in DOMAIN question /\ tab[t].rev <= wf.rev
        /\ \A i \in 1 .. tab[t].question - 1 : ~Pending(i)
        /\ tab[t].rev = wf.rev =>
              /\ wf.status \in {"waiting-clarification", "planning", "waiting-plan-approval"}
              /\ question[tab[t].question].kind = "science" => Type = "dataset"
              /\ wf.status = "waiting-clarification" => Latest(tab[t].question)

IntakeInv ==
    /\ Typed /\ Kinds /\ Asks /\ Decides /\ Routing /\ Reserved /\ Plans /\ Planners
    /\ Statuses /\ Questions /\ Windows /\ IntakeIsNotStranded
-----------------------------------------------------------------------------
(* The operations, and what each write does to the jobs and the workflow. *)

LEMMA OpNames ==
  /\ \A n \in Routes : RouteOp(n) \in Ops /\ RouteOp(n)[1] = "route" /\ RouteOp(n)[2] = n
  /\ \A v \in Versions : PlanOp(v) \in Ops /\ PlanOp(v)[1] = "plan" /\ PlanOp(v)[2] = v
  /\ \A n \in Routes, v \in Versions : RouteOp(n) # PlanOp(v)
  /\ \A n, m \in Routes : RouteOp(n) = RouteOp(m) => n = m
  /\ \A v, w \in Versions : PlanOp(v) = PlanOp(w) => v = w
  BY DEF RouteOp, PlanOp, Ops

LEMMA OpKinds ==
  ASSUME NEW op \in Ops
  PROVE  \/ op[1] = "route" /\ op[2] \in Routes /\ op = RouteOp(op[2])
         \/ op[1] = "plan" /\ op[2] \in Versions /\ op = PlanOp(op[2])
  BY DEF RouteOp, PlanOp, Ops

LEMMA LimitsAreNumbers ==
  /\ MaxAnswers \in Nat /\ Routes = 0 .. MaxAnswers /\ Versions = 1 .. MaxAnswers + 1
  /\ 0 \in Routes /\ NoDecision \notin Routes /\ NoProcess \notin Processes
  BY IntakeAssumption DEF Routes, Versions, NoDecision

Stages == {"absent", "queued", "leased", "succeeded", "failed", "cancelled"}

LEMMA EndedRow ==
  ASSUME NEW jobs \in [Ops -> JobRow], NEW op \in Ops, NEW status \in Stages
  PROVE  /\ Ended(jobs, op, status) \in [Ops -> JobRow]
         /\ \A o \in Ops : o # op => Ended(jobs, op, status)[o] = jobs[o]
         /\ Ended(jobs, op, status)[op].st = status
         /\ Ended(jobs, op, status)[op].in = jobs[op].in
         /\ Ended(jobs, op, status)[op].holder = NoProcess
  BY DEF Ended, JobRow, Stages

LEMMA EnqueuedRow ==
  ASSUME NEW jobs \in [Ops -> JobRow], NEW op \in Ops, NEW att \in Nat, NEW in \in Routes \cup {NoDecision}
  PROVE  /\ Enqueued(jobs, op, att, in) \in [Ops -> JobRow]
         /\ \A o \in Ops : o # op => Enqueued(jobs, op, att, in)[o] = jobs[o]
         /\ Enqueued(jobs, op, att, in)[op].st = "queued"
         /\ Enqueued(jobs, op, att, in)[op].in = in
         /\ Enqueued(jobs, op, att, in)[op].holder = NoProcess
<1> DEFINE row == [NoJob EXCEPT !.att = att, !.st = "queued", !.in = in]
<1>1. row \in JobRow /\ row.st = "queued" /\ row.in = in /\ row.holder = NoProcess
  BY DEF NoJob, JobRow
<1>2. Enqueued(jobs, op, att, in) = [jobs EXCEPT ![op] = row]
  BY DEF Enqueued
<1> HIDE DEF row
<1> QED BY <1>1, <1>2

\* The jobs that wait are cancelled, the others stay.
LEMMA CancelQueuedRow ==
  ASSUME NEW jobs \in [Ops -> JobRow]
  PROVE  /\ CancelQueued(jobs) \in [Ops -> JobRow]
         /\ \A o \in Ops : jobs[o].st # "queued" => CancelQueued(jobs)[o] = jobs[o]
         /\ \A o \in Ops : jobs[o].st = "queued" => CancelQueued(jobs)[o].st = "cancelled"
         /\ \A o \in Ops : CancelQueued(jobs)[o].in = jobs[o].in
<1>1. \A o \in Ops : /\ Ended(jobs, o, "cancelled")[o] \in JobRow
                     /\ Ended(jobs, o, "cancelled")[o].st = "cancelled"
                     /\ Ended(jobs, o, "cancelled")[o].in = jobs[o].in
  BY EndedRow DEF Stages
<1>2. \A o \in Ops : CancelQueued(jobs)[o] = IF jobs[o].st = "queued" THEN Ended(jobs, o, "cancelled")[o] ELSE jobs[o]
  BY DEF CancelQueued
<1>3. CancelQueued(jobs) \in [Ops -> JobRow]
  BY <1>1 DEF CancelQueued
<1> QED BY <1>1, <1>2, <1>3

WorkflowRows == [status : WorkflowStatuses, rev : Nat, cancel : BOOLEAN,
                mode : {"local", "remote"}, decision : Routes \cup {NoDecision}]

LEMMA MovedRow ==
  ASSUME wf \in WorkflowRows, NEW status \in WorkflowStatuses
  PROVE  /\ Moved(status) \in WorkflowRows
         /\ Moved(status).status = status /\ Moved(status).cancel = wf.cancel
         /\ Moved(status).decision = wf.decision
         /\ Moved(status).rev = IF wf.status = status THEN wf.rev ELSE wf.rev + 1
<1>1. CASE wf.status = status
  BY <1>1 DEF Moved, WorkflowRows
<1>2. CASE wf.status # status
  <2>0. wf.rev + 1 \in Nat
    BY DEF WorkflowRows
  <2>1. Moved(status) = [wf EXCEPT !.status = status, !.rev = wf.rev + 1]
    BY <1>2 DEF Moved
  <2> QED BY <1>2, <2>0, <2>1 DEF WorkflowRows
<1> QED BY <1>1, <1>2

LEMMA QuestionsTyped ==
  ASSUME question \in Seq(QuestionRow)
  PROVE  /\ Len(question) \in Nat /\ DOMAIN question = 1 .. Len(question)
         /\ \A i \in DOMAIN question : question[i] \in QuestionRow
  OBVIOUS

\* The questions of a set are closed.
ClosedBy(S, status) ==
    [i \in DOMAIN question |-> IF i \in S THEN [question[i] EXCEPT !.st = status] ELSE question[i]]

LEMMA ClosedRows ==
  ASSUME question \in Seq(QuestionRow), NEW S,
         NEW status \in {"pending", "answered", "superseded", "cancelled"}
  PROVE  /\ ClosedBy(S, status) \in Seq(QuestionRow) /\ Len(ClosedBy(S, status)) = Len(question)
         /\ DOMAIN ClosedBy(S, status) = DOMAIN question
         /\ \A i \in DOMAIN question :
               /\ ClosedBy(S, status)[i].kind = question[i].kind
               /\ ClosedBy(S, status)[i].rev = question[i].rev
               /\ ClosedBy(S, status)[i].st = IF i \in S THEN status ELSE question[i].st
<1> DEFINE row(i) == [question[i] EXCEPT !.st = status]
           closed == ClosedBy(S, status)
<1>1. \A i \in DOMAIN question :
         /\ row(i) \in QuestionRow /\ row(i).st = status
         /\ row(i).kind = question[i].kind /\ row(i).rev = question[i].rev
  BY QuestionsTyped DEF QuestionRow
<1>2. closed = [i \in DOMAIN question |-> IF i \in S THEN row(i) ELSE question[i]]
  BY DEF ClosedBy
<1> HIDE DEF row, closed
<1>3. closed \in [1 .. Len(question) -> QuestionRow]
  <2>1. \A i \in DOMAIN question : closed[i] \in QuestionRow
    BY <1>1, <1>2, QuestionsTyped
  <2> QED BY <1>2, <2>1, QuestionsTyped
<1>4. closed \in Seq(QuestionRow) /\ Len(closed) = Len(question) /\ DOMAIN closed = DOMAIN question
  BY <1>3, QuestionsTyped
<1>5. \A i \in DOMAIN question : closed[i] = IF i \in S THEN row(i) ELSE question[i]
  BY <1>2
<1>6. \A i \in DOMAIN question :
               /\ closed[i].kind = question[i].kind /\ closed[i].rev = question[i].rev
               /\ closed[i].st = IF i \in S THEN status ELSE question[i].st
  BY <1>1, <1>5
<1> QED BY <1>4, <1>6 DEF closed
-----------------------------------------------------------------------------
(* What most steps do: no decision is touched, no job begins or ends. *)

Quiet == {"idle", "down", "claimed", "settling"}

\* Every process goes on as before, without a lease it had not, or asks nothing any more.
ThreadsKept ==
    \A q \in Processes :
        \/ pc'[q] = pc[q] /\ loc'[q] = loc[q] /\ (Holds(q)' => Holds(q))
        \/ pc'[q] \in Quiet
        \/ pc'[q] = "planning" /\ loc'[q].op \in {PlanOp(v) : v \in Versions}

LEMMA ThreadsStay ==
  ASSUME Kinds, Asks, Decides, UNCHANGED <<dec, inv, asked>>, ThreadsKept,
         \A n \in Routes : job[RouteOp(n)].st = "succeeded" => job'[RouteOp(n)].st = "succeeded"
  PROVE  Kinds' /\ Asks' /\ Decides'
<1>1. Kinds'
  BY DEF Kinds, ThreadsKept, Quiet
<1>2. \A p \in Processes, n \in Routes :
         Asking(p, n)' => Asking(p, n) /\ pc'[p] = pc[p] /\ (Holds(p)' => Holds(p))
  BY DEF ThreadsKept, Quiet, Asking
<1>3. Asks'
  BY <1>2 DEF Asks
<1>4. \A p \in Processes :
         pc'[p] = "decided" => pc[p] = "decided" /\ loc'[p] = loc[p] /\ (Holds(p)' => Holds(p))
  BY DEF ThreadsKept, Quiet
<1>5. \A n \in Routes : Unasked(n) => Unasked(n)'
  BY <1>2 DEF Unasked
<1>6. Decides'
  BY <1>4, <1>5 DEF Decides
<1> QED BY <1>1, <1>3, <1>6

\* Jobs only begin or are tried again, and decisions only are made.
JobsKept ==
    \A op \in Ops :
        /\ job'[op].in = job[op].in
        /\ job'[op].st = job[op].st \/ (Active(op) /\ Active(op)')
        /\ job'[op].st = "queued" /\ job[op].st # "queued" => ~wf.cancel
DecKept == \A n \in Routes : dec[n] # "none" => dec'[n] = dec[n]
PlannersKept ==
    \A q \in Processes : pc'[q] = "planning" =>
        \/ pc[q] = "planning" /\ loc'[q] = loc[q]
        \/ /\ loc'[q].rev = wf.rev /\ wf.status = "planning"
           /\ loc'[q].op \in Ops /\ job[loc'[q].op].in = wf.decision

RowsInv ==
    /\ Routing /\ Reserved /\ Plans /\ Planners /\ Statuses /\ Questions /\ Windows
    /\ IntakeIsNotStranded

LEMMA TypeKept ==
  ASSUME Typed, Routing, DecKept, wf'.decision = wf.decision
  PROVE  Type' = Type
  BY DEF Typed, Routing, DecKept, Type

LEMMA RowsStay ==
  ASSUME Typed, Kinds, RowsInv, UNCHANGED <<wf, question, answers, plan, tab>>,
         JobsKept, DecKept, PlannersKept
  PROVE  RowsInv'
<1>1. Type' = Type
  BY TypeKept DEF RowsInv
<1>2. Routing'
  <2>1. \A n \in Routes :
           /\ job'[RouteOp(n)].in = job[RouteOp(n)].in
           /\ job'[RouteOp(n)].st = "absent" <=> job[RouteOp(n)].st = "absent"
           /\ Active(RouteOp(n))' => Active(RouteOp(n))
           /\ job[RouteOp(n)].st = "succeeded" => job'[RouteOp(n)].st = "succeeded"
    BY OpNames DEF JobsKept, Active
  <2>2. wf.decision # NoDecision => wf.decision \in Routes
    BY DEF Typed
  <2> QED BY <2>1, <2>2 DEF RowsInv, Routing, DecKept
<1>3. Reserved'
  <2>1. PICK k \in 0 .. Len(answers) + 1 :
          /\ \A v \in Versions : job[PlanOp(v)].st # "absent" <=> v <= k
          /\ job[RouteOp(Len(answers))].st \in {"queued", "leased", "failed"} => k <= Len(answers)
    BY DEF RowsInv, Reserved
  <2>2. Len(answers) \in Routes
    BY LimitsAreNumbers DEF Typed
  <2>3. \A v \in Versions : job'[PlanOp(v)].st # "absent" <=> v <= k
    BY <2>1, OpNames DEF JobsKept, Active
  <2>4. job'[RouteOp(Len(answers))].st \in {"queued", "leased", "failed"} => k <= Len(answers)
    BY <2>1, <2>2, OpNames DEF JobsKept, Active
  <2>5. \A v \in Versions : job'[PlanOp(v)].st # "absent" =>
          job'[PlanOp(v)].in \in Routes /\ dec'[job'[PlanOp(v)].in] \in Workflows
    BY OpNames DEF RowsInv, Reserved, JobsKept, Active, DecKept, Workflows
  <2> QED BY <2>1, <2>3, <2>4, <2>5 DEF Reserved
<1>4. Plans'
  <2>1. \A v \in Versions : plan[v].st # "none" => job'[PlanOp(v)].st = "succeeded"
    BY OpNames DEF RowsInv, Plans, JobsKept, Active
  <2>2. \A n \in Routes : Active(RouteOp(n))' => Active(RouteOp(n))
    BY OpNames DEF JobsKept, Active
  <2>3. PlanFollowsAnswers'
    BY DEF RowsInv, Plans, PlanFollowsAnswers
  <2> QED BY <2>1, <2>2, <2>3 DEF RowsInv, Plans
<1>9. Planners'
  <2>4. ASSUME NEW p \in Processes, pc'[p] = "planning"
        PROVE  /\ loc'[p].rev <= wf.rev
               /\ loc'[p].rev = wf.rev => wf.status = "planning" /\ job'[loc'[p].op].in = wf.decision
    <3>1. CASE pc[p] = "planning" /\ loc'[p] = loc[p]
      BY <3>1, OpNames DEF RowsInv, Planners, JobsKept, Kinds
    <3>2. CASE loc'[p].rev = wf.rev /\ wf.status = "planning"
                  /\ loc'[p].op \in Ops /\ job[loc'[p].op].in = wf.decision
      BY <3>2 DEF JobsKept, Typed
    <3> QED BY <2>4, <3>1, <3>2 DEF PlannersKept
  <2> QED BY <2>4 DEF Planners
<1>5. Statuses'
  BY <1>1 DEF RowsInv, Statuses, CancelledIsQuiet, JobsKept, Pending
<1>6. Questions'
  BY DEF RowsInv, Questions, Pending, Latest, Open
<1>7. Windows'
  BY <1>1 DEF RowsInv, Windows, Pending, Latest, Open
<1>8. IntakeIsNotStranded'
  <2>1. \A op \in Ops : Live(op) => Live(op)'
    BY DEF Live, Compatible, InputOf, JobsKept, Active
  <2>2. Len(answers) \in Routes
    BY LimitsAreNumbers DEF Typed
  <2> QED BY <1>1, <2>1, <2>2, OpNames
       DEF RowsInv, IntakeIsNotStranded, Latest, Open, Scientific, Pending, RouteOp, PlanOp
<1> QED BY <1>2, <1>3, <1>4, <1>5, <1>6, <1>7, <1>8, <1>9 DEF RowsInv
-----------------------------------------------------------------------------
(* Routing: the steps that ask and decide. *)

\* A step of one process that leaves the jobs alone and stays at its job.
LEMMA OneMoves ==
  ASSUME Typed, NEW p \in Processes, NEW to \in Places, UNCHANGED job, Move(p, to),
         \A q \in Processes : q # p => loc'[q] = loc[q],
         loc'[p].op = loc[p].op, loc'[p].att = loc[p].att
  PROVE  /\ \A q \in Processes : Holds(q)' <=> Holds(q)
         /\ \A q \in Processes, n \in Routes : q # p => (Asking(q, n)' <=> Asking(q, n))
         /\ \A n \in Routes :
               Asking(p, n)' <=> to \in {"begun", "sending", "answered"} /\ loc[p].op = RouteOp(n)
         /\ \A q \in Processes : pc'[q] = IF q = p THEN to ELSE pc[q]
<1>1. \A q \in Processes : loc'[q].op = loc[q].op /\ loc'[q].att = loc[q].att
  OBVIOUS
<1>2. \A q \in Processes : pc'[q] = IF q = p THEN to ELSE pc[q]
  BY DEF Move, Typed
<1>3. \A q \in Processes : Holds(q)' <=> Holds(q)
  BY <1>1 DEF Holds
<1> QED BY <1>1, <1>2, <1>3 DEF Asking

\* What a handler finds that begins to route.
LEMMA RouteRead ==
  ASSUME Typed, NEW p \in Processes, Reads(p, "route", "routing")
  PROVE  /\ Route(p) \in Routes /\ loc[p].op = RouteOp(Route(p)) /\ pc[p] = "claimed" /\ Holds(p)
         /\ job[RouteOp(Route(p))].st = "leased" /\ ~wf.cancel
         /\ \A q \in Processes : Holds(q) /\ loc[q].op = RouteOp(Route(p)) => q = p
<1>1. loc[p].op \in Ops
  BY DEF Typed, LocRow
<1>2. Route(p) \in Routes /\ loc[p].op = RouteOp(Route(p))
  BY <1>1, OpKinds DEF Reads, Route
<1> QED BY <1>2 DEF Reads, Holds

LEMMA DecidedRow ==
  ASSUME Typed, NEW p \in Processes, NEW intent \in Intents \cup {"none"}, Decided(p, intent)
  PROVE  /\ loc' \in [Processes -> LocRow] /\ pc' \in [Processes -> Places]
         /\ \A q \in Processes : q # p => loc'[q] = loc[q]
         /\ loc'[p].op = loc[p].op /\ loc'[p].att = loc[p].att /\ loc'[p].intent = intent
         /\ Move(p, "decided")
<1>1. wf.rev \in Nat /\ loc[p] \in LocRow
  BY DEF Typed
<1>2. loc' = [loc EXCEPT ![p].intent = intent, ![p].rev = wf.rev] /\ Move(p, "decided")
  BY DEF Decided
<1>3. loc'[p] = [loc[p] EXCEPT !.intent = intent, !.rev = wf.rev]
  BY <1>2 DEF Typed
<1>4. loc'[p] \in LocRow /\ loc'[p].op = loc[p].op /\ loc'[p].att = loc[p].att /\ loc'[p].intent = intent
  BY <1>1, <1>3 DEF LocRow
<1>5. \A q \in Processes : q # p => loc'[q] = loc[q]
  BY <1>2 DEF Typed
<1>6. loc' \in [Processes -> LocRow]
  BY <1>2, <1>4, <1>5 DEF Typed
<1>7. pc' \in [Processes -> Places]
  BY <1>2 DEF Typed, Move, Places
<1> QED BY <1>2, <1>4, <1>5, <1>6, <1>7

\* A decision without a request, when none was begun.
LEMMA LocalRouteKeeps ==
  ASSUME Typed, Kinds, Asks, Decides, NEW p \in Processes, NEW intent \in Intents, RouteLocally(p, intent)
  PROVE  Typed' /\ Kinds' /\ Asks' /\ Decides'
<1>0. PICK n \in Routes : n = Route(p)
  BY RouteRead DEF RouteLocally
<1>1. /\ n \in Routes /\ loc[p].op = RouteOp(n) /\ pc[p] = "claimed" /\ Holds(p)
      /\ job[RouteOp(n)].st = "leased"
  BY <1>0, RouteRead DEF RouteLocally
<1>2. /\ loc' \in [Processes -> LocRow] /\ pc' \in [Processes -> Places]
      /\ \A q \in Processes : q # p => loc'[q] = loc[q]
      /\ loc'[p].op = loc[p].op /\ loc'[p].att = loc[p].att /\ loc'[p].intent = intent
      /\ Move(p, "decided")
  BY <1>0, DecidedRow DEF RouteLocally
<1>3. UNCHANGED <<rows, tab, asked, troubles>> /\ inv[n] = "none"
  BY <1>0 DEF RouteLocally
<1>4. /\ \A q \in Processes : Holds(q)' <=> Holds(q)
      /\ \A q \in Processes, m \in Routes : Asking(q, m)' => Asking(q, m) /\ q # p
      /\ \A q \in Processes : pc'[q] = IF q = p THEN "decided" ELSE pc[q]
  BY <1>2, <1>3, OneMoves DEF rows, Places
<1>5. Typed'
  BY <1>2, <1>3 DEF Typed, rows
<1>6. Kinds'
  BY <1>1, <1>2, <1>4 DEF Kinds
<1>7. Asks'
  BY <1>2, <1>3, <1>4 DEF Asks, rows
<1>8. Decides'
  <2>1. Unasked(n)'
    BY <1>1, <1>3, <1>4 DEF Unasked, Asks
  <2>2. dec[n] = "none"
    BY <1>1, <1>3 DEF Decides
  <2>3. UNCHANGED <<dec, inv, job>>
    BY <1>3 DEF rows
  <2>4. \A m \in Routes : dec[m] # "none" =>
          inv[m] = "ended" \/ (job[RouteOp(m)].st = "succeeded" /\ Unasked(m)')
    BY <1>4 DEF Decides, Unasked
  <2>5. ASSUME NEW q \in Processes, NEW m \in Routes,
               pc'[q] = "decided", Holds(q)', loc'[q].op = RouteOp(m)
        PROVE  \/ inv[m] = "ended" /\ dec[m] = loc'[q].intent
               \/ inv[m] # "ended" /\ dec[m] = "none" /\ Unasked(m)'
    <3>1. CASE q = p
      BY <1>1, <1>2, <1>3, <2>1, <2>2, <2>5, <3>1, OpNames
    <3>2. CASE q # p
      BY <1>2, <1>4, <2>5, <3>2 DEF Decides, Unasked
    <3> QED BY <3>1, <3>2
  <2> QED BY <2>3, <2>4, <2>5 DEF Decides
<1> QED BY <1>5, <1>6, <1>7, <1>8

\* A decision that is there already.
LEMMA ReuseKeeps ==
  ASSUME Typed, Kinds, Asks, Decides, NEW p \in Processes, ReuseDecision(p)
  PROVE  Typed' /\ Kinds' /\ Asks' /\ Decides'
<1>0. PICK n \in Routes : n = Route(p)
  BY RouteRead DEF ReuseDecision
<1>1. /\ n \in Routes /\ loc[p].op = RouteOp(n) /\ pc[p] = "claimed" /\ Holds(p)
      /\ job[RouteOp(n)].st = "leased"
  BY <1>0, RouteRead DEF ReuseDecision
<1>2. dec[n] \in Intents \cup {"none"}
  BY <1>1 DEF Typed
<1>3. /\ loc' \in [Processes -> LocRow] /\ pc' \in [Processes -> Places]
      /\ \A q \in Processes : q # p => loc'[q] = loc[q]
      /\ loc'[p].op = loc[p].op /\ loc'[p].att = loc[p].att /\ loc'[p].intent = dec[n]
      /\ Move(p, "decided")
  BY <1>0, <1>2, DecidedRow DEF ReuseDecision
<1>4. UNCHANGED <<rows, tab, asked, troubles>> /\ inv[n] = "ended"
  BY <1>0 DEF ReuseDecision
<1>5. /\ \A q \in Processes : Holds(q)' <=> Holds(q)
      /\ \A q \in Processes, m \in Routes : Asking(q, m)' => Asking(q, m) /\ q # p
      /\ \A q \in Processes : pc'[q] = IF q = p THEN "decided" ELSE pc[q]
  BY <1>3, <1>4, OneMoves DEF rows, Places
<1>6. Typed'
  BY <1>3, <1>4 DEF Typed, rows
<1>7. Kinds'
  BY <1>1, <1>3, <1>5 DEF Kinds
<1>8. Asks'
  BY <1>3, <1>4, <1>5 DEF Asks, rows
<1>9. Decides'
  BY <1>1, <1>3, <1>4, <1>5, OpNames DEF Decides, Unasked, rows
<1> QED BY <1>6, <1>7, <1>8, <1>9

\* The request is durable: nobody has asked before, or could ask besides.
LEMMA BeginKeeps ==
  ASSUME Typed, Kinds, Asks, Decides, NEW p \in Processes, BeginInvocation(p)
  PROVE  Typed' /\ Kinds' /\ Asks' /\ Decides'
<1>0. PICK n \in Routes : n = Route(p)
  BY RouteRead DEF BeginInvocation
<1>1. /\ n \in Routes /\ loc[p].op = RouteOp(n) /\ pc[p] = "claimed" /\ Holds(p)
      /\ job[RouteOp(n)].st = "leased"
      /\ \A q \in Processes : Holds(q) /\ loc[q].op = RouteOp(n) => q = p
  BY <1>0, RouteRead DEF BeginInvocation
<1>2. /\ inv[n] = "none" /\ inv' = [inv EXCEPT ![n] = "pending"] /\ Move(p, "begun")
      /\ UNCHANGED <<wf, dec, job, failed, question, answers, plan, loc, tab, asked, troubles>>
  BY <1>0 DEF BeginInvocation
<1>3. /\ \A q \in Processes : Holds(q)' <=> Holds(q)
      /\ \A q \in Processes, m \in Routes : q # p => (Asking(q, m)' <=> Asking(q, m))
      /\ \A m \in Routes : Asking(p, m)' <=> loc[p].op = RouteOp(m)
      /\ \A q \in Processes : pc'[q] = IF q = p THEN "begun" ELSE pc[q]
  BY <1>2, OneMoves DEF Places
<1>4. Typed'
  BY <1>1, <1>2 DEF Typed, Move, Places
<1>5. Kinds'
  BY <1>1, <1>2, <1>3 DEF Kinds
<1>6. Unasked(n) /\ asked[n] = 0
  BY <1>1, <1>2 DEF Unasked, Asks
<1>7. \A m \in Routes : inv'[m] = IF m = n THEN "pending" ELSE inv[m]
  BY <1>1, <1>2 DEF Typed
<1>8. Asks'
  <2>1. \A m \in Routes : asked[m] <= 1 /\ (inv'[m] = "none" => asked[m] = 0)
    BY <1>7 DEF Asks
  <2>2. \A m \in Routes : \A q, r \in Processes : Asking(q, m)' /\ Asking(r, m)' => q = r
    BY <1>1, <1>3, <1>6, OpNames DEF Asks, Unasked
  <2>3. ASSUME NEW m \in Routes, NEW q \in Processes, Asking(q, m)'
        PROVE  /\ inv'[m] # "none" /\ (pc'[q] # "answered" => asked[m] = 0)
               /\ Holds(q)' => inv'[m] = "pending"
    <3>1. CASE q = p
      BY <1>1, <1>3, <1>6, <1>7, <2>3, <3>1, OpNames
    <3>2. CASE q # p
      BY <1>3, <1>6, <1>7, <2>3, <3>2 DEF Asks, Unasked
    <3> QED BY <3>1, <3>2
  <2> QED BY <1>2, <2>1, <2>2, <2>3 DEF Asks
<1>9. Decides'
  <2>1. \A m \in Routes : dec[m] # "none" =>
          inv'[m] = "ended" \/ (job[RouteOp(m)].st = "succeeded" /\ Unasked(m)')
    BY <1>1, <1>2, <1>3, <1>7, OpNames DEF Decides, Unasked
  <2>2. ASSUME NEW q \in Processes, NEW m \in Routes, pc'[q] = "decided", Holds(q)', loc[q].op = RouteOp(m)
        PROVE  \/ inv'[m] = "ended" /\ dec[m] = loc[q].intent
               \/ inv'[m] # "ended" /\ dec[m] = "none" /\ Unasked(m)'
    <3>1. q # p /\ m # n /\ pc[q] = "decided" /\ Holds(q)
      BY <1>1, <1>3, <2>2
    <3> QED BY <1>1, <1>3, <1>7, <2>2, <3>1, OpNames DEF Decides, Unasked
  <2> QED BY <1>2, <2>1, <2>2 DEF Decides
<1> QED BY <1>4, <1>5, <1>8, <1>9

\* A request that may have been sent is given up: whoever sent it has no lease any more.
LEMMA RecoverInvocationKeeps ==
  ASSUME Typed, Kinds, Asks, Decides, NEW p \in Processes, NEW intent \in Intents,
         RecoverInvocation(p, intent)
  PROVE  Typed' /\ Kinds' /\ Asks' /\ Decides' /\ DecKept
<1>0. PICK n \in Routes : n = Route(p)
  BY RouteRead DEF RecoverInvocation
<1>1. /\ n \in Routes /\ loc[p].op = RouteOp(n) /\ pc[p] = "claimed" /\ Holds(p)
      /\ job[RouteOp(n)].st = "leased"
      /\ \A q \in Processes : Holds(q) /\ loc[q].op = RouteOp(n) => q = p
  BY <1>0, RouteRead DEF RecoverInvocation
<1>2. /\ inv[n] = "pending" /\ inv' = [inv EXCEPT ![n] = "ended"]
      /\ dec[n] = "none" /\ dec' = [dec EXCEPT ![n] = intent]
      /\ UNCHANGED <<wf, job, failed, question, answers, plan, tab, asked, troubles>>
  BY <1>0 DEF RecoverInvocation
<1>3. /\ loc' \in [Processes -> LocRow] /\ pc' \in [Processes -> Places]
      /\ \A q \in Processes : q # p => loc'[q] = loc[q]
      /\ loc'[p].op = loc[p].op /\ loc'[p].att = loc[p].att /\ loc'[p].intent = intent
      /\ Move(p, "decided")
  BY <1>0, DecidedRow DEF RecoverInvocation
<1>4. /\ \A q \in Processes : Holds(q)' <=> Holds(q)
      /\ \A q \in Processes, m \in Routes : Asking(q, m)' => Asking(q, m) /\ q # p
      /\ \A q \in Processes : pc'[q] = IF q = p THEN "decided" ELSE pc[q]
  BY <1>2, <1>3, OneMoves DEF Places
<1>5. /\ \A m \in Routes : inv'[m] = IF m = n THEN "ended" ELSE inv[m]
      /\ \A m \in Routes : dec'[m] = IF m = n THEN intent ELSE dec[m]
  BY <1>1, <1>2 DEF Typed
<1>6. Typed'
  BY <1>1, <1>2, <1>3 DEF Typed
<1>7. Kinds'
  BY <1>1, <1>3, <1>4 DEF Kinds
<1>8. Asks'
  <2>1. ASSUME NEW m \in Routes, NEW q \in Processes, Asking(q, m)'
        PROVE  /\ inv'[m] # "none" /\ (pc'[q] # "answered" => asked[m] = 0)
               /\ Holds(q)' => inv'[m] = "pending"
    <3>1. Asking(q, m) /\ q # p /\ pc'[q] = pc[q] /\ (Holds(q)' <=> Holds(q)) /\ loc[q].op = RouteOp(m)
      BY <1>4, <2>1 DEF Asking
    <3>2. Holds(q) => m # n
      BY <1>1, <3>1
    <3> QED BY <1>5, <3>1, <3>2 DEF Asks
  <2>2. \A m \in Routes : asked[m] <= 1 /\ (inv'[m] = "none" => asked[m] = 0)
    BY <1>5 DEF Asks
  <2>3. \A m \in Routes : \A q, r \in Processes : Asking(q, m)' /\ Asking(r, m)' => q = r
    BY <1>4 DEF Asks
  <2> QED BY <1>2, <2>1, <2>2, <2>3 DEF Asks
<1>9. Decides'
  <2>1. \A m \in Routes : dec'[m] # "none" =>
          inv'[m] = "ended" \/ (job[RouteOp(m)].st = "succeeded" /\ Unasked(m)')
    BY <1>4, <1>5 DEF Decides, Unasked
  <2>2. ASSUME NEW q \in Processes, NEW m \in Routes,
               pc'[q] = "decided", Holds(q)', loc'[q].op = RouteOp(m)
        PROVE  \/ inv'[m] = "ended" /\ dec'[m] = loc'[q].intent
               \/ inv'[m] # "ended" /\ dec'[m] = "none" /\ Unasked(m)'
    <3>1. CASE q = p
      BY <1>1, <1>3, <1>5, <2>2, <3>1, OpNames
    <3>2. CASE q # p
      <4>1. pc[q] = "decided" /\ Holds(q) /\ loc[q].op = RouteOp(m) /\ loc'[q] = loc[q] /\ m # n
        BY <1>1, <1>3, <1>4, <2>2, <3>2
      <4> QED BY <1>4, <1>5, <4>1 DEF Decides, Unasked
    <3> QED BY <3>1, <3>2
  <2> QED BY <1>2, <2>1, <2>2 DEF Decides
<1> QED BY <1>2, <1>5, <1>6, <1>7, <1>8, <1>9 DEF DecKept

\* Who asks about which route.
LEMMA AskerRead ==
  ASSUME Typed, Kinds, NEW p \in Processes, pc[p] \in {"begun", "sending", "answered", "decided"}
  PROVE  /\ Route(p) \in Routes /\ loc[p].op = RouteOp(Route(p))
         /\ pc[p] # "decided" => Asking(p, Route(p))
<1>1. PICK n \in Routes : loc[p].op = RouteOp(n)
  BY DEF Kinds
<1> QED BY <1>1, OpNames DEF Route, Asking

LEMMA CheckKeeps ==
  ASSUME Typed, Kinds, Asks, Decides, NEW p \in Processes, CheckBeforeSending(p)
  PROVE  Typed' /\ Kinds' /\ Asks' /\ Decides'
<1>0. PICK n \in Routes : n = Route(p)
  BY AskerRead DEF CheckBeforeSending
<1>1. n \in Routes /\ loc[p].op = RouteOp(n) /\ Asking(p, n) /\ pc[p] = "begun" /\ Holds(p)
  BY <1>0, AskerRead DEF CheckBeforeSending
<1>2. UNCHANGED <<wf, dec, job, failed, question, answers, plan, loc, tab, asked, troubles>>
  BY <1>0 DEF CheckBeforeSending
<1>3. inv[n] = "pending" /\ asked[n] = 0
  BY <1>1 DEF Asks
<1>4. CASE wf.cancel
  <2>1. Move(p, "settling") /\ inv' = [inv EXCEPT ![n] = "ended"]
    BY <1>0, <1>3, <1>4 DEF CheckBeforeSending
  <2>2. /\ \A q \in Processes : Holds(q)' <=> Holds(q)
        /\ \A q \in Processes, m \in Routes : Asking(q, m)' => Asking(q, m) /\ q # p
        /\ \A q \in Processes : pc'[q] = IF q = p THEN "settling" ELSE pc[q]
    BY <1>2, <2>1, OneMoves DEF Places
  <2>3. \A m \in Routes : inv'[m] = IF m = n THEN "ended" ELSE inv[m]
    BY <1>1, <2>1 DEF Typed
  <2>4. Typed'
    BY <1>1, <1>2, <2>1 DEF Typed, Move, Places
  <2>5. Kinds'
    BY <1>2, <2>2 DEF Kinds
  <2>6. \A q \in Processes, m \in Routes : Asking(q, m)' => m # n
    BY <1>1, <2>2 DEF Asks
  <2>7. Asks'
    BY <1>2, <2>2, <2>3, <2>6 DEF Asks
  <2>8. \A m \in Routes : Unasked(m) => Unasked(m)'
    BY <2>2 DEF Unasked
  <2>11. \A m \in Routes : dec[m] # "none" =>
          inv'[m] = "ended" \/ (job[RouteOp(m)].st = "succeeded" /\ Unasked(m)')
    BY <2>3, <2>8 DEF Decides
  <2>12. ASSUME NEW q \in Processes, NEW m \in Routes,
               pc'[q] = "decided", Holds(q)', loc[q].op = RouteOp(m)
        PROVE  \/ inv'[m] = "ended" /\ dec[m] = loc[q].intent
               \/ inv'[m] # "ended" /\ dec[m] = "none" /\ Unasked(m)'
    <3>1. pc[q] = "decided" /\ Holds(q) /\ loc[q].op = RouteOp(m)
      BY <2>2, <2>12
    <3>2. m = n => inv[m] = "ended" /\ dec[m] = loc[q].intent
      BY <1>1, <1>3, <3>1 DEF Decides, Unasked
    <3> QED BY <2>3, <2>8, <3>1, <3>2 DEF Decides
  <2> QED BY <1>2, <2>4, <2>5, <2>7, <2>11, <2>12 DEF Decides
<1>5. CASE ~wf.cancel
  <2>1. Move(p, "sending") /\ UNCHANGED inv
    BY <1>5 DEF CheckBeforeSending
  <2>2. /\ \A q \in Processes : Holds(q)' <=> Holds(q)
        /\ \A q \in Processes, m \in Routes : q # p => (Asking(q, m)' <=> Asking(q, m))
        /\ \A m \in Routes : Asking(p, m)' <=> loc[p].op = RouteOp(m)
        /\ \A q \in Processes : pc'[q] = IF q = p THEN "sending" ELSE pc[q]
    BY <1>2, <2>1, OneMoves DEF Places
  <2>3. \A q \in Processes, m \in Routes : Asking(q, m)' <=> Asking(q, m)
    BY <1>1, <2>2, OpNames DEF Asking
  <2>4. Typed'
    BY <1>2, <2>1 DEF Typed, Move, Places
  <2>5. Kinds'
    BY <1>1, <1>2, <2>2 DEF Kinds
  <2>6. \A q \in Processes : (pc'[q] = "answered" <=> pc[q] = "answered") /\ (pc'[q] = "decided" <=> pc[q] = "decided")
    BY <1>1, <2>2
  <2>7. Asks'
    BY <1>2, <2>1, <2>2, <2>3, <2>6 DEF Asks
  <2>8. Decides'
    BY <1>2, <2>1, <2>2, <2>3, <2>6 DEF Decides, Unasked
  <2> QED BY <2>4, <2>5, <2>7, <2>8
<1> QED BY <1>4, <1>5

\* Only who was about to send could ask besides, so nobody is left who could.
LEMMA ChoiceKeeps ==
  ASSUME Typed, Kinds, Asks, Decides, NEW p \in Processes, NEW intent \in Intents,
         UseExplicitChoice(p, intent)
  PROVE  Typed' /\ Kinds' /\ Asks' /\ Decides'
<1>0. PICK n \in Routes : n = Route(p)
  BY AskerRead DEF UseExplicitChoice
<1>1. n \in Routes /\ loc[p].op = RouteOp(n) /\ Asking(p, n) /\ pc[p] = "sending"
  BY <1>0, AskerRead DEF UseExplicitChoice
<1>2. UNCHANGED <<rows, tab, asked, troubles>> /\ Decided(p, intent)
  BY DEF UseExplicitChoice, Decided
<1>3. /\ loc' \in [Processes -> LocRow] /\ pc' \in [Processes -> Places]
      /\ \A q \in Processes : q # p => loc'[q] = loc[q]
      /\ loc'[p].op = loc[p].op /\ loc'[p].att = loc[p].att /\ loc'[p].intent = intent
      /\ Move(p, "decided")
  BY <1>2, DecidedRow
<1>4. UNCHANGED <<dec, inv, job, asked>>
  BY <1>2 DEF rows
<1>5. /\ \A q \in Processes : Holds(q)' <=> Holds(q)
      /\ \A q \in Processes, m \in Routes : Asking(q, m)' => Asking(q, m) /\ q # p
      /\ \A q \in Processes : pc'[q] = IF q = p THEN "decided" ELSE pc[q]
  BY <1>3, <1>4, OneMoves DEF Places
<1>6. Typed'
  BY <1>2, <1>3 DEF Typed, rows
<1>7. Kinds'
  BY <1>1, <1>3, <1>5 DEF Kinds
<1>8. Asks'
  BY <1>3, <1>4, <1>5 DEF Asks
<1>9. Decides'
  <2>1. Unasked(n)'
    BY <1>1, <1>5 DEF Unasked, Asks
  <2>2. Holds(p) => inv[n] = "pending" /\ dec[n] = "none"
    BY <1>1 DEF Decides, Unasked, Asks
  <2>3. \A m \in Routes : dec[m] # "none" =>
          inv[m] = "ended" \/ (job[RouteOp(m)].st = "succeeded" /\ Unasked(m)')
    BY <1>5 DEF Decides, Unasked
  <2>4. ASSUME NEW q \in Processes, NEW m \in Routes,
               pc'[q] = "decided", Holds(q)', loc'[q].op = RouteOp(m)
        PROVE  \/ inv[m] = "ended" /\ dec[m] = loc'[q].intent
               \/ inv[m] # "ended" /\ dec[m] = "none" /\ Unasked(m)'
    <3>1. CASE q = p
      <4>1. m = n /\ Holds(p)
        BY <1>1, <1>3, <1>5, <2>4, <3>1, OpNames
      <4> QED BY <2>1, <2>2, <4>1
    <3>2. CASE q # p
      <4>1. pc[q] = "decided" /\ Holds(q) /\ loc[q].op = RouteOp(m) /\ loc'[q] = loc[q]
        BY <1>3, <1>5, <2>4, <3>2
      <4> QED BY <1>5, <4>1 DEF Decides, Unasked
    <3> QED BY <3>1, <3>2
  <2> QED BY <1>4, <2>3, <2>4 DEF Decides
<1> QED BY <1>6, <1>7, <1>8, <1>9

LEMMA AskKeeps ==
  ASSUME Typed, Kinds, Asks, Decides, NEW p \in Processes, NEW intent \in Intents, AskModel(p, intent)
  PROVE  Typed' /\ Kinds' /\ Asks' /\ Decides' /\ \A n \in Routes : asked'[n] <= 1
<1>0. PICK n \in Routes : n = Route(p)
  BY AskerRead DEF AskModel
<1>1. n \in Routes /\ loc[p].op = RouteOp(n) /\ Asking(p, n) /\ pc[p] = "sending"
  BY <1>0, AskerRead DEF AskModel
<1>2. /\ asked' = [asked EXCEPT ![n] = @ + 1] /\ loc' = [loc EXCEPT ![p].intent = intent]
      /\ Move(p, "answered") /\ UNCHANGED <<rows, tab, troubles>>
  BY <1>0 DEF AskModel
<1>3. UNCHANGED <<dec, inv, job>>
  BY <1>2 DEF rows
<1>4. /\ loc' \in [Processes -> LocRow] /\ \A q \in Processes : q # p => loc'[q] = loc[q]
      /\ loc'[p].op = loc[p].op /\ loc'[p].att = loc[p].att
  <2>1. loc[p] \in LocRow /\ loc'[p] = [loc[p] EXCEPT !.intent = intent]
    BY <1>2 DEF Typed
  <2>2. loc'[p] \in LocRow /\ loc'[p].op = loc[p].op /\ loc'[p].att = loc[p].att
    BY <2>1 DEF LocRow
  <2>3. \A q \in Processes : q # p => loc'[q] = loc[q]
    BY <1>2 DEF Typed
  <2> QED BY <1>2, <2>2, <2>3 DEF Typed
<1>5. /\ \A q \in Processes : Holds(q)' <=> Holds(q)
      /\ \A q \in Processes, m \in Routes : q # p => (Asking(q, m)' <=> Asking(q, m))
      /\ \A m \in Routes : Asking(p, m)' <=> loc[p].op = RouteOp(m)
      /\ \A q \in Processes : pc'[q] = IF q = p THEN "answered" ELSE pc[q]
  BY <1>2, <1>3, <1>4, OneMoves DEF Places
<1>6. \A m \in Routes : asked'[m] = IF m = n THEN asked[n] + 1 ELSE asked[m]
  BY <1>2 DEF Typed
<1>7. asked[n] = 0 /\ inv[n] # "none" /\ \A q \in Processes : Asking(q, n) => q = p
  BY <1>1 DEF Asks
<1>8. Typed'
  BY <1>2, <1>4 DEF Typed, rows, Move, Places
<1>9. Kinds'
  BY <1>1, <1>4, <1>5 DEF Kinds
<1>10. \A q \in Processes, m \in Routes : Asking(q, m)' <=> Asking(q, m)
  BY <1>1, <1>5, OpNames DEF Asking
<1>11. Asks'
  <2>1. \A m \in Routes : asked'[m] <= 1 /\ (inv[m] = "none" => asked'[m] = 0)
    BY <1>6, <1>7 DEF Asks
  <2>2. ASSUME NEW m \in Routes, NEW q \in Processes, Asking(q, m)'
        PROVE  /\ inv[m] # "none" /\ (pc'[q] # "answered" => asked'[m] = 0)
               /\ Holds(q)' => inv[m] = "pending"
    <3>1. Asking(q, m)
      BY <1>10, <2>2
    <3>2. pc'[q] # "answered" => pc[q] # "answered" /\ m # n
      BY <1>1, <1>5, <1>7, <3>1
    <3> QED BY <1>5, <1>6, <3>1, <3>2 DEF Asks
  <2>3. \A m \in Routes : \A q, r \in Processes : Asking(q, m)' /\ Asking(r, m)' => q = r
    BY <1>10 DEF Asks
  <2> QED BY <1>3, <2>1, <2>2, <2>3 DEF Asks
<1>12. Decides'
  <2>1. \A q \in Processes : pc'[q] = "decided" => pc[q] = "decided" /\ loc'[q] = loc[q]
    BY <1>4, <1>5
  <2>2. \A m \in Routes : Unasked(m)' <=> Unasked(m)
    BY <1>10 DEF Unasked
  <2> QED BY <1>3, <1>5, <2>1, <2>2 DEF Decides
<1> QED BY <1>8, <1>9, <1>11, <1>12 DEF Asks

\* The answer counts only while the invocation is pending.
LEMMA FinalizeKeeps ==
  ASSUME Typed, Kinds, Asks, Decides, NEW p \in Processes, FinalizeInvocation(p)
  PROVE  Typed' /\ Kinds' /\ Asks' /\ Decides' /\ DecKept
<1>0. PICK n \in Routes : n = Route(p)
  BY AskerRead DEF FinalizeInvocation
<1>1. n \in Routes /\ loc[p].op = RouteOp(n) /\ Asking(p, n) /\ pc[p] = "answered"
  BY <1>0, AskerRead DEF FinalizeInvocation
<1> DEFINE intent == IF inv[n] = "pending" THEN loc[p].intent ELSE dec[n]
<1>2. /\ inv' = [inv EXCEPT ![n] = "ended"] /\ dec' = [dec EXCEPT ![n] = intent]
      /\ IF Holds(p) THEN Decided(p, intent) ELSE Done(p)
      /\ UNCHANGED <<wf, job, failed, question, answers, plan, tab, asked, troubles>>
  BY <1>0 DEF FinalizeInvocation, FinalIntent
<1>3. intent \in Intents \cup {"none"}
  BY <1>1 DEF Typed, LocRow
<1>4. inv[n] # "ended" => inv[n] = "pending" /\ dec[n] = "none"
  BY <1>1 DEF Typed, Asks, Decides, Unasked
<1>5. /\ \A m \in Routes : inv'[m] = IF m = n THEN "ended" ELSE inv[m]
      /\ \A m \in Routes : dec'[m] = IF m = n THEN intent ELSE dec[m]
  BY <1>1, <1>2 DEF Typed
<1>6. \A m \in Routes : dec[m] # "none" => dec'[m] = dec[m]
  BY <1>4, <1>5
<1>7. \A q \in Processes, m \in Routes : Asking(q, m) /\ q # p => m # n
  BY <1>1 DEF Asks
<1>8. /\ loc' \in [Processes -> LocRow] /\ pc' \in [Processes -> Places]
      /\ \A q \in Processes : q # p => loc'[q] = loc[q] /\ pc'[q] = pc[q] /\ (Holds(q)' <=> Holds(q))
      /\ pc'[p] = "decided" => Holds(p) /\ loc'[p].op = loc[p].op /\ loc'[p].intent = intent
      /\ pc'[p] \in {"decided", "idle"}
  <2>1. CASE Holds(p)
    <3>1. Decided(p, intent)
      BY <1>2, <2>1
    <3>2. /\ loc' \in [Processes -> LocRow] /\ pc' \in [Processes -> Places]
          /\ \A q \in Processes : q # p => loc'[q] = loc[q]
          /\ loc'[p].op = loc[p].op /\ loc'[p].intent = intent
          /\ pc' = [pc EXCEPT ![p] = "decided"]
      BY <1>3, <3>1, DecidedRow DEF Move
    <3>3. \A q \in Processes : q # p => (Holds(q)' <=> Holds(q))
      BY <1>2, <3>2 DEF Holds
    <3> QED BY <2>1, <3>2, <3>3 DEF Typed
  <2>2. CASE ~Holds(p)
    <3>1. pc' = [pc EXCEPT ![p] = "idle"] /\ loc' = [loc EXCEPT ![p] = Idle]
      BY <1>2, <2>2 DEF Done, Move
    <3>2. Idle \in LocRow
      BY OpNames, LimitsAreNumbers DEF Idle, LocRow, NoOp, RouteOp
    <3>3. \A q \in Processes : q # p => loc'[q] = loc[q]
      BY <3>1 DEF Typed
    <3>4. \A q \in Processes : q # p => (Holds(q)' <=> Holds(q))
      BY <1>2, <3>3 DEF Holds
    <3> QED BY <3>1, <3>2, <3>3, <3>4 DEF Typed, Places
  <2> QED BY <2>1, <2>2
<1> HIDE DEF intent
<1>9. Typed'
  BY <1>2, <1>3, <1>8 DEF Typed
<1>10. Kinds'
  BY <1>1, <1>8 DEF Kinds
<1>11. \A q \in Processes, m \in Routes : Asking(q, m)' => Asking(q, m) /\ q # p /\ m # n /\ pc'[q] = pc[q] /\ (Holds(q)' <=> Holds(q))
  BY <1>7, <1>8 DEF Asking
<1>12. Asks'
  BY <1>2, <1>5, <1>11 DEF Asks
<1>13. Decides'
  <2>1. \A m \in Routes : Unasked(m) => Unasked(m)'
    BY <1>11 DEF Unasked
  <2>2. \A m \in Routes : dec'[m] # "none" =>
          inv'[m] = "ended" \/ (job'[RouteOp(m)].st = "succeeded" /\ Unasked(m)')
    BY <1>2, <1>5, <2>1 DEF Decides
  <2>3. ASSUME NEW q \in Processes, NEW m \in Routes,
               pc'[q] = "decided", Holds(q)', loc'[q].op = RouteOp(m)
        PROVE  \/ inv'[m] = "ended" /\ dec'[m] = loc'[q].intent
               \/ inv'[m] # "ended" /\ dec'[m] = "none" /\ Unasked(m)'
    <3>1. CASE q = p
      BY <1>1, <1>5, <1>8, <2>3, <3>1, OpNames
    <3>2. CASE q # p
      <4>1. pc[q] = "decided" /\ Holds(q) /\ loc[q].op = RouteOp(m) /\ loc'[q] = loc[q]
        BY <1>8, <2>3, <3>2
      <4>2. m = n => inv[n] = "ended" /\ dec[n] = loc[q].intent
        BY <1>1, <4>1 DEF Decides, Unasked
      <4>3. m = n => dec'[n] = dec[n]
        BY <1>5, <4>2 DEF intent
      <4>4. m # n => inv'[m] = inv[m] /\ dec'[m] = dec[m]
        BY <1>5
      <4> QED BY <1>5, <2>1, <4>1, <4>2, <4>3, <4>4 DEF Decides
    <3> QED BY <3>1, <3>2
  <2> QED BY <2>2, <2>3 DEF Decides
<1> QED BY <1>6, <1>9, <1>10, <1>12, <1>13 DEF DecKept

\* The decision is published by who holds the route's lease, and that ends its job.
LEMMA PublishedKeeps ==
  ASSUME Typed, Kinds, Asks, Decides, NEW p \in Processes, pc[p] = "decided", Holds(p),
         Recorded(p), Done(p), UNCHANGED <<inv, asked>>,
         job'[RouteOp(Route(p))].st = "succeeded",
         \A n \in Routes : job[RouteOp(n)].st = "succeeded" => job'[RouteOp(n)].st = "succeeded",
         \A q \in Processes : q # p => (Holds(q)' => Holds(q))
  PROVE  Kinds' /\ Asks' /\ Decides' /\ DecKept
<1>0. PICK n \in Routes : n = Route(p)
  BY AskerRead
<1>1. n \in Routes /\ loc[p].op = RouteOp(n) /\ job'[RouteOp(n)].st = "succeeded" /\ job[RouteOp(n)].st = "leased"
  BY <1>0, AskerRead DEF Holds
<1>2. dec' = [dec EXCEPT ![n] = loc[p].intent]
  BY <1>0 DEF Recorded
<1>3. \A m \in Routes : dec'[m] = IF m = n THEN loc[p].intent ELSE dec[m]
  BY <1>1, <1>2 DEF Typed
<1>4. /\ \A q \in Processes : q # p => pc'[q] = pc[q] /\ loc'[q] = loc[q]
      /\ pc'[p] = "idle"
  BY DEF Done, Move, Typed
<1>5. \A q \in Processes, m \in Routes : Asking(q, m)' => Asking(q, m) /\ pc'[q] = pc[q] /\ (Holds(q)' => Holds(q))
  BY <1>4 DEF Asking
<1>6. Kinds'
  BY <1>4 DEF Kinds
<1>7. Asks'
  BY <1>5 DEF Asks
<1>8. \/ inv[n] = "ended" /\ dec[n] = loc[p].intent
      \/ inv[n] # "ended" /\ dec[n] = "none" /\ Unasked(n)
  BY <1>1 DEF Decides
<1>9. \A m \in Routes : Unasked(m) => Unasked(m)'
  BY <1>5 DEF Unasked
<1>10. Decides'
  <2>1. \A m \in Routes : dec'[m] # "none" =>
          inv'[m] = "ended" \/ (job'[RouteOp(m)].st = "succeeded" /\ Unasked(m)')
    BY <1>1, <1>3, <1>8, <1>9 DEF Decides
  <2>2. ASSUME NEW q \in Processes, NEW m \in Routes,
               pc'[q] = "decided", Holds(q)', loc'[q].op = RouteOp(m)
        PROVE  \/ inv'[m] = "ended" /\ dec'[m] = loc'[q].intent
               \/ inv'[m] # "ended" /\ dec'[m] = "none" /\ Unasked(m)'
    <3>1. pc[q] = "decided" /\ loc'[q] = loc[q] /\ Holds(q)
      BY <1>4, <2>2
    <3>2. m # n
      BY <1>1, <2>2 DEF Holds
    <3> QED BY <1>3, <1>9, <2>2, <3>1, <3>2 DEF Decides
  <2> QED BY <2>1, <2>2 DEF Decides
<1>11. DecKept
  BY <1>3, <1>8 DEF DecKept
<1> QED BY <1>6, <1>7, <1>10, <1>11
-----------------------------------------------------------------------------
(* The steps that write the workflow, its questions or its plans. *)

\* A job that stays leased keeps its holder, or loses it.
LEMMA LeasesStay ==
  ASSUME Typed, NEW q \in Processes, loc'[q] = loc[q],
         \A op \in Ops : job'[op].st = "leased" =>
            /\ job[op].st = "leased" /\ job'[op].att = job[op].att
            /\ job'[op].holder \in {job[op].holder, NoProcess}
  PROVE  Holds(q)' => Holds(q)
<1>1. loc[q].op \in Ops /\ q # NoProcess
  BY LimitsAreNumbers DEF Typed, LocRow
<1> QED BY <1>1 DEF Holds

\* What was read at an older revision binds nobody.
LEMMA RevisionMoves ==
  ASSUME Planners, Windows, \A t \in Tabs : tab'[t] \in {tab[t], NoRead}, wf.rev \in Nat, wf'.rev \in Nat, wf'.rev > wf.rev,
         \A q \in Processes : pc'[q] = "planning" => pc[q] = "planning" /\ loc'[q] = loc[q],
         \A q \in Processes : pc[q] = "planning" => loc[q].rev \in Nat,
         \A t \in Tabs : tab[t].rev \in Nat,
         \A i \in DOMAIN question : i \in DOMAIN question' /\ (Pending(i)' => Pending(i)),
         DOMAIN question = 1 .. Len(question), Len(question) \in Nat
  PROVE  Planners' /\ Windows'
<1>1. Planners'
  BY DEF Planners
<1>2. Windows'
  <2> SUFFICES ASSUME NEW t \in Tabs, tab'[t] # NoRead
               PROVE  /\ tab[t].question \in DOMAIN question' /\ tab[t].rev <= wf'.rev
                      /\ \A i \in 1 .. tab[t].question - 1 : ~Pending(i)'
                      /\ tab[t].rev # wf'.rev /\ tab'[t] = tab[t]
    BY DEF Windows
  <2>0. tab'[t] = tab[t] /\ tab[t] # NoRead
    OBVIOUS
  <2>1. /\ tab[t].question \in DOMAIN question /\ tab[t].rev <= wf.rev
        /\ \A i \in 1 .. tab[t].question - 1 : ~Pending(i)
    BY <2>0 DEF Windows
  <2>2. \A i \in 1 .. tab[t].question - 1 : i \in DOMAIN question
    BY <2>1
  <2> QED BY <2>0, <2>1, <2>2
<1> QED BY <1>1, <1>2

LEMMA NextVersionIs ==
  ASSUME NEW jobs, NEW k \in Nat, k <= MaxAnswers + 1,
         \A v \in Versions : jobs[PlanOp(v)].st # "absent" <=> v <= k
  PROVE  NextVersion(jobs) = k + 1
<1>1. {v \in Versions : jobs[<<"plan", v>>].st # "absent"} = 1 .. k
  BY LimitsAreNumbers DEF PlanOp
<1>2. Cardinality(1 .. k) = k
  <2>1. 1 \in Int /\ k \in Int
    OBVIOUS
  <2>2. Cardinality(1 .. k) = IF 1 > k THEN 0 ELSE k - 1 + 1
    BY <2>1, FS_Interval
  <2> QED BY <2>2
<1>3. NextVersion(jobs) = 1 + Cardinality(1 .. k)
  BY <1>1 DEF NextVersion
<1> QED BY <1>2, <1>3

\* What holds while a route's job is leased or waits.
LEMMA RouteActive ==
  ASSUME Typed, Routing, Plans, NEW n \in Routes, Active(RouteOp(n))
  PROVE  /\ n = Len(answers) /\ wf.decision = NoDecision
         /\ wf.status \in {"routing", "failed", "cancelled"}
         /\ \A m \in Routes : m # n => ~Active(RouteOp(m))
         /\ \A v \in Versions : plan[v].st = "pending" => wf.status = "cancelled"
         /\ \A v \in Versions : plan[v].st # "approved"
<1>1. n = Len(answers) /\ wf.status \in {"routing", "failed", "cancelled"}
  BY DEF Routing
<1>2. wf.decision = NoDecision
  <2>1. SUFFICES ASSUME wf.decision # NoDecision PROVE FALSE
    OBVIOUS
  <2>2. wf.decision \in Routes /\ wf.decision \in Nat /\ n \in Nat
    BY <2>1, LimitsAreNumbers DEF Typed
  <2>3. job[RouteOp(wf.decision)].st = "succeeded" /\ (n > wf.decision => job[RouteOp(n)].st = "absent")
    BY <2>1 DEF Routing
  <2>4. ~(wf.decision > Len(answers))
    BY <2>2, <2>3 DEF Routing
  <2>5. wf.decision = n
    BY <1>1, <2>2, <2>3, <2>4 DEF Active, Typed
  <2> QED BY <2>3, <2>5 DEF Active
<1>3. \A m \in Routes : m # n => ~Active(RouteOp(m))
  BY <1>1 DEF Routing
<1> QED BY <1>1, <1>2, <1>3 DEF Plans

\* What the holder of a decided route's lease finds.
LEMMA DecidedRead ==
  ASSUME Typed, Kinds, RowsInv, NEW p \in Processes, pc[p] = "decided", Publishes(p)
  PROVE  /\ Route(p) \in Routes /\ loc[p].op = RouteOp(Route(p)) /\ job[RouteOp(Route(p))].st = "leased"
         /\ Route(p) = Len(answers) /\ wf.decision = NoDecision
         /\ wf.status \in {"routing", "failed"} /\ ~wf.cancel
         /\ \A m \in Routes : m # Route(p) => ~Active(RouteOp(m))
         /\ \A v \in Versions : plan[v].st \notin {"pending", "approved"}
<1>1. Route(p) \in Routes /\ loc[p].op = RouteOp(Route(p))
  BY AskerRead
<1>2. job[RouteOp(Route(p))].st = "leased" /\ ~wf.cancel
  BY <1>1 DEF Publishes, Holds
<1>3. wf.status # "cancelled"
  BY <1>2 DEF RowsInv, Statuses
<1> QED BY <1>1, <1>2, <1>3, RouteActive DEF RowsInv, Active

LEMMA DoneRow ==
  ASSUME Typed, NEW p \in Processes, Done(p)
  PROVE  /\ loc' \in [Processes -> LocRow] /\ pc' \in [Processes -> Places]
         /\ \A q \in Processes : q # p => loc'[q] = loc[q] /\ pc'[q] = pc[q]
         /\ pc'[p] = "idle"
<1>1. Idle \in LocRow
  BY OpNames, LimitsAreNumbers DEF Idle, LocRow, NoOp, RouteOp
<1> QED BY <1>1 DEF Done, Move, Typed, Places

LEMMA PublishWorkflowKeeps ==
  ASSUME Typed, Kinds, Asks, Decides, RowsInv, NEW p \in Processes, PublishWorkflow(p)
  PROVE  Typed' /\ Kinds' /\ Asks' /\ Decides' /\ DecKept /\ RowsInv'
<1>0. PICK n \in Routes : n = Route(p)
  BY DecidedRead DEF PublishWorkflow
<1>1. /\ loc[p].op = RouteOp(n) /\ job[RouteOp(n)].st = "leased" /\ n = Len(answers)
      /\ wf.decision = NoDecision /\ wf.status \in {"routing", "failed"} /\ ~wf.cancel
      /\ \A m \in Routes : m # n => ~Active(RouteOp(m))
      /\ \A v \in Versions : plan[v].st \notin {"pending", "approved"}
  BY <1>0, DecidedRead DEF PublishWorkflow
<1>2. PICK k \in 0 .. Len(answers) + 1 :
         /\ \A v \in Versions : job[PlanOp(v)].st # "absent" <=> v <= k
         /\ k <= Len(answers)
  BY <1>1 DEF RowsInv, Reserved
<1>3. k \in Nat /\ k <= n /\ n \in Nat /\ n <= MaxAnswers /\ MaxAnswers \in Nat /\ k + 1 \in Versions
  BY <1>1, <1>2, LimitsAreNumbers
<1> DEFINE ended == Ended(job, RouteOp(n), "succeeded")
<1>4. /\ ended \in [Ops -> JobRow] /\ \A o \in Ops : o # RouteOp(n) => ended[o] = job[o]
      /\ ended[RouteOp(n)].st = "succeeded" /\ ended[RouteOp(n)].in = job[RouteOp(n)].in
      /\ ended[RouteOp(n)].holder = NoProcess
  <2>1. RouteOp(n) \in Ops /\ "succeeded" \in Stages /\ job \in [Ops -> JobRow]
    BY OpNames DEF Typed, Stages
  <2> QED BY <2>1, EndedRow
<1>5. NextVersion(ended) = k + 1
  <2> HIDE DEF ended
  <2>1. \A v \in Versions : ended[PlanOp(v)].st # "absent" <=> v <= k
    BY <1>2, <1>4, OpNames
  <2> QED BY <1>3, <2>1, NextVersionIs
<1>6. /\ job' = Enqueued(ended, PlanOp(k + 1), 1, n)
      /\ wf' = [Moved("planning") EXCEPT !.decision = n]
      /\ loc[p].intent \in Workflows /\ Recorded(p) /\ Done(p) /\ pc[p] = "decided" /\ Holds(p)
      /\ UNCHANGED <<inv, failed, question, answers, plan, tab, asked, troubles>>
  BY <1>0, <1>1, <1>5 DEF PublishWorkflow, PlanOp, Publishes
<1> HIDE DEF ended
<1>7. /\ job' \in [Ops -> JobRow]
      /\ \A o \in Ops : o # RouteOp(n) /\ o # PlanOp(k + 1) => job'[o] = job[o]
      /\ job'[RouteOp(n)].st = "succeeded" /\ job'[RouteOp(n)].in = job[RouteOp(n)].in
      /\ job'[PlanOp(k + 1)].st = "queued" /\ job'[PlanOp(k + 1)].in = n
  <2>1. PlanOp(k + 1) \in Ops /\ 1 \in Nat /\ n \in Routes \cup {NoDecision} /\ RouteOp(n) # PlanOp(k + 1) /\ RouteOp(n) \in Ops
    BY <1>3, OpNames
  <2>2. /\ Enqueued(ended, PlanOp(k + 1), 1, n) \in [Ops -> JobRow]
        /\ \A o \in Ops : o # PlanOp(k + 1) => Enqueued(ended, PlanOp(k + 1), 1, n)[o] = ended[o]
        /\ Enqueued(ended, PlanOp(k + 1), 1, n)[PlanOp(k + 1)].st = "queued"
        /\ Enqueued(ended, PlanOp(k + 1), 1, n)[PlanOp(k + 1)].in = n
    BY <1>4, <2>1, EnqueuedRow
  <2> QED BY <1>4, <1>6, <2>1, <2>2
<1>8. wf' \in WorkflowRows /\ wf'.status = "planning" /\ ~wf'.cancel /\ wf'.decision = n /\ wf'.rev = wf.rev + 1
  <2>1. /\ Moved("planning") \in WorkflowRows /\ Moved("planning").status = "planning"
        /\ Moved("planning").cancel = wf.cancel /\ Moved("planning").rev = wf.rev + 1
    BY <1>1, MovedRow DEF Typed, WorkflowRows, WorkflowStatuses
  <2> QED BY <1>1, <1>6, <2>1 DEF WorkflowRows
<1>9. /\ loc' \in [Processes -> LocRow] /\ pc' \in [Processes -> Places]
      /\ \A q \in Processes : q # p => loc'[q] = loc[q] /\ pc'[q] = pc[q]
      /\ pc'[p] = "idle"
  BY <1>6, DoneRow
<1>10. dec' = [dec EXCEPT ![n] = loc[p].intent]
  BY <1>0, <1>6 DEF Recorded
<1>11. Typed'
  BY <1>6, <1>7, <1>8, <1>9, <1>10 DEF Typed, WorkflowRows, Workflows, Intents
<1>12. \A op \in Ops : job'[op].st = "leased" => job'[op] = job[op]
  BY <1>7
<1>13. \A q \in Processes : q # p => (Holds(q)' => Holds(q))
  BY <1>9, <1>12, LeasesStay
<1>14. Kinds' /\ Asks' /\ Decides' /\ DecKept
  <2>1. job'[RouteOp(Route(p))].st = "succeeded"
    BY <1>0, <1>7
  <2>2. \A m \in Routes : job[RouteOp(m)].st = "succeeded" => job'[RouteOp(m)].st = "succeeded"
    BY <1>3, <1>7, OpNames
  <2> QED BY <1>6, <1>13, <2>1, <2>2, PublishedKeeps
<1>15. dec'[n] = loc[p].intent
  BY <1>10 DEF Typed
<1>16. \A m \in Routes : job'[RouteOp(m)].in = job[RouteOp(m)].in /\ (m # n => job'[RouteOp(m)] = job[RouteOp(m)])
  BY <1>3, <1>7, OpNames
<1>17. \A v \in Versions : v # k + 1 => job'[PlanOp(v)] = job[PlanOp(v)]
  BY <1>3, <1>7, OpNames
<1>18. Routing'
  <2>1. \A m \in Routes : m > n => job[RouteOp(m)].st = "absent"
    BY <1>1 DEF RowsInv, Routing
  <2>2. dec'[n] # "none"
    BY <1>6, <1>15 DEF Workflows
  <2>3. \A m \in Routes : m \in Nat /\ job'[RouteOp(m)].st # "absent" => job'[RouteOp(m)].in = m
    BY <1>1, <1>16 DEF RowsInv, Routing
  <2>4. \A m \in Routes : ~Active(RouteOp(m))'
    BY <1>1, <1>7, <1>16 DEF Active
  <2> QED BY <1>1, <1>3, <1>6, <1>7, <1>8, <1>16, <2>1, <2>2, <2>3, <2>4, LimitsAreNumbers DEF Routing
<1>19. Reserved'
  <2>1. k + 1 \in 0 .. Len(answers) + 1
    BY <1>1, <1>3
  <2>2. \A v \in Versions : job'[PlanOp(v)].st # "absent" <=> v <= k + 1
    BY <1>2, <1>3, <1>7, <1>17, LimitsAreNumbers
  <2>3. job'[RouteOp(Len(answers))].st = "succeeded"
    BY <1>1, <1>7
  <2>4. ASSUME NEW v \in Versions, job'[PlanOp(v)].st # "absent"
        PROVE  job'[PlanOp(v)].in \in Routes /\ dec'[job'[PlanOp(v)].in] \in Workflows
    <3>1. CASE v = k + 1
      BY <1>6, <1>7, <1>15, <3>1
    <3>2. CASE v # k + 1
      BY <1>14, <1>17, <2>4, <3>2 DEF RowsInv, Reserved, DecKept, Workflows
    <3> QED BY <3>1, <3>2
  <2> QED BY <1>6, <2>1, <2>2, <2>3, <2>4 DEF Reserved
<1>20. Plans'
  <2>1. \A v \in Versions : plan[v].st # "none" => v # k + 1
    BY <1>2, <1>3 DEF RowsInv, Plans
  <2> QED BY <1>1, <1>6, <1>17, <2>1 DEF RowsInv, Plans, PlanFollowsAnswers
<1>21. Planners' /\ Windows'
  <2>1. wf.rev \in Nat /\ wf'.rev \in Nat /\ wf'.rev > wf.rev
    BY <1>8 DEF Typed, WorkflowRows
  <2>2. \A q \in Processes : pc'[q] = "planning" => pc[q] = "planning" /\ loc'[q] = loc[q]
    BY <1>9
  <2>3. /\ \A q \in Processes : pc[q] = "planning" => loc[q].rev \in Nat
        /\ \A t \in Tabs : tab[t].rev \in Nat
    BY DEF Typed, LocRow, ReadRow
  <2>4. DOMAIN question = 1 .. Len(question) /\ Len(question) \in Nat
    BY QuestionsTyped DEF Typed
  <2>5. \A i \in DOMAIN question : i \in DOMAIN question' /\ (Pending(i)' => Pending(i))
    BY <1>6 DEF Pending
  <2> QED BY <1>6, <2>1, <2>2, <2>3, <2>4, <2>5, RevisionMoves DEF RowsInv
<1>22. Type' = loc[p].intent
  BY <1>8, <1>15, LimitsAreNumbers DEF Type
<1>23. Statuses'
  BY <1>6, <1>8, <1>22 DEF Statuses, CancelledIsQuiet
<1>24. Questions'
  BY <1>1, <1>6, <1>8 DEF RowsInv, Questions, Pending, Latest, Open
<1>25. IntakeIsNotStranded'
  <2>1. Live(PlanOp(k + 1))'
    BY <1>3, <1>7, <1>8, OpNames DEF Live, Compatible, InputOf
  <2> QED BY <1>3, <1>8, <2>1 DEF IntakeIsNotStranded, PlanOp
<1> QED BY <1>11, <1>14, <1>18, <1>19, <1>20, <1>21, <1>23, <1>24, <1>25 DEF RowsInv

\* A route that ends in a question or a refusal.
LEMMA RouteEnds ==
  ASSUME Typed, Kinds, Asks, Decides, RowsInv, NEW p \in Processes, pc[p] = "decided", Publishes(p),
         loc[p].intent \in {"clarify", "unsupported"}, Recorded(p), Done(p),
         NEW s \in {"waiting-clarification", "unsupported"},
         wf' = [Moved(s) EXCEPT !.decision = Route(p)],
         job' = Ended(job, loc[p].op, "succeeded"),
         UNCHANGED <<inv, failed, answers, plan, tab, asked, troubles>>,
         question' \in Seq(QuestionRow), Questions',
         \A i \in DOMAIN question : i \in DOMAIN question' /\ (Pending(i)' => Pending(i))
  PROVE  Typed' /\ Kinds' /\ Asks' /\ Decides' /\ DecKept /\ RowsInv'
<1>0. PICK n \in Routes : n = Route(p)
  BY DecidedRead
<1>1. /\ loc[p].op = RouteOp(n) /\ job[RouteOp(n)].st = "leased" /\ n = Len(answers)
      /\ wf.decision = NoDecision /\ wf.status \in {"routing", "failed"} /\ ~wf.cancel
      /\ \A m \in Routes : m # n => ~Active(RouteOp(m))
      /\ \A v \in Versions : plan[v].st \notin {"pending", "approved"}
  BY <1>0, DecidedRead
<1>2. n \in Nat /\ Holds(p)
  BY LimitsAreNumbers DEF Publishes
<1>3. /\ job' \in [Ops -> JobRow] /\ \A o \in Ops : o # RouteOp(n) => job'[o] = job[o]
      /\ job'[RouteOp(n)].st = "succeeded" /\ job'[RouteOp(n)].in = job[RouteOp(n)].in
  <2>1. RouteOp(n) \in Ops /\ "succeeded" \in Stages /\ job \in [Ops -> JobRow]
    BY OpNames DEF Typed, Stages
  <2> QED BY <1>1, <2>1, EndedRow
<1>4. wf' \in WorkflowRows /\ wf'.status = s /\ ~wf'.cancel /\ wf'.decision = n /\ wf'.rev = wf.rev + 1
  <2>1. /\ Moved(s) \in WorkflowRows /\ Moved(s).status = s
        /\ Moved(s).cancel = wf.cancel /\ Moved(s).rev = wf.rev + 1
    <3>1. s \in WorkflowStatuses /\ wf \in WorkflowRows /\ wf.status # s
      BY <1>1 DEF Typed, WorkflowRows, WorkflowStatuses
    <3> QED BY <3>1, MovedRow
  <2> QED BY <1>0, <1>1, <2>1 DEF WorkflowRows
<1>5. /\ loc' \in [Processes -> LocRow] /\ pc' \in [Processes -> Places]
      /\ \A q \in Processes : q # p => loc'[q] = loc[q] /\ pc'[q] = pc[q]
      /\ pc'[p] = "idle"
  BY DoneRow
<1>6. dec' = [dec EXCEPT ![n] = loc[p].intent] /\ loc[p].intent \in Intents \cup {"none"}
  BY <1>0 DEF Recorded, Typed, LocRow
<1>7. Typed'
  BY <1>3, <1>4, <1>5, <1>6 DEF Typed, WorkflowRows
<1>8. \A q \in Processes : q # p => (Holds(q)' => Holds(q))
  <2>1. \A op \in Ops : job'[op].st = "leased" => job'[op] = job[op]
    BY <1>3
  <2> QED BY <1>5, <2>1, LeasesStay
<1>9. Kinds' /\ Asks' /\ Decides' /\ DecKept
  <2>1. job'[RouteOp(Route(p))].st = "succeeded"
    BY <1>0, <1>3
  <2>2. \A m \in Routes : job[RouteOp(m)].st = "succeeded" => job'[RouteOp(m)].st = "succeeded"
    BY <1>3, OpNames
  <2> QED BY <1>2, <1>8, <2>1, <2>2, PublishedKeeps
<1>10. dec'[n] = loc[p].intent
  BY <1>6 DEF Typed
<1>11. \A m \in Routes : job'[RouteOp(m)].in = job[RouteOp(m)].in /\ (m # n => job'[RouteOp(m)] = job[RouteOp(m)])
  BY <1>3, OpNames
<1>12. \A v \in Versions : job'[PlanOp(v)] = job[PlanOp(v)]
  BY <1>3, OpNames
<1>18. Routing'
  <2>1. \A m \in Routes : m > n => job[RouteOp(m)].st = "absent"
    BY <1>1 DEF RowsInv, Routing
  <2>2. dec'[n] # "none"
    BY <1>10
  <2>3. \A m \in Routes : job'[RouteOp(m)].st # "absent" => job'[RouteOp(m)].in = m
    BY <1>1, <1>11 DEF RowsInv, Routing
  <2>4. \A m \in Routes : ~Active(RouteOp(m))'
    BY <1>1, <1>3, <1>11 DEF Active
  <2> QED BY <1>1, <1>2, <1>3, <1>4, <1>11, <2>1, <2>2, <2>3, <2>4, LimitsAreNumbers DEF Routing
<1>19. Reserved'
  <2>1. PICK k \in 0 .. Len(answers) + 1 : \A v \in Versions : job[PlanOp(v)].st # "absent" <=> v <= k
    BY DEF RowsInv, Reserved
  <2>2. job'[RouteOp(Len(answers))].st = "succeeded"
    BY <1>1, <1>3
  <2>3. ASSUME NEW v \in Versions, job'[PlanOp(v)].st # "absent"
        PROVE  job'[PlanOp(v)].in \in Routes /\ dec'[job'[PlanOp(v)].in] \in Workflows
    BY <1>9, <1>12, <2>3 DEF RowsInv, Reserved, DecKept, Workflows
  <2> QED BY <1>12, <2>1, <2>2, <2>3 DEF Reserved
<1>20. Plans'
  BY <1>1, <1>12 DEF RowsInv, Plans, PlanFollowsAnswers
<1>21. Planners' /\ Windows'
  <2>1. wf.rev \in Nat /\ wf'.rev \in Nat /\ wf'.rev > wf.rev
    BY <1>4 DEF Typed, WorkflowRows
  <2>2. \A q \in Processes : pc'[q] = "planning" => pc[q] = "planning" /\ loc'[q] = loc[q]
    BY <1>5
  <2>3. /\ \A q \in Processes : pc[q] = "planning" => loc[q].rev \in Nat
        /\ \A t \in Tabs : tab[t].rev \in Nat
    BY DEF Typed, LocRow, ReadRow
  <2>4. DOMAIN question = 1 .. Len(question) /\ Len(question) \in Nat
    BY QuestionsTyped DEF Typed
  <2> QED BY <2>1, <2>2, <2>3, <2>4, RevisionMoves DEF RowsInv
<1>22. Type' = loc[p].intent
  BY <1>4, <1>10, LimitsAreNumbers DEF Type
<1>23. Statuses'
  BY <1>4, <1>22 DEF Statuses, CancelledIsQuiet, Workflows
<1>25. IntakeIsNotStranded'
  BY <1>4 DEF IntakeIsNotStranded
<1> QED BY <1>7, <1>9, <1>18, <1>19, <1>20, <1>21, <1>23, <1>25 DEF RowsInv

LEMMA PublishRefusalKeeps ==
  ASSUME Typed, Kinds, Asks, Decides, RowsInv, NEW p \in Processes, PublishRefusal(p)
  PROVE  Typed' /\ Kinds' /\ Asks' /\ Decides' /\ DecKept /\ RowsInv'
<1>1. /\ pc[p] = "decided" /\ Publishes(p) /\ loc[p].intent \in {"clarify", "unsupported"} /\ Recorded(p) /\ Done(p)
      /\ wf' = [Moved("unsupported") EXCEPT !.decision = Route(p)]
      /\ job' = Ended(job, loc[p].op, "succeeded")
      /\ UNCHANGED <<inv, failed, question, answers, plan, tab, asked, troubles>>
  BY DEF PublishRefusal
<1>2. wf.status \in {"routing", "failed"}
  BY <1>1, DecidedRead
<1>3. wf'.status = "unsupported"
  <2>1. Moved("unsupported") \in WorkflowRows /\ Moved("unsupported").status = "unsupported"
    BY MovedRow DEF Typed, WorkflowRows, WorkflowStatuses
  <2> QED BY <1>1, <2>1 DEF WorkflowRows
<1>4. Questions' /\ \A i \in DOMAIN question : i \in DOMAIN question' /\ (Pending(i)' => Pending(i))
  BY <1>1, <1>2, <1>3 DEF RowsInv, Questions, Pending, Latest, Open
<1>5. question' \in Seq(QuestionRow)
  BY <1>1 DEF Typed
<1> QED BY <1>1, <1>4, <1>5, RouteEnds

\* A question is appended, and those of a set are closed before.
AskedAfter(S, kind, rev) == Append(ClosedBy(S, "superseded"), Question(kind, rev))
IsAskedAfter(asks, S, kind, rev) ==
    /\ asks \in Seq(QuestionRow) /\ DOMAIN asks = 1 .. Len(question) + 1
    /\ asks[Len(question) + 1] = [kind |-> kind, st |-> "pending", rev |-> rev]
    /\ \A i \in DOMAIN question :
          /\ asks[i].kind = question[i].kind
          /\ asks[i].st = IF i \in S THEN "superseded" ELSE question[i].st

LEMMA AskedRow ==
  ASSUME question \in Seq(QuestionRow), NEW S, NEW kind \in {"intent", "science"}, NEW rev \in Nat
  PROVE  IsAskedAfter(AskedAfter(S, kind, rev), S, kind, rev)
<1> DEFINE asks == AskedAfter(S, kind, rev)
<1>0. asks = Append(ClosedBy(S, "superseded"), Question(kind, rev))
  BY DEF AskedAfter
<1> HIDE DEF asks
<1>1. /\ ClosedBy(S, "superseded") \in Seq(QuestionRow) /\ Len(ClosedBy(S, "superseded")) = Len(question)
      /\ \A i \in DOMAIN question :
            /\ ClosedBy(S, "superseded")[i].kind = question[i].kind
            /\ ClosedBy(S, "superseded")[i].st = IF i \in S THEN "superseded" ELSE question[i].st
  BY ClosedRows
<1>2. Question(kind, rev) \in QuestionRow /\ Question(kind, rev) = [kind |-> kind, st |-> "pending", rev |-> rev]
  BY DEF Question, QuestionRow
<1>3. Len(question) \in Nat /\ DOMAIN question = 1 .. Len(question)
  BY QuestionsTyped
<1>4. /\ asks \in Seq(QuestionRow) /\ Len(asks) = Len(question) + 1
      /\ asks[Len(question) + 1] = Question(kind, rev)
      /\ \A i \in 1 .. Len(question) : asks[i] = ClosedBy(S, "superseded")[i]
  BY <1>0, <1>1, <1>2, <1>3
<1>5. DOMAIN asks = 1 .. Len(question) + 1
  BY <1>4
<1>6. /\ asks \in Seq(QuestionRow) /\ DOMAIN asks = 1 .. Len(question) + 1
      /\ asks[Len(question) + 1] = [kind |-> kind, st |-> "pending", rev |-> rev]
      /\ \A i \in DOMAIN question :
            /\ asks[i].kind = question[i].kind
            /\ asks[i].st = IF i \in S THEN "superseded" ELSE question[i].st
  BY <1>1, <1>2, <1>3, <1>4, <1>5
<1> QED BY <1>6 DEF asks, IsAskedAfter

LEMMA PublishQuestionKeeps ==
  ASSUME Typed, Kinds, Asks, Decides, RowsInv, NEW p \in Processes, PublishQuestion(p)
  PROVE  Typed' /\ Kinds' /\ Asks' /\ Decides' /\ DecKept /\ RowsInv'
<1>1. /\ pc[p] = "decided" /\ Publishes(p) /\ loc[p].intent \in {"clarify", "unsupported"} /\ Recorded(p) /\ Done(p)
      /\ wf' = [Moved("waiting-clarification") EXCEPT !.decision = Route(p)]
      /\ job' = Ended(job, loc[p].op, "succeeded")
      /\ UNCHANGED <<inv, failed, answers, plan, tab, asked, troubles>>
      /\ question' = Append(SupersededByIntent, Question("intent", wf.rev + 1))
  BY DEF PublishQuestion
<1>0. PICK m \in Nat : m = Len(question) /\ DOMAIN question = 1 .. m
  BY QuestionsTyped DEF Typed
<1>2. PICK S : S = {i \in DOMAIN question : Open(i)}
  OBVIOUS
<1>3. /\ question' \in Seq(QuestionRow) /\ DOMAIN question' = 1 .. m + 1
      /\ question'[m + 1].kind = "intent" /\ question'[m + 1].st = "pending"
      /\ \A i \in 1 .. m : /\ question'[i].kind = question[i].kind
                           /\ question'[i].st = IF i \in S THEN "superseded" ELSE question[i].st
  <2>1. question \in Seq(QuestionRow) /\ wf.rev + 1 \in Nat
    BY DEF Typed
  <2>2. SupersededByIntent = ClosedBy(S, "superseded")
    BY <1>2 DEF SupersededByIntent, Closed, ClosedBy
  <2>3. question' = AskedAfter(S, "intent", wf.rev + 1)
    BY <1>1, <2>2 DEF AskedAfter
  <2>4. PICK rev \in Nat : rev = wf.rev + 1
    BY <2>1
  <2>5. IsAskedAfter(question', S, "intent", rev)
    BY <2>1, <2>3, <2>4, AskedRow
  <2> QED BY <1>0, <2>4, <2>5 DEF IsAskedAfter
<1>4. \A i \in 1 .. m : ~Open(i)'
  BY <1>0, <1>2, <1>3 DEF Open
<1>5. \A i \in DOMAIN question : i \in DOMAIN question' /\ (Pending(i)' => Pending(i))
  BY <1>0, <1>3, <1>4 DEF Pending, Open
<1>6. wf'.status = "waiting-clarification"
  <2>1. Moved("waiting-clarification") \in WorkflowRows /\ Moved("waiting-clarification").status = "waiting-clarification"
    BY MovedRow DEF Typed, WorkflowRows, WorkflowStatuses
  <2> QED BY <1>1, <2>1 DEF WorkflowRows
<1>7. Questions'
  <2>1. \A i \in DOMAIN question' : Pending(i)' => i = m + 1
    BY <1>3, <1>4 DEF Pending, Open
  <2>2. Pending(m + 1)' /\ Latest(m + 1)' /\ m + 1 \in DOMAIN question'
    <3>1. Len(question') = m + 1
      BY <1>3
    <3> QED BY <1>3, <3>1 DEF Pending, Latest, Open
  <2> QED BY <1>3, <1>6, <2>1, <2>2 DEF Questions
<1> QED BY <1>1, <1>3, <1>5, <1>7, RouteEnds

\* What the holder of a plan's lease finds when it publishes.
LEMMA PlanRead ==
  ASSUME Typed, Kinds, RowsInv, NEW p \in Processes, pc[p] = "planning", Publishes(p)
  PROVE  /\ \E v \in Versions : v = loc[p].op[2] /\ loc[p].op = PlanOp(v) /\ job[PlanOp(v)].st = "leased"
         /\ wf.status = "planning" /\ ~wf.cancel
         /\ \A n \in Routes : ~Active(RouteOp(n))
         /\ \A v \in Versions : plan[v].st \notin {"pending", "approved"}
<1>1. PICK v \in Versions : loc[p].op = PlanOp(v)
  BY DEF Kinds
<1>2. v = loc[p].op[2] /\ job[PlanOp(v)].st = "leased" /\ ~wf.cancel /\ wf.rev = loc[p].rev
  BY <1>1, OpNames DEF Publishes, Holds
<1>3. wf.status = "planning"
  BY <1>2 DEF RowsInv, Planners
<1>4. \A n \in Routes : ~Active(RouteOp(n))
  BY <1>3, RouteActive DEF RowsInv
<1>5. \A w \in Versions : plan[w].st \notin {"pending", "approved"}
  BY <1>3 DEF RowsInv, Plans
<1> QED BY <1>1, <1>2, <1>3, <1>4, <1>5

\* The job of the plan ends.
LEMMA PlanEnds ==
  ASSUME Typed, Kinds, Asks, Decides, RowsInv, NEW p \in Processes, pc[p] = "planning", Publishes(p),
         Done(p), UNCHANGED <<dec, inv, failed, answers, tab, asked, troubles>>,
         job' = Ended(job, loc[p].op, "succeeded"), wf'.decision = wf.decision
  PROVE  /\ job' \in [Ops -> JobRow] /\ loc' \in [Processes -> LocRow] /\ pc' \in [Processes -> Places]
         /\ \A q \in Processes : pc'[q] = "planning" => pc[q] = "planning" /\ loc'[q] = loc[q]
         /\ \A o \in Ops : o # loc[p].op => job'[o] = job[o]
         /\ \A o \in Ops : job'[o].in = job[o].in
         /\ job'[loc[p].op].st = "succeeded"
         /\ Kinds' /\ Asks' /\ Decides' /\ DecKept /\ Routing' /\ Reserved' /\ Type' = Type
<1>0. PICK v \in Versions : loc[p].op = PlanOp(v) /\ job[PlanOp(v)].st = "leased"
  BY PlanRead
<1>1. \A n \in Routes : ~Active(RouteOp(n))
  BY PlanRead
<1>2. /\ job' \in [Ops -> JobRow] /\ \A o \in Ops : o # PlanOp(v) => job'[o] = job[o]
      /\ job'[PlanOp(v)].st = "succeeded" /\ job'[PlanOp(v)].in = job[PlanOp(v)].in
  <2>1. PlanOp(v) \in Ops /\ "succeeded" \in Stages /\ job \in [Ops -> JobRow]
    BY OpNames DEF Typed, Stages
  <2> QED BY <1>0, <2>1, EndedRow
<1>3. /\ loc' \in [Processes -> LocRow] /\ pc' \in [Processes -> Places]
      /\ \A q \in Processes : q # p => loc'[q] = loc[q] /\ pc'[q] = pc[q]
      /\ pc'[p] = "idle"
  BY DoneRow
<1>4. \A n \in Routes : job'[RouteOp(n)] = job[RouteOp(n)]
  BY <1>2, OpNames
<1>5. ThreadsKept
  <2>1. \A op \in Ops : job'[op].st = "leased" => job'[op] = job[op]
    BY <1>2
  <2>2. \A q \in Processes : q # p => (Holds(q)' => Holds(q))
    BY <1>3, <2>1, LeasesStay
  <2> QED BY <1>3, <2>2 DEF ThreadsKept, Quiet
<1>6. Kinds' /\ Asks' /\ Decides'
  BY <1>4, <1>5, ThreadsStay
<1>7. DecKept
  BY DEF DecKept
<1>8. Routing'
  <2>1. wf.decision # NoDecision => wf.decision \in Routes
    BY DEF Typed
  <2>2. \A n \in Routes : ~Active(RouteOp(n))'
    BY <1>1, <1>4 DEF Active
  <2> QED BY <1>4, <2>1, <2>2 DEF RowsInv, Routing
<1>9. Reserved'
  <2>1. PICK k \in 0 .. Len(answers) + 1 :
           /\ \A w \in Versions : job[PlanOp(w)].st # "absent" <=> w <= k
           /\ job[RouteOp(Len(answers))].st \in {"queued", "leased", "failed"} => k <= Len(answers)
    BY DEF RowsInv, Reserved
  <2>2. \A w \in Versions : (job'[PlanOp(w)].st # "absent" <=> job[PlanOp(w)].st # "absent")
                            /\ job'[PlanOp(w)].in = job[PlanOp(w)].in
    BY <1>0, <1>2, OpNames
  <2>3. Len(answers) \in Routes
    BY LimitsAreNumbers DEF Typed
  <2> QED BY <1>4, <2>1, <2>2, <2>3 DEF RowsInv, Reserved
<1>10. Type' = Type
  BY <1>7, TypeKept DEF RowsInv
<1>11. /\ \A o \in Ops : o # loc[p].op => job'[o] = job[o]
       /\ \A o \in Ops : job'[o].in = job[o].in
       /\ job'[loc[p].op].st = "succeeded"
  BY <1>0, <1>2
<1> QED BY <1>2, <1>3, <1>6, <1>7, <1>8, <1>9, <1>10, <1>11

LEMMA PublishPlanKeeps ==
  ASSUME Typed, Kinds, Asks, Decides, RowsInv, NEW p \in Processes, PublishPlan(p)
  PROVE  Typed' /\ Kinds' /\ Asks' /\ Decides' /\ DecKept /\ RowsInv'
<1>0. PICK v \in Versions : v = loc[p].op[2] /\ loc[p].op = PlanOp(v) /\ job[PlanOp(v)].st = "leased"
  BY PlanRead DEF PublishPlan
<1>1. /\ pc[p] = "planning" /\ Publishes(p) /\ Done(p)
      /\ plan' = [plan EXCEPT ![v] = [st |-> "pending", seen |-> Len(answers)]]
      /\ wf' = Moved("waiting-plan-approval")
      /\ job' = Ended(job, loc[p].op, "succeeded")
      /\ UNCHANGED <<dec, inv, failed, question, answers, tab, asked, troubles>>
  BY <1>0 DEF PublishPlan
<1>2. /\ wf.status = "planning" /\ ~wf.cancel
      /\ \A n \in Routes : ~Active(RouteOp(n))
      /\ \A w \in Versions : plan[w].st \notin {"pending", "approved"}
  BY <1>1, PlanRead
<1>3. /\ wf' \in WorkflowRows /\ wf'.status = "waiting-plan-approval" /\ ~wf'.cancel
      /\ wf'.decision = wf.decision /\ wf'.rev = wf.rev + 1
  <2>1. wf \in WorkflowRows /\ "waiting-plan-approval" \in WorkflowStatuses
    BY DEF Typed, WorkflowRows, WorkflowStatuses
  <2> QED BY <1>1, <1>2, <2>1, MovedRow
<1>4. /\ job' \in [Ops -> JobRow] /\ loc' \in [Processes -> LocRow] /\ pc' \in [Processes -> Places]
      /\ \A q \in Processes : pc'[q] = "planning" => pc[q] = "planning" /\ loc'[q] = loc[q]
      /\ \A o \in Ops : o # loc[p].op => job'[o] = job[o]
      /\ job'[loc[p].op].st = "succeeded"
      /\ Kinds' /\ Asks' /\ Decides' /\ DecKept /\ Routing' /\ Reserved' /\ Type' = Type
  BY <1>1, <1>3, PlanEnds
<1>5. \A w \in Versions : plan'[w] = IF w = v THEN [st |-> "pending", seen |-> Len(answers)] ELSE plan[w]
  BY <1>1 DEF Typed
<1>6. Typed'
  <2>1. [st |-> "pending", seen |-> Len(answers)] \in PlanRow
    BY DEF Typed, PlanRow
  <2> QED BY <1>1, <1>3, <1>4, <2>1 DEF Typed, WorkflowRows
<1>7. Plans'
  <2>1. \A w \in Versions : w # v => job'[PlanOp(w)] = job[PlanOp(w)]
    BY <1>0, <1>4, OpNames
  <2>2. \A w \in Versions : plan'[w].st # "none" => job'[PlanOp(w)].st = "succeeded"
    BY <1>0, <1>4, <1>5, <2>1 DEF RowsInv, Plans
  <2>3. \A w \in Versions : plan'[w].st # "approved" /\ (plan'[w].st = "pending" => plan'[w].seen = Len(answers))
    BY <1>2, <1>5
  <2>4. \A w \in Versions : plan'[w].st = "pending" => w = v
    BY <1>2, <1>5
  <2> QED BY <1>1, <1>3, <2>2, <2>3, <2>4 DEF Plans, PlanFollowsAnswers
<1>8. Planners' /\ Windows'
  <2>1. wf.rev \in Nat /\ wf'.rev \in Nat /\ wf'.rev > wf.rev
    BY <1>3 DEF Typed, WorkflowRows
  <2>2. /\ \A q \in Processes : pc[q] = "planning" => loc[q].rev \in Nat
        /\ \A t \in Tabs : tab[t].rev \in Nat
    BY DEF Typed, LocRow, ReadRow
  <2>3. DOMAIN question = 1 .. Len(question) /\ Len(question) \in Nat
    BY QuestionsTyped DEF Typed
  <2>4. \A i \in DOMAIN question : i \in DOMAIN question' /\ (Pending(i)' => Pending(i))
    BY <1>1 DEF Pending
  <2> QED BY <1>1, <1>4, <2>1, <2>2, <2>3, <2>4, RevisionMoves DEF RowsInv
<1>9. Statuses'
  BY <1>2, <1>3, <1>4 DEF RowsInv, Statuses, CancelledIsQuiet
<1>10. Questions'
  BY <1>1, <1>2, <1>3 DEF RowsInv, Questions, Pending, Latest, Open
<1>11. IntakeIsNotStranded'
  BY <1>3 DEF IntakeIsNotStranded
<1> QED BY <1>4, <1>6, <1>7, <1>8, <1>9, <1>10, <1>11 DEF RowsInv

LEMMA BlockAnalysisKeeps ==
  ASSUME Typed, Kinds, Asks, Decides, RowsInv, NEW p \in Processes, BlockAnalysis(p)
  PROVE  Typed' /\ Kinds' /\ Asks' /\ Decides' /\ DecKept /\ RowsInv'
<1>1. /\ pc[p] = "planning" /\ Publishes(p) /\ Done(p)
      /\ wf' = Moved("blocked") /\ job' = Ended(job, loc[p].op, "succeeded")
      /\ UNCHANGED <<dec, inv, failed, question, answers, plan, tab, asked, troubles>>
  BY DEF BlockAnalysis
<1>0. PICK v \in Versions : loc[p].op = PlanOp(v) /\ job[PlanOp(v)].st = "leased"
  BY <1>1, PlanRead
<1>2. /\ wf.status = "planning" /\ ~wf.cancel
      /\ \A w \in Versions : plan[w].st \notin {"pending", "approved"}
  BY <1>1, PlanRead
<1>3. /\ wf' \in WorkflowRows /\ wf'.status = "blocked" /\ ~wf'.cancel
      /\ wf'.decision = wf.decision /\ wf'.rev = wf.rev + 1
  <2>1. wf \in WorkflowRows /\ "blocked" \in WorkflowStatuses
    BY DEF Typed, WorkflowRows, WorkflowStatuses
  <2> QED BY <1>1, <1>2, <2>1, MovedRow
<1>4. /\ job' \in [Ops -> JobRow] /\ loc' \in [Processes -> LocRow] /\ pc' \in [Processes -> Places]
      /\ \A q \in Processes : pc'[q] = "planning" => pc[q] = "planning" /\ loc'[q] = loc[q]
      /\ \A o \in Ops : o # loc[p].op => job'[o] = job[o]
      /\ job'[loc[p].op].st = "succeeded"
      /\ Kinds' /\ Asks' /\ Decides' /\ DecKept /\ Routing' /\ Reserved' /\ Type' = Type
  BY <1>1, <1>3, PlanEnds
<1>5. Typed'
  BY <1>1, <1>3, <1>4 DEF Typed, WorkflowRows
<1>6. Plans'
  <2>1. \A w \in Versions : job[PlanOp(w)].st = "succeeded" => job'[PlanOp(w)].st = "succeeded"
    BY <1>0, <1>4, OpNames
  <2> QED BY <1>1, <1>2, <2>1 DEF RowsInv, Plans, PlanFollowsAnswers
<1>7. Planners' /\ Windows'
  <2>1. wf.rev \in Nat /\ wf'.rev \in Nat /\ wf'.rev > wf.rev
    BY <1>3 DEF Typed, WorkflowRows
  <2>2. /\ \A q \in Processes : pc[q] = "planning" => loc[q].rev \in Nat
        /\ \A t \in Tabs : tab[t].rev \in Nat
    BY DEF Typed, LocRow, ReadRow
  <2>3. DOMAIN question = 1 .. Len(question) /\ Len(question) \in Nat
    BY QuestionsTyped DEF Typed
  <2>4. \A i \in DOMAIN question : i \in DOMAIN question' /\ (Pending(i)' => Pending(i))
    BY <1>1 DEF Pending
  <2> QED BY <1>1, <1>4, <2>1, <2>2, <2>3, <2>4, RevisionMoves DEF RowsInv
<1>8. Statuses'
  BY <1>3 DEF RowsInv, Statuses, CancelledIsQuiet
<1>9. Questions'
  BY <1>1, <1>2, <1>3 DEF RowsInv, Questions, Pending, Latest, Open
<1>10. IntakeIsNotStranded'
  BY <1>3 DEF IntakeIsNotStranded
<1> QED BY <1>4, <1>5, <1>6, <1>7, <1>8, <1>9, <1>10 DEF RowsInv

\* A scientific question: the workflow stays as it is, and its revision too.
LEMMA AskScientificallyKeeps ==
  ASSUME Typed, Kinds, Asks, Decides, RowsInv, NEW p \in Processes, AskScientifically(p)
  PROVE  Typed' /\ Kinds' /\ Asks' /\ Decides' /\ DecKept /\ RowsInv'
<1>1. /\ pc[p] = "planning" /\ Publishes(p) /\ Done(p) /\ Type = "dataset"
      /\ job' = Ended(job, loc[p].op, "succeeded")
      /\ UNCHANGED <<wf, dec, inv, failed, answers, plan, tab, asked, troubles>>
  BY DEF AskScientifically
<1>2. PICK v \in Versions : loc[p].op = PlanOp(v) /\ job[PlanOp(v)].st = "leased"
  BY <1>1, PlanRead
<1>3. wf.status = "planning" /\ \A w \in Versions : plan[w].st \notin {"pending", "approved"}
  BY <1>1, PlanRead
<1>4. /\ job' \in [Ops -> JobRow] /\ loc' \in [Processes -> LocRow] /\ pc' \in [Processes -> Places]
      /\ \A q \in Processes : pc'[q] = "planning" => pc[q] = "planning" /\ loc'[q] = loc[q]
      /\ \A o \in Ops : o # loc[p].op => job'[o] = job[o]
      /\ \A o \in Ops : job'[o].in = job[o].in
      /\ job'[loc[p].op].st = "succeeded"
      /\ Kinds' /\ Asks' /\ Decides' /\ DecKept /\ Routing' /\ Reserved' /\ Type' = Type
  BY <1>1, PlanEnds
<1>5. PICK m \in Nat : m = Len(question) /\ DOMAIN question = 1 .. m
  BY QuestionsTyped DEF Typed
<1>6. PICK S : S = {i \in DOMAIN question : Scientific(i)}
  OBVIOUS
<1>7. \A i \in DOMAIN question : Pending(i) => i \in S
  <2>1. \A i \in DOMAIN question : question[i].kind \in {"intent", "science"}
    BY QuestionsTyped DEF Typed, QuestionRow
  <2> QED BY <1>3, <1>6, <2>1 DEF RowsInv, Questions, Scientific
<1>8. \/ /\ question' \in Seq(QuestionRow) /\ DOMAIN question' = 1 .. m + 1
         /\ question'[m + 1].kind = "science" /\ question'[m + 1].st = "pending"
         /\ \A i \in 1 .. m : /\ question'[i].kind = question[i].kind
                              /\ question'[i].st = IF i \in S THEN "superseded" ELSE question[i].st
      \/ UNCHANGED question /\ \E i \in DOMAIN question : Scientific(i)
  <2>1. CASE question' = Append(Closed("superseded", Scientific), Question("science", wf.rev))
    <3>1. question \in Seq(QuestionRow) /\ wf.rev \in Nat
      BY DEF Typed
    <3>2. Closed("superseded", Scientific) = ClosedBy(S, "superseded")
      BY <1>6 DEF Closed, ClosedBy
    <3>3. question' = AskedAfter(S, "science", wf.rev)
      BY <2>1, <3>2 DEF AskedAfter
    <3>4. PICK rev \in Nat : rev = wf.rev
      BY <3>1
    <3>5. IsAskedAfter(question', S, "science", rev)
      BY <3>1, <3>3, <3>4, AskedRow
    <3> QED BY <1>5, <3>4, <3>5 DEF IsAskedAfter
  <2>2. CASE UNCHANGED question /\ \E i \in DOMAIN question : Scientific(i)
    BY <2>2
  <2> QED BY <2>1, <2>2 DEF AskScientifically
<1>9. /\ question' \in Seq(QuestionRow) /\ Questions'
      /\ \E i \in DOMAIN question' : Latest(i)' /\ Scientific(i)'
      /\ \A i \in 1 .. m : i \in DOMAIN question' /\ question'[i].kind = question[i].kind
                           /\ (Pending(i)' => Pending(i))
  <2>1. CASE UNCHANGED question /\ \E i \in DOMAIN question : Scientific(i)
    BY <1>1, <1>5, <2>1 DEF RowsInv, Questions, Pending, Latest, Open, Scientific, Typed
  <2>2. CASE /\ question' \in Seq(QuestionRow) /\ DOMAIN question' = 1 .. m + 1
             /\ question'[m + 1].kind = "science" /\ question'[m + 1].st = "pending"
             /\ \A i \in 1 .. m : /\ question'[i].kind = question[i].kind
                                  /\ question'[i].st = IF i \in S THEN "superseded" ELSE question[i].st
    <3>1. \A i \in 1 .. m : ~Pending(i)' /\ i \in DOMAIN question'
      BY <1>5, <1>7, <2>2 DEF Pending
    <3>2. Len(question') = m + 1
      BY <2>2
    <3>3. m + 1 \in DOMAIN question' /\ Latest(m + 1)' /\ Scientific(m + 1)'
      BY <2>2, <3>2 DEF Latest, Open, Scientific, Pending
    <3>4. Questions'
      <4>1. \A i \in DOMAIN question' : Pending(i)' => i = m + 1
        BY <2>2, <3>1
      <4> QED BY <1>1, <1>3, <2>2, <3>3, <4>1 DEF Questions
    <3> QED BY <2>2, <3>1, <3>3, <3>4
  <2> QED BY <1>8, <2>1, <2>2
<1>10. Typed'
  BY <1>1, <1>4, <1>9 DEF Typed
<1>11. Plans'
  <2>1. \A w \in Versions : job[PlanOp(w)].st = "succeeded" => job'[PlanOp(w)].st = "succeeded"
    BY <1>2, <1>4, OpNames
  <2> QED BY <1>1, <1>3, <2>1 DEF RowsInv, Plans, PlanFollowsAnswers
<1>12. Planners'
  <2>1. \A q \in Processes : loc[q].op \in Ops
    BY DEF Typed, LocRow
  <2> QED BY <1>1, <1>4, <2>1 DEF RowsInv, Planners
<1>13. Windows'
  <2> SUFFICES ASSUME NEW t \in Tabs, tab[t] # NoRead
               PROVE  /\ tab[t].question \in DOMAIN question' /\ tab[t].rev <= wf.rev
                      /\ \A i \in 1 .. tab[t].question - 1 : ~Pending(i)'
                      /\ tab[t].rev = wf.rev =>
                            /\ wf.status \in {"waiting-clarification", "planning", "waiting-plan-approval"}
                            /\ question'[tab[t].question].kind = "science" => Type' = "dataset"
                            /\ wf.status = "waiting-clarification" => Latest(tab[t].question)'
    BY <1>1 DEF Windows
  <2>1. /\ tab[t].question \in 1 .. m /\ tab[t].rev <= wf.rev
        /\ \A i \in 1 .. tab[t].question - 1 : ~Pending(i)
    BY <1>5 DEF RowsInv, Windows
  <2>2. \A i \in 1 .. tab[t].question - 1 : i \in 1 .. m
    BY <2>1
  <2> QED BY <1>1, <1>3, <1>4, <1>9, <2>1, <2>2
<1>14. Statuses'
  BY <1>1, <1>3, <1>4 DEF RowsInv, Statuses, CancelledIsQuiet
<1>15. IntakeIsNotStranded'
  BY <1>1, <1>3, <1>4, <1>9 DEF IntakeIsNotStranded
<1> QED BY <1>4, <1>9, <1>10, <1>11, <1>12, <1>13, <1>14, <1>15 DEF RowsInv
-----------------------------------------------------------------------------
(* Failures and cancellations *)

\* A leased job fails, or the run is cancelled and all its queued jobs with it.
JobsEnd ==
    \A op \in Ops :
        /\ job'[op].in = job[op].in
        /\ job'[op].st # job[op].st => Active(op) /\ job'[op].st \in {"failed", "cancelled"}
        /\ job'[op].st = job[op].st => job'[op] = job[op]

\* The run stops: whatever was read while it planned or waited is out of date.
LEMMA RunStops ==
  ASSUME Typed, Kinds, Asks, Decides, RowsInv, UNCHANGED <<dec, inv, answers, plan, tab, asked>>,
         job' \in [Ops -> JobRow], JobsEnd,
         pc' \in [Processes -> Places],
         \A q \in Processes : (pc'[q] = pc[q] /\ loc'[q] = loc[q]) \/ pc'[q] = "idle",
         wf' \in WorkflowRows, wf'.status \in {"failed", "cancelled"}, wf'.decision = wf.decision,
         wf'.rev >= wf.rev, wf'.rev = wf.rev => wf'.status = wf.status,
         wf'.status = "failed" => wf.status \notin {"waiting-plan-approval", "cancelled"},
         wf'.status = "cancelled" => /\ wf'.cancel
                                     /\ \A op \in Ops : job'[op].st # "queued"
                                     /\ \A i \in DOMAIN question' : ~Pending(i)',
         \A i \in DOMAIN question : i \in DOMAIN question' /\ (Pending(i)' => Pending(i)),
         Questions'
  PROVE  Kinds' /\ Asks' /\ Decides' /\ DecKept /\ RowsInv'
<1>1. ThreadsKept
  <2>1. \A op \in Ops : job'[op].st = "leased" => job'[op] = job[op]
    BY DEF JobsEnd, Active
  <2>2. \A q \in Processes : loc'[q] = loc[q] => (Holds(q)' => Holds(q))
    BY <2>1, LeasesStay
  <2> QED BY <2>2 DEF ThreadsKept, Quiet
<1>2. \A n \in Routes : /\ job[RouteOp(n)].st = "succeeded" => job'[RouteOp(n)].st = "succeeded"
                        /\ job[RouteOp(n)].st = "absent" <=> job'[RouteOp(n)].st = "absent"
                        /\ Active(RouteOp(n))' => Active(RouteOp(n))
                        /\ job'[RouteOp(n)].in = job[RouteOp(n)].in
  BY OpNames DEF JobsEnd, Active
<1>3. \A v \in Versions : /\ job[PlanOp(v)].st = "succeeded" => job'[PlanOp(v)].st = "succeeded"
                          /\ job[PlanOp(v)].st = "absent" <=> job'[PlanOp(v)].st = "absent"
                          /\ job'[PlanOp(v)].in = job[PlanOp(v)].in
  BY OpNames DEF JobsEnd, Active
<1>4. Kinds' /\ Asks' /\ Decides'
  BY <1>1, <1>2, ThreadsStay
<1>5. DecKept
  BY DEF DecKept
<1>6. Routing'
  <2>1. wf.decision # NoDecision => wf.decision \in Routes
    BY DEF Typed
  <2>2. \A n \in Routes : Active(RouteOp(n))' =>
           n = Len(answers) /\ wf'.status \in {"routing", "failed", "cancelled"}
    BY <1>2 DEF RowsInv, Routing
  <2> QED BY <1>2, <2>1, <2>2 DEF RowsInv, Routing
<1>7. Reserved'
  <2>1. PICK k \in 0 .. Len(answers) + 1 :
           /\ \A w \in Versions : job[PlanOp(w)].st # "absent" <=> w <= k
           /\ job[RouteOp(Len(answers))].st \in {"queued", "leased", "failed"} => k <= Len(answers)
    BY DEF RowsInv, Reserved
  <2>2. Len(answers) \in Routes
    BY LimitsAreNumbers DEF Typed
  <2>3. job'[RouteOp(Len(answers))].st \in {"queued", "leased", "failed"} => k <= Len(answers)
    BY <2>1, <2>2, OpNames DEF JobsEnd, Active
  <2> QED BY <1>3, <2>1, <2>3 DEF RowsInv, Reserved
<1>8. Plans'
  BY <1>2, <1>3 DEF RowsInv, Plans, PlanFollowsAnswers
<1>9. Planners' /\ Windows'
  <2>1. /\ \A q \in Processes : pc'[q] = "planning" => pc[q] = "planning" /\ loc'[q] = loc[q]
        /\ \A q \in Processes : pc[q] = "planning" => loc[q].rev \in Nat
        /\ \A t \in Tabs : tab[t].rev \in Nat
    BY DEF Typed, LocRow, ReadRow
  <2>2. DOMAIN question = 1 .. Len(question) /\ Len(question) \in Nat
    BY QuestionsTyped DEF Typed
  <2>3. wf.rev \in Nat /\ wf'.rev \in Nat
    BY DEF Typed, WorkflowRows
  <2>4. CASE wf'.rev > wf.rev
    BY <2>1, <2>2, <2>3, <2>4, RevisionMoves DEF RowsInv
  <2>5. CASE wf'.rev = wf.rev
    <3>1. wf.status \in {"failed", "cancelled"}
      BY <2>5
    <3>2. \A q \in Processes : pc[q] = "planning" => loc[q].rev <= wf.rev /\ loc[q].rev # wf.rev
      BY <3>1 DEF RowsInv, Planners
    <3>3. Planners'
      BY <2>1, <2>5, <3>2 DEF Planners
    <3>4. \A t \in Tabs : tab[t] # NoRead =>
             /\ tab[t].question \in DOMAIN question /\ tab[t].rev <= wf.rev /\ tab[t].rev # wf.rev
             /\ \A i \in 1 .. tab[t].question - 1 : ~Pending(i) /\ i \in DOMAIN question
      BY <2>2, <3>1 DEF RowsInv, Windows
    <3>5. Windows'
      BY <2>5, <3>4 DEF Windows
    <3> QED BY <3>3, <3>5
  <2> QED BY <2>3, <2>4, <2>5
<1>10. Statuses'
  BY DEF Statuses, CancelledIsQuiet
<1>11. IntakeIsNotStranded'
  BY DEF IntakeIsNotStranded
<1> QED BY <1>4, <1>5, <1>6, <1>7, <1>8, <1>9, <1>10, <1>11 DEF RowsInv

\* A leased job fails, and the workflow with it.
LEMMA FailKeeps ==
  ASSUME Typed, Kinds, Asks, Decides, RowsInv, NEW op \in Ops, job[op].st = "leased",
         WorkflowMayMove(wf.status, "failed"), Fail(op), UNCHANGED <<tab, asked>>,
         pc' \in [Processes -> Places], loc' \in [Processes -> LocRow],
         \A q \in Processes : (pc'[q] = pc[q] /\ loc'[q] = loc[q]) \/ pc'[q] = "idle"
  PROVE  Typed' /\ Kinds' /\ Asks' /\ Decides' /\ DecKept /\ RowsInv'
<1>1. /\ job' = Ended(job, op, "failed") /\ wf' = Moved("failed") /\ failed' = op
      /\ UNCHANGED <<dec, inv, question, answers, plan>>
  BY DEF Fail
<1>2. wf.status \in {"routing", "planning", "running", "reviewing", "failed"}
  <2>1. ASSUME wf.status = "waiting-clarification" PROVE FALSE
    BY <2>1 DEF WorkflowMayMove, WorkflowTransitions, WorkflowRow
  <2>2. ASSUME wf.status = "waiting-plan-approval" PROVE FALSE
    BY <2>2 DEF WorkflowMayMove, WorkflowTransitions, WorkflowRow
  <2>3. ASSUME wf.status = "blocked" PROVE FALSE
    BY <2>3 DEF WorkflowMayMove, WorkflowTransitions, WorkflowRow
  <2>4. ASSUME wf.status \in {"completed", "unsupported", "cancelled"} PROVE FALSE
    BY <2>4 DEF WorkflowMayMove, WorkflowTransitions, WorkflowRow
  <2> QED BY <2>1, <2>2, <2>3, <2>4 DEF Typed, WorkflowStatuses
<1>3. /\ job' \in [Ops -> JobRow] /\ \A o \in Ops : o # op => job'[o] = job[o]
      /\ job'[op].st = "failed" /\ job'[op].in = job[op].in
  <2>1. "failed" \in Stages /\ job \in [Ops -> JobRow]
    BY DEF Typed, Stages
  <2> QED BY <1>1, <2>1, EndedRow
<1>4. /\ wf' \in WorkflowRows /\ wf'.status = "failed" /\ wf'.decision = wf.decision
      /\ wf'.rev = IF wf.status = "failed" THEN wf.rev ELSE wf.rev + 1
  <2>1. wf \in WorkflowRows /\ "failed" \in WorkflowStatuses
    BY DEF Typed, WorkflowRows, WorkflowStatuses
  <2> QED BY <1>1, <2>1, MovedRow
<1>5. JobsEnd
  BY <1>3 DEF JobsEnd, Active
<1>6. Typed'
  BY <1>1, <1>3, <1>4 DEF Typed, WorkflowRows
<1>7. Questions' /\ \A i \in DOMAIN question : i \in DOMAIN question' /\ (Pending(i)' => Pending(i))
  BY <1>1, <1>2, <1>4 DEF RowsInv, Questions, Pending, Latest, Open
<1>8. wf.rev \in Nat /\ wf'.rev >= wf.rev /\ (wf'.rev = wf.rev => wf'.status = wf.status)
  BY <1>4 DEF Typed
<1> QED BY <1>1, <1>2, <1>3, <1>4, <1>5, <1>6, <1>7, <1>8, RunStops

\* The run is cancelled, the queued jobs and the questions that wait with it.
LEMMA CancelKeeps ==
  ASSUME Typed, Kinds, Asks, Decides, RowsInv, NEW jobs \in [Ops -> JobRow], CancelAll(jobs),
         \A op \in Ops : /\ jobs[op].in = job[op].in
                         /\ jobs[op] = job[op] \/ (Active(op) /\ jobs[op].st = "cancelled"),
         wf' \in WorkflowRows, wf'.status = "cancelled", wf'.cancel, wf'.decision = wf.decision,
         wf'.rev >= wf.rev, wf'.rev = wf.rev => wf'.status = wf.status,
         UNCHANGED <<tab, asked>>,
         pc' \in [Processes -> Places], loc' \in [Processes -> LocRow],
         \A q \in Processes : (pc'[q] = pc[q] /\ loc'[q] = loc[q]) \/ pc'[q] = "idle"
  PROVE  Typed' /\ Kinds' /\ Asks' /\ Decides' /\ DecKept /\ RowsInv'
<1>1. /\ job' = CancelQueued(jobs) /\ question' = Closed("cancelled", Pending)
      /\ UNCHANGED <<dec, inv, failed, answers, plan>>
  BY DEF CancelAll
<1>2. /\ job' \in [Ops -> JobRow]
      /\ \A o \in Ops : jobs[o].st # "queued" => job'[o] = jobs[o]
      /\ \A o \in Ops : jobs[o].st = "queued" => job'[o].st = "cancelled"
      /\ \A o \in Ops : job'[o].in = jobs[o].in
  BY <1>1, CancelQueuedRow
<1>3. JobsEnd /\ \A op \in Ops : job'[op].st # "queued"
  BY <1>2 DEF JobsEnd, Active
<1>4. PICK S : S = {i \in DOMAIN question : Pending(i)}
  OBVIOUS
<1>5. question' = ClosedBy(S, "cancelled")
  BY <1>1, <1>4 DEF Closed, ClosedBy
<1>6. /\ question' \in Seq(QuestionRow) /\ DOMAIN question' = DOMAIN question
      /\ \A i \in DOMAIN question : question'[i].st = IF i \in S THEN "cancelled" ELSE question[i].st
  BY <1>5, ClosedRows DEF Typed
<1>7. \A i \in DOMAIN question' : ~Pending(i)'
  BY <1>4, <1>6 DEF Pending
<1>8. Questions'
  BY <1>7 DEF Questions
<1>9. Typed'
  BY <1>1, <1>2, <1>6 DEF Typed, WorkflowRows
<1> QED BY <1>1, <1>2, <1>3, <1>6, <1>7, <1>8, <1>9, RunStops

LEMMA AcknowledgeKeeps ==
  ASSUME Typed, Kinds, Asks, Decides, RowsInv, NEW op \in Ops, job[op].st = "leased", wf.cancel,
         wf' = Moved("cancelled"), CancelAll(Ended(job, op, "cancelled")), UNCHANGED <<tab, asked>>,
         pc' \in [Processes -> Places], loc' \in [Processes -> LocRow],
         \A q \in Processes : (pc'[q] = pc[q] /\ loc'[q] = loc[q]) \/ pc'[q] = "idle"
  PROVE  Typed' /\ Kinds' /\ Asks' /\ Decides' /\ DecKept /\ RowsInv'
<1> DEFINE jobs == Ended(job, op, "cancelled")
<1>1. /\ jobs \in [Ops -> JobRow] /\ \A o \in Ops : o # op => jobs[o] = job[o]
      /\ jobs[op].st = "cancelled" /\ jobs[op].in = job[op].in
  <2>1. "cancelled" \in Stages /\ job \in [Ops -> JobRow]
    BY DEF Typed, Stages
  <2> QED BY <2>1, EndedRow
<1>2. CancelAll(jobs)
  OBVIOUS
<1> HIDE DEF jobs
<1>3. \A o \in Ops : /\ jobs[o].in = job[o].in
                     /\ jobs[o] = job[o] \/ (Active(o) /\ jobs[o].st = "cancelled")
  BY <1>1 DEF Active
<1>4. /\ wf' \in WorkflowRows /\ wf'.status = "cancelled" /\ wf'.cancel /\ wf'.decision = wf.decision
      /\ wf'.rev = IF wf.status = "cancelled" THEN wf.rev ELSE wf.rev + 1
  <2>1. wf \in WorkflowRows /\ "cancelled" \in WorkflowStatuses
    BY DEF Typed, WorkflowRows, WorkflowStatuses
  <2> QED BY <2>1, MovedRow
<1>5. wf.rev \in Nat /\ wf'.rev >= wf.rev /\ (wf'.rev = wf.rev => wf'.status = wf.status)
  BY <1>4 DEF Typed
<1>6. UNCHANGED <<tab, asked>>
  OBVIOUS
<1>7. pc' \in [Processes -> Places] /\ loc' \in [Processes -> LocRow]
  OBVIOUS
<1>8. PICK rest \in [Ops -> JobRow] : rest = jobs
  BY <1>1
<1>9. CancelAll(rest)
  BY <1>2, <1>8
<1>10. \A o \in Ops : /\ rest[o].in = job[o].in
                      /\ rest[o] = job[o] \/ (Active(o) /\ rest[o].st = "cancelled")
  BY <1>3, <1>8
<1> QED BY <1>4, <1>5, <1>6, <1>7, <1>9, <1>10, CancelKeeps

\* The user cancels: at once when no process works on the run, else with a flag.
LEMMA RequestCancelKeeps ==
  ASSUME Typed, Kinds, Asks, Decides, RowsInv, RequestCancel
  PROVE  Typed' /\ Kinds' /\ Asks' /\ Decides' /\ DecKept /\ RowsInv'
<1>1. UNCHANGED <<pc, loc, tab, asked, troubles>> /\ wf.rev \in Nat
  BY DEF RequestCancel, Typed
<1>2. CASE /\ wf' = [wf EXCEPT !.status = "cancelled", !.rev = @ + 2, !.cancel = TRUE]
           /\ CancelAll(job)
  <2>1. /\ wf' \in WorkflowRows /\ wf'.status = "cancelled" /\ wf'.cancel /\ wf'.decision = wf.decision
        /\ wf'.rev = wf.rev + 2
    <3>1. wf \in WorkflowRows /\ wf.rev + 2 \in Nat
      BY <1>1 DEF Typed, WorkflowRows
    <3>2. wf' = [wf EXCEPT !.status = "cancelled", !.rev = wf.rev + 2, !.cancel = TRUE]
      BY <1>2
    <3> QED BY <3>1, <3>2 DEF WorkflowRows, WorkflowStatuses
  <2>2. wf'.rev >= wf.rev /\ wf'.rev # wf.rev
    BY <1>1, <2>1
  <2>3. job \in [Ops -> JobRow] /\ pc' \in [Processes -> Places] /\ loc' \in [Processes -> LocRow]
    BY <1>1 DEF Typed
  <2> QED BY <1>1, <1>2, <2>1, <2>2, <2>3, CancelKeeps
<1>3. CASE /\ wf' = [wf EXCEPT !.rev = @ + 1, !.cancel = TRUE]
           /\ UNCHANGED <<dec, inv, job, failed, question, answers, plan>>
  <2>1. /\ wf' \in WorkflowRows /\ wf'.status = wf.status /\ wf'.cancel /\ wf'.decision = wf.decision
        /\ wf'.rev = wf.rev + 1
    <3>1. wf \in WorkflowRows /\ wf.rev + 1 \in Nat
      BY <1>1 DEF Typed, WorkflowRows
    <3>2. wf' = [wf EXCEPT !.rev = wf.rev + 1, !.cancel = TRUE]
      BY <1>3
    <3> QED BY <3>1, <3>2 DEF WorkflowRows
  <2>2. Typed'
    BY <1>1, <1>3, <2>1 DEF Typed, WorkflowRows
  <2>3. Kinds' /\ Asks' /\ Decides' /\ DecKept
    <3>1. ThreadsKept
      BY <1>1, <1>3 DEF ThreadsKept, Holds
    <3> QED BY <1>1, <1>3, <3>1, ThreadsStay DEF DecKept
  <2>4. Type' = Type
    BY <1>3, <2>1, <2>3, TypeKept DEF RowsInv
  <2>5. Routing' /\ Reserved' /\ Plans'
    BY <1>3, <2>1 DEF RowsInv, Routing, Reserved, Plans, PlanFollowsAnswers, Active
  <2>6. Planners' /\ Windows'
    <3>1. wf'.rev \in Nat /\ wf'.rev > wf.rev
      BY <1>1, <2>1
    <3>2. /\ \A q \in Processes : pc[q] = "planning" => loc[q].rev \in Nat
          /\ \A t \in Tabs : tab[t].rev \in Nat
      BY DEF Typed, LocRow, ReadRow
    <3>3. DOMAIN question = 1 .. Len(question) /\ Len(question) \in Nat
      BY QuestionsTyped DEF Typed
    <3>4. \A i \in DOMAIN question : i \in DOMAIN question' /\ (Pending(i)' => Pending(i))
      BY <1>3 DEF Pending
    <3> QED BY <1>1, <3>1, <3>2, <3>3, <3>4, RevisionMoves DEF RowsInv
  <2>7. Statuses'
    BY <1>3, <2>1, <2>4 DEF RowsInv, Statuses, CancelledIsQuiet, Pending
  <2>8. Questions'
    BY <1>3, <2>1 DEF RowsInv, Questions, Pending, Latest, Open
  <2>9. IntakeIsNotStranded'
    BY <1>3, <2>1 DEF RowsInv, IntakeIsNotStranded, Live, Compatible, InputOf
  <2> QED BY <2>2, <2>3, <2>5, <2>6, <2>7, <2>8, <2>9 DEF RowsInv
<1> QED BY <1>2, <1>3 DEF RequestCancel
-----------------------------------------------------------------------------
(* The answers *)

\* The answer that is given at the revision it was read at.
LEMMA AnsweredKeeps ==
  ASSUME Typed, RowsInv, NEW t \in Tabs, tab[t] # NoRead, UnchangedFor(t), Len(answers) < MaxAnswers,
         Answered(t), tab' = [tab EXCEPT ![t] = NoRead],
         wf'.rev = wf.rev + 1,
         \A q \in Processes : pc'[q] = "planning" => pc[q] = "planning" /\ loc'[q] = loc[q],
         wf'.status # "waiting-clarification",
         wf.status # "waiting-clarification" \/ question[tab[t].question].kind = "intent"
  PROVE  /\ tab' \in [Tabs -> ReadRow] /\ answers' \in Seq(ReadRow) /\ Len(answers') = Len(answers) + 1
         /\ Len(answers') <= MaxAnswers /\ Len(answers) \in Nat
         /\ question' \in Seq(QuestionRow) /\ Questions' /\ Planners' /\ Windows'
<1>1. PICK m \in Nat : m = Len(question) /\ DOMAIN question = 1 .. m
  BY QuestionsTyped DEF Typed
<1>2. PICK q \in 1 .. m : q = tab[t].question
  BY <1>1 DEF RowsInv, Windows
<1>3. /\ wf.status \in {"waiting-clarification", "planning", "waiting-plan-approval"}
      /\ wf.status = "waiting-clarification" => Latest(q)
      /\ \A i \in 1 .. q - 1 : ~Pending(i)
  BY <1>2 DEF RowsInv, Windows, UnchangedFor
<1>4. /\ answers' \in Seq(ReadRow) /\ Len(answers') = Len(answers) + 1
      /\ Len(answers') <= MaxAnswers /\ Len(answers) \in Nat
  <2>1. answers \in Seq(ReadRow) /\ tab[t] \in ReadRow /\ answers' = Append(answers, tab[t])
    BY DEF Typed, Answered
  <2> QED BY <2>1, LimitsAreNumbers
<1>5. tab' \in [Tabs -> ReadRow] /\ \A u \in Tabs : tab'[u] \in {tab[u], NoRead}
  <2>1. NoRead \in ReadRow
    BY DEF NoRead, ReadRow
  <2> QED BY <2>1 DEF Typed
<1>6. /\ question' \in Seq(QuestionRow) /\ Len(question') = m /\ DOMAIN question' = 1 .. m
      /\ \A i \in 1 .. m : /\ question'[i].kind = question[i].kind
                           /\ question'[i].st = IF i = q THEN "answered" ELSE question[i].st
  <2>1. question' = ClosedBy({q}, "answered")
    <3>1. question' = [question EXCEPT ![q].st = "answered"]
      BY <1>2 DEF Answered
    <3>2. question' = [i \in DOMAIN question |-> IF i = q THEN [question[i] EXCEPT !.st = "answered"] ELSE question[i]]
      BY <1>1, <1>2, <3>1
    <3> QED BY <3>2 DEF ClosedBy
  <2> QED BY <1>1, <2>1, ClosedRows DEF Typed
<1>7. \A i \in 1 .. m : Pending(i)' => Pending(i) /\ i # q
  BY <1>6 DEF Pending
<1>8. \A i \in 1 .. m : Pending(i)' => i > q
  <2>1. \A i \in 1 .. m : i < q => i \in 1 .. q - 1
    BY <1>2
  <2> QED BY <1>2, <1>3, <1>7, <2>1
<1>9. Questions'
  <2>1. ASSUME NEW i \in 1 .. m, Pending(i)'
        PROVE  Latest(i)' /\ question'[i].kind # "intent"
    <3>1. i > q /\ Pending(i) /\ Latest(i)
      BY <1>1, <1>7, <1>8, <2>1 DEF RowsInv, Questions
    <3>2. Latest(i)'
      <4>1. \A j \in i + 1 .. m : ~Open(j) /\ j # q /\ j \in 1 .. m
        BY <1>1, <1>2, <3>1 DEF Latest
      <4>2. \A j \in i + 1 .. m : ~Open(j)'
        BY <1>6, <4>1 DEF Open
      <4> QED BY <1>6, <2>1, <4>2 DEF Latest, Open, Pending
    <3>3. wf.status # "waiting-clarification"
      <4>1. wf.status = "waiting-clarification" => \A j \in q + 1 .. m : ~Open(j)
        BY <1>1, <1>3 DEF Latest
      <4>2. Open(i) /\ i \in q + 1 .. m
        BY <1>2, <3>1 DEF Open, Pending
      <4> QED BY <4>1, <4>2
    <3>4. question[i].kind # "intent"
      BY <1>1, <3>1, <3>3 DEF RowsInv, Questions
    <3> QED BY <1>6, <3>2, <3>4
  <2> QED BY <1>6, <2>1 DEF Questions
<1>10. Planners' /\ Windows'
  <2>1. /\ \A p \in Processes : pc[p] = "planning" => loc[p].rev \in Nat
        /\ \A u \in Tabs : tab[u].rev \in Nat
    BY DEF Typed, LocRow, ReadRow
  <2>2. DOMAIN question = 1 .. Len(question) /\ Len(question) \in Nat
    BY <1>1
  <2>3. \A i \in DOMAIN question : i \in DOMAIN question' /\ (Pending(i)' => Pending(i))
    BY <1>1, <1>6, <1>7
  <2>4. wf.rev \in Nat /\ wf'.rev \in Nat /\ wf'.rev > wf.rev
    BY DEF Typed
  <2> QED BY <1>5, <2>1, <2>2, <2>3, <2>4, RevisionMoves DEF RowsInv
<1> QED BY <1>4, <1>5, <1>6, <1>9, <1>10

LEMMA SupersededRows ==
  ASSUME plan \in [Versions -> PlanRow]
  PROVE  /\ Superseded \in [Versions -> PlanRow]
         /\ \A v \in Versions : Superseded[v].st = IF plan[v].st = "pending" THEN "superseded" ELSE plan[v].st
<1> DEFINE row(v) == [plan[v] EXCEPT !.st = "superseded"]
<1>1. \A v \in Versions : row(v) \in PlanRow /\ row(v).st = "superseded" /\ plan[v] \in PlanRow
  BY DEF PlanRow
<1>2. Superseded = [v \in Versions |-> IF plan[v].st = "pending" THEN row(v) ELSE plan[v]]
  BY DEF Superseded
<1> HIDE DEF row
<1> QED BY <1>1, <1>2

\* The queued jobs stay or are cancelled; the leased ones go on.
JobsWait(rest) ==
    /\ rest \in [Ops -> JobRow]
    /\ \A op \in Ops : /\ rest[op].in = job[op].in
                       /\ rest[op] = job[op] \/ (job[op].st = "queued" /\ rest[op].st = "cancelled")

LEMMA QueuedWait ==
  ASSUME Typed
  PROVE  JobsWait(job) /\ JobsWait(CancelQueued(job))
<1>1. job \in [Ops -> JobRow]
  BY DEF Typed
<1> QED BY <1>1, CancelQueuedRow DEF JobsWait

\* No plan is shown any more.
NoPlanShown ==
    /\ plan' \in [Versions -> PlanRow]
    /\ \A v \in Versions : /\ plan'[v].st \in {"none", "superseded"}
                           /\ plan'[v].st # "none" => plan[v].st # "none"

\* An answer about the intent routes again.
LEMMA RoutedAgain ==
  ASSUME Typed, Kinds, Asks, Decides, RowsInv, NEW t \in Tabs, tab[t] # NoRead, UnchangedFor(t),
         Len(answers) < MaxAnswers, Answered(t), tab' = [tab EXCEPT ![t] = NoRead],
         UNCHANGED <<dec, inv, failed, pc, loc, asked, troubles>>,
         question[tab[t].question].kind = "intent",
         NEW rest, JobsWait(rest),
         job' = Enqueued(rest, RouteOp(Len(answers) + 1), 1, Len(answers) + 1),
         wf' \in WorkflowRows, wf'.status = "routing", wf'.rev = wf.rev + 1, wf'.decision = NoDecision,
         NoPlanShown
  PROVE  Typed' /\ Kinds' /\ Asks' /\ Decides' /\ DecKept /\ RowsInv'
<1>1. /\ tab' \in [Tabs -> ReadRow] /\ answers' \in Seq(ReadRow) /\ Len(answers') = Len(answers) + 1
      /\ Len(answers') <= MaxAnswers /\ Len(answers) \in Nat
      /\ question' \in Seq(QuestionRow) /\ Questions' /\ Planners' /\ Windows'
  BY AnsweredKeeps
<1>2. PICK n \in Routes : n = Len(answers) + 1
  BY <1>1, LimitsAreNumbers
<1>3. n = Len(answers') /\ n \in Nat /\ job[RouteOp(n)].st = "absent"
  BY <1>1, <1>2 DEF RowsInv, Routing
<1>4. \A m \in Routes : ~Active(RouteOp(m))
  <2>1. wf.status \in {"waiting-clarification", "planning", "waiting-plan-approval"}
    BY DEF RowsInv, Windows, UnchangedFor
  <2> QED BY <2>1 DEF RowsInv, Routing
<1>5. /\ job' \in [Ops -> JobRow] /\ \A o \in Ops : o # RouteOp(n) => job'[o] = rest[o]
      /\ job'[RouteOp(n)].st = "queued" /\ job'[RouteOp(n)].in = n
  <2>1. RouteOp(n) \in Ops /\ 1 \in Nat /\ n \in Routes \cup {NoDecision} /\ rest \in [Ops -> JobRow]
    BY OpNames DEF JobsWait
  <2>2. job' = Enqueued(rest, RouteOp(n), 1, n)
    BY <1>2
  <2> QED BY <2>1, <2>2, EnqueuedRow
<1>6. \A m \in Routes : m # n => job'[RouteOp(m)] = job[RouteOp(m)]
  <2>1. \A m \in Routes : m # n => RouteOp(m) \in Ops /\ RouteOp(m) # RouteOp(n) /\ job[RouteOp(m)].st # "queued"
    BY <1>4, OpNames DEF Active
  <2> QED BY <1>5, <2>1 DEF JobsWait
<1>7. \A v \in Versions : /\ job'[PlanOp(v)].in = job[PlanOp(v)].in
                          /\ job'[PlanOp(v)].st = job[PlanOp(v)].st
                                \/ (job[PlanOp(v)].st = "queued" /\ job'[PlanOp(v)].st = "cancelled")
  <2>1. \A v \in Versions : PlanOp(v) \in Ops /\ PlanOp(v) # RouteOp(n)
    BY OpNames
  <2> QED BY <1>5, <2>1 DEF JobsWait
<1>8. Typed'
  BY <1>1, <1>5 DEF Typed, WorkflowRows, NoPlanShown
<1>9. Kinds' /\ Asks' /\ Decides' /\ DecKept
  <2>1. \A op \in Ops : job'[op].st = "leased" => job'[op] = job[op]
    BY <1>5 DEF JobsWait
  <2>2. \A q \in Processes : Holds(q)' => Holds(q)
    BY <2>1, LeasesStay
  <2>3. ThreadsKept
    BY <2>2 DEF ThreadsKept
  <2>4. \A m \in Routes : job[RouteOp(m)].st = "succeeded" => job'[RouteOp(m)].st = "succeeded"
    BY <1>3, <1>6
  <2> QED BY <2>3, <2>4, ThreadsStay DEF DecKept
<1>10. Routing'
  <2>1. \A m \in Routes : m > n => job'[RouteOp(m)].st = "absent"
    <3>1. \A m \in Routes : m > n => m > Len(answers) /\ m # n
      BY <1>2, <1>1, LimitsAreNumbers
    <3> QED BY <1>6, <3>1 DEF RowsInv, Routing
  <2>2. \A m \in Routes : job'[RouteOp(m)].st # "absent" => job'[RouteOp(m)].in = m
    BY <1>5, <1>6 DEF RowsInv, Routing
  <2>3. \A m \in Routes : Active(RouteOp(m))' => m = n
    BY <1>4, <1>6 DEF Active
  <2> QED BY <1>3, <2>1, <2>2, <2>3 DEF Routing
<1>11. Reserved'
  <2>1. PICK k \in 0 .. Len(answers) + 1 : \A w \in Versions : job[PlanOp(w)].st # "absent" <=> w <= k
    BY DEF RowsInv, Reserved
  <2>2. k \in 0 .. Len(answers') + 1 /\ k <= Len(answers')
    BY <1>1, <2>1
  <2>3. \A w \in Versions : job'[PlanOp(w)].st # "absent" <=> job[PlanOp(w)].st # "absent"
    BY <1>7
  <2>4. \A w \in Versions : job'[PlanOp(w)].st # "absent" =>
           job'[PlanOp(w)].in \in Routes /\ dec[job'[PlanOp(w)].in] \in Workflows
    BY <1>7, <2>3 DEF RowsInv, Reserved
  <2> QED BY <2>1, <2>2, <2>3, <2>4 DEF Reserved
<1>12. Plans'
  BY <1>7 DEF RowsInv, Plans, NoPlanShown, PlanFollowsAnswers
<1>13. Statuses'
  BY DEF Statuses, CancelledIsQuiet, Type, Workflows
<1>14. IntakeIsNotStranded'
  BY <1>2, <1>3, <1>5, OpNames DEF IntakeIsNotStranded, Live, Compatible, InputOf, RouteOp
<1> QED BY <1>1, <1>8, <1>9, <1>10, <1>11, <1>12, <1>13, <1>14 DEF RowsInv

\* What the workflow is when an answer is submitted.
LEMMA AnswerRead ==
  ASSUME Typed, RowsInv, NEW t \in Tabs, tab[t] # NoRead, UnchangedFor(t)
  PROVE  /\ wf.status \in {"waiting-clarification", "planning", "waiting-plan-approval"}
         /\ question[tab[t].question].kind = "science" => Type = "dataset" /\ wf.status # "waiting-clarification"
         /\ \A v \in Versions : plan[v].st # "approved"
         /\ wf.status # "waiting-plan-approval" => \A v \in Versions : plan[v].st # "pending"
         /\ \A n \in Routes : ~Active(RouteOp(n))
<1>1. /\ tab[t].question \in DOMAIN question
      /\ wf.status \in {"waiting-clarification", "planning", "waiting-plan-approval"}
      /\ question[tab[t].question].kind = "science" => Type = "dataset"
      /\ wf.status = "waiting-clarification" => Latest(tab[t].question)
  BY DEF RowsInv, Windows, UnchangedFor
<1>2. ASSUME wf.status = "waiting-clarification" PROVE question[tab[t].question].kind # "science"
  <2>1. PICK i \in DOMAIN question : Pending(i) /\ question[i].kind = "intent" /\ Latest(i)
    BY <1>2 DEF RowsInv, Questions
  <2>2. i = tab[t].question
    <3>1. PICK m \in Nat : m = Len(question) /\ DOMAIN question = 1 .. m
      BY QuestionsTyped DEF Typed
    <3>2. PICK q \in 1 .. m : q = tab[t].question
      BY <1>1, <3>1
    <3>3. Latest(q)
      BY <1>1, <1>2, <3>2
    <3> QED BY <2>1, <3>1, <3>2, <3>3 DEF Latest
  <2> QED BY <2>1, <2>2
<1>3. \A v \in Versions : plan[v].st # "approved"
  BY <1>1 DEF RowsInv, Plans
<1>4. wf.status # "waiting-plan-approval" => \A v \in Versions : plan[v].st # "pending"
  BY <1>1 DEF RowsInv, Plans
<1>5. \A n \in Routes : ~Active(RouteOp(n))
  BY <1>1 DEF RowsInv, Routing
<1> QED BY <1>1, <1>2, <1>3, <1>4, <1>5

LEMMA IntentAnswerKeeps ==
  ASSUME Typed, Kinds, Asks, Decides, RowsInv, NEW t \in Tabs, tab[t] # NoRead, UnchangedFor(t),
         Len(answers) < MaxAnswers, Answered(t), tab' = [tab EXCEPT ![t] = NoRead],
         UNCHANGED <<dec, inv, failed, pc, loc, asked, troubles>>,
         ChangeIntent(t) \/ AnswerIntent(t)
  PROVE  Typed' /\ Kinds' /\ Asks' /\ Decides' /\ DecKept /\ RowsInv'
<1>1. /\ wf \in WorkflowRows /\ wf.rev + 1 \in Nat
      /\ "routing" \in WorkflowStatuses /\ "local" \in {"local", "remote"}
      /\ plan \in [Versions -> PlanRow]
  BY DEF Typed, WorkflowRows, WorkflowStatuses
<1>2. \A v \in Versions : /\ plan[v].st # "approved"
                          /\ wf.status # "waiting-plan-approval" => plan[v].st # "pending"
  BY AnswerRead
<1>3. CASE ChangeIntent(t)
  <2>1. /\ question[tab[t].question].kind = "intent"
        /\ job' = Enqueued(CancelQueued(job), RouteOp(Len(answers) + 1), 1, Len(answers) + 1)
        /\ plan' = Superseded
        /\ wf' = [wf EXCEPT !.status = "routing", !.rev = wf.rev + 1, !.decision = NoDecision, !.mode = "local"]
    BY <1>3 DEF ChangeIntent, RouteOp, SupersedePlan
  <2>2. wf' \in WorkflowRows /\ wf'.status = "routing" /\ wf'.rev = wf.rev + 1 /\ wf'.decision = NoDecision
    BY <1>1, <2>1 DEF WorkflowRows
  <2>3. NoPlanShown
    <3>1. \A v \in Versions : plan[v].st \in {"none", "pending", "superseded"}
      BY <1>1, <1>2 DEF PlanRow
    <3> QED BY <1>1, <2>1, <3>1, SupersededRows DEF NoPlanShown
  <2>4. JobsWait(CancelQueued(job))
    BY QueuedWait
  <2> QED BY <2>1, <2>2, <2>3, <2>4, RoutedAgain
<1>4. CASE AnswerIntent(t)
  <2>1. /\ question[tab[t].question].kind = "intent" /\ wf.status = "waiting-clarification"
        /\ job' = Enqueued(job, RouteOp(Len(answers) + 1), 1, Len(answers) + 1)
        /\ UNCHANGED plan
        /\ wf' = [wf EXCEPT !.status = "routing", !.rev = wf.rev + 1, !.decision = NoDecision]
    BY <1>4 DEF AnswerIntent, RouteOp
  <2>2. wf' \in WorkflowRows /\ wf'.status = "routing" /\ wf'.rev = wf.rev + 1 /\ wf'.decision = NoDecision
    BY <1>1, <2>1 DEF WorkflowRows
  <2>3. NoPlanShown
    <3>1. \A v \in Versions : plan[v].st \in {"none", "superseded"}
      BY <1>1, <1>2, <2>1 DEF PlanRow
    <3> QED BY <1>1, <2>1, <3>1 DEF NoPlanShown
  <2>4. JobsWait(job)
    BY QueuedWait
  <2> QED BY <2>1, <2>2, <2>3, <2>4, RoutedAgain
<1> QED BY <1>3, <1>4

\* A scientific answer plans again, for the same decision.
LEMMA ScienceAnswerKeeps ==
  ASSUME Typed, Kinds, Asks, Decides, RowsInv, NEW t \in Tabs, tab[t] # NoRead, UnchangedFor(t),
         Len(answers) < MaxAnswers, Answered(t), tab' = [tab EXCEPT ![t] = NoRead],
         UNCHANGED <<dec, inv, failed, pc, loc, asked, troubles>>, AnswerScience(t)
  PROVE  Typed' /\ Kinds' /\ Asks' /\ Decides' /\ DecKept /\ RowsInv'
<1>1. /\ question[tab[t].question].kind = "science"
      /\ wf' = [wf EXCEPT !.status = "planning", !.rev = wf.rev + 1]
      /\ plan' = Superseded
      /\ job' = Enqueued(CancelQueued(job), <<"plan", NextVersion(CancelQueued(job))>>, 1, wf.decision)
  BY DEF AnswerScience, SupersedePlan
<1>2. /\ wf.status \in {"planning", "waiting-plan-approval"} /\ Type = "dataset"
      /\ \A v \in Versions : plan[v].st # "approved"
      /\ \A n \in Routes : ~Active(RouteOp(n))
  BY <1>1, AnswerRead
<1>3. /\ wf' \in WorkflowRows /\ wf'.status = "planning" /\ wf'.rev = wf.rev + 1
      /\ wf'.decision = wf.decision /\ wf'.cancel = wf.cancel
  <2>1. wf \in WorkflowRows /\ wf.rev + 1 \in Nat /\ "planning" \in WorkflowStatuses
    BY DEF Typed, WorkflowRows, WorkflowStatuses
  <2> QED BY <1>1, <2>1 DEF WorkflowRows
<1>4. /\ tab' \in [Tabs -> ReadRow] /\ answers' \in Seq(ReadRow) /\ Len(answers') = Len(answers) + 1
      /\ Len(answers') <= MaxAnswers /\ Len(answers) \in Nat
      /\ question' \in Seq(QuestionRow) /\ Questions' /\ Planners' /\ Windows'
  <2>1. wf'.status # "waiting-clarification" /\ wf.status # "waiting-clarification" /\ wf'.rev = wf.rev + 1
    BY <1>2, <1>3
  <2>2. \A q \in Processes : pc'[q] = "planning" => pc[q] = "planning" /\ loc'[q] = loc[q]
    OBVIOUS
  <2> QED BY <2>1, <2>2, AnsweredKeeps
<1>5. wf.decision \in Routes /\ dec[wf.decision] = "dataset"
  BY <1>2 DEF Type, Typed
<1>6. PICK rest \in [Ops -> JobRow] :
         /\ rest = CancelQueued(job) /\ JobsWait(rest)
  BY QueuedWait DEF JobsWait
<1>7. \A v \in Versions : /\ rest[PlanOp(v)].in = job[PlanOp(v)].in
                          /\ rest[PlanOp(v)] = job[PlanOp(v)]
                                \/ (job[PlanOp(v)].st = "queued" /\ rest[PlanOp(v)].st = "cancelled")
  BY <1>6, OpNames DEF JobsWait
<1>8. PICK k \in 0 .. Len(answers) + 1 : \A w \in Versions : job[PlanOp(w)].st # "absent" <=> w <= k
  BY DEF RowsInv, Reserved
<1>9. k \in Nat /\ k <= MaxAnswers /\ k + 1 \in Versions /\ k + 1 \in 0 .. Len(answers') + 1 /\ k + 1 <= Len(answers') + 1
  BY <1>4, <1>8, LimitsAreNumbers
<1>10. NextVersion(rest) = k + 1
  <2>1. \A v \in Versions : rest[PlanOp(v)].st # "absent" <=> v <= k
    BY <1>7, <1>8
  <2>2. k <= MaxAnswers + 1
    BY <1>9, LimitsAreNumbers
  <2> QED BY <1>9, <2>1, <2>2, NextVersionIs
<1>11. PICK v \in Versions : v = k + 1
  BY <1>9
<1>12. /\ job' \in [Ops -> JobRow] /\ \A o \in Ops : o # PlanOp(v) => job'[o] = rest[o]
       /\ job'[PlanOp(v)].st = "queued" /\ job'[PlanOp(v)].in = wf.decision
  <2>1. job' = Enqueued(rest, PlanOp(v), 1, wf.decision)
    BY <1>1, <1>6, <1>10, <1>11 DEF PlanOp
  <2>2. PlanOp(v) \in Ops /\ 1 \in Nat /\ wf.decision \in Routes \cup {NoDecision}
    BY <1>5, OpNames
  <2> QED BY <2>1, <2>2, EnqueuedRow
<1>13. \A n \in Routes : job'[RouteOp(n)] = job[RouteOp(n)]
  <2>1. \A n \in Routes : RouteOp(n) \in Ops /\ RouteOp(n) # PlanOp(v) /\ job[RouteOp(n)].st # "queued"
    BY <1>2, OpNames DEF Active
  <2> QED BY <1>6, <1>12, <2>1 DEF JobsWait
<1>14. \A w \in Versions : w # v => job'[PlanOp(w)] = rest[PlanOp(w)]
  BY <1>12, OpNames
<1>15. /\ plan' \in [Versions -> PlanRow]
       /\ \A w \in Versions : plan'[w].st \in {"none", "superseded"}
       /\ \A w \in Versions : plan'[w].st # "none" => plan[w].st # "none"
  <2>1. \A w \in Versions : plan[w].st \in {"none", "pending", "superseded"} /\ plan \in [Versions -> PlanRow]
    BY <1>2 DEF PlanRow, Typed
  <2> QED BY <1>1, <2>1, SupersededRows DEF Typed
<1>16. Typed'
  BY <1>3, <1>4, <1>12, <1>15 DEF Typed, WorkflowRows
<1>17. job[PlanOp(v)].st = "absent"
  <2>1. ~(v <= k)
    BY <1>9, <1>11
  <2> QED BY <1>8, <2>1
<1>18. Kinds' /\ Asks' /\ Decides' /\ DecKept
  <2>1. \A op \in Ops : job'[op].st = "leased" => job'[op] = job[op]
    BY <1>6, <1>12 DEF JobsWait
  <2>2. \A q \in Processes : Holds(q)' => Holds(q)
    BY <2>1, LeasesStay
  <2>3. ThreadsKept
    BY <2>2 DEF ThreadsKept
  <2> QED BY <1>13, <2>3, ThreadsStay DEF DecKept
<1>19. Type' = Type
  BY <1>3, <1>18, TypeKept DEF RowsInv
<1>20. Routing'
  <2>1. \A n \in Routes : n > Len(answers') => n > Len(answers)
    BY <1>4, LimitsAreNumbers
  <2>2. \A n \in Routes : ~Active(RouteOp(n))'
    BY <1>2, <1>13 DEF Active
  <2> QED BY <1>3, <1>5, <1>13, <2>1, <2>2 DEF RowsInv, Routing
<1>21. Reserved'
  <2>1. \A w \in Versions : job'[PlanOp(w)].st # "absent" <=> w <= k + 1
    <3>1. \A w \in Versions : w # v => (job'[PlanOp(w)].st # "absent" <=> w <= k)
      BY <1>7, <1>8, <1>14
    <3>2. \A w \in Versions : w # v => (w <= k <=> w <= k + 1)
      BY <1>9, <1>11, LimitsAreNumbers
    <3> QED BY <1>11, <1>12, <3>1, <3>2
  <2>2. job'[RouteOp(Len(answers'))].st = "absent"
    <3>1. Len(answers') \in Routes /\ Len(answers') > Len(answers)
      BY <1>4, LimitsAreNumbers
    <3> QED BY <1>13, <3>1 DEF RowsInv, Routing
  <2>3. ASSUME NEW w \in Versions, job'[PlanOp(w)].st # "absent"
        PROVE  job'[PlanOp(w)].in \in Routes /\ dec[job'[PlanOp(w)].in] \in Workflows
    <3>1. CASE w = v
      BY <1>5, <1>12, <3>1 DEF Workflows
    <3>2. CASE w # v
      BY <1>7, <1>14, <2>3, <3>2 DEF RowsInv, Reserved
    <3> QED BY <3>1, <3>2
  <2> QED BY <1>9, <2>1, <2>2, <2>3 DEF Reserved
<1>22. Plans'
  <2>1. ASSUME NEW w \in Versions, plan'[w].st # "none" PROVE job'[PlanOp(w)].st = "succeeded"
    <3>1. plan[w].st # "none"
      BY <1>15, <2>1
    <3>2. job[PlanOp(w)].st = "succeeded"
      BY <3>1 DEF RowsInv, Plans
    <3>3. w # v
      BY <1>17, <3>2
    <3> QED BY <1>7, <1>14, <3>2, <3>3
  <2>2. \A w \in Versions : plan'[w].st # "pending" /\ plan'[w].st # "approved"
    BY <1>15
  <2>3. PlanFollowsAnswers'
    BY <2>2 DEF PlanFollowsAnswers
  <2> QED BY <2>1, <2>2, <2>3 DEF Plans
<1>23. Statuses'
  BY <1>2, <1>3, <1>19 DEF Statuses, CancelledIsQuiet, Workflows
<1>24. IntakeIsNotStranded'
  <2>1. Live(PlanOp(v))'
    BY <1>3, <1>12, OpNames DEF Live, Compatible, InputOf
  <2> QED BY <1>3, <2>1 DEF IntakeIsNotStranded, PlanOp
<1> QED BY <1>4, <1>16, <1>18, <1>20, <1>21, <1>22, <1>23, <1>24 DEF RowsInv

LEMMA SubmitAnswerKeeps ==
  ASSUME Typed, Kinds, Asks, Decides, RowsInv, NEW t \in Tabs, SubmitAnswer(t)
  PROVE  Typed' /\ Kinds' /\ Asks' /\ Decides' /\ DecKept /\ RowsInv'
<1>1. /\ tab[t] # NoRead /\ UnchangedFor(t) /\ Len(answers) < MaxAnswers
      /\ Answered(t) /\ tab' = [tab EXCEPT ![t] = NoRead]
      /\ UNCHANGED <<dec, inv, failed, pc, loc, asked, troubles>>
      /\ AnswerScience(t) \/ ChangeIntent(t) \/ AnswerIntent(t)
  BY DEF SubmitAnswer
<1>2. CASE AnswerScience(t)
  BY <1>1, <1>2, ScienceAnswerKeeps
<1>3. CASE ChangeIntent(t) \/ AnswerIntent(t)
  BY <1>1, <1>3, IntentAnswerKeeps
<1> QED BY <1>1, <1>2, <1>3

\* A window reads the newest question, or what it read is refused.
LEMMA WindowsKeep ==
  ASSUME Typed, Kinds, Asks, Decides, RowsInv, NEW t \in Tabs,
         \/ AnswerRefused(t)
         \/ \E i \in DOMAIN question : ReadQuestion(t, i)
  PROVE  Typed' /\ Kinds' /\ Asks' /\ Decides' /\ DecKept /\ RowsInv'
<1>1. UNCHANGED <<rows, pc, loc, asked, troubles>>
  BY DEF AnswerRefused, ReadQuestion
<1>2. /\ tab' \in [Tabs -> ReadRow] /\ \A u \in Tabs : u # t => tab'[u] = tab[u]
      /\ \/ tab'[t] = NoRead
         \/ \E i \in DOMAIN question : ReadQuestion(t, i) /\ tab'[t].question = i /\ tab'[t].rev = wf.rev
  <2>1. NoRead \in ReadRow
    BY DEF NoRead, ReadRow
  <2>2. CASE AnswerRefused(t)
    BY <2>1, <2>2 DEF AnswerRefused, Typed
  <2>3. CASE \E i \in DOMAIN question : ReadQuestion(t, i)
    <3>1. PICK i \in DOMAIN question : ReadQuestion(t, i)
      BY <2>3
    <3>2. PICK row \in ReadRow : row = [question |-> i, rev |-> wf.rev]
      <4>1. i \in Nat /\ wf.rev \in Nat
        BY QuestionsTyped DEF Typed
      <4> QED BY <4>1 DEF ReadRow
    <3>3. tab' = [tab EXCEPT ![t] = row] /\ row.question = i /\ row.rev = wf.rev
      BY <3>1, <3>2 DEF ReadQuestion
    <3> QED BY <3>1, <3>2, <3>3 DEF Typed
  <2> QED BY <2>2, <2>3
<1>3. Typed'
  BY <1>1, <1>2 DEF Typed, rows
<1>4. Kinds' /\ Asks' /\ Decides' /\ DecKept
  BY <1>1 DEF rows, Kinds, Asks, Decides, DecKept, Asking, Unasked, Holds
<1>5. Windows'
  <2>1. ASSUME NEW i \in DOMAIN question, ReadQuestion(t, i)
        PROVE  /\ \A j \in 1 .. i - 1 : ~Pending(j)
               /\ wf.status \in {"waiting-clarification", "planning", "waiting-plan-approval"}
               /\ question[i].kind = "science" => Type = "dataset"
               /\ Latest(i)
    <3>1. /\ wf.status \in {"waiting-clarification", "planning", "waiting-plan-approval"}
          /\ question[i].kind = "science" => Type = "dataset"
          /\ Latest(i)
      BY <2>1 DEF ReadQuestion
    <3>2. ASSUME NEW j \in 1 .. i - 1, Pending(j) PROVE FALSE
      <4>1. DOMAIN question = 1 .. Len(question) /\ Len(question) \in Nat
        BY QuestionsTyped DEF Typed
      <4>2. j \in DOMAIN question /\ i \in j + 1 .. Len(question)
        BY <4>1
      <4>3. Latest(j)
        BY <3>2, <4>2 DEF RowsInv, Questions
      <4> QED BY <3>1, <4>2, <4>3 DEF Latest
    <3> QED BY <3>1, <3>2
  <2>2. Type' = Type
    BY <1>1 DEF rows, Type
  <2>3. \A u \in Tabs : u # t => tab'[u] = tab[u]
    BY <1>2
  <2>4. ASSUME NEW u \in Tabs, tab'[u] # NoRead
        PROVE  /\ tab'[u].question \in DOMAIN question /\ tab'[u].rev <= wf.rev
               /\ \A i \in 1 .. tab'[u].question - 1 : ~Pending(i)
               /\ tab'[u].rev = wf.rev =>
                     /\ wf.status \in {"waiting-clarification", "planning", "waiting-plan-approval"}
                     /\ question[tab'[u].question].kind = "science" => Type = "dataset"
                     /\ wf.status = "waiting-clarification" => Latest(tab'[u].question)
    <3>1. CASE u # t
      BY <2>3, <2>4, <3>1 DEF RowsInv, Windows
    <3>2. CASE u = t
      <4>1. PICK i \in DOMAIN question : ReadQuestion(t, i) /\ tab'[t].question = i /\ tab'[t].rev = wf.rev
        BY <1>2, <2>4, <3>2
      <4>2. wf.rev \in Nat
        BY DEF Typed
      <4> QED BY <2>1, <3>2, <4>1, <4>2
    <3> QED BY <3>1, <3>2
  <2>5. UNCHANGED <<wf, question>> /\ \A i \in DOMAIN question : (Pending(i)' <=> Pending(i)) /\ (Latest(i)' <=> Latest(i))
    BY <1>1 DEF rows, Pending, Latest, Open
  <2>6. \A j : Pending(j)' <=> Pending(j)
    BY <2>5 DEF Pending
  <2> QED BY <2>2, <2>4, <2>5, <2>6 DEF Windows
<1>6. Routing' /\ Reserved' /\ Plans' /\ Planners' /\ Statuses' /\ Questions' /\ IntakeIsNotStranded'
  <2>1. UNCHANGED <<wf, dec, inv, job, failed, question, answers, plan, pc, loc>>
    BY <1>1 DEF rows
  <2>2. Type' = Type
    BY <2>1 DEF Type
  <2>3. Routing' /\ Reserved' /\ Plans' /\ Planners'
    BY <2>1 DEF RowsInv, Routing, Reserved, Plans, Planners, PlanFollowsAnswers, Active
  <2>4. Statuses' /\ Questions'
    BY <2>1, <2>2 DEF RowsInv, Statuses, Questions, CancelledIsQuiet, Pending, Latest, Open
  <2>5. IntakeIsNotStranded'
    BY <2>1, <2>2 DEF RowsInv, IntakeIsNotStranded, Live, Compatible, InputOf, Latest, Scientific, Pending, Open
  <2> QED BY <2>3, <2>4, <2>5
<1> QED BY <1>3, <1>4, <1>5, <1>6 DEF RowsInv

\* The job that failed is tried again, as long as its inputs are what they were.
LEMMA RetryKeeps ==
  ASSUME Typed, Kinds, Asks, Decides, RowsInv, Retry
  PROVE  Typed' /\ Kinds' /\ Asks' /\ Decides' /\ DecKept /\ RowsInv'
<1>1. PICK op \in Ops : op = failed
  BY DEF Typed
<1>2. /\ wf.status = "failed" /\ \A v \in Versions : plan[v].st # "approved"
      /\ job[op].st = "failed" /\ Compatible(op)
      /\ job' = Enqueued(job, op, job[op].att + 1, job[op].in)
      /\ wf' = Moved(RetryTarget)
      /\ UNCHANGED <<dec, inv, failed, question, answers, plan, pc, loc, tab, asked>>
  BY <1>1 DEF Retry
<1>3. /\ job' \in [Ops -> JobRow] /\ \A o \in Ops : o # op => job'[o] = job[o]
      /\ job'[op].st = "queued" /\ job'[op].in = job[op].in
  <2>1. job[op] \in JobRow /\ job \in [Ops -> JobRow]
    BY DEF Typed
  <2>2. job[op].att + 1 \in Nat /\ job[op].in \in Routes \cup {NoDecision}
    BY <2>1 DEF JobRow
  <2> QED BY <1>2, <2>1, <2>2, EnqueuedRow
<1>4. /\ wf' \in WorkflowRows /\ wf'.cancel = wf.cancel
      /\ wf'.status = IF op[1] = "route" THEN "routing" ELSE "planning"
      /\ wf'.decision = wf.decision /\ wf'.rev = wf.rev + 1
  <2>1. /\ wf \in WorkflowRows /\ RetryTarget \in WorkflowStatuses /\ RetryTarget # wf.status
        /\ RetryTarget = IF op[1] = "route" THEN "routing" ELSE "planning"
    BY <1>1, <1>2 DEF Typed, WorkflowRows, WorkflowStatuses, RetryTarget
  <2> QED BY <1>2, <2>1, MovedRow
<1>5. \A v \in Versions : plan[v].st \notin {"pending", "approved"}
  BY <1>2 DEF RowsInv, Plans
<1>6. wf.decision # NoDecision => wf.decision \in Routes
  BY DEF Typed
\* A route is tried again only while nothing else was decided, and a plan only when no
\* route is under way.
<1>7. /\ op[1] = "route" => /\ op = RouteOp(Len(answers)) /\ Len(answers) \in Routes
                            /\ wf.decision = NoDecision
      /\ op[1] # "route" => /\ op[2] \in Versions /\ op = PlanOp(op[2])
                            /\ wf.decision \in Routes /\ dec[wf.decision] \in Workflows
                            /\ \A n \in Routes : ~Active(RouteOp(n))
                            /\ job[op].in = wf.decision
  <2>1. CASE op[1] = "route"
    <3>1. PICK n \in Routes : op = RouteOp(n)
      BY <2>1, OpKinds
    <3>2. n = Len(answers)
      <4>1. job[op].in = Len(answers)
        BY <1>2, <2>1 DEF Compatible, InputOf
      <4>2. job[op].in = n
        BY <1>2, <3>1 DEF RowsInv, Routing
      <4> QED BY <4>1, <4>2
    <3>3. wf.decision = NoDecision
      <4>1. SUFFICES ASSUME wf.decision # NoDecision PROVE FALSE
        OBVIOUS
      <4>2. wf.decision \in Nat /\ n \in Nat
        BY <1>6, <4>1, LimitsAreNumbers
      <4>3. /\ job[RouteOp(wf.decision)].st = "succeeded"
            /\ n > wf.decision => job[RouteOp(n)].st = "absent"
        BY <4>1 DEF RowsInv, Routing
      <4>4. ~(wf.decision > Len(answers))
        BY <1>6, <4>1, <4>3 DEF RowsInv, Routing
      <4>5. wf.decision = n
        BY <1>2, <3>1, <3>2, <4>2, <4>3, <4>4
      <4> QED BY <1>2, <3>1, <4>3, <4>5
    <3> QED BY <2>1, <3>1, <3>2, <3>3
  <2>2. CASE op[1] # "route"
    <3>1. PICK v \in Versions : op = PlanOp(v) /\ v = op[2]
      BY <2>2, OpKinds
    <3>2. job[op].in = wf.decision /\ job[op].in \in Routes /\ dec[job[op].in] \in Workflows
      <4>1. job[op].in = wf.decision
        BY <1>2, <2>2 DEF Compatible, InputOf
      <4>2. job[op].in \in Routes /\ dec[job[op].in] \in Workflows
        BY <1>2, <3>1 DEF RowsInv, Reserved
      <4> QED BY <4>1, <4>2
    <3>3. \A n \in Routes : ~Active(RouteOp(n))
      BY <3>2, LimitsAreNumbers, RouteActive DEF RowsInv
    <3> QED BY <2>2, <3>1, <3>2, <3>3
  <2> QED BY <2>1, <2>2
<1>8. Typed'
  BY <1>2, <1>3, <1>4 DEF Typed, WorkflowRows
<1>9. \A o \in Ops : /\ job[o].st = "succeeded" => job'[o] = job[o]
                     /\ job'[o].in = job[o].in
                     /\ job'[o].st = "absent" <=> job[o].st = "absent"
                     /\ job'[o].st = "leased" => job'[o] = job[o]
  BY <1>2, <1>3
<1>10. Kinds' /\ Asks' /\ Decides' /\ DecKept
  <2>1. \A q \in Processes : Holds(q)' => Holds(q)
    BY <1>2, <1>9, LeasesStay
  <2>2. ThreadsKept
    BY <1>2, <2>1 DEF ThreadsKept
  <2>3. \A n \in Routes : job[RouteOp(n)].st = "succeeded" => job'[RouteOp(n)].st = "succeeded"
    BY <1>9, OpNames
  <2> QED BY <1>2, <2>2, <2>3, ThreadsStay DEF DecKept
<1>11. Type' = Type
  BY <1>4, <1>10, TypeKept DEF RowsInv
<1>12. Routing'
  <2>1. \A n \in Routes : /\ RouteOp(n) \in Ops
                          /\ job'[RouteOp(n)].in = job[RouteOp(n)].in
                          /\ job'[RouteOp(n)].st = "absent" <=> job[RouteOp(n)].st = "absent"
                          /\ job[RouteOp(n)].st = "succeeded" => job'[RouteOp(n)].st = "succeeded"
    BY <1>9, OpNames
  <2>2. ASSUME NEW n \in Routes, Active(RouteOp(n))' PROVE n = Len(answers) /\ wf'.status = "routing"
    <3>1. CASE op[1] = "route"
      <4>1. RouteOp(n) # op => Active(RouteOp(n))
        BY <1>3, <2>1, <2>2 DEF Active
      <4>2. n = Len(answers)
        BY <1>7, <3>1, <4>1, OpNames DEF RowsInv, Routing
      <4> QED BY <1>4, <3>1, <4>2
    <3>2. CASE op[1] # "route"
      BY <1>3, <1>7, <2>1, <2>2, <3>2, OpNames DEF Active
    <3> QED BY <3>1, <3>2
  <2> QED BY <1>2, <1>4, <1>6, <2>1, <2>2 DEF RowsInv, Routing
<1>13. Reserved'
  <2>1. PICK k \in 0 .. Len(answers) + 1 :
           /\ \A w \in Versions : job[PlanOp(w)].st # "absent" <=> w <= k
           /\ job[RouteOp(Len(answers))].st \in {"queued", "leased", "failed"} => k <= Len(answers)
    BY DEF RowsInv, Reserved
  <2>2. \A w \in Versions : (job'[PlanOp(w)].st # "absent" <=> job[PlanOp(w)].st # "absent")
                            /\ job'[PlanOp(w)].in = job[PlanOp(w)].in
    BY <1>9, OpNames
  <2>3. job'[RouteOp(Len(answers))].st \in {"queued", "leased", "failed"} => k <= Len(answers)
    <3>1. Len(answers) \in Routes
      BY LimitsAreNumbers DEF Typed
    <3>2. RouteOp(Len(answers)) \in Ops
      BY <3>1, OpNames
    <3> QED BY <1>2, <1>3, <2>1, <3>2
  <2> QED BY <1>2, <2>1, <2>2, <2>3 DEF RowsInv, Reserved
<1>14. Plans'
  <2>1. \A w \in Versions : job[PlanOp(w)].st = "succeeded" => job'[PlanOp(w)].st = "succeeded"
    BY <1>9, OpNames
  <2> QED BY <1>2, <1>5, <2>1 DEF RowsInv, Plans, PlanFollowsAnswers
<1>15. Planners' /\ Windows'
  <2>1. wf.rev \in Nat /\ wf'.rev \in Nat /\ wf'.rev > wf.rev
    BY <1>4 DEF Typed, WorkflowRows
  <2>2. /\ \A q \in Processes : pc[q] = "planning" => loc[q].rev \in Nat
        /\ \A t \in Tabs : tab[t].rev \in Nat
    BY DEF Typed, LocRow, ReadRow
  <2>3. DOMAIN question = 1 .. Len(question) /\ Len(question) \in Nat
    BY QuestionsTyped DEF Typed
  <2>4. \A i \in DOMAIN question : i \in DOMAIN question' /\ (Pending(i)' => Pending(i))
    BY <1>2 DEF Pending
  <2> QED BY <1>2, <2>1, <2>2, <2>3, <2>4, RevisionMoves DEF RowsInv
<1>16. Statuses'
  <2>1. op[1] = "route" => Type = "none"
    BY <1>7 DEF Type
  <2>2. op[1] # "route" => Type \in Workflows
    BY <1>7, LimitsAreNumbers DEF Type
  <2> QED BY <1>4, <1>11, <2>1, <2>2 DEF Statuses, CancelledIsQuiet, Workflows
<1>17. Questions'
  BY <1>2, <1>4 DEF RowsInv, Questions, Pending, Latest, Open
<1>18. IntakeIsNotStranded'
  <2>1. CASE op[1] = "route"
    <3>1. Live(RouteOp(Len(answers)))'
      <4>1. job'[op].in = Len(answers)
        BY <1>2, <1>3, <2>1 DEF Compatible, InputOf
      <4> QED BY <1>2, <1>3, <1>7, <2>1, <4>1, OpNames DEF Live, Compatible, InputOf
    <3> QED BY <1>2, <1>4, <2>1, <3>1 DEF IntakeIsNotStranded, RouteOp
  <2>2. CASE op[1] # "route"
    <3>1. PICK v \in Versions : op = PlanOp(v)
      BY <1>7, <2>2
    <3>2. Live(PlanOp(v))'
      BY <1>3, <1>4, <1>7, <2>2, <3>1, OpNames DEF Live, Compatible, InputOf
    <3> QED BY <1>4, <2>2, <3>1, <3>2 DEF IntakeIsNotStranded, PlanOp
  <2> QED BY <2>1, <2>2
<1> QED BY <1>8, <1>10, <1>12, <1>13, <1>14, <1>15, <1>16, <1>17, <1>18 DEF RowsInv

LEMMA ApproveKeeps ==
  ASSUME Typed, Kinds, Asks, Decides, RowsInv, NEW v \in Versions, Approve(v)
  PROVE  Typed' /\ Kinds' /\ Asks' /\ Decides' /\ DecKept /\ RowsInv'
<1>1. /\ wf.status = "waiting-plan-approval" /\ plan[v].st = "pending"
      /\ plan' = [plan EXCEPT ![v].st = "approved"]
      /\ wf' = Moved("running")
      /\ UNCHANGED <<dec, inv, job, failed, question, answers, pc, loc, tab, asked, troubles>>
  BY DEF Approve
<1>2. /\ wf' \in WorkflowRows /\ wf'.status = "running" /\ wf'.cancel = wf.cancel
      /\ wf'.decision = wf.decision /\ wf'.rev = wf.rev + 1
  <2>1. wf \in WorkflowRows /\ "running" \in WorkflowStatuses
    BY DEF Typed, WorkflowRows, WorkflowStatuses
  <2> QED BY <1>1, <2>1, MovedRow
<1>3. /\ plan' \in [Versions -> PlanRow]
      /\ \A w \in Versions : w # v => plan'[w] = plan[w]
      /\ plan'[v].st = "approved" /\ plan'[v].seen = plan[v].seen
  <2>1. plan[v] \in PlanRow /\ plan \in [Versions -> PlanRow]
    BY DEF Typed
  <2>2. [plan[v] EXCEPT !.st = "approved"] \in PlanRow
    BY <2>1 DEF PlanRow
  <2>3. plan' = [plan EXCEPT ![v] = [plan[v] EXCEPT !.st = "approved"]]
    BY <1>1
  <2> QED BY <2>1, <2>2, <2>3 DEF PlanRow
<1>4. Typed'
  BY <1>1, <1>2, <1>3 DEF Typed, WorkflowRows
<1>5. Kinds' /\ Asks' /\ Decides' /\ DecKept
  BY <1>1 DEF Kinds, Asks, Decides, DecKept, Asking, Unasked, Holds
<1>6. Type' = Type
  BY <1>2, <1>5, TypeKept DEF RowsInv
<1>7. \A n \in Routes : ~Active(RouteOp(n))
  BY <1>1 DEF RowsInv, Routing
<1>8. Routing'
  BY <1>1, <1>2, <1>7 DEF RowsInv, Routing, Active
<1>9. Reserved'
  BY <1>1 DEF RowsInv, Reserved
<1>10. Plans'
  <2>1. \A w \in Versions : plan'[w].st # "pending"
    BY <1>1, <1>3 DEF RowsInv, Plans
  <2>2. \A w \in Versions : plan'[w].st # "none" => plan[w].st # "none"
    BY <1>1, <1>3
  <2>3. \A w \in Versions : plan'[w].st = "approved" => w = v
    BY <1>1, <1>3 DEF RowsInv, Plans
  <2>4. plan'[v].seen = Len(answers)
    BY <1>1, <1>3 DEF RowsInv, Plans, PlanFollowsAnswers
  <2>5. PlanFollowsAnswers'
    BY <1>1, <2>1, <2>3, <2>4 DEF PlanFollowsAnswers
  <2> QED BY <1>1, <1>2, <1>7, <2>1, <2>2, <2>5 DEF RowsInv, Plans, Active
<1>11. Planners' /\ Windows'
  <2>1. wf.rev \in Nat /\ wf'.rev \in Nat /\ wf'.rev > wf.rev
    BY <1>2 DEF Typed, WorkflowRows
  <2>2. /\ \A q \in Processes : pc[q] = "planning" => loc[q].rev \in Nat
        /\ \A t \in Tabs : tab[t].rev \in Nat
    BY DEF Typed, LocRow, ReadRow
  <2>3. DOMAIN question = 1 .. Len(question) /\ Len(question) \in Nat
    BY QuestionsTyped DEF Typed
  <2>4. \A i \in DOMAIN question : i \in DOMAIN question' /\ (Pending(i)' => Pending(i))
    BY <1>1 DEF Pending
  <2> QED BY <1>1, <2>1, <2>2, <2>3, <2>4, RevisionMoves DEF RowsInv
<1>12. Statuses'
  BY <1>1, <1>2, <1>6 DEF RowsInv, Statuses, CancelledIsQuiet
<1>13. Questions'
  BY <1>1, <1>2 DEF RowsInv, Questions, Pending, Latest, Open
<1>14. IntakeIsNotStranded'
  BY <1>2 DEF IntakeIsNotStranded
<1> QED BY <1>4, <1>5, <1>8, <1>9, <1>10, <1>11, <1>12, <1>13, <1>14 DEF RowsInv
-----------------------------------------------------------------------------
(* The steps that only take, keep or lose a job, and those that only route. *)

LEMMA FramesKeep ==
  ASSUME Typed, Kinds, Asks, Decides, RowsInv,
         UNCHANGED <<wf, dec, inv, question, answers, plan, tab, asked>>,
         job' \in [Ops -> JobRow], failed' \in Ops,
         pc' \in [Processes -> Places], loc' \in [Processes -> LocRow],
         ThreadsKept, JobsKept, PlannersKept
  PROVE  Typed' /\ Kinds' /\ Asks' /\ Decides' /\ DecKept /\ RowsInv'
<1>1. Typed'
  BY DEF Typed
<1>2. DecKept
  BY DEF DecKept
<1>3. \A n \in Routes : job[RouteOp(n)].st = "succeeded" => job'[RouteOp(n)].st = "succeeded"
  BY OpNames DEF JobsKept, Active
<1>4. Kinds' /\ Asks' /\ Decides'
  BY <1>3, ThreadsStay
<1>5. RowsInv'
  BY <1>2, RowsStay
<1> QED BY <1>1, <1>2, <1>4, <1>5

\* One process stops what it does.
LEMMA QuietKeeps ==
  ASSUME Typed, Kinds, Asks, Decides, RowsInv, NEW p \in Processes, NEW to \in Quiet, Move(p, to),
         UNCHANGED loc \/ loc' = [loc EXCEPT ![p] = Idle], UNCHANGED <<rows, tab, asked>>
  PROVE  Typed' /\ Kinds' /\ Asks' /\ Decides' /\ DecKept /\ RowsInv'
<1>1. UNCHANGED <<wf, dec, inv, job, failed, question, answers, plan, tab, asked>>
  BY DEF rows
<1>2. /\ loc' \in [Processes -> LocRow] /\ pc' \in [Processes -> Places]
      /\ \A q \in Processes : q # p => loc'[q] = loc[q] /\ pc'[q] = pc[q]
      /\ pc'[p] = to
  <2>1. Idle \in LocRow
    BY OpNames, LimitsAreNumbers DEF Idle, LocRow, NoOp, RouteOp
  <2>2. to \in Places
    BY DEF Quiet, Places
  <2> QED BY <2>1, <2>2 DEF Move, Typed
<1>3. ThreadsKept
  BY <1>1, <1>2 DEF ThreadsKept, Holds
<1>4. PlannersKept
  BY <1>2 DEF PlannersKept, Quiet
<1>5. JobsKept
  BY <1>1 DEF JobsKept
<1>6. job' \in [Ops -> JobRow] /\ failed' \in Ops
  BY <1>1 DEF Typed
<1> QED BY <1>1, <1>2, <1>3, <1>4, <1>5, <1>6, FramesKeep

\* One lease is lost, renewed or taken over, or its job is queued again.
LEMMA LeaseKeeps ==
  ASSUME Typed, Kinds, Asks, Decides, RowsInv, NEW op \in Ops, job[op].st = "leased",
         UNCHANGED <<wf, dec, inv, question, answers, plan, tab, asked, pc, loc>>,
         failed' \in Ops, job' \in [Ops -> JobRow], \A o \in Ops : o # op => job'[o] = job[o],
         job'[op].in = job[op].in,
         \/ /\ job'[op].st = "leased" /\ job'[op].att = job[op].att
            /\ job'[op].holder \in {job[op].holder, NoProcess}
         \/ job'[op].st = "queued" /\ ~wf.cancel
  PROVE  Typed' /\ Kinds' /\ Asks' /\ Decides' /\ DecKept /\ RowsInv'
<1>1. JobsKept
  BY DEF JobsKept, Active
<1>2. \A q \in Processes : Holds(q)' => Holds(q)
  <2>1. \A o \in Ops : job'[o].st = "leased" =>
            /\ job[o].st = "leased" /\ job'[o].att = job[o].att
            /\ job'[o].holder \in {job[o].holder, NoProcess}
    OBVIOUS
  <2> QED BY <2>1, LeasesStay
<1>3. ThreadsKept
  BY <1>2 DEF ThreadsKept
<1>4. PlannersKept
  BY DEF PlannersKept
<1>5. pc' \in [Processes -> Places] /\ loc' \in [Processes -> LocRow]
  BY DEF Typed
<1> QED BY <1>1, <1>3, <1>4, <1>5, FramesKeep

LEMMA ClaimKeeps ==
  ASSUME Typed, Kinds, Asks, Decides, RowsInv, NEW p \in Processes, NEW op \in Ops, Claim(p, op)
  PROVE  Typed' /\ Kinds' /\ Asks' /\ Decides' /\ DecKept /\ RowsInv'
<1>1. /\ job[op].st = "queued" /\ ~wf.cancel /\ Move(p, "claimed")
      /\ job' = [job EXCEPT ![op].st = "leased", ![op].holder = p, ![op].live = TRUE]
      /\ loc' = [loc EXCEPT ![p] = [Idle EXCEPT !.op = op, !.att = job[op].att]]
      /\ UNCHANGED <<wf, dec, inv, failed, question, answers, plan, tab, asked, troubles>>
  BY DEF Claim
<1>2. job \in [Ops -> JobRow] /\ job[op] \in JobRow
  BY DEF Typed
<1>3. /\ job' \in [Ops -> JobRow] /\ \A o \in Ops : o # op => job'[o] = job[o]
      /\ job'[op].st = "leased" /\ job'[op].holder = p /\ job'[op].in = job[op].in
  <2>1. PICK row \in JobRow : row = [job[op] EXCEPT !.st = "leased", !.holder = p, !.live = TRUE]
    BY <1>2 DEF JobRow
  <2>2. job' = [job EXCEPT ![op] = row]
    BY <1>1, <2>1
  <2>3. row.st = "leased" /\ row.holder = p /\ row.in = job[op].in
    BY <1>2, <2>1 DEF JobRow
  <2> QED BY <1>2, <2>2, <2>3
<1>4. /\ loc' \in [Processes -> LocRow] /\ \A q \in Processes : q # p => loc'[q] = loc[q]
  <2>1. Idle \in LocRow
    BY OpNames, LimitsAreNumbers DEF Idle, LocRow, NoOp, RouteOp
  <2>2. job[op].att \in Nat
    BY <1>2 DEF JobRow
  <2>3. [Idle EXCEPT !.op = op, !.att = job[op].att] \in LocRow
    BY <2>1, <2>2 DEF LocRow
  <2> QED BY <1>1, <2>3 DEF Typed
<1>5. pc' \in [Processes -> Places] /\ pc'[p] = "claimed" /\ \A q \in Processes : q # p => pc'[q] = pc[q]
  BY <1>1 DEF Move, Typed, Places
<1>6. \A q \in Processes : q # p => (Holds(q)' => Holds(q))
  <2>1. \A q \in Processes : loc[q].op \in Ops
    BY DEF Typed, LocRow
  <2> QED BY <1>3, <1>4, <2>1 DEF Holds
<1>7. ThreadsKept
  BY <1>4, <1>5, <1>6 DEF ThreadsKept, Quiet
<1>8. PlannersKept
  BY <1>4, <1>5 DEF PlannersKept
<1>9. JobsKept
  BY <1>1, <1>3 DEF JobsKept, Active
<1>10. failed' \in Ops
  BY <1>1 DEF Typed
<1> QED BY <1>1, <1>3, <1>4, <1>5, <1>7, <1>8, <1>9, <1>10, FramesKeep

LEMMA BeginPlanKeeps ==
  ASSUME Typed, Kinds, Asks, Decides, RowsInv, NEW p \in Processes, BeginPlan(p)
  PROVE  Typed' /\ Kinds' /\ Asks' /\ Decides' /\ DecKept /\ RowsInv'
<1>1. /\ loc[p].op[1] = "plan" /\ wf.status = "planning" /\ job[loc[p].op].in = wf.decision
      /\ loc' = [loc EXCEPT ![p].rev = wf.rev] /\ Move(p, "planning")
      /\ UNCHANGED <<wf, dec, inv, job, failed, question, answers, plan, tab, asked>>
  BY DEF BeginPlan, Reads, Compatible, InputOf, rows
<1>2. loc[p] \in LocRow /\ wf.rev \in Nat
  BY DEF Typed
<1>3. PICK v \in Versions : loc[p].op = PlanOp(v)
  <2>1. loc[p].op \in Ops
    BY <1>2 DEF LocRow
  <2> QED BY <1>1, <2>1, OpKinds
<1>4. /\ loc' \in [Processes -> LocRow] /\ \A q \in Processes : q # p => loc'[q] = loc[q]
      /\ loc'[p].op = loc[p].op /\ loc'[p].rev = wf.rev
  <2>1. PICK row \in LocRow : row = [loc[p] EXCEPT !.rev = wf.rev]
    BY <1>2 DEF LocRow
  <2>2. loc' = [loc EXCEPT ![p] = row]
    BY <1>1, <2>1
  <2>3. row.op = loc[p].op /\ row.rev = wf.rev
    BY <1>2, <2>1 DEF LocRow
  <2> QED BY <2>2, <2>3 DEF Typed
<1>5. pc' \in [Processes -> Places] /\ pc'[p] = "planning" /\ \A q \in Processes : q # p => pc'[q] = pc[q]
  BY <1>1 DEF Move, Typed, Places
<1>6. ThreadsKept
  BY <1>1, <1>3, <1>4, <1>5 DEF ThreadsKept, Holds
<1>7. PlannersKept
  BY <1>1, <1>3, <1>4, <1>5, OpNames DEF PlannersKept
<1>8. JobsKept
  BY <1>1 DEF JobsKept
<1>9. job' \in [Ops -> JobRow] /\ failed' \in Ops
  BY <1>1 DEF Typed
<1> QED BY <1>1, <1>4, <1>5, <1>6, <1>7, <1>8, <1>9, FramesKeep

\* The steps of a route that touch no row but its invocation and its decision.
LEMMA RouteSteps ==
  ASSUME Typed, Kinds, Asks, Decides, RowsInv, NEW p \in Processes, NEW intent \in Intents,
         \/ RouteLocally(p, intent) \/ RecoverInvocation(p, intent)
         \/ UseExplicitChoice(p, intent) \/ AskModel(p, intent)
         \/ BeginInvocation(p) \/ ReuseDecision(p) \/ CheckBeforeSending(p) \/ FinalizeInvocation(p)
  PROVE  Typed' /\ Kinds' /\ Asks' /\ Decides' /\ DecKept /\ RowsInv'
<1>1. Typed' /\ Kinds' /\ Asks' /\ Decides'
  BY LocalRouteKeeps, RecoverInvocationKeeps, ChoiceKeeps, AskKeeps, BeginKeeps, ReuseKeeps,
     CheckKeeps, FinalizeKeeps
<1>2. DecKept
  <2>1. CASE RecoverInvocation(p, intent)
    BY <2>1, RecoverInvocationKeeps
  <2>2. CASE FinalizeInvocation(p)
    BY <2>2, FinalizeKeeps
  <2>3. CASE UNCHANGED dec
    BY <2>3 DEF DecKept
  <2> QED BY <2>1, <2>2, <2>3
       DEF RouteLocally, UseExplicitChoice, AskModel, BeginInvocation, ReuseDecision, CheckBeforeSending, rows
<1>3. UNCHANGED <<wf, job, question, answers, plan, tab>>
  BY DEF RouteLocally, RecoverInvocation, UseExplicitChoice, AskModel, BeginInvocation, ReuseDecision,
         CheckBeforeSending, FinalizeInvocation, rows
<1>4. \A q \in Processes : pc'[q] = "planning" => pc[q] = "planning" /\ loc'[q] = loc[q]
  <2>1. \A q \in Processes : q # p => pc'[q] = pc[q] /\ loc'[q] = loc[q]
    BY DEF RouteLocally, RecoverInvocation, UseExplicitChoice, AskModel, BeginInvocation, ReuseDecision,
           CheckBeforeSending, FinalizeInvocation, Decided, Done, Move, Typed
  <2>2. pc'[p] # "planning"
    BY DEF RouteLocally, RecoverInvocation, UseExplicitChoice, AskModel, BeginInvocation, ReuseDecision,
           CheckBeforeSending, FinalizeInvocation, Decided, Done, Move, Typed
  <2> QED BY <2>1, <2>2
<1>5. PlannersKept
  BY <1>4 DEF PlannersKept
<1>6. JobsKept
  BY <1>3 DEF JobsKept
<1>7. RowsInv'
  BY <1>2, <1>3, <1>5, <1>6, RowsStay
<1> QED BY <1>1, <1>2, <1>7

LEMMA RecoveryKeeps ==
  ASSUME Typed, Kinds, Asks, Decides, RowsInv, NEW p \in Processes, NEW op \in Ops,
         \/ RecoverCancelled(p, op) \/ RecoverAgain(p, op)
         \/ RecoverFailed(p, op) \/ RecoverRaises(p, op)
  PROVE  Typed' /\ Kinds' /\ Asks' /\ Decides' /\ DecKept /\ RowsInv'
<1>1. /\ job[op].st = "leased" /\ job[op] \in JobRow /\ job \in [Ops -> JobRow]
      /\ pc' \in [Processes -> Places] /\ loc' \in [Processes -> LocRow]
      /\ UNCHANGED <<pc, loc, tab, asked>>
  BY DEF RecoverCancelled, RecoverAgain, RecoverFailed, RecoverRaises, Expired, Leased, Typed
<1>2. CASE RecoverCancelled(p, op)
  <2>1. wf.cancel /\ wf' = Moved("cancelled") /\ CancelAll(Ended(job, op, "cancelled"))
    BY <1>2 DEF RecoverCancelled
  <2> QED BY <1>1, <2>1, AcknowledgeKeeps
<1>3. CASE RecoverAgain(p, op)
  <2>1. /\ ~wf.cancel /\ job' = Enqueued(job, op, job[op].att + 1, job[op].in) /\ failed' = op
        /\ UNCHANGED <<wf, dec, inv, question, answers, plan>>
    BY <1>3 DEF RecoverAgain
  <2>2. job[op].att + 1 \in Nat /\ job[op].in \in Routes \cup {NoDecision}
    BY <1>1 DEF JobRow
  <2>3. /\ job' \in [Ops -> JobRow] /\ \A o \in Ops : o # op => job'[o] = job[o]
        /\ job'[op].st = "queued" /\ job'[op].in = job[op].in
    BY <1>1, <2>1, <2>2, EnqueuedRow
  <2> QED BY <1>1, <2>1, <2>3, LeaseKeeps
<1>4. CASE RecoverFailed(p, op)
  <2>1. WorkflowMayMove(wf.status, "failed") /\ Fail(op)
    BY <1>4 DEF RecoverFailed, Raises
  <2> QED BY <1>1, <2>1, FailKeeps
<1>5. CASE RecoverRaises(p, op)
  <2>1. /\ job' = [job EXCEPT ![op].holder = NoProcess]
        /\ UNCHANGED <<wf, dec, inv, failed, question, answers, plan>>
    BY <1>5 DEF RecoverRaises
  <2>2. PICK row \in JobRow : row = [job[op] EXCEPT !.holder = NoProcess]
    BY <1>1 DEF JobRow
  <2>3. row.st = "leased" /\ row.att = job[op].att /\ row.in = job[op].in /\ row.holder = NoProcess
    BY <1>1, <2>2 DEF JobRow
  <2>4. job' = [job EXCEPT ![op] = row]
    BY <2>1, <2>2
  <2>5. failed' \in Ops
    BY <2>1 DEF Typed
  <2> QED BY <1>1, <2>1, <2>3, <2>4, <2>5, LeaseKeeps
<1> QED BY <1>2, <1>3, <1>4, <1>5

\* A lease runs out, stalls or is renewed.
LEMMA LivenessKeeps ==
  ASSUME Typed, Kinds, Asks, Decides, RowsInv, NEW op \in Ops, job[op].st = "leased",
         NEW live \in BOOLEAN, job' = [job EXCEPT ![op].live = live],
         UNCHANGED <<wf, dec, inv, failed, question, answers, plan, pc, loc, tab, asked>>
  PROVE  Typed' /\ Kinds' /\ Asks' /\ Decides' /\ DecKept /\ RowsInv'
<1>1. job[op] \in JobRow /\ job \in [Ops -> JobRow]
  BY DEF Typed
<1>2. PICK row \in JobRow : row = [job[op] EXCEPT !.live = live]
  BY <1>1 DEF JobRow
<1>3. row.st = "leased" /\ row.att = job[op].att /\ row.in = job[op].in /\ row.holder = job[op].holder
  BY <1>1, <1>2 DEF JobRow
<1>4. job' = [job EXCEPT ![op] = row]
  BY <1>2
<1>5. failed' \in Ops
  BY DEF Typed
<1> QED BY <1>1, <1>3, <1>4, <1>5, LeaseKeeps

LEMMA SettleKeeps ==
  ASSUME Typed, Kinds, Asks, Decides, RowsInv, NEW p \in Processes, Settle(p) \/ Acknowledge(p)
  PROVE  Typed' /\ Kinds' /\ Asks' /\ Decides' /\ DecKept /\ RowsInv'
<1>1. Holds(p) /\ Done(p) /\ UNCHANGED <<tab, asked>>
  BY DEF Settle, Acknowledge
<1>2. PICK op \in Ops : op = loc[p].op
  BY DEF Typed, LocRow
<1>3. job[op].st = "leased"
  BY <1>1, <1>2 DEF Holds
<1>4. /\ loc' \in [Processes -> LocRow] /\ pc' \in [Processes -> Places]
      /\ \A q \in Processes : (pc'[q] = pc[q] /\ loc'[q] = loc[q]) \/ pc'[q] = "idle"
  BY <1>1, DoneRow
<1>5. CASE wf.cancel /\ wf' = Moved("cancelled") /\ CancelAll(Ended(job, op, "cancelled"))
  BY <1>1, <1>3, <1>4, <1>5, AcknowledgeKeeps
<1>6. CASE WorkflowMayMove(wf.status, "failed") /\ Fail(op)
  BY <1>1, <1>3, <1>4, <1>6, FailKeeps
<1>7. CASE UNCHANGED rows
  <2>1. Move(p, "idle") /\ loc' = [loc EXCEPT ![p] = Idle] /\ "idle" \in Quiet
    BY <1>1 DEF Done, Quiet
  <2> QED BY <1>1, <1>7, <2>1, QuietKeeps
<1> QED BY <1>2, <1>5, <1>6, <1>7 DEF Settle, Acknowledge

LEMMA ProcessKeeps ==
  ASSUME Typed, Kinds, Asks, Decides, RowsInv, NEW p \in Processes,
         Step(p) \/ Stall(p) \/ Heartbeat(p) \/ Crash(p)
  PROVE  Typed' /\ Kinds' /\ Asks' /\ Decides' /\ DecKept /\ RowsInv'
<1>1. ASSUME NEW op \in Ops, Claim(p, op) PROVE Typed' /\ Kinds' /\ Asks' /\ Decides' /\ DecKept /\ RowsInv'
  BY <1>1, ClaimKeeps
<1>2. CASE LeaseLost(p) \/ HandlerFails(p) \/ PublicationFails(p) \/ Crash(p) \/ Boot(p)
  <2>1. PICK to \in Quiet : Move(p, to)
    BY <1>2 DEF LeaseLost, HandlerFails, PublicationFails, Crash, Boot, Done, Quiet
  <2>2. /\ UNCHANGED loc \/ loc' = [loc EXCEPT ![p] = Idle]
        /\ UNCHANGED <<rows, tab, asked>>
    BY <1>2 DEF LeaseLost, HandlerFails, PublicationFails, Crash, Boot, Done
  <2> QED BY <2>1, <2>2, QuietKeeps
<1>3. CASE Settle(p) \/ Acknowledge(p)
  BY <1>3, SettleKeeps
<1>4. ASSUME NEW intent \in Intents,
             \/ RouteLocally(p, intent) \/ RecoverInvocation(p, intent)
             \/ UseExplicitChoice(p, intent) \/ AskModel(p, intent)
      PROVE Typed' /\ Kinds' /\ Asks' /\ Decides' /\ DecKept /\ RowsInv'
  BY <1>4, RouteSteps
<1>5. CASE BeginInvocation(p) \/ ReuseDecision(p) \/ CheckBeforeSending(p) \/ FinalizeInvocation(p)
  <2>1. PICK intent : intent \in Intents
    BY DEF Intents
  <2> QED BY <1>5, <2>1, RouteSteps
<1>6. CASE PublishWorkflow(p) \/ PublishQuestion(p) \/ PublishRefusal(p)
  BY <1>6, PublishWorkflowKeeps, PublishQuestionKeeps, PublishRefusalKeeps
<1>7. CASE BeginPlan(p) \/ PublishPlan(p) \/ AskScientifically(p) \/ BlockAnalysis(p)
  BY <1>7, BeginPlanKeeps, PublishPlanKeeps, AskScientificallyKeeps, BlockAnalysisKeeps
<1>8. ASSUME NEW op \in Ops,
             \/ RecoverCancelled(p, op) \/ RecoverAgain(p, op)
             \/ RecoverFailed(p, op) \/ RecoverRaises(p, op)
      PROVE Typed' /\ Kinds' /\ Asks' /\ Decides' /\ DecKept /\ RowsInv'
  BY <1>8, RecoveryKeeps
<1>9. CASE Stall(p) \/ Heartbeat(p)
  <2>1. PICK op \in Ops : op = loc[p].op
    BY DEF Typed, LocRow
  <2>2. PICK live \in BOOLEAN : job' = [job EXCEPT ![op].live = live]
    BY <1>9, <2>1 DEF Stall, Heartbeat, Lapse
  <2>3. /\ job[op].st = "leased"
        /\ UNCHANGED <<wf, dec, inv, failed, question, answers, plan, pc, loc, tab, asked>>
    BY <1>9, <2>1 DEF Stall, Heartbeat, Works, Holds
  <2> QED BY <2>2, <2>3, LivenessKeeps
<1> QED BY <1>1, <1>2, <1>3, <1>4, <1>5, <1>6, <1>7, <1>8, <1>9 DEF Step

LEMMA StepKeeps ==
  ASSUME IntakeInv, [Next]_vars
  PROVE  IntakeInv' /\ DecKept
<1>0. Typed /\ Kinds /\ Asks /\ Decides /\ RowsInv
  BY DEF IntakeInv, RowsInv
<1>1. Typed' /\ Kinds' /\ Asks' /\ Decides' /\ DecKept /\ RowsInv'
  <2>1. CASE User
    <3>1. ASSUME NEW t \in Tabs, SubmitAnswer(t)
          PROVE Typed' /\ Kinds' /\ Asks' /\ Decides' /\ DecKept /\ RowsInv'
      BY <1>0, <3>1, SubmitAnswerKeeps
    <3>2. ASSUME NEW t \in Tabs, AnswerRefused(t) \/ \E i \in DOMAIN question : ReadQuestion(t, i)
          PROVE Typed' /\ Kinds' /\ Asks' /\ Decides' /\ DecKept /\ RowsInv'
      BY <1>0, <3>2, WindowsKeep
    <3>3. CASE RequestCancel \/ Retry
      BY <1>0, <3>3, RequestCancelKeeps, RetryKeeps
    <3>4. ASSUME NEW v \in Versions, Approve(v)
          PROVE Typed' /\ Kinds' /\ Asks' /\ Decides' /\ DecKept /\ RowsInv'
      BY <1>0, <3>4, ApproveKeeps
    <3> QED BY <2>1, <3>1, <3>2, <3>3, <3>4 DEF User
  <2>2. ASSUME NEW p \in Processes, Step(p) \/ Stall(p) \/ Heartbeat(p) \/ Crash(p)
        PROVE Typed' /\ Kinds' /\ Asks' /\ Decides' /\ DecKept /\ RowsInv'
    BY <1>0, <2>2, ProcessKeeps
  <2>3. ASSUME NEW op \in Ops, LeaseRunsOut(op)
        PROVE Typed' /\ Kinds' /\ Asks' /\ Decides' /\ DecKept /\ RowsInv'
    <3>1. /\ job[op].st = "leased" /\ job' = [job EXCEPT ![op].live = FALSE] /\ FALSE \in BOOLEAN
          /\ UNCHANGED <<wf, dec, inv, failed, question, answers, plan, pc, loc, tab, asked>>
      BY <2>3 DEF LeaseRunsOut, Leased, Lapse
    <3> QED BY <1>0, <3>1, LivenessKeeps
  <2>4. CASE UNCHANGED vars
    <3>1. UNCHANGED <<wf, dec, inv, job, failed, question, answers, plan, pc, loc, tab, asked>>
      BY <2>4 DEF vars
    <3>2. ThreadsKept /\ JobsKept /\ PlannersKept
      BY <3>1 DEF ThreadsKept, JobsKept, PlannersKept, Holds
    <3>3. /\ job' \in [Ops -> JobRow] /\ failed' \in Ops
          /\ pc' \in [Processes -> Places] /\ loc' \in [Processes -> LocRow]
      BY <1>0, <3>1 DEF Typed
    <3> QED BY <1>0, <3>1, <3>2, <3>3, FramesKeep
  <2> QED BY <2>1, <2>2, <2>3, <2>4 DEF Next
<1> QED BY <1>1 DEF IntakeInv, RowsInv

LEMMA InitHolds ==
  ASSUME Init
  PROVE  IntakeInv
<1>1. PICK mode \in Modes :
          wf = [status |-> "routing", rev |-> 1, cancel |-> FALSE, mode |-> mode, decision |-> NoDecision]
  BY DEF Init
<1>2. wf \in WorkflowRows /\ wf.status = "routing" /\ wf.decision = NoDecision /\ ~wf.cancel
  BY <1>1, IntakeAssumption DEF WorkflowRows, WorkflowStatuses
<1>3. NoJob \in JobRow /\ NoJob.st = "absent"
  BY LimitsAreNumbers DEF NoJob, JobRow
<1>4. PICK none \in [Ops -> JobRow] : none = [o \in Ops |-> NoJob]
  BY <1>3
<1>5. /\ job \in [Ops -> JobRow] /\ job[RouteOp(0)].st = "queued" /\ job[RouteOp(0)].in = 0
      /\ \A o \in Ops : o # RouteOp(0) => job[o].st = "absent"
  <2>1. RouteOp(0) \in Ops /\ 1 \in Nat /\ 0 \in Routes \cup {NoDecision}
    BY OpNames, LimitsAreNumbers
  <2>2. job = Enqueued(none, RouteOp(0), 1, 0)
    BY <1>4 DEF Init, RouteOp
  <2>3. /\ job \in [Ops -> JobRow] /\ job[RouteOp(0)].st = "queued" /\ job[RouteOp(0)].in = 0
        /\ \A o \in Ops : o # RouteOp(0) => job[o] = none[o]
    BY <2>1, <2>2, EnqueuedRow
  <2> QED BY <1>3, <1>4, <2>3
<1>6. Idle \in LocRow /\ NoOp \in Ops /\ NoRead \in ReadRow
  BY OpNames, LimitsAreNumbers DEF Idle, LocRow, NoOp, RouteOp, NoRead, ReadRow
<1>7. question \in Seq(QuestionRow) /\ answers \in Seq(ReadRow) /\ Len(answers) = 0 /\ DOMAIN question = {}
  BY DEF Init
<1>8. Typed
  <2>1. plan \in [Versions -> PlanRow]
    BY DEF Init, PlanRow
  <2>2. pc \in [Processes -> Places] /\ loc \in [Processes -> LocRow] /\ tab \in [Tabs -> ReadRow] /\ failed \in Ops
    BY <1>6 DEF Init, Places
  <2>3. dec \in [Routes -> Intents \cup {"none"}] /\ inv \in [Routes -> {"none", "pending", "ended"}] /\ asked \in [Routes -> Nat]
    BY DEF Init
  <2> QED BY <1>2, <1>5, <1>7, <2>1, <2>2, <2>3, LimitsAreNumbers DEF Typed, WorkflowRows
<1>9. Kinds
  BY DEF Init, Kinds
<1>10. Asks
  BY DEF Init, Asks, Asking
<1>11. Decides
  BY DEF Init, Decides
<1>12. Routing
  <2>1. \A n \in Routes : n # 0 => job[RouteOp(n)].st = "absent"
    BY <1>5, OpNames, LimitsAreNumbers
  <2> QED BY <1>2, <1>5, <1>7, <2>1 DEF Routing, Active
<1>13. \A v \in Versions : job[PlanOp(v)].st = "absent" /\ plan[v].st = "none"
  BY <1>5, OpNames, LimitsAreNumbers DEF Init
<1>14. Reserved
  <2>1. 0 \in 0 .. Len(answers) + 1
    BY <1>7
  <2>2. \A v \in Versions : ~(v <= 0)
    BY LimitsAreNumbers
  <2> QED BY <1>7, <1>13, <2>1, <2>2 DEF Reserved
<1>15. Plans
  BY <1>13 DEF Plans, PlanFollowsAnswers
<1>16. Planners
  BY DEF Init, Planners
<1>17. Statuses
  BY <1>2 DEF Statuses, CancelledIsQuiet, Type, Workflows
<1>18. Questions
  BY <1>2, <1>7 DEF Questions
<1>19. Windows
  BY DEF Init, Windows
<1>20. IntakeIsNotStranded
  BY <1>2, <1>5, <1>7 DEF IntakeIsNotStranded, Live, Compatible, InputOf, RouteOp
<1> QED BY <1>8, <1>9, <1>10, <1>11, <1>12, <1>14, <1>15, <1>16, <1>17, <1>18, <1>19, <1>20 DEF IntakeInv
-----------------------------------------------------------------------------
(* The theorems *)

\* The invariant holds of every intake.
THEOREM IntakeInvCorrect == Spec => []IntakeInv
<1>1. Init => IntakeInv
  BY InitHolds
<1>2. IntakeInv /\ [Next]_vars => IntakeInv'
  BY StepKeeps
<1> QED BY <1>1, <1>2, PTL DEF Spec

\* The records of the intake agree: type, status, plan and decision fit, a cancelled run
\* waits for nothing, and the job or the question that moves a run on is there.
THEOREM RecordsAgreeCorrect == Spec => []RecordsAgree
<1>1. IntakeInv => RecordsAgree
  <2> SUFFICES ASSUME IntakeInv PROVE TypeOK
    BY DEF RecordsAgree, IntakeInv, Statuses
  <2>1. /\ wf \in [status : WorkflowStatuses, rev : Nat, cancel : BOOLEAN,
                   mode : {"local", "remote"}, decision : Routes \cup {NoDecision}]
        /\ dec \in [Routes -> Intents \cup {"none"}]
        /\ inv \in [Routes -> {"none", "pending", "ended"}]
    BY DEF IntakeInv, Typed
  <2>2. \A op \in Ops : job[op] \in
          [att : Nat, st : {"absent", "queued", "leased", "succeeded", "failed", "cancelled"},
           holder : Processes \cup {NoProcess}, live : BOOLEAN, in : Int]
    <3>1. Routes \cup {NoDecision} \subseteq Int
      BY LimitsAreNumbers DEF NoDecision
    <3>2. \A op \in Ops : job[op] \in JobRow
      BY DEF IntakeInv, Typed
    <3> QED BY <3>1, <3>2 DEF JobRow
  <2>3. /\ wf.status \in {"routing", "waiting-clarification", "unsupported"} => Type \notin Workflows
        /\ wf.status \in {"planning", "waiting-plan-approval", "running"} => Type \in Workflows
    BY DEF IntakeInv, Statuses
  <2>4. \A v \in Versions : plan[v].st # "none" => job[<<"plan", v>>].st = "succeeded"
    BY DEF IntakeInv, Plans, PlanOp
  <2>5. \A t \in Tabs : tab[t] # NoRead => tab[t].question \in DOMAIN question
    BY DEF IntakeInv, Windows
  <2> QED BY <2>1, <2>2, <2>3, <2>4, <2>5 DEF TypeOK
<1> QED BY <1>1, IntakeInvCorrect, PTL

\* A goal is sent to the model at most once, and what was decided stays, whoever crashes,
\* takes over or retries.
THEOREM RoutedOnceCorrect == Spec => RoutedOnce
<1>1. IntakeInv /\ [Next]_vars =>
        [\A n \in Routes :
            /\ asked'[n] <= 1
            /\ dec[n] # "none" /\ inv[n] = "ended" => dec'[n] = dec[n]]_<<asked, dec, inv>>
  BY StepKeeps DEF IntakeInv, Asks, DecKept
<1> QED BY <1>1, IntakeInvCorrect, PTL DEF Spec, RoutedOnce

\* What is shown and approved was drafted with every answer of the user's.
THEOREM PlanFollowsAnswersCorrect == Spec => []PlanFollowsAnswers
<1>1. IntakeInv => PlanFollowsAnswers
  BY DEF IntakeInv, Plans
<1> QED BY <1>1, IntakeInvCorrect, PTL

\* The user is asked one thing at a time.
THEOREM OneOpenQuestionCorrect == Spec => []OneOpenQuestion
<1>1. IntakeInv => OneOpenQuestion
  <2> SUFFICES ASSUME IntakeInv PROVE OneOpenQuestion
    OBVIOUS
  <2>1. DOMAIN question = 1 .. Len(question) /\ Len(question) \in Nat
    BY QuestionsTyped DEF IntakeInv, Typed
  <2>2. \A i, j \in DOMAIN question : Pending(i) /\ Pending(j) => i = j
    <3>1. \A i, j \in DOMAIN question : Pending(i) /\ Pending(j) => ~(i < j)
      <4>1. \A i, j \in DOMAIN question : i < j => j \in i + 1 .. Len(question)
        BY <2>1
      <4> QED BY <4>1 DEF IntakeInv, Questions, Latest, Open, Pending
    <3> QED BY <2>1, <3>1
  <2>3. Cardinality({i \in DOMAIN question : Pending(i)}) <= 1
    <3>1. CASE {i \in DOMAIN question : Pending(i)} = {}
      BY <3>1, FS_EmptySet
    <3>2. CASE {i \in DOMAIN question : Pending(i)} # {}
      <4>1. PICK i : {j \in DOMAIN question : Pending(j)} = {i}
        BY <2>2, <3>2
      <4>2. Cardinality({i}) = 1
        BY FS_Singleton
      <4> QED BY <4>1, <4>2
    <3> QED BY <3>1, <3>2
  <2>4. wf.status = "waiting-clarification" =>
          \E i \in DOMAIN question : Latest(i) /\ Pending(i) /\ question[i].kind = "intent"
    BY DEF IntakeInv, Questions
  <2> QED BY <2>3, <2>4 DEF OneOpenQuestion
<1> QED BY <1>1, IntakeInvCorrect, PTL
=============================================================================

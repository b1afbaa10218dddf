------------------------- MODULE WorkflowCoreProofs -------------------------
(***************************************************************************)
(* TLAPS proofs about WorkflowCore, for any number of steps, workers,      *)
(* requests and attempts: the types, that IInv is an inductive invariant,  *)
(* and the safety properties that follow from it.                          *)
(*                                                                         *)
(* The proof of IInv separates the rows from the readings.  An action is   *)
(* shown to leave the rows agreeing with each other (RowsAgree) and to     *)
(* move them only Onward; an onward step falsifies no reading of another   *)
(* thread or request, because whatever it changed has a new revision.      *)
(***************************************************************************)
EXTENDS WorkflowCoreInv, FiniteSetTheorems, TLAPS

-----------------------------------------------------------------------------
(* What the writes yield, as far as types go. *)

LEMMA OpsFacts ==
    /\ TaskOps \subseteq Ops /\ PlanOp \in Ops /\ ReviewOp \in Ops
    /\ 1 \in TaskOps /\ PlanOp \notin TaskOps /\ ReviewOp \notin TaskOps
    /\ PlanOp # ReviewOp
    /\ \A i \in TaskOps : i + 1 \in Ops /\ (i < Steps => i + 1 \in TaskOps)
    /\ \A op \in Ops : op = PlanOp \/ op = ReviewOp \/ op \in TaskOps
BY StepsAssumption DEF TaskOps, Ops, PlanOp, ReviewOp

LEMMA JobWrites ==
    ASSUME NEW jobs \in [Ops -> JobType], NEW op \in Ops, NEW att \in Nat
    PROVE  /\ \A st \in JobStatuses : Finished(jobs, op, st) \in [Ops -> JobType]
           /\ \A key \in Keys \cup {NoKey} :
                 Enqueued(jobs, op, att, key) \in [Ops -> JobType]
           /\ CancelQueued(jobs) \in [Ops -> JobType]
<1>1. \A key \in Keys \cup {NoKey} : Queued(att, key) \in JobType
  BY DEF Queued, NoJob, JobType, JobStatuses
<1>2. \A key \in Keys \cup {NoKey} : Enqueued(jobs, op, att, key) \in [Ops -> JobType]
  BY <1>1 DEF Enqueued
<1>3. \A st \in JobStatuses : Finished(jobs, op, st) \in [Ops -> JobType]
  <2> SUFFICES ASSUME NEW st \in JobStatuses PROVE Finished(jobs, op, st) \in [Ops -> JobType]
    OBVIOUS
  <2> DEFINE row == [jobs[op] EXCEPT !.st = st, !.tok = NoWorker, !.exp = FALSE]
  <2>1. row \in JobType
    BY DEF JobType
  <2>2. Finished(jobs, op, st) = [jobs EXCEPT ![op] = row]
    BY DEF Finished
  <2> HIDE DEF row
  <2> QED BY <2>1, <2>2
<1>4. CancelQueued(jobs) \in [Ops -> JobType]
  BY DEF CancelQueued, JobType, JobStatuses
<1> QED BY <1>2, <1>3, <1>4

LEMMA TaskWrites ==
    ASSUME NEW tasks \in [TaskOps -> TaskType], NEW i
    PROVE  /\ CancelTasks(tasks) \in [TaskOps -> TaskType]
           /\ \A st \in TaskStatuses : TaskMoved(tasks, i, st) \in [TaskOps -> TaskType]
<1>1. CancelTasks(tasks) \in [TaskOps -> TaskType]
  BY DEF CancelTasks, TaskType, TaskStatuses
<1>2. ASSUME NEW st \in TaskStatuses
      PROVE  TaskMoved(tasks, i, st) \in [TaskOps -> TaskType]
  <2>1. CASE i \in TaskOps
    <3>1. [st |-> st, ver |-> tasks[i].ver + 1] \in TaskType
      BY <2>1 DEF TaskType
    <3> QED BY <3>1 DEF TaskMoved
  <2>2. CASE i \notin TaskOps
    BY <2>2 DEF TaskMoved
  <2> QED BY <2>1, <2>2
<1> QED BY <1>1, <1>2

WorkflowType == [status: Phases, rev: Nat, cancel: BOOLEAN, code: BlockCodes]

LEMMA WorkflowWrites ==
    ASSUME NEW row \in WorkflowType, NEW target \in Phases, NEW code \in BlockCodes
    PROVE  WorkflowMoved(row, target, code) \in WorkflowType
BY DEF WorkflowType, WorkflowMoved, BlockCodes

LEMMA LocWrites ==
    ASSUME TypeOK, NEW l \in LocType
    PROVE  /\ Snapshot(l) \in LocType /\ JobOnly(l) \in LocType /\ NoLoc \in LocType
           /\ \A e \in Errors : [l EXCEPT !.err = e] \in LocType
           /\ \A t \in SUBSET (Ops \X Nat) : [l EXCEPT !.todo = t] \in LocType
           /\ Snapshot(l).todo = l.todo
<1>1. NoLoc \in LocType
  BY OpsFacts DEF NoLoc, LocType, Phases, Errors, PlanOp
<1>2. TaskSt(l.op) \in TaskStatuses \cup {"absent"} /\ TaskVer(l.op) \in Nat
  BY DEF TaskSt, TaskVer, TypeOK, TaskType
<1>3. Snapshot(l) \in LocType /\ Snapshot(l).todo = l.todo
  BY <1>2 DEF Snapshot, LocType, TypeOK
<1>4. JobOnly(l) \in LocType
  BY <1>1 DEF JobOnly, LocType, NoLoc
<1> QED BY <1>1, <1>3, <1>4 DEF LocType

-----------------------------------------------------------------------------
(* Type correctness, for the rows, the threads and the requests apart. *)

RowsTyped ==
    /\ wf \in WorkflowType /\ plan \in PlanStatuses
    /\ task \in [TaskOps -> TaskType] /\ job \in [Ops -> JobType]
    /\ lastFailed \in [op: Ops, att: Nat]
    /\ pdf \in BOOLEAN /\ usedKeys \subseteq Keys

ProcsTyped ==
    /\ mode \in [Workers -> {"down", "booting", "looping", "draining"}]
    /\ pc \in [Workers -> Labels]
    /\ loc \in [Workers -> LocType]

UsersTyped ==
    /\ req \in [Clients -> ReqType]
    /\ asked \in Nat /\ stops \in Nat

LEMMA TypeParts ==
    /\ TypeOK <=> RowsTyped /\ ProcsTyped /\ UsersTyped
    /\ TypeOK' <=> RowsTyped' /\ ProcsTyped' /\ UsersTyped'
BY DEF TypeOK, RowsTyped, ProcsTyped, UsersTyped, WorkflowType

\* The ways a thread moves on keep its label and its reading well typed.
LEMMA ThreadMoves ==
    ASSUME TypeOK, NEW w \in Workers
    PROVE  /\ Leave(w) => ProcsTyped'
           /\ Settled(w) => ProcsTyped'
           /\ Booted(w) => ProcsTyped'
           /\ ToExec(w) => ProcsTyped'
           /\ \A e \in Errors : Raise(w, e) => ProcsTyped' /\ UNCHANGED rows
<1>1. loc[w] \in LocType /\ NoLoc \in LocType
  BY LocWrites DEF TypeOK
<1>2. Leave(w) => ProcsTyped'
  BY <1>1 DEF Leave, Goto, ProcsTyped, TypeOK, Labels
<1>3. Settled(w) => ProcsTyped'
  <2>1. [NoLoc EXCEPT !.todo = loc[w].todo] \in LocType
    BY <1>1, LocWrites DEF LocType
  <2> QED BY <1>1, <1>2, <2>1 DEF Settled, Goto, ProcsTyped, TypeOK, Labels
<1>4. Booted(w) => ProcsTyped'
  BY <1>1 DEF Booted, Goto, ProcsTyped, TypeOK, Labels
<1>5. JobOnly(loc[w]) \in LocType
  BY <1>1, LocWrites
<1>6. ToExec(w) => ProcsTyped'
  BY <1>5 DEF ToExec, Goto, ProcsTyped, TypeOK, Labels
<1>7. ASSUME NEW e \in Errors, Raise(w, e)
      PROVE  ProcsTyped' /\ UNCHANGED rows
  <2>1. [JobOnly(loc[w]) EXCEPT !.err = e] \in LocType
    BY <1>5, LocWrites
  <2> QED BY <1>7, <2>1 DEF Raise, Goto, ProcsTyped, TypeOK, Labels
<1> QED BY <1>2, <1>3, <1>4, <1>6, <1>7

LEMMA GotoTyped ==
    ASSUME TypeOK, NEW w \in Workers, NEW label \in Labels, Goto(w, label)
    PROVE  pc' \in [Workers -> Labels]
BY DEF TypeOK, Goto

LEMMA LocTyped ==
    ASSUME TypeOK, NEW w \in Workers, NEW l \in LocType,
           loc' = [loc EXCEPT ![w] = l]
    PROVE  loc' \in [Workers -> LocType]
BY DEF TypeOK

LEMMA AcknowledgeTyped ==
    ASSUME TypeOK, NEW w \in Workers, Acknowledge(w)
    PROVE  RowsTyped'
<1>1. loc[w].op \in Ops /\ "cancelled" \in JobStatuses /\ 0 \in Nat
  BY DEF TypeOK, LocType, JobStatuses
<1>2. job' \in [Ops -> JobType]
  <2>1. Finished(job, loc[w].op, "cancelled") \in [Ops -> JobType]
    BY <1>1, JobWrites DEF TypeOK
  <2> QED BY <1>1, <2>1, JobWrites DEF Acknowledge
<1>3. task' \in [TaskOps -> TaskType]
  BY TaskWrites, OpsFacts DEF Acknowledge, TypeOK
<1>4. wf' \in WorkflowType
  BY WorkflowWrites DEF Acknowledge, TypeOK, WorkflowType, Phases, BlockCodes
<1> QED BY <1>2, <1>3, <1>4 DEF RowsTyped, TypeOK, Acknowledge

LEMMA RecoveryTyped ==
    ASSUME TypeOK, NEW w \in Workers,
           RecoverExpired(w) \/ SettleNextExpired(w)
    PROVE  RowsTyped' /\ ProcsTyped'
<1>1. loc[w] \in LocType /\ NoLoc \in LocType
  BY LocWrites DEF TypeOK
<1>2. CASE RecoverExpired(w)
  <2> DEFINE due == {op \in Ops : job[op].st = "leased" /\ job[op].exp}
             ids == {<<op, job[op].att>> : op \in due}
  <2>1. ids \in SUBSET (Ops \X Nat)
    <3>1. \A op \in Ops : job[op].att \in Nat
      BY DEF TypeOK, JobType
    <3>2. ASSUME NEW t \in ids PROVE t \in Ops \X Nat
      <4>1. PICK op \in due : t = <<op, job[op].att>>
        OBVIOUS
      <4> QED BY <3>1, <4>1
    <3> QED BY <3>2
  <2>2. [loc[w] EXCEPT !.todo = ids] \in LocType
    BY <1>1, <2>1, LocWrites
  <2>3. loc' = [loc EXCEPT ![w] = [loc[w] EXCEPT !.todo = ids]]
    BY <1>2 DEF RecoverExpired, TypeOK
  <2>4. loc' \in [Workers -> LocType]
    BY <2>2, <2>3 DEF TypeOK
  <2>5. job' \in [Ops -> JobType]
    <3>1. \A op \in Ops : job[op] \in JobType /\ [job[op] EXCEPT !.tok = w] \in JobType
      BY DEF TypeOK, JobType
    <3> QED BY <1>2, <3>1 DEF RecoverExpired
  <2>6. pc' \in [Workers -> Labels]
    BY <1>2 DEF RecoverExpired, Goto, TypeOK, Labels
  <2> QED BY <1>2, <2>4, <2>5, <2>6
          DEF RecoverExpired, RowsTyped, ProcsTyped, TypeOK, WorkflowType
<1>3. CASE SettleNextExpired(w)
  <2>1. pc' \in [Workers -> Labels]
    BY <1>3 DEF SettleNextExpired, Goto, TypeOK, Labels
  <2>2. loc' \in [Workers -> LocType]
    <3>1. CASE UNCHANGED loc
      BY <3>1 DEF TypeOK
    <3>2. CASE loc' # loc
      <4>1. PICK t \in loc[w].todo :
               loc' = [loc EXCEPT ![w] = [NoLoc EXCEPT
                           !.op = t[1], !.att = t[2], !.err = "expired",
                           !.back = "recover", !.todo = loc[w].todo \ {t}]]
        BY <1>3, <3>2 DEF SettleNextExpired
      <4>2. t[1] \in Ops /\ t[2] \in Nat /\ loc[w].todo \ {t} \in SUBSET (Ops \X Nat)
        BY <1>1 DEF LocType
      <4>3. [NoLoc EXCEPT !.op = t[1], !.att = t[2], !.err = "expired",
                          !.back = "recover", !.todo = loc[w].todo \ {t}] \in LocType
        BY <1>1, <4>2 DEF LocType, Errors
      <4> QED BY <4>1, <4>3 DEF TypeOK
    <3> QED BY <3>1, <3>2
  <2> QED BY <1>3, <2>1, <2>2
          DEF SettleNextExpired, rows, RowsTyped, ProcsTyped, TypeOK, WorkflowType
<1> QED BY <1>2, <1>3

LEMMA SettleTyped ==
    ASSUME TypeOK, NEW w \in Workers, SettleRead(w) \/ SettleWrite(w)
    PROVE  RowsTyped' /\ ProcsTyped'
<1> DEFINE l == loc[w]
<1>1. l \in LocType /\ l.op \in Ops /\ l.att + 1 \in Nat /\ RowsTyped
  BY TypeParts DEF TypeOK, LocType
<1>2. CASE SettleRead(w)
  <2>1. CASE Settled(w)
    BY <1>1, <1>2, <2>1, ThreadMoves DEF SettleRead, rows, RowsTyped
  <2>2. CASE ~Settled(w)
    <3>1. PICK e \in Errors : loc' = [loc EXCEPT ![w] = [Snapshot(@) EXCEPT !.err = e]]
      BY <1>1, <1>2, <2>2 DEF SettleRead, Errors, LocType
    <3>2. [Snapshot(l) EXCEPT !.err = e] \in LocType
      <4>1. Snapshot(l) \in LocType
        BY <1>1, LocWrites
      <4> QED BY <4>1, LocWrites
    <3>3. loc' \in [Workers -> LocType]
      BY <3>1, <3>2 DEF TypeOK
    <3> QED BY <1>1, <1>2, <2>2, <3>3
            DEF SettleRead, Goto, rows, RowsTyped, ProcsTyped, TypeOK, Labels
  <2> QED BY <2>1, <2>2
<1>3. CASE SettleWrite(w)
  <2>1. ProcsTyped'
    BY <1>3, ThreadMoves DEF SettleWrite
  <2>2. JobFails(w) \in [Ops -> JobType]
    BY <1>1, JobWrites DEF JobFails, RowsTyped, JobStatuses
  <2>3. /\ \A st \in TaskStatuses : TaskMoved(task, l.op, st) \in [TaskOps -> TaskType]
        /\ \A st \in TaskStatuses : TaskStops(w, st) \in [TaskOps -> TaskType]
    BY TaskWrites DEF TypeOK, TaskStops
  <2>4. ThisJob(w) \in [op: Ops, att: Nat]
    BY <1>1 DEF ThisJob, LocType
  <2>5. CASE SettleCancelled(w)
    BY <2>1, <2>5, AcknowledgeTyped DEF SettleCancelled
  <2>6. CASE SettleRetry(w)
    <3>1. job' \in [Ops -> JobType]
      BY <1>1, <2>2, <2>6, JobWrites DEF SettleRetry
    <3>2. task' \in [TaskOps -> TaskType]
      BY <2>3, <2>6 DEF SettleRetry, TypeOK, TaskStatuses
    <3> QED BY <1>1, <2>1, <2>4, <2>6, <3>1, <3>2 DEF SettleRetry, RowsTyped
  <2>7. CASE SettleBlocked(w)
    <3>1. wf' \in WorkflowType
      BY <1>1, <2>7, WorkflowWrites
         DEF SettleBlocked, RowsTyped, Phases, BlockCodes, Blockers
    <3>2. task' \in [TaskOps -> TaskType]
      BY <2>3, <2>7 DEF SettleBlocked, TaskStatuses
    <3> QED BY <1>1, <2>1, <2>2, <2>4, <2>7, <3>1, <3>2 DEF SettleBlocked, RowsTyped
  <2>8. CASE SettleFailed(w)
    <3>1. wf' \in WorkflowType
      BY <1>1, <2>8, WorkflowWrites DEF SettleFailed, RowsTyped, Phases, BlockCodes
    <3>2. task' \in [TaskOps -> TaskType]
      BY <2>3, <2>8 DEF SettleFailed, TaskStatuses
    <3> QED BY <1>1, <2>1, <2>2, <2>4, <2>8, <3>1, <3>2 DEF SettleFailed, RowsTyped
  <2>9. CASE SettleConflict(w)
    BY <1>1, <2>1, <2>9 DEF SettleConflict, rows, RowsTyped
  <2> QED BY <1>3, <2>5, <2>6, <2>7, <2>8, <2>9 DEF SettleWrite
<1> QED BY <1>2, <1>3

LEMMA SweepTyped ==
    ASSUME TypeOK, NEW w \in Workers, SweepRead(w) \/ SweepWrite(w)
    PROVE  RowsTyped' /\ ProcsTyped'
<1>1. NoLoc \in LocType /\ Snapshot(NoLoc) \in LocType /\ RowsTyped
  <2>1. NoLoc \in LocType
    BY OpsFacts DEF NoLoc, LocType, Phases, Errors, PlanOp
  <2> QED BY <2>1, LocWrites, TypeParts
<1>2. ProcsTyped'
  <2>1. CASE Leave(w)
    BY <2>1, ThreadMoves
  <2>2. CASE ~Leave(w)
    <3>1. PICK label \in Labels : Goto(w, label)
      BY <2>2 DEF SweepRead, SweepWrite, AfterSweep, Labels
    <3>2. UNCHANGED mode
      BY <2>2 DEF SweepRead, SweepWrite
    <3>3. PICK l \in LocType : loc' = [loc EXCEPT ![w] = l]
      BY <1>1, <2>2 DEF SweepRead, SweepWrite
    <3> QED BY <3>1, <3>2, <3>3, GotoTyped, LocTyped DEF ProcsTyped, TypeOK
  <2> QED BY <2>1, <2>2
<1>4. RowsTyped'
  <2>1. CASE UNCHANGED rows
    BY <1>1, <2>1 DEF rows, RowsTyped
  <2>2. CASE ~UNCHANGED rows
    <3>1. /\ job' = CancelQueued(job) /\ task' = CancelTasks(task)
          /\ wf' = WorkflowMoved(wf, "cancelled", "none")
          /\ UNCHANGED <<plan, lastFailed, pdf, usedKeys>>
      BY <2>2 DEF SweepRead, SweepWrite
    <3>2. job' \in [Ops -> JobType]
      BY <1>1, <3>1, JobWrites, OpsFacts DEF RowsTyped
    <3>3. task' \in [TaskOps -> TaskType]
      BY <1>1, <3>1, TaskWrites DEF RowsTyped
    <3>4. wf' \in WorkflowType
      BY <1>1, <3>1, WorkflowWrites DEF RowsTyped, Phases, BlockCodes
    <3> QED BY <1>1, <3>1, <3>2, <3>3, <3>4 DEF RowsTyped
  <2> QED BY <2>1, <2>2
<1> QED BY <1>2, <1>4

LEMMA OrphanTyped ==
    ASSUME TypeOK, NEW w \in Workers,
           OrphanRead(w) \/ OrphanCheck(w) \/ OrphanWrite(w)
    PROVE  RowsTyped' /\ ProcsTyped'
<1>1. NoLoc \in LocType /\ loc[w] \in LocType /\ RowsTyped
  BY LocWrites, TypeParts DEF TypeOK
<1>2. \A i \in TaskOps : Snapshot([NoLoc EXCEPT !.op = i]) \in LocType
  <2>1. \A i \in TaskOps : [NoLoc EXCEPT !.op = i] \in LocType
    BY <1>1, OpsFacts DEF LocType
  <2> QED BY <2>1, LocWrites
<1>3. ProcsTyped'
  <2>1. CASE Leave(w) \/ Booted(w)
    BY <2>1, ThreadMoves
  <2>2. CASE ~Leave(w) /\ ~Booted(w)
    <3>1. PICK label \in Labels : Goto(w, label)
      BY <2>2 DEF OrphanRead, OrphanCheck, OrphanWrite, Labels
    <3>2. UNCHANGED mode
      BY <2>2 DEF OrphanRead, OrphanCheck, OrphanWrite
    <3>3. PICK l \in LocType : loc' = [loc EXCEPT ![w] = l]
      <4>1. [loc[w] EXCEPT !.rev = wf.rev, !.st = wf.status] \in LocType
        BY <1>1 DEF LocType, TypeOK
      <4>2. CASE OrphanCheck(w)
        <5>1. loc' = [loc EXCEPT ![w] = [loc[w] EXCEPT !.rev = wf.rev, !.st = wf.status]]
          BY <2>2, <4>2 DEF OrphanCheck, TypeOK
        <5> QED BY <4>1, <5>1
      <4> QED BY <1>2, <2>2, <4>2 DEF OrphanRead, OrphanWrite
    <3> QED BY <3>1, <3>2, <3>3, GotoTyped, LocTyped DEF ProcsTyped, TypeOK
  <2> QED BY <2>1, <2>2
<1>4. RowsTyped'
  <2>1. CASE UNCHANGED rows
    BY <1>1, <2>1 DEF rows, RowsTyped
  <2>2. CASE ~UNCHANGED rows
    <3>1. /\ task' = TaskMoved(task, loc[w].op, "blocked")
          /\ wf' = WorkflowMoved(wf, "blocked", "orphan-running-task")
          /\ UNCHANGED <<plan, job, lastFailed, pdf, usedKeys>>
      BY <2>2 DEF OrphanRead, OrphanCheck, OrphanWrite
    <3>2. task' \in [TaskOps -> TaskType]
      BY <1>1, <3>1, TaskWrites DEF RowsTyped, TaskStatuses
    <3>3. wf' \in WorkflowType
      BY <1>1, <3>1, WorkflowWrites DEF RowsTyped, Phases, BlockCodes
    <3> QED BY <1>1, <3>1, <3>2, <3>3 DEF RowsTyped
  <2> QED BY <2>1, <2>2
<1> QED BY <1>3, <1>4

LEMMA ClaimTyped ==
    ASSUME TypeOK, NEW w \in Workers,
           ClaimSelect(w) \/ ClaimWrite(w) \/ StartRead(w) \/ StartWrite(w)
    PROVE  RowsTyped' /\ ProcsTyped'
<1>1. NoLoc \in LocType /\ loc[w] \in LocType /\ loc[w].op \in Ops /\ RowsTyped
  <2>1. loc[w] \in LocType
    BY DEF TypeOK
  <2> QED BY <2>1, LocWrites, TypeParts DEF LocType
<1>2. CASE ClaimSelect(w)
  <2>1. \A op \in Ops : [NoLoc EXCEPT !.op = op, !.att = job[op].att] \in LocType
    <3>1. \A op \in Ops : job[op].att \in Nat
      BY <1>1 DEF RowsTyped, JobType
    <3> QED BY <1>1, <3>1 DEF LocType
  <2>2. CASE Leave(w)
    BY <1>1, <1>2, <2>2, ThreadMoves DEF ClaimSelect, rows, RowsTyped
  <2>3. CASE ~Leave(w)
    <3>1. PICK l \in LocType : loc' = [loc EXCEPT ![w] = l]
      BY <1>2, <2>1, <2>3 DEF ClaimSelect
    <3>2. Goto(w, "claiming") /\ UNCHANGED mode /\ UNCHANGED rows
      BY <1>2, <2>3 DEF ClaimSelect
    <3> QED BY <1>1, <3>1, <3>2, GotoTyped, LocTyped
            DEF rows, RowsTyped, ProcsTyped, TypeOK, Labels
  <2> QED BY <2>2, <2>3
<1>3. CASE ClaimWrite(w)
  <2>1. [job[loc[w].op] EXCEPT !.st = "leased", !.tok = w] \in JobType
    <3>1. job[loc[w].op] \in JobType
      BY <1>1 DEF RowsTyped
    <3> QED BY <3>1 DEF JobType, JobStatuses
  <2>2. CASE Leave(w) /\ UNCHANGED rows
    BY <1>1, <2>2, ThreadMoves DEF rows, RowsTyped
  <2>3. CASE ~(Leave(w) /\ UNCHANGED rows)
    <3>1. /\ job' = [job EXCEPT ![loc[w].op] =
                         [job[loc[w].op] EXCEPT !.st = "leased", !.tok = w]]
          /\ Goto(w, "start")
          /\ UNCHANGED <<wf, plan, task, lastFailed, pdf, usedKeys, mode, loc>>
      BY <1>1, <1>3, <2>3 DEF ClaimWrite, RowsTyped
    <3>2. job' \in [Ops -> JobType]
      BY <1>1, <2>1, <3>1 DEF RowsTyped
    <3> QED BY <1>1, <3>1, <3>2, GotoTyped DEF RowsTyped, ProcsTyped, TypeOK, Labels
  <2> QED BY <2>2, <2>3
<1>4. CASE StartRead(w)
  <2>1. Snapshot(loc[w]) \in LocType
    BY <1>1, LocWrites
  <2>2. CASE Raise(w, "retryable")
    BY <1>1, <2>2, ThreadMoves DEF rows, RowsTyped, Errors
  <2>3. CASE ~Raise(w, "retryable")
    BY <1>1, <1>4, <2>1, <2>3
       DEF StartRead, Goto, rows, RowsTyped, ProcsTyped, TypeOK, Labels
  <2> QED BY <2>2, <2>3
<1>5. CASE StartWrite(w)
  <2>1. CASE Raise(w, "fatal")
    BY <1>1, <2>1, ThreadMoves DEF rows, RowsTyped, Errors
  <2>2. CASE ToExec(w) /\ Acknowledge(w)
    BY <2>2, ThreadMoves, AcknowledgeTyped
  <2>3. CASE /\ ToExec(w) /\ task' = TaskMoved(task, loc[w].op, "running")
             /\ UNCHANGED <<wf, plan, job, lastFailed, pdf, usedKeys>>
    <3>1. task' \in [TaskOps -> TaskType]
      BY <1>1, <2>3, TaskWrites DEF RowsTyped, TaskStatuses
    <3> QED BY <1>1, <2>3, <3>1, ThreadMoves DEF RowsTyped
  <2> QED BY <1>5, <2>1, <2>2, <2>3 DEF StartWrite
<1> QED BY <1>2, <1>3, <1>4, <1>5

LEMMA ExecTyped ==
    ASSUME TypeOK, NEW w \in Workers, ExecRead(w) \/ ExecWrite(w)
    PROVE  RowsTyped' /\ ProcsTyped'
<1> DEFINE op == loc[w].op
<1>1. loc[w] \in LocType /\ op \in Ops /\ RowsTyped
  BY LocWrites, TypeParts DEF TypeOK, LocType
<1>2. CASE ExecRead(w)
  <2>1. CASE \E err \in Errors : Raise(w, err)
    BY <1>1, <2>1, ThreadMoves DEF rows, RowsTyped
  <2>2. CASE ~ \E err \in Errors : Raise(w, err)
    <3>1. /\ loc' = [loc EXCEPT ![w] = Snapshot(@)]
          /\ Goto(w, "executing")
          /\ UNCHANGED <<rows, mode>>
      BY <1>2, <2>2 DEF ExecRead, MayRaise, Errors, Blockers
    <3>2. Snapshot(loc[w]) \in LocType
      BY <1>1, LocWrites
    <3> QED BY <1>1, <3>1, <3>2
            DEF Goto, rows, RowsTyped, ProcsTyped, TypeOK, Labels
  <2> QED BY <2>1, <2>2
<1>3. CASE ExecWrite(w)
  <2>1. CASE Raise(w, "fatal")
    BY <1>1, <2>1, ThreadMoves DEF rows, RowsTyped, Errors
  <2>2. CASE Acknowledge(w) /\ Leave(w)
    BY <2>2, ThreadMoves, AcknowledgeTyped
  <2>3. CASE /\ PublishPlan(w) \/ PublishStep(w) \/ PublishReview(w)
             /\ UNCHANGED <<lastFailed, pdf, usedKeys>>
             /\ Leave(w)
    <3>1. /\ \A o \in Ops : Finished(job, o, "succeeded") \in [Ops -> JobType]
          /\ op \in TaskOps =>
                Enqueued(Finished(job, op, "succeeded"), op + 1, 1, NoKey)
                   \in [Ops -> JobType]
      <4>1. \A o \in Ops : Finished(job, o, "succeeded") \in [Ops -> JobType]
        BY <1>1, JobWrites DEF RowsTyped, JobStatuses
      <4>2. op \in TaskOps => op + 1 \in Ops
        BY OpsFacts
      <4> QED BY <1>1, <4>1, <4>2, JobWrites
    <3>2. \A target \in {"waiting-plan-approval", "reviewing", "completed", "blocked"},
             code \in {"none", "review-required"} :
             WorkflowMoved(wf, target, code) \in WorkflowType
      BY <1>1, WorkflowWrites DEF RowsTyped, Phases, BlockCodes
    <3>3. CASE PublishPlan(w)
      BY <1>1, <2>3, <3>1, <3>2, <3>3, OpsFacts, ThreadMoves
         DEF PublishPlan, RowsTyped, PlanStatuses
    <3>4. CASE PublishStep(w)
      <4>1. task' \in [TaskOps -> TaskType]
        <5>1. TaskMoved(task, op, "completed") \in [TaskOps -> TaskType]
          BY <1>1, TaskWrites DEF RowsTyped, TaskStatuses
        <5>2. TaskMoved(TaskMoved(task, op, "completed"), op + 1, "queued")
                 \in [TaskOps -> TaskType]
          BY <5>1, TaskWrites DEF TaskStatuses
        <5> QED BY <3>4, <5>1, <5>2 DEF PublishStep
      <4> QED BY <1>1, <2>3, <3>1, <3>2, <3>4, <4>1, ThreadMoves
              DEF PublishStep, RowsTyped
    <3>5. CASE PublishReview(w)
      BY <1>1, <2>3, <3>1, <3>2, <3>5, OpsFacts, ThreadMoves
         DEF PublishReview, RowsTyped
    <3> QED BY <2>3, <3>3, <3>4, <3>5
  <2> QED BY <1>3, <2>1, <2>2, <2>3 DEF ExecWrite
<1> QED BY <1>2, <1>3

LEMMA LifeTyped ==
    ASSUME TypeOK, NEW w \in Workers,
           Heartbeat(w) \/ Boot(w) \/ Drain(w) \/ Crash(w) \/ Busy(w)
    PROVE  TypeOK'
<1>1. NoLoc \in LocType /\ loc[w].op \in Ops
  BY LocWrites DEF TypeOK, LocType
<1>2. CASE Heartbeat(w)
  <2>1. job' \in [Ops -> JobType]
    <3>1. [job[loc[w].op] EXCEPT !.exp = FALSE] \in JobType
      <4>1. job[loc[w].op] \in JobType
        BY <1>1 DEF TypeOK
      <4> QED BY <4>1 DEF JobType
    <3> QED BY <1>1, <1>2, <3>1 DEF Heartbeat, TypeOK
  <2> QED BY <1>2, <2>1 DEF Heartbeat, procs, users, TypeOK
<1>3. CASE Boot(w)
  BY <1>3 DEF Boot, Goto, rows, users, TypeOK, Labels
<1>4. CASE Drain(w)
  BY <1>4 DEF Drain, rows, users, TypeOK
<1>5. CASE Crash(w)
  BY <1>1, <1>5 DEF Crash, Goto, rows, users, TypeOK, Labels
<1>6. CASE Busy(w)
  <2>1. "fatal" \in Errors /\ stops' \in Nat
    BY <1>6 DEF Errors, Busy, TypeOK
  <2>2. UNCHANGED rows /\ (Leave(w) \/ Raise(w, "fatal"))
    BY <1>6 DEF Busy, Raise
  <2>3. ProcsTyped'
    BY <2>1, <2>2, ThreadMoves
  <2> QED BY <1>6, <2>1, <2>2, <2>3, TypeParts
          DEF Busy, rows, users, RowsTyped, UsersTyped
<1> QED BY <1>2, <1>3, <1>4, <1>5, <1>6

LEMMA ExpiryTyped ==
    ASSUME TypeOK, NEW op \in Ops, LeaseExpires(op)
    PROVE  TypeOK'
<1>1. [job[op] EXCEPT !.exp = TRUE] \in JobType
  <2>1. job[op] \in JobType
    BY DEF TypeOK
  <2> QED BY <2>1 DEF JobType
<1>2. job' \in [Ops -> JobType]
  BY <1>1 DEF LeaseExpires, TypeOK
<1> QED BY <1>2 DEF LeaseExpires, procs, users, TypeOK

LEMMA AskTyped ==
    ASSUME TypeOK, NEW c \in Clients,
           \/ AskApprove(c) \/ AskCancel(c)
           \/ \E key \in Keys : AskRetry(c, key) \/ AskResume(c, key)
    PROVE  TypeOK'
<1>1. /\ 1 \in Ops /\ PlanOp \in Ops /\ lastFailed.op \in Ops
      /\ lastFailed.att \in Nat /\ job[1].att \in Nat
  BY OpsFacts DEF TypeOK, JobType
<1>2. ASSUME NEW op \in Ops, NEW att \in Nat
      PROVE  /\ \A kind \in {"approve", "cancel"} : Request(kind, NoKey, op, att) \in ReqType
             /\ \A kind \in Keyed, key \in Keys : Request(kind, key, op, att) \in ReqType
  <2>1. TaskVer(op) \in Nat
    BY DEF TaskVer, TypeOK, TaskType
  <2> QED BY <2>1 DEF Request, ReqType, Requests, TypeOK
<1>3. PICK r \in ReqType : Ask(c, r)
  BY <1>1, <1>2 DEF AskApprove, AskCancel, AskRetry, AskResume, Keyed
<1> QED BY <1>3 DEF Ask, rows, procs, TypeOK

LEMMA AnswerTyped ==
    ASSUME TypeOK, NEW c \in Clients,
           Approve(c) \/ RequestCancel(c) \/ RetryWorkflow(c) \/ ResumeWorkflow(c)
    PROVE  TypeOK'
<1>1. /\ RowsTyped /\ req[c] \in ReqType
      /\ req[c].op \in Ops /\ req[c].att + 1 \in Nat
      /\ req[c].kind \in Keyed => req[c].key \in Keys
  <2>1. req[c] \in ReqType
    BY DEF TypeOK
  <2> QED BY <2>1, TypeParts DEF ReqType, Requests, Keyed
<1>2. ProcsTyped' /\ UsersTyped'
  <2>1. Answer(c)
    BY DEF Approve, RequestCancel, RetryWorkflow, ResumeWorkflow, Requeue
  <2>2. NoReq \in ReqType
    BY OpsFacts DEF NoReq, ReqType, Requests, Phases, PlanOp
  <2> QED BY <2>1, <2>2 DEF Answer, procs, ProcsTyped, UsersTyped, TypeOK
<1>3. CASE UNCHANGED rows
  BY <1>1, <1>2, <1>3, TypeParts DEF rows, RowsTyped
<1>4. CASE Approve(c) /\ ~UNCHANGED rows
  <2>1. task' \in [TaskOps -> TaskType]
    <3>1. [i \in TaskOps |-> [st |-> "pending", ver |-> 1]] \in [TaskOps -> TaskType]
      BY DEF TaskType, TaskStatuses
    <3> QED BY <1>4, <3>1, TaskWrites DEF Approve, TaskStatuses
  <2>2. job' \in [Ops -> JobType]
    <3>1. 1 \in Ops
      BY OpsFacts
    <3>2. Enqueued(job, 1, 1, NoKey) \in [Ops -> JobType]
      BY <1>1, <3>1, JobWrites DEF RowsTyped
    <3> QED BY <1>1, <1>4, <3>2 DEF Approve
  <2>3. wf' \in WorkflowType
    BY <1>1, <1>4, WorkflowWrites DEF Approve, RowsTyped, Phases, BlockCodes
  <2> QED BY <1>1, <1>2, <1>4, <2>1, <2>2, <2>3, TypeParts
          DEF Approve, RowsTyped, PlanStatuses
<1>5. CASE RequestCancel(c) /\ ~UNCHANGED rows
  <2> DEFINE flagged == [wf EXCEPT !.cancel = TRUE, !.rev = @ + 1]
  <2>1. flagged \in WorkflowType /\ wf \in WorkflowType
    <3>1. wf \in WorkflowType /\ wf.rev + 1 \in Nat
      BY <1>1 DEF RowsTyped, WorkflowType
    <3>2. \A row \in WorkflowType, n \in Nat :
             [row EXCEPT !.cancel = TRUE, !.rev = n] \in WorkflowType
      BY DEF WorkflowType
    <3> QED BY <3>1, <3>2
  <2>2. task' \in [TaskOps -> TaskType]
    BY <1>1, <1>5, TaskWrites DEF RequestCancel, RowsTyped
  <2>3. job' \in [Ops -> JobType]
    BY <1>1, <1>5, JobWrites, OpsFacts DEF RequestCancel, RowsTyped
  <2>4. wf' \in WorkflowType
    <3>1. \A row \in WorkflowType : WorkflowMoved(row, "cancelled", "none") \in WorkflowType
      BY WorkflowWrites DEF Phases, BlockCodes
    <3> QED BY <1>5, <2>1, <3>1 DEF RequestCancel
  <2> QED BY <1>1, <1>2, <1>5, <2>2, <2>3, <2>4, TypeParts DEF RequestCancel, RowsTyped
<1>6. CASE (RetryWorkflow(c) \/ ResumeWorkflow(c)) /\ ~UNCHANGED rows
  <2>1. /\ task' = IF req[c].op \in TaskOps THEN TaskMoved(task, req[c].op, "queued")
                                            ELSE task
        /\ job' = Enqueued(job, req[c].op, req[c].att + 1, req[c].key)
        /\ wf' = WorkflowMoved(wf, PhaseOf(req[c].op), "none")
        /\ usedKeys' = usedKeys \cup {req[c].key}
        /\ UNCHANGED <<plan, lastFailed, pdf>>
    BY <1>6 DEF RetryWorkflow, ResumeWorkflow, Requeue
  <2>2. task' \in [TaskOps -> TaskType]
    BY <1>1, <2>1, TaskWrites DEF RowsTyped, TaskStatuses
  <2>3. job' \in [Ops -> JobType]
    <3>1. req[c].key \in Keys
      BY <1>1, <1>6 DEF RetryWorkflow, ResumeWorkflow, Keyed
    <3> QED BY <1>1, <2>1, <3>1, JobWrites DEF RowsTyped
  <2>4. wf' \in WorkflowType
    BY <1>1, <2>1, WorkflowWrites DEF RowsTyped, Phases, BlockCodes, PhaseOf
  <2>5. usedKeys' \subseteq Keys
    BY <1>1, <1>6, <2>1 DEF RowsTyped, RetryWorkflow, ResumeWorkflow, Keyed
  <2> QED BY <1>1, <1>2, <2>1, <2>2, <2>3, <2>4, <2>5, TypeParts DEF RowsTyped
<1> QED BY <1>3, <1>4, <1>5, <1>6

LEMMA TypeNext == TypeOK /\ [Next]_vars => TypeOK'
<1> SUFFICES ASSUME TypeOK, [Next]_vars PROVE TypeOK'
  OBVIOUS
<1>1. ASSUME NEW w \in Workers, WorkerStep(w) PROVE TypeOK'
  <2>1. UsersTyped'
    <3>1. UNCHANGED <<users, stops>>
      BY <1>1 DEF WorkerStep, RecoverExpired, SettleNextExpired, SettleRead,
                  SettleWrite, SweepRead, SweepWrite, OrphanRead, OrphanCheck,
                  OrphanWrite, ClaimSelect, ClaimWrite, StartRead, StartWrite,
                  ExecRead, ExecWrite
    <3> QED BY <3>1, TypeParts DEF users, UsersTyped
  <2>2. RowsTyped' /\ ProcsTyped'
    BY <1>1, RecoveryTyped, SettleTyped, SweepTyped, OrphanTyped, ClaimTyped, ExecTyped
       DEF WorkerStep
  <2> QED BY <2>1, <2>2, TypeParts
<1>2. ASSUME NEW w \in Workers, Heartbeat(w) \/ Boot(w) \/ Drain(w) \/ Crash(w) \/ Busy(w)
      PROVE  TypeOK'
  BY <1>2, LifeTyped
<1>3. ASSUME NEW c \in Clients, UserStep(c) PROVE TypeOK'
  BY <1>3, AskTyped, AnswerTyped DEF UserStep
<1>4. ASSUME NEW op \in Ops, LeaseExpires(op) PROVE TypeOK'
  BY <1>4, ExpiryTyped
<1>5. CASE ImportPdf
  BY <1>5 DEF ImportPdf, procs, users, TypeOK
<1>6. CASE UNCHANGED vars
  BY <1>6 DEF vars, TypeOK
<1> QED BY <1>1, <1>2, <1>3, <1>4, <1>5, <1>6 DEF Next

LEMMA TypeInit == Init => TypeOK
<1> SUFFICES ASSUME Init PROVE TypeOK
  OBVIOUS
<1>1. NoLoc \in LocType
  BY OpsFacts DEF NoLoc, LocType, Phases, Errors, PlanOp
<1>2. NoReq \in ReqType
  BY OpsFacts DEF NoReq, ReqType, Requests, Phases, PlanOp
<1>3. NoJob \in JobType /\ Queued(1, NoKey) \in JobType
  BY DEF NoJob, Queued, JobType, JobStatuses
<1> QED BY <1>1, <1>2, <1>3, OpsFacts
        DEF Init, TypeOK, TaskType, Phases, BlockCodes, PlanStatuses, Labels

\* Every row, thread and request stays well typed: no handler writes a status
\* outside its table, no retry uses a key nobody sent.
THEOREM TypeCorrect == Spec => []TypeOK
<1> QED BY TypeInit, TypeNext, PTL DEF Spec

-----------------------------------------------------------------------------
(* What the writes change and what they leave. *)

LEMMA FinishedFacts ==
    ASSUME NEW jobs \in [Ops -> JobType], NEW op \in Ops, NEW st
    PROVE  /\ \A o \in Ops : Finished(jobs, op, st)[o].att = jobs[o].att
           /\ \A o \in Ops \ {op} : Finished(jobs, op, st)[o] = jobs[o]
           /\ Finished(jobs, op, st)[op].st = st
<1>1. jobs[op] \in JobType
  OBVIOUS
<1>2. Finished(jobs, op, st)[op] = [jobs[op] EXCEPT !.st = st, !.tok = NoWorker, !.exp = FALSE]
  BY DEF Finished
<1> QED BY <1>1, <1>2 DEF Finished, JobType

LEMMA EnqueuedFacts ==
    ASSUME NEW jobs \in [Ops -> JobType], NEW op \in Ops, NEW att \in Nat, NEW key,
           jobs[op].att < att
    PROVE  /\ \A o \in Ops \ {op} : Enqueued(jobs, op, att, key)[o] = jobs[o]
           /\ Enqueued(jobs, op, att, key)[op].st = "queued"
           /\ Enqueued(jobs, op, att, key)[op].att = att
<1>1. jobs[op].att \in Nat
  BY DEF JobType
<1> QED BY <1>1 DEF Enqueued, Queued, NoJob

LEMMA CancelQueuedFacts ==
    ASSUME NEW jobs \in [Ops -> JobType], NEW o \in Ops
    PROVE  /\ CancelQueued(jobs)[o].att = jobs[o].att
           /\ CancelQueued(jobs)[o].st # "queued"
           /\ jobs[o].st # "queued" => CancelQueued(jobs)[o] = jobs[o]
           /\ jobs[o].st = "queued" => CancelQueued(jobs)[o].st = "cancelled"
<1>1. jobs[o] \in JobType
  OBVIOUS
<1> QED BY <1>1 DEF CancelQueued, JobType

LEMMA TaskMovedFacts ==
    ASSUME NEW tasks \in [TaskOps -> TaskType], NEW i, NEW target
    PROVE  /\ \A k \in TaskOps \ {i} : TaskMoved(tasks, i, target)[k] = tasks[k]
           /\ i \in TaskOps => /\ TaskMoved(tasks, i, target)[i].st = target
                               /\ TaskMoved(tasks, i, target)[i].ver = tasks[i].ver + 1
                               /\ tasks[i].ver \in Nat
BY DEF TaskMoved, TaskType

LEMMA CancelTasksFacts ==
    ASSUME NEW tasks \in [TaskOps -> TaskType], NEW i \in TaskOps
    PROVE  /\ CancelTasks(tasks)[i].ver = tasks[i].ver
           /\ tasks[i].st \in {"absent", "completed"} => CancelTasks(tasks)[i] = tasks[i]
           /\ tasks[i].st \notin {"absent", "completed"} =>
                 CancelTasks(tasks)[i].st = "cancelled"
<1>1. tasks[i] \in TaskType
  OBVIOUS
<1> QED BY <1>1 DEF CancelTasks, TaskCancellable, TaskType, TaskStatuses

LEMMA WorkflowMovedFacts ==
    ASSUME NEW row \in WorkflowType, NEW target, NEW code
    PROVE  /\ WorkflowMoved(row, target, code).status = target
           /\ WorkflowMoved(row, target, code).cancel = row.cancel
           /\ row.status # target => WorkflowMoved(row, target, code).rev = row.rev + 1
           /\ row.status = target => WorkflowMoved(row, target, code) = row
           /\ row.rev \in Nat
BY DEF WorkflowMoved, WorkflowType

LEMMA SwapFacts ==
    ASSUME NEW st, NEW rev, NEW target, st # target, WorkflowSwaps(st, rev, target)
    PROVE  wf.status = st /\ wf.rev = rev
BY DEF WorkflowSwaps

-----------------------------------------------------------------------------
(* PhaseHasItsJob, by the one operation that is active. *)

OneActive(op) ==
    /\ \A o \in Ops : Active(job[o]) <=> o = op
    /\ wf.status = PhaseOf(op)
    /\ \A i \in TaskOps : task[i].st \in {"queued", "running"} <=> i = op

NoneActive ==
    /\ \A o \in Ops : ~Active(job[o])
    /\ wf.status \notin Working
    /\ \A i \in TaskOps : task[i].st \notin {"queued", "running"}

LEMMA PhaseFacts ==
    /\ PhaseOf(PlanOp) = "planning" /\ PhaseOf(ReviewOp) = "reviewing"
    /\ \A i \in TaskOps : PhaseOf(i) = "running"
    /\ \A op : PhaseOf(op) \in Working
BY OpsFacts DEF PhaseOf, Working

LEMMA ActiveCases == PhaseHasItsJob <=> NoneActive \/ \E op \in Ops : OneActive(op)
<1>1. PhaseHasItsJob => NoneActive \/ \E op \in Ops : OneActive(op)
  <2> SUFFICES ASSUME PhaseHasItsJob PROVE NoneActive \/ \E op \in Ops : OneActive(op)
    OBVIOUS
  <2>1. CASE wf.status = "planning"
    <3>1. OneActive(PlanOp)
      BY <2>1, OpsFacts DEF PhaseHasItsJob, OneActive, PhaseOf
    <3> QED BY <3>1, OpsFacts
  <2>2. CASE wf.status = "reviewing"
    <3>1. OneActive(ReviewOp)
      BY <2>2, OpsFacts DEF PhaseHasItsJob, OneActive, PhaseOf
    <3> QED BY <3>1, OpsFacts
  <2>3. CASE wf.status = "running"
    <3>1. PICK i \in TaskOps : Active(job[i])
      BY <2>3 DEF PhaseHasItsJob
    <3>2. OneActive(i)
      BY <2>3, <3>1, OpsFacts DEF PhaseHasItsJob, OneActive, PhaseOf
    <3> QED BY <3>2, OpsFacts
  <2>4. CASE wf.status \notin Working
    <3>1. NoneActive
      BY <2>4, OpsFacts DEF PhaseHasItsJob, NoneActive, Working
    <3> QED BY <3>1
  <2> QED BY <2>1, <2>2, <2>3, <2>4 DEF Working
<1>2. NoneActive => PhaseHasItsJob
  BY OpsFacts DEF PhaseHasItsJob, NoneActive, Working
<1>3. ASSUME NEW op \in Ops, OneActive(op) PROVE PhaseHasItsJob
  BY <1>3, OpsFacts DEF PhaseHasItsJob, OneActive, PhaseOf
<1> QED BY <1>1, <1>2, <1>3

LEMMA ActiveCasesNext == NoneActive' \/ (\E op \in Ops : OneActive(op)') => PhaseHasItsJob'
<1>1. NoneActive' => PhaseHasItsJob'
  BY OpsFacts DEF PhaseHasItsJob, NoneActive, Working
<1>2. ASSUME NEW op \in Ops, OneActive(op)' PROVE PhaseHasItsJob'
  BY <1>2, OpsFacts DEF PhaseHasItsJob, OneActive, PhaseOf
<1> QED BY <1>1, <1>2

LEMMA ActiveIsOne ==
    ASSUME PhaseHasItsJob, NEW op \in Ops, Active(job[op])
    PROVE  OneActive(op)
BY ActiveCases DEF NoneActive, OneActive

LEMMA IdleIsNone ==
    ASSUME PhaseHasItsJob, wf.status \notin Working
    PROVE  NoneActive
BY ActiveCases, OpsFacts DEF OneActive, PhaseOf, Working

-----------------------------------------------------------------------------
(* Onward: what every step leaves of the rows a reading may rely on. *)

Onward ==
    /\ wf.rev <= wf'.rev
    /\ wf'.rev = wf.rev => wf'.status = wf.status /\ wf'.cancel = wf.cancel
    /\ plan = "approved" => plan' = "approved"
    /\ \A i \in TaskOps :
          /\ task[i].ver <= task'[i].ver
          /\ task'[i].ver = task[i].ver => task'[i].st \in {task[i].st, "cancelled"}
    /\ \A op \in Ops :
          /\ job[op].att <= job'[op].att
          /\ job'[op].att = job[op].att /\ job'[op].st = "queued" => job[op].st = "queued"
          /\ wf'.cancel /\ ~wf.cancel => job'[op].st # "queued"
    /\ wf.cancel /\ NoneLeased => NoneLeased'
    /\ wf.status = "failed" => lastFailed' = lastFailed

\* The labels at which a thread relies on nothing it has read.
Idle == Labels \ {"settling", "starting", "executing", "sweeping", "claiming",
                  "orphaned", "blocking"}

LEMMA UnchangedOnward ==
    ASSUME TypeOK, RowsAgree, UNCHANGED <<wf, plan, task, job, lastFailed>>
    PROVE  RowsAgree' /\ Onward
<1>1. /\ wf.rev \in Nat /\ \A i \in TaskOps : task[i].ver \in Nat
      /\ \A op \in Ops : job[op].att \in Nat
  BY DEF TypeOK, TaskType, JobType
<1>2. Onward
  BY <1>1 DEF Onward, NoneLeased
<1>3. RowsAgree'
  BY DEF RowsAgree, PhaseHasItsJob, StepsInOrder, PlanGate, NoEarlyJob, CancelWaitsForJob
<1> QED BY <1>2, <1>3

LEMMA IdleIsSound ==
    ASSUME NEW w \in Workers, pc'[w] \in Idle
    PROVE  ThreadSound(w)'
BY DEF Idle, ThreadSound, HandlerSound, SweepSound, ClaimSound, OrphanSound

LEMMA CurrentStays ==
    ASSUME TypeOK, TypeOK', Onward, NEW r, Current(r), r.rev \in Nat
    PROVE  /\ r.rev <= wf'.rev
           /\ r.rev = wf'.rev => /\ r.rev = wf.rev
                                /\ r.st = wf'.status /\ r.cancel = wf'.cancel
<1>1. wf.rev \in Nat /\ wf'.rev \in Nat
  BY DEF TypeOK
<1>2. wf.rev <= wf'.rev /\ r.rev <= wf.rev
  BY DEF Onward, Current
<1>3. r.rev <= wf'.rev /\ (r.rev = wf'.rev => r.rev = wf.rev /\ wf'.rev = wf.rev)
  BY <1>1, <1>2
<1>4. wf'.rev = wf.rev => wf'.status = wf.status /\ wf'.cancel = wf.cancel
  BY DEF Onward
<1>5. r.rev = wf.rev => r.st = wf.status /\ r.cancel = wf.cancel
  BY DEF Current
<1> QED BY <1>3, <1>4, <1>5

\* An onward step falsifies nothing another thread has read ...
LEMMA ReadingStays ==
    ASSUME TypeOK, TypeOK', RowsAgree, Onward, NEW w \in Workers, ThreadSound(w),
           pc'[w] = pc[w], loc'[w] = loc[w]
    PROVE  ThreadSound(w)'
<1> DEFINE l == loc[w]
<1>1. l \in LocType /\ l.op \in Ops /\ l.att \in Nat /\ l.tver \in Nat /\ l.rev \in Nat
  <2>1. l \in LocType
    BY DEF TypeOK
  <2> QED BY <2>1 DEF LocType
<1>2. wf.rev \in Nat /\ wf'.rev \in Nat
  BY DEF TypeOK
<1>3. Current(l) => Current(l)'
  BY <1>1, CurrentStays DEF Current
<1>4. HandlerSound(w)'
  BY <1>3 DEF HandlerSound, ThreadSound
<1>5. SweepSound(w)'
  <2> SUFFICES ASSUME pc[w] = "sweeping" PROVE l.rev = wf'.rev => NoneLeased'
    BY <1>3 DEF SweepSound, ThreadSound
  <2> SUFFICES ASSUME l.rev = wf'.rev PROVE NoneLeased'
    OBVIOUS
  <2>1. Current(l) /\ l.cancel /\ (l.rev = wf.rev => NoneLeased)
    BY DEF SweepSound, ThreadSound
  <2>2. l.rev = wf.rev
    <3>1. Current(l)
      BY <2>1
    <3> QED BY <1>1, <3>1, CurrentStays
  <2>3. wf.cancel
    BY <2>1, <2>2 DEF Current
  <2> QED BY <2>1, <2>2, <2>3 DEF Onward
<1>6. ClaimSound(w)'
  <2> SUFFICES ASSUME pc[w] = "claiming"
      PROVE  /\ l.att > 0 /\ l.att <= job'[l.op].att
             /\ job'[l.op].att = l.att /\ job'[l.op].st = "queued" => ~wf'.cancel
    BY DEF ClaimSound
  <2>1. /\ l.att > 0 /\ l.att <= job[l.op].att
        /\ job[l.op].att = l.att /\ job[l.op].st = "queued" => ~wf.cancel
    BY DEF ClaimSound, ThreadSound
  <2>2. /\ job[l.op].att <= job'[l.op].att
        /\ job'[l.op].att = job[l.op].att /\ job'[l.op].st = "queued" => job[l.op].st = "queued"
        /\ wf'.cancel /\ ~wf.cancel => job'[l.op].st # "queued"
    BY <1>1 DEF Onward
  <2>3. job[l.op].att \in Nat /\ job'[l.op].att \in Nat
    BY <1>1 DEF TypeOK, JobType
  <2>4. wf.cancel \in BOOLEAN /\ wf'.cancel \in BOOLEAN
    BY DEF TypeOK
  <2>5. l.att <= job'[l.op].att
    BY <1>1, <2>1, <2>2, <2>3
  <2>6. ASSUME job'[l.op].att = l.att, job'[l.op].st = "queued" PROVE ~wf'.cancel
    <3>1. job[l.op].att = l.att
      BY <1>1, <2>1, <2>2, <2>3, <2>6
    <3> QED BY <2>1, <2>2, <2>4, <2>6, <3>1
  <2> QED BY <2>1, <2>5, <2>6
<1>7. OrphanSound(w)'
  <2> SUFFICES ASSUME pc[w] \in {"orphaned", "blocking"}
      PROVE  OrphanSound(w)'
    BY DEF OrphanSound
  <2>1. OrphanSound(w) /\ l.op \in TaskOps
    BY DEF OrphanSound, ThreadSound
  <2>2. /\ task[l.op].ver <= task'[l.op].ver
        /\ task'[l.op].ver = task[l.op].ver => task'[l.op].st \in {task[l.op].st, "cancelled"}
        /\ task[l.op].ver \in Nat /\ task'[l.op].ver \in Nat
    BY <2>1 DEF Onward, TypeOK, TaskType
  <2>3. /\ plan = "approved" /\ l.tst = "running"
        /\ l.tver <= task[l.op].ver
        /\ l.tver = task[l.op].ver => task[l.op].st \in {"running", "cancelled"}
        /\ pc[w] = "blocking" =>
              l.st = "running" /\ (l.tver < task[l.op].ver \/ task[l.op].st = "cancelled")
    BY <2>1 DEF OrphanSound
  <2>4. plan' = "approved"
    BY <2>3 DEF Onward
  <2>5. l.tver <= task'[l.op].ver
    BY <1>1, <2>2, <2>3
  <2>6. l.tver = task'[l.op].ver => task'[l.op].ver = task[l.op].ver /\ l.tver = task[l.op].ver
    BY <1>1, <2>2, <2>3
  <2>7. l.tver = task'[l.op].ver => task'[l.op].st \in {"running", "cancelled"}
    BY <2>2, <2>3, <2>6
  <2>8. pc[w] = "blocking" => l.tver < task'[l.op].ver \/ task'[l.op].st = "cancelled"
    <3>1. SUFFICES ASSUME pc[w] = "blocking", ~(l.tver < task'[l.op].ver)
          PROVE task'[l.op].st = "cancelled"
      OBVIOUS
    <3>2. l.tver = task'[l.op].ver
      BY <1>1, <2>2, <2>5, <3>1
    <3>3. task[l.op].st = "cancelled"
      BY <1>1, <2>2, <2>3, <2>6, <3>1, <3>2
    <3> QED BY <2>2, <2>6, <3>2, <3>3
  <2> QED BY <2>1, <2>3, <2>4, <2>5, <2>7, <2>8 DEF OrphanSound
<1> QED BY <1>4, <1>5, <1>6, <1>7 DEF ThreadSound

\* ... or another request.
LEMMA RequestStays ==
    ASSUME TypeOK, TypeOK', Onward, NEW c \in Clients, RequestSound(c), req'[c] = req[c]
    PROVE  RequestSound(c)'
<1> DEFINE r == req[c]
<1> SUFFICES ASSUME r.kind # "none" PROVE RequestSound(c)'
  BY DEF RequestSound
<1>1. r.rev \in Nat
  <2>1. r \in ReqType
    BY DEF TypeOK
  <2> QED BY <2>1 DEF ReqType, Requests
<1>2. Current(r)
  BY DEF RequestSound
<1>3. Current(r)' /\ (r.rev = wf'.rev => r.rev = wf.rev)
  BY <1>1, <1>2, CurrentStays DEF Current
<1>4. r.kind = "cancel" => (r.cancel /\ r.rev = wf'.rev => NoneLeased')
  BY <1>2, <1>3 DEF RequestSound, Current, Onward
<1>5. r.kind = "retry" => (r.rev = wf'.rev => r.op = lastFailed'.op)
  BY <1>2, <1>3 DEF RequestSound, Current, Onward
<1> QED BY <1>3, <1>4, <1>5 DEF RequestSound

-----------------------------------------------------------------------------
(* The kinds of row writes, one lemma each. *)

RowFacts ==
    /\ wf \in WorkflowType /\ wf' \in WorkflowType
    /\ wf.rev \in Nat /\ wf'.rev \in Nat
    /\ \A i \in TaskOps : task[i] \in TaskType /\ task[i].ver \in Nat
    /\ \A op \in Ops : job[op] \in JobType /\ job[op].att \in Nat

LEMMA RowFactsHold ==
    ASSUME TypeOK, TypeOK' PROVE RowFacts
BY DEF RowFacts, TypeOK, WorkflowType, TaskType, JobType

\* Everything is cancelled.
CancelsAll ==
    /\ \A op \in Ops : job'[op].att = job[op].att /\ ~Active(job'[op])
    /\ task' = CancelTasks(task)
    /\ wf'.status = "cancelled" /\ wf.rev < wf'.rev
    /\ UNCHANGED <<plan, lastFailed>>

LEMMA CancelsAllOnward ==
    ASSUME TypeOK, TypeOK', RowsAgree, CancelsAll
    PROVE  RowsAgree' /\ Onward
<1>1. RowFacts
  BY RowFactsHold
<1>2. \A i \in TaskOps :
         /\ task'[i].ver = task[i].ver
         /\ task[i].st \in {"absent", "completed"} => task'[i] = task[i]
         /\ task[i].st \notin {"absent", "completed"} => task'[i].st = "cancelled"
  BY CancelTasksFacts DEF CancelsAll, TypeOK
<1>3. Onward
  <2>1. ~(wf'.rev = wf.rev) /\ wf.rev <= wf'.rev
    BY <1>1 DEF CancelsAll, RowFacts
  <2>2. \A op \in Ops : job'[op].st # "queued" /\ job'[op].st # "leased"
    BY DEF CancelsAll, Active
  <2>3. \A i \in TaskOps : task[i].ver <= task'[i].ver /\ task'[i].st \in {task[i].st, "cancelled"}
    BY <1>1, <1>2 DEF RowFacts
  <2>4. \A op \in Ops : job[op].att <= job'[op].att
    BY <1>1 DEF CancelsAll, RowFacts
  <2> QED BY <2>1, <2>2, <2>3, <2>4 DEF Onward, CancelsAll, NoneLeased
<1>4. PhaseHasItsJob'
  <2>1. NoneActive'
    BY <1>2 DEF NoneActive, CancelsAll, Working
  <2> QED BY <2>1, ActiveCasesNext
<1>5. StepsInOrder'
  BY <1>2 DEF RowsAgree, StepsInOrder
<1>6. PlanGate'
  BY <1>2 DEF RowsAgree, PlanGate, CancelsAll
<1>7. NoEarlyJob'
  <2>1. \A i \in TaskOps : task'[i].st \in {"absent", "pending"} => job'[i].att = 0
    BY <1>2, OpsFacts DEF RowsAgree, NoEarlyJob, CancelsAll
  <2>2. job'[ReviewOp].att > 0 => \A i \in TaskOps : task'[i].st = "completed"
    BY <1>2, OpsFacts DEF RowsAgree, NoEarlyJob, CancelsAll
  <2> QED BY <2>1, <2>2 DEF NoEarlyJob, CancelsAll
<1>8. CancelWaitsForJob'
  BY DEF CancelWaitsForJob, CancelsAll
<1> QED BY <1>3, <1>4, <1>5, <1>6, <1>7, <1>8 DEF RowsAgree

\* The active job ends and the workflow leaves its phase: it is blocked or
\* failed, the plan is offered, or the review has decided.
EndsAt(op) ==
    /\ \E st \in {"failed", "succeeded"} : job' = Finished(job, op, st)
    /\ \A i \in TaskOps \ {op} : task'[i] = task[i]
    /\ op \in TaskOps => task'[op].st \in {"blocked", "failed"} /\ task'[op].ver = task[op].ver + 1
    /\ wf'.status \notin Working
    /\ ~wf.cancel /\ ~wf'.cancel /\ wf.rev < wf'.rev
    /\ wf'.status = "failed" => lastFailed'.op = op
    /\ plan' = plan \/ (op = PlanOp /\ plan' = "pending")
    /\ wf'.status = "waiting-plan-approval" => plan' = "pending"

LEMMA EndsOnward ==
    ASSUME TypeOK, TypeOK', RowsAgree, NEW op \in Ops, OneActive(op), EndsAt(op)
    PROVE  RowsAgree' /\ Onward
<1>1. RowFacts
  BY RowFactsHold
<1>2. /\ \A o \in Ops : job'[o].att = job[o].att
      /\ \A o \in Ops \ {op} : job'[o] = job[o]
      /\ job'[op].st \in {"failed", "succeeded"}
  BY FinishedFacts DEF EndsAt, TypeOK
<1>3. /\ \A o \in Ops : ~Active(job'[o])
      /\ \A i \in TaskOps : task'[i].st \notin {"queued", "running"}
  BY <1>2 DEF OneActive, Active, EndsAt
<1>4. wf.status = PhaseOf(op) /\ wf.status # "failed"
  BY DEF OneActive, PhaseOf
<1>5. op = PlanOp => plan # "approved"
  BY <1>4, PhaseFacts DEF RowsAgree, PlanGate
<1>6. Onward
  <2>1. wf'.rev # wf.rev /\ wf.rev <= wf'.rev
    BY <1>1 DEF EndsAt, RowFacts
  <2>2. \A i \in TaskOps : /\ task[i].ver <= task'[i].ver
                           /\ task'[i].ver = task[i].ver => task'[i].st = task[i].st
    BY <1>1 DEF EndsAt, RowFacts
  <2>3. \A o \in Ops : job[o].att <= job'[o].att /\ job'[o].st # "queued" /\ job'[o].st # "leased"
    BY <1>1, <1>2, <1>3 DEF RowFacts, Active
  <2>4. plan = "approved" => plan' = "approved"
    BY <1>5 DEF EndsAt
  <2> QED BY <1>4, <2>1, <2>2, <2>3, <2>4 DEF Onward, NoneLeased
<1>7. PhaseHasItsJob'
  <2>1. NoneActive'
    BY <1>3 DEF NoneActive, EndsAt
  <2> QED BY <2>1, ActiveCasesNext
<1>8. \A i \in TaskOps :
         /\ task'[i].st \in {"absent", "pending", "cancelled", "completed"} => task'[i] = task[i]
         /\ task[i].st \in {"absent", "pending", "cancelled", "completed"} => task'[i] = task[i]
  BY DEF EndsAt, OneActive
<1>9. StepsInOrder'
  BY <1>8 DEF RowsAgree, StepsInOrder
<1>10. PlanGate'
  <2>1. wf'.status = "failed" /\ lastFailed'.op = PlanOp => plan' # "approved"
    BY <1>5 DEF EndsAt
  <2>2. plan' # "approved" => plan # "approved"
    BY <1>5 DEF EndsAt
  <2>3. plan' # "approved" => \A i \in TaskOps : task'[i] = [st |-> "absent", ver |-> 0]
    <3> SUFFICES ASSUME plan' # "approved", NEW i \in TaskOps
        PROVE task'[i] = [st |-> "absent", ver |-> 0]
      OBVIOUS
    <3>1. task[i] = [st |-> "absent", ver |-> 0]
      BY <2>2 DEF RowsAgree, PlanGate
    <3>2. task'[i] = task[i]
      BY <1>8, <3>1
    <3> QED BY <3>1, <3>2
  <2>4. wf'.status \notin {"planning", "running", "reviewing"}
    BY DEF EndsAt, Working
  <2> QED BY <2>1, <2>3, <2>4 DEF PlanGate, EndsAt
<1>11. NoEarlyJob'
  BY <1>2, <1>3, <1>8, OpsFacts DEF RowsAgree, NoEarlyJob
<1>12. CancelWaitsForJob'
  BY DEF CancelWaitsForJob, EndsAt
<1> QED BY <1>6, <1>7, <1>9, <1>10, <1>11, <1>12 DEF RowsAgree

\* A job changes hands between queued and leased, a task between queued and
\* running; nothing else moves.
Hands ==
    /\ UNCHANGED <<wf, plan, lastFailed>>
    /\ \A op \in Ops :
          /\ job'[op].att = job[op].att
          /\ Active(job'[op]) <=> Active(job[op])
          /\ job'[op].st = "queued" => job[op].st = "queued"
    /\ wf.cancel /\ NoneLeased => NoneLeased'
    /\ \A i \in TaskOps :
          \/ task'[i] = task[i]
          \/ /\ {task[i].st, task'[i].st} \subseteq {"queued", "running"}
             /\ task'[i].ver = task[i].ver + 1

LEMMA HandsOnward ==
    ASSUME TypeOK, TypeOK', RowsAgree, Hands
    PROVE  RowsAgree' /\ Onward
<1>1. RowFacts
  BY RowFactsHold
<1>2. Onward
  <2>1. wf.rev <= wf'.rev
    BY <1>1 DEF Hands, RowFacts
  <2>2. \A i \in TaskOps :
           /\ task[i].ver <= task'[i].ver
           /\ task'[i].ver = task[i].ver => task'[i].st = task[i].st
    BY <1>1 DEF Hands, RowFacts
  <2>3. \A o \in Ops : job[o].att <= job'[o].att
    BY <1>1 DEF Hands, RowFacts
  <2> QED BY <2>1, <2>2, <2>3 DEF Onward, Hands
<1>3. \A i \in TaskOps :
         /\ task'[i].st \in {"queued", "running"} <=> task[i].st \in {"queued", "running"}
         /\ task[i].st \notin {"queued", "running"} => task'[i] = task[i]
  BY DEF Hands
<1>4. PhaseHasItsJob'
  BY <1>3, OpsFacts DEF RowsAgree, PhaseHasItsJob, Hands
<1>5. StepsInOrder'
  BY <1>3 DEF RowsAgree, StepsInOrder
<1>6. PlanGate'
  <2>1. plan' # "approved" => \A i \in TaskOps : task'[i] = [st |-> "absent", ver |-> 0]
    BY <1>3 DEF RowsAgree, PlanGate, Hands
  <2> QED BY <2>1 DEF RowsAgree, PlanGate, Hands
<1>7. NoEarlyJob'
  BY <1>1, <1>3, OpsFacts DEF RowsAgree, NoEarlyJob, Hands
<1>8. CancelWaitsForJob'
  BY DEF RowsAgree, CancelWaitsForJob, Hands
<1> QED BY <1>2, <1>4, <1>5, <1>6, <1>7, <1>8 DEF RowsAgree

\* The active attempt fails and the next one takes its place.
RetriesAt(op) ==
    /\ UNCHANGED <<wf, plan>>
    /\ \A o \in Ops \ {op} : job'[o] = job[o]
    /\ job'[op].st = "queued" /\ job'[op].att = job[op].att + 1
    /\ \A i \in TaskOps \ {op} : task'[i] = task[i]
    /\ op \in TaskOps => \/ task'[op] = task[op]
                         \/ task'[op].st = "queued" /\ task'[op].ver = task[op].ver + 1

LEMMA RetryOnward ==
    ASSUME TypeOK, TypeOK', RowsAgree, NEW op \in Ops, OneActive(op), RetriesAt(op)
    PROVE  RowsAgree' /\ Onward
<1>1. RowFacts
  BY RowFactsHold
<1>2. \A o \in Ops : job[o].att <= job'[o].att /\ (Active(job'[o]) <=> o = op)
  BY <1>1 DEF RetriesAt, RowFacts, OneActive, Active
<1>3. \A i \in TaskOps :
         /\ task'[i].st \in {"queued", "running"} <=> i = op
         /\ i # op => task'[i] = task[i]
         /\ task[i].ver <= task'[i].ver
         /\ task'[i].ver = task[i].ver => task'[i].st = task[i].st
  BY <1>1 DEF RetriesAt, RowFacts, OneActive
<1>4. Onward
  <2>1. NoneLeased => NoneLeased'
    BY DEF NoneLeased, RetriesAt
  <2>2. job'[op].att # job[op].att
    BY <1>1 DEF RetriesAt, RowFacts
  <2>3. \A o \in Ops : job'[o].att = job[o].att /\ job'[o].st = "queued" => job[o].st = "queued"
    BY <2>2 DEF RetriesAt
  <2>4. wf.status # "failed"
    BY PhaseFacts DEF OneActive, Working
  <2>5. wf.rev <= wf'.rev
    BY <1>1 DEF RetriesAt, RowFacts
  <2> QED BY <1>2, <1>3, <2>1, <2>3, <2>4, <2>5 DEF Onward, RetriesAt
<1>5. PhaseHasItsJob'
  <2>1. OneActive(op)'
    BY <1>2, <1>3 DEF OneActive, RetriesAt
  <2> QED BY <2>1, ActiveCasesNext
<1>6. \A i \in TaskOps : task'[i].st \notin {"queued", "running"} => task'[i] = task[i]
  BY <1>3 DEF OneActive
<1>7. StepsInOrder'
  BY <1>3 DEF RowsAgree, StepsInOrder, OneActive
<1>8. PlanGate'
  <2>1. op \in TaskOps => plan = "approved"
    BY DEF RowsAgree, PlanGate, OneActive
  <2>2. plan' # "approved" => \A i \in TaskOps : task'[i] = [st |-> "absent", ver |-> 0]
    BY <1>3, <2>1 DEF RowsAgree, PlanGate, RetriesAt
  <2>3. wf.status # "failed"
    BY PhaseFacts DEF OneActive, Working
  <2> QED BY <2>2, <2>3 DEF RowsAgree, PlanGate, RetriesAt
<1>9. NoEarlyJob'
  <2>1. \A i \in TaskOps : task'[i].st \in {"absent", "pending"} => job'[i].att = 0
    BY <1>3, OpsFacts DEF RowsAgree, NoEarlyJob, RetriesAt
  <2>2. job'[ReviewOp].att > 0 => \A i \in TaskOps : task'[i].st = "completed"
    <3>1. op # ReviewOp => job'[ReviewOp] = job[ReviewOp]
      BY OpsFacts DEF RetriesAt
    <3>2. job[ReviewOp].att > 0 => \A i \in TaskOps : task[i].st = "completed"
      BY DEF RowsAgree, NoEarlyJob
    <3>3. op = ReviewOp => job[ReviewOp].att > 0
      BY DEF RowsAgree, NoEarlyJob, OneActive
    <3>4. op \in TaskOps => task[op].st # "completed"
      BY DEF OneActive
    <3> QED BY <1>3, <3>1, <3>2, <3>3, <3>4
  <2>3. \A o \in Ops : Active(job'[o]) => job'[o].att > 0
    <3>1. job'[op].att > 0
      BY <1>1 DEF RetriesAt, RowFacts
    <3> QED BY <1>2, <3>1
  <2> QED BY <2>1, <2>2, <2>3 DEF NoEarlyJob
<1>10. CancelWaitsForJob'
  BY DEF RowsAgree, CancelWaitsForJob, RetriesAt
<1> QED BY <1>4, <1>5, <1>7, <1>8, <1>9, <1>10 DEF RowsAgree

\* A new attempt of one operation becomes the active job.
Begins(op) ==
    /\ \A o \in Ops : o # op => job'[o].att = job[o].att /\ ~Active(job'[o])
    /\ job'[op].st = "queued" /\ job[op].att < job'[op].att
    /\ wf'.status = PhaseOf(op) /\ ~wf.cancel /\ ~wf'.cancel
    /\ wf.rev < wf'.rev \/ UNCHANGED wf
    /\ plan' = "approved" \/ (op = PlanOp /\ plan' = plan /\ plan # "approved")
    /\ op \in TaskOps => task'[op].st = "queued"
    /\ \A i \in TaskOps : \/ task'[i] = task[i]
                          \/ task[i].ver < task'[i].ver
    /\ \A i \in TaskOps : i # op => task'[i].st \notin {"queued", "running"}
    /\ UNCHANGED lastFailed

LEMMA BeginsOnward ==
    ASSUME TypeOK, TypeOK', RowsAgree, NEW op \in Ops, Begins(op)
    PROVE  PhaseHasItsJob' /\ CancelWaitsForJob' /\ Onward
<1>1. RowFacts
  BY RowFactsHold
<1>2. \A o \in Ops : Active(job'[o]) <=> o = op
  BY DEF Begins, Active
<1>3. PhaseHasItsJob'
  <2>1. OneActive(op)'
    BY <1>2 DEF OneActive, Begins
  <2> QED BY <2>1, ActiveCasesNext
<1>4. CancelWaitsForJob'
  BY DEF CancelWaitsForJob, Begins
<1>5. Onward
  <2>1. wf.rev <= wf'.rev /\ (wf'.rev = wf.rev => wf' = wf)
    BY <1>1 DEF Begins, RowFacts
  <2>2. \A i \in TaskOps :
           /\ task[i].ver <= task'[i].ver
           /\ task'[i].ver = task[i].ver => task'[i].st = task[i].st
    <3>1. \A i \in TaskOps : task[i].ver \in Nat /\ task'[i].ver \in Nat
      BY DEF TypeOK, TaskType
    <3> QED BY <3>1 DEF Begins
  <2>3. \A o \in Ops : job[o].att <= job'[o].att
    <3>1. \A o \in Ops : job[o].att \in Nat /\ job'[o].att \in Nat
      BY DEF TypeOK, JobType
    <3> QED BY <3>1 DEF Begins
  <2>4. \A o \in Ops : job'[o].att = job[o].att /\ job'[o].st = "queued" => job[o].st = "queued"
    <3>1. job'[op].att # job[op].att
      BY <1>1 DEF Begins, RowFacts, TypeOK, JobType
    <3> QED BY <1>2, <3>1 DEF Begins, Active
  <2> QED BY <2>1, <2>2, <2>3, <2>4 DEF Onward, Begins
<1> QED BY <1>3, <1>4, <1>5

\* A step is published and the next operation comes up.
StepDone(i) ==
    /\ InOrder(i, TaskMoved(task, i, "completed"))
    /\ job' = Enqueued(Finished(job, i, "succeeded"), i + 1, 1, NoKey)
    /\ task' = IF i < Steps THEN TaskMoved(TaskMoved(task, i, "completed"), i + 1, "queued")
                            ELSE TaskMoved(task, i, "completed")
    /\ wf' = IF i < Steps THEN wf ELSE WorkflowMoved(wf, "reviewing", "none")
    /\ ~wf.cancel
    /\ UNCHANGED <<plan, lastFailed>>

LEMMA StepOnward ==
    ASSUME TypeOK, TypeOK', RowsAgree, NEW i \in TaskOps, OneActive(i), StepDone(i)
    PROVE  RowsAgree' /\ Onward
<1>1. RowFacts /\ i \in Ops /\ i + 1 \in Ops /\ i # i + 1
  BY RowFactsHold, OpsFacts, StepsAssumption DEF TaskOps, Ops
<1>2. i < Steps => i + 1 \in TaskOps
  BY OpsFacts
<1>3. ~(i < Steps) => i = Steps /\ i + 1 = ReviewOp /\ i + 1 \notin TaskOps
  BY StepsAssumption DEF TaskOps, ReviewOp
<1>4. /\ task[i].st \in {"queued", "running"} /\ wf.status = "running" /\ plan = "approved"
  <2>1. task[i].st \in {"queued", "running"} /\ wf.status = "running"
    BY PhaseFacts DEF OneActive
  <2> QED BY <2>1 DEF RowsAgree, PlanGate
<1> DEFINE tasks == TaskMoved(task, i, "completed")
<1>6. /\ tasks \in [TaskOps -> TaskType]
      /\ tasks[i].st = "completed" /\ tasks[i].ver = task[i].ver + 1
      /\ \A k \in TaskOps \ {i} : tasks[k] = task[k]
  <2>1. task \in [TaskOps -> TaskType] /\ "completed" \in TaskStatuses
    BY DEF TypeOK, TaskStatuses
  <2>2. tasks \in [TaskOps -> TaskType]
    BY <2>1, TaskWrites
  <2> QED BY <2>1, <2>2, TaskMovedFacts
<1>7. /\ \A k \in TaskOps : k <= i => tasks[k].st = "completed"
      /\ \A k \in TaskOps : i < k => tasks[k].st = "pending"
  BY StepsAssumption DEF StepDone, InOrder, TaskOps
<1>8. /\ i < Steps => /\ task'[i + 1].st = "queued"
                      /\ task'[i + 1].ver = task[i + 1].ver + 1
                      /\ \A k \in TaskOps \ {i + 1} : task'[k] = tasks[k]
      /\ ~(i < Steps) => task' = tasks
  <2>1. CASE i < Steps
    <3>1. task' = TaskMoved(tasks, i + 1, "queued")
      BY <2>1 DEF StepDone
    <3>2. i + 1 \in TaskOps /\ i + 1 # i /\ tasks \in [TaskOps -> TaskType]
      BY <1>1, <1>2, <1>6, <2>1
    <3> HIDE DEF tasks
    <3>3. /\ task'[i + 1].st = "queued" /\ task'[i + 1].ver = tasks[i + 1].ver + 1
          /\ \A k \in TaskOps \ {i + 1} : task'[k] = tasks[k]
      BY <3>1, <3>2, TaskMovedFacts
    <3> QED BY <1>6, <2>1, <3>2, <3>3
  <2>2. CASE ~(i < Steps)
    BY <2>2 DEF StepDone
  <2> QED BY <2>1, <2>2
<1>9. job[i + 1].att = 0
  <2>1. CASE i < Steps
    <3>1. task[i + 1].st = "pending"
      BY <1>1, <1>2, <1>6, <1>7, <2>1, StepsAssumption DEF TaskOps
    <3> QED BY <1>2, <2>1, <3>1 DEF RowsAgree, NoEarlyJob
  <2>2. CASE ~(i < Steps)
    <3>1. ~(job[ReviewOp].att > 0)
      BY <1>4 DEF RowsAgree, NoEarlyJob
    <3>2. job[ReviewOp].att \in Nat
      BY <1>1, OpsFacts DEF RowFacts
    <3> QED BY <1>3, <2>2, <3>1, <3>2
  <2> QED BY <2>1, <2>2
<1>10. /\ \A o \in Ops \ {i + 1} : job'[o].att = job[o].att /\ ~Active(job'[o])
       /\ job'[i + 1].st = "queued" /\ job'[i + 1].att = 1
  <2> DEFINE jobs == Finished(job, i, "succeeded")
  <2>1. /\ jobs \in [Ops -> JobType]
        /\ \A o \in Ops : jobs[o].att = job[o].att
        /\ \A o \in Ops \ {i} : jobs[o] = job[o]
        /\ jobs[i].st = "succeeded"
    <3>1. job \in [Ops -> JobType] /\ "succeeded" \in JobStatuses /\ 0 \in Nat
      BY DEF TypeOK, JobStatuses
    <3>2. jobs \in [Ops -> JobType]
      BY <1>1, <3>1, JobWrites
    <3> QED BY <1>1, <3>1, <3>2, FinishedFacts
  <2>2. jobs[i + 1].att < 1
    BY <1>1, <1>9, <2>1
  <2>3. \A o \in Ops : ~Active(jobs[o])
    BY <2>1 DEF OneActive, Active
  <2> HIDE DEF jobs
  <2>4. /\ \A o \in Ops \ {i + 1} : Enqueued(jobs, i + 1, 1, NoKey)[o] = jobs[o]
        /\ Enqueued(jobs, i + 1, 1, NoKey)[i + 1].st = "queued"
        /\ Enqueued(jobs, i + 1, 1, NoKey)[i + 1].att = 1
    BY <1>1, <2>1, <2>2, EnqueuedFacts
  <2>5. job' = Enqueued(jobs, i + 1, 1, NoKey)
    BY DEF StepDone, jobs
  <2> QED BY <2>1, <2>3, <2>4, <2>5
<1>11. /\ wf'.status = PhaseOf(i + 1) /\ ~wf'.cancel
       /\ wf.rev < wf'.rev \/ UNCHANGED wf
  <2>1. CASE i < Steps
    BY <1>2, <1>4, <2>1, PhaseFacts DEF StepDone
  <2>2. CASE ~(i < Steps)
    <3>1. wf' = WorkflowMoved(wf, "reviewing", "none")
      BY <2>2 DEF StepDone
    <3>2. wf'.status = "reviewing" /\ wf'.cancel = wf.cancel /\ wf'.rev = wf.rev + 1
      BY <1>1, <1>4, <3>1, WorkflowMovedFacts DEF RowFacts
    <3> QED BY <1>1, <1>3, <2>2, <3>2, PhaseFacts DEF StepDone, RowFacts
  <2> QED BY <2>1, <2>2
<1>12. \A k \in TaskOps : /\ task'[k] = task[k] \/ task[k].ver < task'[k].ver
                          /\ k # i + 1 => task'[k].st \notin {"queued", "running"}
                          /\ k = i + 1 => task'[k].st = "queued"
  <2> SUFFICES ASSUME NEW k \in TaskOps
      PROVE  /\ task'[k] = task[k] \/ task[k].ver < task'[k].ver
             /\ k # i + 1 => task'[k].st \notin {"queued", "running"}
             /\ k = i + 1 => task'[k].st = "queued"
    OBVIOUS
  <2>1. k = i + 1 => i < Steps
    BY <1>3
  <2>2. CASE k = i + 1
    BY <1>1, <1>8, <2>1, <2>2 DEF RowFacts
  <2>3. CASE k # i + 1
    <3>1. task'[k] = tasks[k]
      BY <1>8, <2>3
    <3>2. tasks[k].st \in {"completed", "pending"}
      BY <1>7, StepsAssumption DEF TaskOps
    <3>3. tasks[k] = task[k] \/ task[k].ver < tasks[k].ver
      BY <1>1, <1>6 DEF RowFacts
    <3> QED BY <2>3, <3>1, <3>2, <3>3
  <2> QED BY <2>2, <2>3
<1>13. Begins(i + 1)
  <2>1. job[i + 1].att < job'[i + 1].att
    BY <1>9, <1>10
  <2> QED BY <1>1, <1>4, <1>10, <1>11, <1>12, <2>1 DEF Begins, StepDone
<1>14. PhaseHasItsJob' /\ CancelWaitsForJob' /\ Onward
  BY <1>1, <1>13, BeginsOnward
<1>15. StepsInOrder'
  <2> SUFFICES ASSUME NEW a \in TaskOps, NEW b \in TaskOps, a < b,
                      task'[b].st \notin {"absent", "pending", "cancelled"}
      PROVE  task'[a].st = "completed"
    BY DEF StepsInOrder
  <2>1. a # i + 1 => task'[a] = tasks[a]
    BY <1>8
  <2>2. b # i + 1 => task'[b] = tasks[b]
    BY <1>8
  <2>3. a <= i /\ a # i + 1
    BY <1>7, <2>2, StepsAssumption DEF TaskOps
  <2> QED BY <1>7, <2>1, <2>3
<1>16. PlanGate'
  <2>1. wf'.status \in {"running", "reviewing"}
    BY <1>4, <1>1, WorkflowMovedFacts DEF StepDone, RowFacts
  <2> QED BY <1>4, <2>1 DEF PlanGate, StepDone
<1>17. NoEarlyJob'
  <2>1. \A k \in TaskOps : task'[k].st \in {"absent", "pending"} => job'[k].att = 0
    <3> SUFFICES ASSUME NEW k \in TaskOps, task'[k].st \in {"absent", "pending"}
        PROVE job'[k].att = 0
      OBVIOUS
    <3>1. k # i + 1
      BY <1>12
    <3>2. task'[k] = tasks[k] /\ k # i
      BY <1>6, <1>8, <3>1
    <3>3. task'[k] = task[k]
      BY <1>6, <3>2
    <3> QED BY <1>10, <3>1, <3>3, OpsFacts DEF RowsAgree, NoEarlyJob
  <2>2. job'[ReviewOp].att > 0 => \A k \in TaskOps : task'[k].st = "completed"
    <3>1. CASE i < Steps
      <4>1. i + 1 # ReviewOp
        BY <1>2, <3>1, OpsFacts
      <4>2. ~(job[ReviewOp].att > 0)
        BY <1>4 DEF RowsAgree, NoEarlyJob
      <4> QED BY <1>10, <4>1, <4>2, OpsFacts
    <3>2. CASE ~(i < Steps)
      BY <1>3, <1>7, <1>8, <3>2, StepsAssumption DEF TaskOps
    <3> QED BY <3>1, <3>2
  <2>3. \A o \in Ops : Active(job'[o]) => job'[o].att > 0
    BY <1>10
  <2> QED BY <2>1, <2>2, <2>3 DEF NoEarlyJob
<1> QED BY <1>14, <1>15, <1>16, <1>17 DEF RowsAgree

\* The plan is accepted and its tasks materialize.
PlanAccepted ==
    /\ wf.status = "waiting-plan-approval"
    /\ plan' = "approved"
    /\ \A i \in TaskOps : /\ task'[i].st = IF i = 1 THEN "queued" ELSE "pending"
                          /\ task'[i].ver > 0
    /\ job' = Enqueued(job, 1, 1, NoKey)
    /\ wf' = WorkflowMoved(wf, "running", "none")
    /\ UNCHANGED lastFailed

LEMMA AcceptedOnward ==
    ASSUME TypeOK, TypeOK', RowsAgree, PlanAccepted
    PROVE  RowsAgree' /\ Onward
<1>1. RowFacts /\ 1 \in Ops /\ 1 \in TaskOps /\ NoneActive
  BY RowFactsHold, OpsFacts, IdleIsNone DEF RowsAgree, PlanAccepted, Working
<1>2. plan = "pending" /\ ~wf.cancel
  BY DEF RowsAgree, PlanGate, CancelWaitsForJob, PlanAccepted, Working
<1>3. /\ \A i \in TaskOps : task[i].st = "absent" /\ task[i].ver = 0 /\ job[i].att = 0
      /\ job[ReviewOp].att = 0
  <2>1. \A i \in TaskOps : task[i] = [st |-> "absent", ver |-> 0]
    BY <1>2 DEF RowsAgree, PlanGate
  <2>2. \A i \in TaskOps : job[i].att = 0
    BY <2>1 DEF RowsAgree, NoEarlyJob
  <2>3. ~(job[ReviewOp].att > 0) /\ job[ReviewOp].att \in Nat
    BY <1>1, <2>1, OpsFacts DEF RowsAgree, NoEarlyJob, RowFacts
  <2> QED BY <2>1, <2>2, <2>3
<1>4. /\ \A o \in Ops \ {1} : job'[o] = job[o]
      /\ job'[1].st = "queued" /\ job'[1].att = 1
  <2>1. job \in [Ops -> JobType] /\ job[1].att < 1
    BY <1>1, <1>3 DEF TypeOK
  <2> QED BY <1>1, <2>1, EnqueuedFacts DEF PlanAccepted
<1>5. wf'.status = "running" /\ ~wf'.cancel /\ wf'.rev = wf.rev + 1
  BY <1>1, <1>2, WorkflowMovedFacts DEF PlanAccepted, RowFacts
<1>6. Begins(1)
  <2>1. \A o \in Ops : o # 1 => job'[o].att = job[o].att /\ ~Active(job'[o])
    BY <1>1, <1>4 DEF NoneActive
  <2>2. job[1].att < job'[1].att /\ wf.rev < wf'.rev /\ wf'.status = PhaseOf(1)
    BY <1>1, <1>3, <1>4, <1>5, PhaseFacts DEF RowFacts
  <2>3. \A i \in TaskOps : task[i].ver < task'[i].ver
    BY <1>3 DEF PlanAccepted
  <2> QED BY <1>1, <1>2, <1>4, <1>5, <2>1, <2>2, <2>3 DEF Begins, PlanAccepted
<1>7. PhaseHasItsJob' /\ CancelWaitsForJob' /\ Onward
  BY <1>1, <1>6, BeginsOnward
<1>8. StepsInOrder'
  <2>1. \A i, k \in TaskOps : i < k => task'[k].st = "pending"
    BY StepsAssumption DEF PlanAccepted, TaskOps
  <2> QED BY <2>1 DEF StepsInOrder
<1>9. PlanGate'
  BY <1>5 DEF PlanGate, PlanAccepted
<1>10. NoEarlyJob'
  <2>1. \A i \in TaskOps : task'[i].st \in {"absent", "pending"} => job'[i].att = 0
    BY <1>3, <1>4, OpsFacts DEF PlanAccepted
  <2>2. job'[ReviewOp].att = 0
    BY <1>1, <1>3, <1>4, OpsFacts
  <2>3. \A o \in Ops : Active(job'[o]) => job'[o].att > 0
    BY <1>1, <1>4 DEF NoneActive
  <2> QED BY <2>1, <2>2, <2>3 DEF NoEarlyJob
<1> QED BY <1>7, <1>8, <1>9, <1>10 DEF RowsAgree

\* A stopped operation is taken up again by the user.
TakenUp(op) ==
    /\ wf.status \in {"blocked", "failed"}
    /\ wf.status = "failed" => op = lastFailed.op
    /\ wf.status = "blocked" => op \in TaskOps
    /\ op = ReviewOp => job[op].att > 0
    /\ \E key : job' = Enqueued(job, op, job[op].att + 1, key)
    /\ op \in TaskOps => task[op].st \in {"blocked", "failed"}
    /\ task' = IF op \in TaskOps THEN TaskMoved(task, op, "queued") ELSE task
    /\ wf' = WorkflowMoved(wf, PhaseOf(op), "none")
    /\ UNCHANGED <<plan, lastFailed>>

LEMMA TakenUpOnward ==
    ASSUME TypeOK, TypeOK', RowsAgree, NEW op \in Ops, TakenUp(op)
    PROVE  RowsAgree' /\ Onward
<1>1. RowFacts /\ NoneActive /\ ~wf.cancel /\ wf.status \in {"blocked", "failed"}
  BY RowFactsHold, IdleIsNone
     DEF RowsAgree, CancelWaitsForJob, TakenUp, Working
<1>2. op = PlanOp => plan # "approved"
  BY <1>1, OpsFacts DEF TakenUp, RowsAgree, PlanGate
<1>3. op # PlanOp => plan = "approved"
  <2>1. CASE op \in TaskOps
    <3>1. task[op].st # "absent"
      BY <2>1 DEF TakenUp
    <3> QED BY <2>1, <3>1 DEF RowsAgree, PlanGate
  <2>2. CASE op = ReviewOp
    <3>1. task[1].st = "completed"
      BY <2>2, OpsFacts DEF TakenUp, RowsAgree, NoEarlyJob
    <3> QED BY <3>1, OpsFacts DEF RowsAgree, PlanGate
  <2> QED BY <2>1, <2>2, OpsFacts
<1>4. /\ \A o \in Ops \ {op} : job'[o] = job[o]
      /\ job'[op].st = "queued" /\ job'[op].att = job[op].att + 1
  <2>1. /\ job \in [Ops -> JobType] /\ job[op].att < job[op].att + 1
        /\ job[op].att + 1 \in Nat
    BY <1>1 DEF TypeOK, RowFacts
  <2>2. PICK key : job' = Enqueued(job, op, job[op].att + 1, key)
    BY DEF TakenUp
  <2> QED BY <2>1, <2>2, EnqueuedFacts
<1>5. /\ \A i \in TaskOps : i # op => task'[i] = task[i]
      /\ op \in TaskOps => task'[op].st = "queued" /\ task'[op].ver = task[op].ver + 1
  BY TaskMovedFacts DEF TakenUp, TypeOK
<1>6. /\ wf'.status = PhaseOf(op) /\ ~wf'.cancel /\ wf'.rev = wf.rev + 1
      /\ wf'.status \in Working
  <2>1. PhaseOf(op) \in Working /\ wf.status # PhaseOf(op)
    BY <1>1, PhaseFacts DEF Working
  <2> QED BY <1>1, <2>1, WorkflowMovedFacts DEF TakenUp, RowFacts
<1>7. Begins(op)
  <2>1. \A o \in Ops : o # op => job'[o].att = job[o].att /\ ~Active(job'[o])
    BY <1>1, <1>4 DEF NoneActive
  <2>2. job[op].att < job'[op].att /\ wf.rev < wf'.rev
    BY <1>1, <1>4, <1>6 DEF RowFacts
  <2>3. \A i \in TaskOps : task'[i] = task[i] \/ task[i].ver < task'[i].ver
    BY <1>1, <1>5 DEF RowFacts
  <2>4. \A i \in TaskOps : i # op => task'[i].st \notin {"queued", "running"}
    BY <1>1, <1>5 DEF NoneActive
  <2>5. plan' = "approved" \/ (op = PlanOp /\ plan' = plan /\ plan # "approved")
    BY <1>2, <1>3 DEF TakenUp
  <2> QED BY <1>1, <1>4, <1>5, <1>6, <2>1, <2>2, <2>3, <2>4, <2>5 DEF Begins, TakenUp
<1>8. PhaseHasItsJob' /\ CancelWaitsForJob' /\ Onward
  BY <1>7, BeginsOnward
<1>9. StepsInOrder'
  <2> SUFFICES ASSUME NEW a \in TaskOps, NEW b \in TaskOps, a < b,
                      task'[b].st \notin {"absent", "pending", "cancelled"}
      PROVE  task'[a].st = "completed"
    BY DEF StepsInOrder
  <2>1. task[b].st \notin {"absent", "pending", "cancelled"}
    BY <1>5 DEF TakenUp
  <2>2. task[a].st = "completed"
    BY <2>1 DEF RowsAgree, StepsInOrder
  <2>3. a # op
    BY <2>2 DEF TakenUp
  <2> QED BY <1>5, <2>2, <2>3
<1>10. PlanGate'
  <2>1. plan' # "approved" => \A i \in TaskOps : task'[i] = task[i]
    BY <1>3, <1>5, OpsFacts DEF TakenUp
  <2>2. plan' # "approved" => \A i \in TaskOps : task'[i] = [st |-> "absent", ver |-> 0]
    BY <2>1 DEF RowsAgree, PlanGate, TakenUp
  <2>3. wf'.status \notin {"waiting-plan-approval", "failed"}
    BY <1>6 DEF Working
  <2>4. wf'.status = "planning" => op = PlanOp
    BY <1>6, OpsFacts, PhaseFacts
  <2>5. wf'.status # "planning" => op # PlanOp
    BY <1>6, PhaseFacts
  <2> QED BY <1>2, <1>3, <2>2, <2>3, <2>4, <2>5 DEF PlanGate, TakenUp
<1>11. NoEarlyJob'
  <2>1. \A i \in TaskOps : task'[i].st \in {"absent", "pending"} => job'[i].att = 0
    BY <1>4, <1>5, OpsFacts DEF RowsAgree, NoEarlyJob
  <2>2. job'[ReviewOp].att > 0 => \A i \in TaskOps : task'[i].st = "completed"
    <3> SUFFICES ASSUME job'[ReviewOp].att > 0
        PROVE \A i \in TaskOps : task'[i].st = "completed"
      OBVIOUS
    <3>1. job[ReviewOp].att > 0
      BY <1>4, OpsFacts DEF TakenUp
    <3>2. \A i \in TaskOps : task[i].st = "completed"
      BY <3>1 DEF RowsAgree, NoEarlyJob
    <3>3. op \notin TaskOps
      BY <3>2 DEF TakenUp
    <3> QED BY <1>5, <3>2, <3>3
  <2>3. \A o \in Ops : Active(job'[o]) => job'[o].att > 0
    BY <1>1, <1>4 DEF NoneActive, TakenUp, RowFacts
  <2> QED BY <2>1, <2>2, <2>3 DEF NoEarlyJob
<1> QED BY <1>8, <1>9, <1>10, <1>11 DEF RowsAgree

\* The cancel flag alone, while a job is leased.
Flagged ==
    /\ wf' = [wf EXCEPT !.cancel = TRUE, !.rev = @ + 1]
    /\ \E op \in Ops : job[op].st = "leased"
    /\ UNCHANGED <<plan, task, job, lastFailed>>

LEMMA FlaggedOnward ==
    ASSUME TypeOK, TypeOK', RowsAgree, Flagged
    PROVE  RowsAgree' /\ Onward
<1>1. RowFacts
  BY RowFactsHold
<1>2. PICK op \in Ops : job[op].st = "leased"
  BY DEF Flagged
<1>3. OneActive(op)
  BY <1>2, ActiveIsOne DEF RowsAgree, Active
<1>4. wf'.status = wf.status /\ wf'.rev = wf.rev + 1 /\ wf.status \in Working
  BY <1>1, <1>3, PhaseFacts DEF Flagged, RowFacts, WorkflowType, OneActive
<1>5. Onward
  <2>1. \A o \in Ops : job[o].st # "queued"
    BY <1>2, <1>3 DEF OneActive, Active
  <2>2. ~NoneLeased
    BY <1>2 DEF NoneLeased
  <2>3. wf.rev <= wf'.rev /\ wf'.rev # wf.rev
    BY <1>1, <1>4 DEF RowFacts
  <2>4. /\ \A i \in TaskOps : task[i].ver <= task'[i].ver
        /\ \A o \in Ops : job[o].att <= job'[o].att
    BY <1>1 DEF Flagged, RowFacts
  <2>5. wf.status # "failed"
    BY <1>4 DEF Working
  <2> QED BY <2>1, <2>2, <2>3, <2>4, <2>5 DEF Onward, Flagged
<1>6. PhaseHasItsJob'
  <2>1. OneActive(op)'
    BY <1>3, <1>4 DEF OneActive, Flagged
  <2> QED BY <2>1, ActiveCasesNext
<1>7. StepsInOrder' /\ PlanGate' /\ NoEarlyJob'
  BY <1>4 DEF RowsAgree, StepsInOrder, PlanGate, NoEarlyJob, Flagged
<1>8. CancelWaitsForJob'
  BY <1>4 DEF CancelWaitsForJob
<1> QED BY <1>5, <1>6, <1>7, <1>8 DEF RowsAgree

-----------------------------------------------------------------------------
(* Every action writes the rows in one of these ways. *)

LEMMA HolderIsActive ==
    ASSUME IInv, NEW w \in Workers, Holds(w, loc[w].op, loc[w].att)
    PROVE  OneActive(loc[w].op) /\ loc[w].op \in Ops /\ job[loc[w].op].st = "leased"
<1>1. loc[w] \in LocType /\ loc[w].op \in Ops
  <2>1. loc[w] \in LocType
    BY DEF IInv, TypeOK
  <2> QED BY <2>1 DEF LocType
<1>2. Active(job[loc[w].op]) /\ job[loc[w].op].st = "leased"
  BY DEF Holds, Active
<1> QED BY <1>1, <1>2, ActiveIsOne DEF IInv, RowsAgree

LEMMA AcknowledgeOnward ==
    ASSUME IInv, TypeOK', NEW w \in Workers,
           pc[w] \in {"settling", "starting", "executing"},
           CanAcknowledge(w), Acknowledge(w)
    PROVE  RowsAgree' /\ Onward
<1> DEFINE l == loc[w]
<1>1. RowFacts
  BY RowFactsHold DEF IInv
<1>2. Holds(w, l.op, l.att) /\ WorkflowSwaps(l.st, l.rev, "cancelled")
  BY DEF CanAcknowledge
<1>3. OneActive(l.op) /\ l.op \in Ops
  BY <1>2, HolderIsActive
<1>4. l.st # "cancelled"
  BY PhaseFacts DEF IInv, ThreadSound, HandlerSound, Working
<1>5. wf.status # "cancelled"
  BY <1>2, <1>4, SwapFacts
<1>6. \A op \in Ops : job'[op].att = job[op].att /\ ~Active(job'[op])
  <2> DEFINE jobs == Finished(job, l.op, "cancelled")
  <2>1. job \in [Ops -> JobType] /\ "cancelled" \in JobStatuses /\ 0 \in Nat
    BY DEF IInv, TypeOK, JobStatuses
  <2>2. jobs \in [Ops -> JobType]
    BY <1>3, <2>1, JobWrites
  <2>3. \A op \in Ops : jobs[op].att = job[op].att /\ ~Active(jobs[op])
    BY <1>3, <2>1, FinishedFacts DEF OneActive, Active
  <2> HIDE DEF jobs
  <2>4. job' = CancelQueued(jobs)
    BY DEF Acknowledge, jobs
  <2> QED BY <2>2, <2>3, <2>4, CancelQueuedFacts DEF Active
<1>7. wf'.status = "cancelled" /\ wf.rev < wf'.rev
  BY <1>1, <1>5, WorkflowMovedFacts DEF Acknowledge, RowFacts
<1>8. CancelsAll
  BY <1>6, <1>7 DEF CancelsAll, Acknowledge
<1> QED BY <1>8, CancelsAllOnward DEF IInv

\* Cancelling the queued jobs is enough when none is leased.
LEMMA CancelQueuedEnough ==
    ASSUME TypeOK, NoneLeased
    PROVE  \A op \in Ops : /\ CancelQueued(job)[op].att = job[op].att
                           /\ ~Active(CancelQueued(job)[op])
BY CancelQueuedFacts DEF TypeOK, NoneLeased, Active

LEMMA SettleOnward ==
    ASSUME IInv, TypeOK', NEW w \in Workers, SettleWrite(w)
    PROVE  RowsAgree' /\ Onward
<1> DEFINE l == loc[w]
           op == loc[w].op
<1>1. RowFacts /\ TypeOK /\ RowsAgree
  BY RowFactsHold DEF IInv
<1>2. pc[w] = "settling"
  BY DEF SettleWrite
<1>3. /\ Current(l) /\ l.st = PhaseOf(op)
      /\ op \in TaskOps => l.tst \in {"queued", "running"}
  BY <1>2 DEF IInv, ThreadSound, HandlerSound
<1>4. l.att \in Nat /\ l.cancel \in BOOLEAN
  <2>1. l \in LocType
    BY DEF IInv, TypeOK
  <2> QED BY <2>1 DEF LocType
<1>5. ASSUME Holds(w, op, l.att)
      PROVE  OneActive(op) /\ op \in Ops /\ job[op].att = l.att
  BY <1>5, HolderIsActive DEF Holds
<1>6. CASE SettleCancelled(w)
  BY <1>2, <1>6, AcknowledgeOnward DEF SettleCancelled
<1>7. CASE SettleRetry(w)
  <2>1. Holds(w, op, l.att) /\ (l.tst = "running" => task[op].ver = l.tver)
    BY <1>7 DEF SettleRetry, CanRetry
  <2>2. OneActive(op) /\ op \in Ops /\ job[op].att = l.att
    BY <1>5, <2>1
  <2>3. /\ \A o \in Ops \ {op} : job'[o] = job[o]
        /\ job'[op].st = "queued" /\ job'[op].att = job[op].att + 1
    <3> DEFINE jobs == Finished(job, op, "failed")
    <3>1. job \in [Ops -> JobType] /\ "failed" \in JobStatuses /\ 0 \in Nat
      BY <1>1 DEF TypeOK, JobStatuses
    <3>2. jobs \in [Ops -> JobType]
      BY <2>2, <3>1, JobWrites
    <3>3. jobs[op].att = l.att /\ \A o \in Ops \ {op} : jobs[o] = job[o]
      BY <2>2, <3>1, FinishedFacts
    <3> HIDE DEF jobs
    <3>4. job' = Enqueued(jobs, op, l.att + 1, NoKey)
      BY <1>7 DEF SettleRetry, JobFails, jobs
    <3>5. jobs[op].att < l.att + 1 /\ l.att + 1 \in Nat
      BY <1>4, <3>3
    <3> QED BY <2>2, <3>2, <3>3, <3>4, <3>5, EnqueuedFacts
  <2>4. /\ \A i \in TaskOps \ {op} : task'[i] = task[i]
        /\ op \in TaskOps => \/ task'[op] = task[op]
                             \/ /\ task'[op].st = "queued"
                                /\ task'[op].ver = task[op].ver + 1
    BY <1>1, <1>7, TaskMovedFacts DEF SettleRetry, TypeOK
  <2>5. RetriesAt(op)
    BY <1>7, <2>3, <2>4 DEF RetriesAt, SettleRetry
  <2> QED BY <1>1, <2>2, <2>5, RetryOnward
<1>8. ASSUME NEW target \in {"blocked", "failed"}, NEW code,
             ~l.cancel, CanStop(w, target), job' = JobFails(w),
             task' = TaskStops(w, target), wf' = WorkflowMoved(wf, target, code),
             lastFailed' = ThisJob(w), UNCHANGED plan
      PROVE  RowsAgree' /\ Onward
  <2>1. Holds(w, op, l.att) /\ WorkflowSwaps(l.st, l.rev, target)
    BY <1>8 DEF CanStop
  <2>2. OneActive(op) /\ op \in Ops
    BY <1>5, <2>1
  <2>3. l.st # target
    BY <1>3, PhaseFacts DEF Working
  <2>4. wf.status = l.st /\ wf.rev = l.rev
    BY <2>1, <2>3, SwapFacts
  <2>5. ~wf.cancel
    BY <1>3, <1>4, <1>8, <2>4 DEF Current
  <2>6. wf'.status = target /\ wf'.cancel = wf.cancel /\ wf.rev < wf'.rev
    BY <1>1, <1>8, <2>3, <2>4, WorkflowMovedFacts DEF RowFacts
  <2>7. /\ \A i \in TaskOps \ {op} : task'[i] = task[i]
        /\ op \in TaskOps => task'[op].st = target /\ task'[op].ver = task[op].ver + 1
    <3>1. task \in [TaskOps -> TaskType]
      BY <1>1 DEF TypeOK
    <3> QED BY <1>3, <1>8, <3>1, TaskMovedFacts DEF TaskStops
  <2>8. EndsAt(op)
    BY <1>8, <2>5, <2>6, <2>7 DEF EndsAt, JobFails, ThisJob, Working
  <2> QED BY <1>1, <2>2, <2>8, EndsOnward
<1>9. CASE SettleBlocked(w)
  BY <1>8, <1>9 DEF SettleBlocked
<1>10. CASE SettleFailed(w)
  BY <1>8, <1>10 DEF SettleFailed
<1>11. CASE SettleConflict(w)
  BY <1>1, <1>11, UnchangedOnward DEF SettleConflict, rows
<1> QED BY <1>6, <1>7, <1>9, <1>10, <1>11 DEF SettleWrite

LEMMA SweepOnward ==
    ASSUME IInv, TypeOK', NEW w \in Workers, SweepWrite(w)
    PROVE  RowsAgree' /\ Onward
<1>1. RowFacts /\ TypeOK /\ RowsAgree
  BY RowFactsHold DEF IInv
<1>2. CASE UNCHANGED rows
  BY <1>1, <1>2, UnchangedOnward DEF rows
<1>3. CASE ~UNCHANGED rows
  <2>1. /\ pc[w] = "sweeping" /\ WorkflowSwaps(loc[w].st, loc[w].rev, "cancelled")
        /\ job' = CancelQueued(job) /\ task' = CancelTasks(task)
        /\ wf' = WorkflowMoved(wf, "cancelled", "none")
        /\ UNCHANGED <<plan, lastFailed>>
    BY <1>3 DEF SweepWrite
  <2>2. /\ loc[w].st \notin WorkflowTerminal
        /\ loc[w].rev = wf.rev => NoneLeased
    BY <2>1 DEF IInv, ThreadSound, SweepSound
  <2>3. wf.status = loc[w].st /\ wf.rev = loc[w].rev /\ wf.status # "cancelled"
    BY <2>1, <2>2, SwapFacts DEF WorkflowTerminal
  <2>4. wf'.status = "cancelled" /\ wf.rev < wf'.rev
    BY <1>1, <2>1, <2>3, WorkflowMovedFacts DEF RowFacts
  <2>5. CancelsAll
    BY <1>1, <2>1, <2>2, <2>3, <2>4, CancelQueuedEnough DEF CancelsAll
  <2> QED BY <1>1, <2>5, CancelsAllOnward
<1> QED BY <1>2, <1>3

\* The startup scan blocks nothing.
LEMMA OrphanOnward ==
    ASSUME IInv, TypeOK', NEW w \in Workers, OrphanWrite(w)
    PROVE  RowsAgree' /\ Onward /\ UNCHANGED rows
<1>1. TypeOK /\ RowsAgree /\ OrphanSound(w) /\ pc[w] = "blocking"
  BY DEF IInv, ThreadSound, OrphanWrite
<1>2. ~TaskSwaps(loc[w].op, loc[w].tst, loc[w].tver, "blocked")
  <2>1. /\ loc[w].op \in TaskOps /\ loc[w].tst = "running"
        /\ loc[w].tver < task[loc[w].op].ver \/ task[loc[w].op].st = "cancelled"
    BY <1>1 DEF OrphanSound
  <2>2. task[loc[w].op].ver \in Nat
    BY <1>1, <2>1 DEF TypeOK, TaskType
  <2> QED BY <2>1, <2>2 DEF TaskSwaps
<1>3. UNCHANGED rows
  BY <1>2 DEF OrphanWrite
<1> QED BY <1>1, <1>3, UnchangedOnward DEF rows

LEMMA HandsOver ==
    ASSUME IInv, TypeOK', NEW w \in Workers,
           RecoverExpired(w) \/ ClaimWrite(w) \/ Heartbeat(w)
    PROVE  RowsAgree' /\ Onward
<1>1. RowFacts /\ TypeOK /\ RowsAgree /\ job \in [Ops -> JobType]
  BY RowFactsHold DEF IInv, TypeOK
<1>2. loc[w].op \in Ops
  <2>1. loc[w] \in LocType
    BY <1>1 DEF TypeOK
  <2> QED BY <2>1 DEF LocType
<1>3. CASE UNCHANGED rows
  BY <1>1, <1>3, UnchangedOnward DEF rows
<1>4. CASE RecoverExpired(w)
  <2>1. \A op \in Ops : job'[op].att = job[op].att /\ job'[op].st = job[op].st
    <3>1. \A op \in Ops : \/ job'[op] = job[op]
                          \/ job'[op] = [job[op] EXCEPT !.tok = w]
      BY <1>4 DEF RecoverExpired
    <3> QED BY <1>1, <3>1 DEF JobType
  <2>2. Hands
    BY <1>4, <2>1 DEF RecoverExpired, Hands, Active, NoneLeased
  <2> QED BY <1>1, <2>2, HandsOnward
<1>5. CASE Heartbeat(w)
  <2>1. \A op \in Ops : job'[op].att = job[op].att /\ job'[op].st = job[op].st
    BY <1>1, <1>2, <1>5 DEF Heartbeat, JobType
  <2>2. Hands
    BY <1>5, <2>1 DEF Heartbeat, Hands, Active, NoneLeased
  <2> QED BY <1>1, <2>2, HandsOnward
<1>6. CASE ClaimWrite(w) /\ ~UNCHANGED rows
  <2> DEFINE op == loc[w].op
  <2>1. /\ pc[w] = "claiming" /\ job[op].att = loc[w].att /\ job[op].st = "queued"
        /\ job' = [job EXCEPT ![op].st = "leased", ![op].tok = w]
        /\ UNCHANGED <<wf, plan, task, lastFailed>>
    BY <1>6 DEF ClaimWrite
  <2>2. ~wf.cancel
    BY <2>1 DEF IInv, ThreadSound, ClaimSound
  <2>3. /\ \A o \in Ops \ {op} : job'[o] = job[o]
        /\ job'[op].st = "leased" /\ job'[op].att = job[op].att
    BY <1>1, <1>2, <2>1 DEF JobType
  <2>4. Hands
    BY <2>1, <2>2, <2>3 DEF Hands, Active
  <2> QED BY <1>1, <2>4, HandsOnward
<1> QED BY <1>3, <1>4, <1>5, <1>6

LEMMA ExpiryOnward ==
    ASSUME IInv, TypeOK', NEW op \in Ops, LeaseExpires(op)
    PROVE  RowsAgree' /\ Onward
<1>1. TypeOK /\ RowsAgree /\ job \in [Ops -> JobType]
  BY DEF IInv, TypeOK
<1>2. \A o \in Ops : job'[o].att = job[o].att /\ job'[o].st = job[o].st
  BY <1>1 DEF LeaseExpires, JobType
<1>3. Hands
  BY <1>2 DEF LeaseExpires, Hands, Active, NoneLeased
<1> QED BY <1>1, <1>3, HandsOnward

LEMMA StartOnward ==
    ASSUME IInv, TypeOK', NEW w \in Workers, StartWrite(w)
    PROVE  RowsAgree' /\ Onward
<1> DEFINE op == loc[w].op
<1>1. TypeOK /\ RowsAgree /\ pc[w] = "starting" /\ HandlerSound(w)
  BY DEF IInv, ThreadSound, StartWrite
<1>2. CASE UNCHANGED rows
  BY <1>1, <1>2, UnchangedOnward DEF rows
<1>3. CASE CanAcknowledge(w) /\ Acknowledge(w)
  BY <1>1, <1>3, AcknowledgeOnward
<1>4. CASE /\ ~loc[w].cancel
           /\ TaskSwaps(op, "queued", loc[w].tver, "running")
           /\ task' = TaskMoved(task, op, "running")
           /\ UNCHANGED <<wf, plan, job, lastFailed, pdf, usedKeys>>
  <2>1. op \in TaskOps /\ task[op].st = "queued"
    BY <1>1, <1>4 DEF HandlerSound, TaskSwaps
  <2>2. /\ \A i \in TaskOps \ {op} : task'[i] = task[i]
        /\ task'[op].st = "running" /\ task'[op].ver = task[op].ver + 1
    BY <1>1, <1>4, <2>1, TaskMovedFacts DEF TypeOK
  <2>3. Hands
    BY <1>4, <2>1, <2>2 DEF Hands, NoneLeased
  <2> QED BY <1>1, <2>3, HandsOnward
<1> QED BY <1>2, <1>3, <1>4 DEF StartWrite, Raise

LEMMA ExecOnward ==
    ASSUME IInv, TypeOK', NEW w \in Workers, ExecWrite(w)
    PROVE  RowsAgree' /\ Onward
<1> DEFINE l == loc[w]
           op == loc[w].op
<1>1. /\ RowFacts /\ TypeOK /\ RowsAgree
      /\ pc[w] = "executing" /\ HandlerSound(w)
  BY RowFactsHold DEF IInv, ThreadSound, ExecWrite
<1>2. CASE UNCHANGED rows
  BY <1>1, <1>2, UnchangedOnward DEF rows
<1>3. CASE CanAcknowledge(w) /\ Acknowledge(w)
  BY <1>1, <1>3, AcknowledgeOnward
<1>4. CASE /\ CanPublish(w)
           /\ PublishPlan(w) \/ PublishStep(w) \/ PublishReview(w)
           /\ UNCHANGED <<lastFailed, pdf, usedKeys>>
  <2>1. Holds(w, op, l.att) /\ ~wf.cancel
    BY <1>4 DEF CanPublish, Unchanged
  <2>2. OneActive(op) /\ op \in Ops
    BY <2>1, HolderIsActive
  <2>3. CASE PublishPlan(w)
    <3>1. op = PlanOp /\ wf.status = "planning" /\ op \notin TaskOps
      BY <2>2, <2>3, OpsFacts, PhaseFacts DEF PublishPlan, OneActive
    <3>2. /\ wf'.status = "waiting-plan-approval" /\ wf'.cancel = wf.cancel
          /\ wf.rev < wf'.rev
      BY <1>1, <2>3, <3>1, WorkflowMovedFacts DEF PublishPlan, RowFacts
    <3>3. EndsAt(op)
      BY <2>1, <2>3, <3>1, <3>2 DEF EndsAt, PublishPlan, Working
    <3> QED BY <1>1, <2>2, <3>3, EndsOnward
  <2>4. CASE PublishStep(w)
    <3>1. op \in TaskOps /\ op \notin {PlanOp, ReviewOp}
      BY <2>4, OpsFacts DEF PublishStep
    <3>2. InOrder(op, TaskMoved(task, op, "completed"))
      BY <1>4, <3>1 DEF CanPublish
    <3>3. StepDone(op)
      BY <1>4, <2>1, <2>4, <3>2 DEF StepDone, PublishStep
    <3> QED BY <1>1, <2>2, <3>1, <3>3, StepOnward
  <2>5. CASE PublishReview(w)
    <3>1. op = ReviewOp /\ wf.status = "reviewing" /\ op \notin TaskOps /\ op # PlanOp
      BY <2>2, <2>5, OpsFacts, PhaseFacts DEF PublishReview, OneActive
    <3>2. PICK target \in {"completed", "blocked"} :
             wf' = WorkflowMoved(wf, target, "review-required")
      BY <2>5 DEF PublishReview
    <3>3. wf'.status = target /\ wf'.cancel = wf.cancel /\ wf.rev < wf'.rev
      BY <1>1, <3>1, <3>2, WorkflowMovedFacts DEF RowFacts
    <3>4. EndsAt(op)
      BY <2>1, <2>5, <3>1, <3>3 DEF EndsAt, PublishReview, Working
    <3> QED BY <1>1, <2>2, <3>4, EndsOnward
  <2> QED BY <1>4, <2>3, <2>4, <2>5
<1> QED BY <1>2, <1>3, <1>4 DEF ExecWrite, Raise

LEMMA ApproveOnward ==
    ASSUME IInv, TypeOK', NEW c \in Clients, Approve(c)
    PROVE  RowsAgree' /\ Onward
<1>1. TypeOK /\ RowsAgree /\ RequestSound(c) /\ req[c].kind = "approve"
  BY DEF IInv, Approve
<1>2. CASE UNCHANGED rows
  BY <1>1, <1>2, UnchangedOnward DEF rows
<1>3. CASE ~UNCHANGED rows
  <2> DEFINE tasks == [i \in TaskOps |-> [st |-> "pending", ver |-> 1]]
  <2>1. /\ WorkflowSwaps(req[c].st, req[c].rev, "running")
        /\ plan' = "approved" /\ task' = TaskMoved(tasks, 1, "queued")
        /\ job' = Enqueued(job, 1, 1, NoKey)
        /\ wf' = WorkflowMoved(wf, "running", "none")
        /\ UNCHANGED lastFailed
    BY <1>3 DEF Approve
  <2>2. wf.status = "waiting-plan-approval"
    BY <1>1, <2>1, SwapFacts DEF RequestSound
  <2>3. \A i \in TaskOps : /\ task'[i].st = IF i = 1 THEN "queued" ELSE "pending"
                           /\ task'[i].ver > 0
    <3>1. tasks \in [TaskOps -> TaskType]
      BY DEF TaskType, TaskStatuses
    <3>2. \A i \in TaskOps : tasks[i].st = "pending" /\ tasks[i].ver = 1
      OBVIOUS
    <3> HIDE DEF tasks
    <3> QED BY <2>1, <3>1, <3>2, TaskMovedFacts
  <2>4. PlanAccepted
    BY <2>1, <2>2, <2>3 DEF PlanAccepted
  <2> QED BY <1>1, <2>4, AcceptedOnward
<1> QED BY <1>2, <1>3

LEMMA CancelOnward ==
    ASSUME IInv, TypeOK', NEW c \in Clients, RequestCancel(c)
    PROVE  RowsAgree' /\ Onward
<1> DEFINE flagged == [wf EXCEPT !.cancel = TRUE, !.rev = @ + 1]
           row     == IF req[c].cancel THEN wf ELSE flagged
<1>1. /\ RowFacts /\ TypeOK /\ RowsAgree
      /\ RequestSound(c) /\ req[c].kind = "cancel"
  BY RowFactsHold DEF IInv, RequestCancel
<1>2. CASE UNCHANGED rows
  BY <1>1, <1>2, UnchangedOnward DEF rows
<1>3. CASE ~UNCHANGED rows
  <2>1. /\ wf.rev = req[c].rev /\ wf.status = req[c].st
        /\ UNCHANGED <<plan, lastFailed>>
    BY <1>3 DEF RequestCancel
  <2>2. wf.status \notin WorkflowTerminal
    BY <1>1, <2>1 DEF RequestSound
  <2>3. CASE req[c].cancel \/ NoneLeased
    <3>1. job' = CancelQueued(job) /\ task' = CancelTasks(task)
          /\ wf' = WorkflowMoved(row, "cancelled", "none")
      BY <1>3, <2>3 DEF RequestCancel
    <3>2. NoneLeased
      BY <1>1, <2>1, <2>3 DEF RequestSound
    <3>3. row \in WorkflowType /\ row.status = wf.status /\ wf.rev <= row.rev
      <4>1. wf \in WorkflowType /\ wf.rev \in Nat /\ wf.rev + 1 \in Nat
        BY <1>1 DEF RowFacts
      <4>2. \A n \in Nat : [wf EXCEPT !.cancel = TRUE, !.rev = n] \in WorkflowType
        BY <4>1 DEF WorkflowType
      <4>3. flagged \in WorkflowType
        BY <4>1, <4>2
      <4>4. flagged.status = wf.status /\ flagged.rev = wf.rev + 1
        BY <4>1 DEF WorkflowType
      <4> QED BY <4>1, <4>3, <4>4
    <3>4. wf'.status = "cancelled" /\ wf'.rev = row.rev + 1 /\ row.rev \in Nat
      <4>1. row.status # "cancelled"
        BY <2>2, <3>3 DEF WorkflowTerminal
      <4> HIDE DEF row
      <4> QED BY <3>1, <3>3, <4>1, WorkflowMovedFacts
    <3>5. wf.rev < wf'.rev
      BY <1>1, <3>3, <3>4 DEF RowFacts
    <3>6. CancelsAll
      BY <1>1, <2>1, <3>1, <3>2, <3>4, <3>5, CancelQueuedEnough DEF CancelsAll
    <3> QED BY <1>1, <3>6, CancelsAllOnward
  <2>4. CASE ~(req[c].cancel \/ NoneLeased)
    <3>1. Flagged
      BY <1>3, <2>1, <2>4 DEF RequestCancel, Flagged, NoneLeased
    <3> QED BY <1>1, <3>1, FlaggedOnward
  <2> QED BY <2>3, <2>4
<1> QED BY <1>2, <1>3

\* A retry or a resume that is not refused takes up the operation it read.
LEMMA TakesUp ==
    ASSUME IInv, NEW c \in Clients, RetryWorkflow(c) \/ ResumeWorkflow(c), ~UNCHANGED rows
    PROVE  TakenUp(req[c].op)
<1> DEFINE r == req[c]
           op == req[c].op
<1>1. RequestSound(c) /\ r.kind \in {"retry", "resume"}
  BY DEF IInv, RetryWorkflow, ResumeWorkflow
<1>2. PICK from \in {"failed", "blocked"} :
         /\ Requeue(c, from)
         /\ r.kind = "retry" => from = "failed"
         /\ r.kind = "resume" => from = "blocked"
  BY DEF RetryWorkflow, ResumeWorkflow
<1>3. /\ job[op].att = r.att
      /\ op \in TaskOps => TaskSwaps(op, from, r.tver, "queued")
      /\ WorkflowSwaps(r.st, r.rev, PhaseOf(op))
      /\ task' = IF op \in TaskOps THEN TaskMoved(task, op, "queued") ELSE task
      /\ job' = Enqueued(job, op, r.att + 1, r.key)
      /\ wf' = WorkflowMoved(wf, PhaseOf(op), "none")
      /\ UNCHANGED <<plan, lastFailed>>
  BY <1>2 DEF Requeue
<1>4. r.st \in {"failed", "blocked"} /\ (r.kind = "resume" => op = 1 /\ r.st = "blocked")
      /\ (r.kind = "retry" => /\ r.st = "failed" /\ r.att > 0
                              /\ r.rev = wf.rev => op = lastFailed.op)
  BY <1>1 DEF RequestSound
<1>5. r.st # PhaseOf(op)
  BY <1>4, PhaseFacts DEF Working
<1>6. wf.status = r.st /\ wf.rev = r.rev
  BY <1>3, <1>5, SwapFacts
<1>7. op \in TaskOps => task[op].st \in {"blocked", "failed"}
  BY <1>2, <1>3 DEF TaskSwaps
<1>8. op = ReviewOp => job[op].att > 0
  BY <1>1, <1>3, <1>4, OpsFacts
<1> QED BY <1>1, <1>3, <1>4, <1>6, <1>7, <1>8, OpsFacts DEF TakenUp

LEMMA RequeueOnward ==
    ASSUME IInv, TypeOK', NEW c \in Clients, RetryWorkflow(c) \/ ResumeWorkflow(c)
    PROVE  RowsAgree' /\ Onward
<1>1. TypeOK /\ RowsAgree /\ req[c].op \in Ops
  <2>1. req[c] \in ReqType
    BY DEF IInv, TypeOK
  <2> QED BY <2>1 DEF IInv, ReqType, Requests
<1>2. CASE UNCHANGED rows
  BY <1>1, <1>2, UnchangedOnward DEF rows
<1>3. CASE ~UNCHANGED rows
  BY <1>1, <1>3, TakesUp, TakenUpOnward
<1> QED BY <1>2, <1>3

UserReads(c) ==
    \/ AskApprove(c) \/ AskCancel(c)
    \/ \E key \in Keys : AskRetry(c, key) \/ AskResume(c, key)
UserWrites(c) == Approve(c) \/ RequestCancel(c) \/ RetryWorkflow(c) \/ ResumeWorkflow(c)

WorkerReads(w) ==
    \/ SettleNextExpired(w) \/ SettleRead(w) \/ SweepRead(w) \/ OrphanRead(w)
    \/ OrphanCheck(w) \/ ClaimSelect(w) \/ StartRead(w) \/ ExecRead(w)
WorkerWrites(w) ==
    \/ RecoverExpired(w) \/ SettleWrite(w) \/ SweepWrite(w) \/ OrphanWrite(w)
    \/ ClaimWrite(w) \/ StartWrite(w) \/ ExecWrite(w)

LEMMA ReadsOnward ==
    ASSUME IInv,
           \/ \E w \in Workers : WorkerReads(w) \/ Boot(w) \/ Drain(w) \/ Crash(w) \/ Busy(w)
           \/ \E c \in Clients : UserReads(c)
           \/ ImportPdf \/ UNCHANGED vars
    PROVE  UNCHANGED <<wf, plan, task, job, lastFailed>> /\ RowsAgree' /\ Onward
<1>1. UNCHANGED <<wf, plan, task, job, lastFailed>>
  <2>1. ASSUME NEW w \in Workers, WorkerReads(w) \/ Boot(w) \/ Drain(w) \/ Crash(w) \/ Busy(w)
        PROVE  UNCHANGED rows
    BY <2>1 DEF WorkerReads, SettleNextExpired, SettleRead, SweepRead, OrphanRead,
                OrphanCheck, ClaimSelect, StartRead, ExecRead, Raise, Boot, Drain, Crash,
                Busy
  <2>2. ASSUME NEW c \in Clients, UserReads(c) PROVE UNCHANGED rows
    BY <2>2 DEF UserReads, AskApprove, AskCancel, AskRetry, AskResume, Ask
  <2> QED BY <2>1, <2>2 DEF rows, ImportPdf, vars
<1> QED BY <1>1, UnchangedOnward DEF IInv

LEMMA RowsNext ==
    ASSUME IInv, TypeOK', [Next]_vars
    PROVE  RowsAgree' /\ Onward
<1>1. ASSUME NEW w \in Workers, WorkerWrites(w) \/ Heartbeat(w) PROVE RowsAgree' /\ Onward
  BY <1>1, HandsOver, SettleOnward, SweepOnward, OrphanOnward, StartOnward, ExecOnward
     DEF WorkerWrites
<1>2. ASSUME NEW c \in Clients, UserWrites(c) PROVE RowsAgree' /\ Onward
  BY <1>2, ApproveOnward, CancelOnward, RequeueOnward DEF UserWrites
<1>3. ASSUME NEW op \in Ops, LeaseExpires(op) PROVE RowsAgree' /\ Onward
  BY <1>3, ExpiryOnward
<1>4. CASE \/ \E w \in Workers : WorkerReads(w) \/ Boot(w) \/ Drain(w) \/ Crash(w) \/ Busy(w)
           \/ \E c \in Clients : UserReads(c)
           \/ ImportPdf \/ UNCHANGED vars
  BY <1>4, ReadsOnward
<1> QED BY <1>1, <1>2, <1>3, <1>4
        DEF Next, WorkerStep, UserStep, WorkerReads, WorkerWrites, UserReads, UserWrites

-----------------------------------------------------------------------------
(* The thread that acts and the request that is read. *)

LEMMA OtherThreads ==
    ASSUME IInv, NEW w \in Workers, NEW v \in Workers \ {w},
           \/ WorkerReads(w) \/ WorkerWrites(w)
           \/ Heartbeat(w) \/ Boot(w) \/ Drain(w) \/ Crash(w) \/ Busy(w)
    PROVE  pc'[v] = pc[v] /\ loc'[v] = loc[v]
<1>1. pc \in [Workers -> Labels] /\ loc \in [Workers -> LocType]
  BY DEF IInv, TypeOK
<1>2. \/ Leave(w) \/ Settled(w) \/ Booted(w) \/ ToExec(w) \/ (\E e \in Errors : Raise(w, e))
      => pc'[v] = pc[v] /\ loc'[v] = loc[v]
  BY <1>1 DEF Leave, Settled, Booted, ToExec, Raise, Goto
<1>3. CASE Heartbeat(w) \/ Boot(w) \/ Drain(w) \/ Crash(w) \/ Busy(w)
  <2>1. CASE Busy(w)
    BY <1>2, <2>1 DEF Busy, Errors
  <2> QED BY <1>1, <1>3, <2>1 DEF Heartbeat, Boot, Drain, Crash, Goto, procs
<1>4. CASE RecoverExpired(w) \/ SettleNextExpired(w) \/ SettleRead(w) \/ SettleWrite(w)
  <2>1. CASE Leave(w) \/ Settled(w)
    BY <1>2, <2>1
  <2>2. CASE ~(Leave(w) \/ Settled(w))
    <3>1. /\ \E label : pc' = [pc EXCEPT ![w] = label]
          /\ loc' = loc \/ \E l : loc' = [loc EXCEPT ![w] = l]
      BY <1>4, <2>2 DEF RecoverExpired, SettleNextExpired, SettleRead, SettleWrite, Goto
    <3> QED BY <1>1, <3>1
  <2> QED BY <2>1, <2>2
<1>5. CASE SweepRead(w) \/ SweepWrite(w) \/ OrphanRead(w) \/ OrphanCheck(w) \/ OrphanWrite(w)
  <2>1. CASE Leave(w) \/ Booted(w)
    BY <1>2, <2>1
  <2>2. CASE ~(Leave(w) \/ Booted(w))
    <3>1. /\ \E label : pc' = [pc EXCEPT ![w] = label]
          /\ loc' = loc \/ \E l : loc' = [loc EXCEPT ![w] = l]
      BY <1>5, <2>2 DEF SweepRead, SweepWrite, OrphanRead, OrphanCheck, OrphanWrite, Goto
    <3> QED BY <1>1, <3>1
  <2> QED BY <2>1, <2>2
<1>6. CASE ClaimSelect(w) \/ ClaimWrite(w) \/ StartRead(w) \/ StartWrite(w)
           \/ ExecRead(w) \/ ExecWrite(w)
  <2>1. CASE Leave(w) \/ ToExec(w) \/ \E e \in Errors : Raise(w, e)
    BY <1>2, <2>1
  <2>2. CASE ~(Leave(w) \/ ToExec(w) \/ \E e \in Errors : Raise(w, e))
    <3>1. "retryable" \in Errors /\ "fatal" \in Errors /\ \A op : MayRaise(op) \subseteq Errors
      BY DEF Errors, Blockers, MayRaise
    <3>2. /\ \E label : pc' = [pc EXCEPT ![w] = label]
          /\ loc' = loc \/ \E l : loc' = [loc EXCEPT ![w] = l]
      BY <1>6, <2>2, <3>1
         DEF ClaimSelect, ClaimWrite, StartRead, StartWrite, ExecRead, ExecWrite, Goto
    <3> QED BY <1>1, <3>2
  <2> QED BY <2>1, <2>2
<1> QED BY <1>3, <1>4, <1>5, <1>6 DEF WorkerReads, WorkerWrites

\* A thread that has written, or starts or dies, relies on nothing.
LEMMA WriterRests ==
    ASSUME IInv, NEW w \in Workers, WorkerWrites(w) \/ Boot(w) \/ Crash(w) \/ Busy(w)
    PROVE  ThreadSound(w)'
<1>1. pc \in [Workers -> Labels]
  BY DEF IInv, TypeOK
<1>2. \/ Leave(w) \/ Settled(w) \/ Booted(w) \/ ToExec(w) \/ (\E e \in Errors : Raise(w, e))
      => pc'[w] \in Idle
  BY <1>1 DEF Leave, Settled, Booted, ToExec, Raise, Goto, Idle, Labels
<1>3. pc'[w] \in Idle
  <2>1. CASE \/ Leave(w) \/ Settled(w) \/ Booted(w) \/ ToExec(w)
             \/ \E e \in Errors : Raise(w, e)
    BY <1>2, <2>1
  <2>2. CASE ~ \/ Leave(w) \/ Settled(w) \/ Booted(w) \/ ToExec(w)
               \/ \E e \in Errors : Raise(w, e)
    <3>1. "fatal" \in Errors
      BY DEF Errors
    <3>2. Goto(w, "sweep") \/ Goto(w, "next") \/ Goto(w, "orphan") \/ Goto(w, "claim")
             \/ Goto(w, "start") \/ Goto(w, "recover") \/ Goto(w, "down")
      BY <2>2, <3>1
         DEF WorkerWrites, RecoverExpired, SettleWrite, SweepWrite, AfterSweep,
             OrphanWrite, ClaimWrite, StartWrite, ExecWrite, Boot, Crash, Busy
    <3> QED BY <1>1, <3>2 DEF Goto, Idle, Labels
  <2> QED BY <2>1, <2>2
<1> QED BY <1>3, IdleIsSound

LEMMA SnapshotFacts ==
    ASSUME NEW l \in LocType
    PROVE  /\ Snapshot(l).op = l.op /\ Snapshot(l).att = l.att
           /\ Snapshot(l).rev = wf.rev /\ Snapshot(l).st = wf.status
           /\ Snapshot(l).cancel = wf.cancel
           /\ Snapshot(l).tst = TaskSt(l.op) /\ Snapshot(l).tver = TaskVer(l.op)
BY DEF Snapshot, LocType

\* What a holder reads is the phase of its own job and a task under way.
LEMMA HolderReads ==
    ASSUME IInv, NEW w \in Workers, Holds(w, loc[w].op, loc[w].att),
           UNCHANGED <<wf, plan, task, job, lastFailed>>,
           NEW label \in {"settling", "starting", "executing"}, Goto(w, label),
           loc'[w].op = loc[w].op, loc'[w].rev = wf.rev, loc'[w].st = wf.status,
           loc'[w].cancel = wf.cancel, loc'[w].tst = TaskSt(loc[w].op),
           label = "starting" /\ ~wf.cancel => TaskSt(loc[w].op) = "queued",
           label = "executing" /\ ~wf.cancel /\ loc[w].op \in TaskOps =>
               TaskSt(loc[w].op) = "running"
    PROVE  ThreadSound(w)'
<1> DEFINE op == loc[w].op
<1>1. OneActive(op) /\ op \in Ops
  BY HolderIsActive
<1>2. pc'[w] = label
  BY DEF IInv, TypeOK, Goto
<1>3. Current(loc[w])'
  <2>1. wf.rev \in Nat
    BY DEF IInv, TypeOK
  <2> QED BY <2>1 DEF Current
<1>4. HandlerSound(w)'
  <2>1. loc'[w].st = PhaseOf(op)
    BY <1>1 DEF OneActive
  <2>2. op \in TaskOps => TaskSt(op) \in {"queued", "running"}
    BY <1>1 DEF OneActive, TaskSt
  <2>3. TaskSt(op) = "queued" => op \in TaskOps
    BY DEF TaskSt
  <2> QED BY <1>2, <1>3, <2>1, <2>2, <2>3 DEF HandlerSound
<1>5. SweepSound(w)' /\ ClaimSound(w)' /\ OrphanSound(w)'
  BY <1>2 DEF SweepSound, ClaimSound, OrphanSound
<1> QED BY <1>4, <1>5 DEF ThreadSound

LEMMA ReaderSound ==
    ASSUME IInv, NEW w \in Workers, WorkerReads(w)
    PROVE  ThreadSound(w)'
<1> DEFINE l == loc[w]
           op == loc[w].op
<1>1. /\ pc \in [Workers -> Labels] /\ loc \in [Workers -> LocType] /\ l \in LocType
      /\ op \in Ops /\ NoLoc \in LocType /\ wf.rev \in Nat
  <2>1. /\ pc \in [Workers -> Labels] /\ loc \in [Workers -> LocType] /\ wf.rev \in Nat
    BY DEF IInv, TypeOK
  <2>2. l \in LocType /\ NoLoc \in LocType
    BY <2>1, LocWrites DEF IInv
  <2> QED BY <2>1, <2>2 DEF LocType
<1>2. UNCHANGED <<wf, plan, task, job, lastFailed>>
  BY ReadsOnward
<1>3. \/ Leave(w) \/ Settled(w) \/ Booted(w) \/ ToExec(w) \/ (\E e \in Errors : Raise(w, e))
      \/ (\E label \in Idle : Goto(w, label))
      => ThreadSound(w)'
  <2>1. \/ Leave(w) \/ Settled(w) \/ Booted(w) \/ ToExec(w) \/ (\E e \in Errors : Raise(w, e))
        \/ (\E label \in Idle : Goto(w, label))
        => pc'[w] \in Idle
    BY <1>1 DEF Leave, Settled, Booted, ToExec, Raise, Goto, Idle, Labels
  <2> QED BY <2>1, IdleIsSound
<1>4. CASE SettleNextExpired(w)
  BY <1>3, <1>4 DEF SettleNextExpired, Idle, Labels
<1>5. CASE SettleRead(w)
  <2>1. CASE Settled(w)
    BY <1>3, <2>1
  <2>2. CASE ~Settled(w)
    <3>1. /\ Holds(w, op, l.att) /\ Goto(w, "settling")
          /\ \E err : loc' = [loc EXCEPT ![w] = [Snapshot(@) EXCEPT !.err = err]]
      BY <1>5, <2>2 DEF SettleRead
    <3>2. PICK err : loc'[w] = [Snapshot(l) EXCEPT !.err = err]
      BY <1>1, <3>1
    <3>3. Snapshot(l) \in LocType
      BY <1>1, LocWrites DEF IInv
    <3>4. /\ loc'[w].op = op /\ loc'[w].rev = wf.rev /\ loc'[w].st = wf.status
          /\ loc'[w].cancel = wf.cancel /\ loc'[w].tst = TaskSt(op)
      BY <1>1, <3>2, <3>3, SnapshotFacts DEF LocType
    <3> QED BY <1>2, <3>1, <3>4, HolderReads
  <2> QED BY <2>1, <2>2
<1>6. CASE SweepRead(w)
  <2>1. CASE Goto(w, AfterSweep(w))
    BY <1>3, <2>1 DEF AfterSweep, Idle, Labels
  <2>2. CASE ~Goto(w, AfterSweep(w))
    <3>1. /\ wf.cancel /\ wf.status \notin WorkflowTerminal /\ NoneLeased
          /\ loc' = [loc EXCEPT ![w] = Snapshot(NoLoc)]
          /\ Goto(w, "sweeping")
      BY <1>6, <2>2 DEF SweepRead
    <3>2. /\ loc'[w].rev = wf.rev /\ loc'[w].st = wf.status /\ loc'[w].cancel = wf.cancel
          /\ pc'[w] = "sweeping"
      BY <1>1, <3>1, SnapshotFacts DEF Goto
    <3>3. SweepSound(w)'
      <4>1. Current(loc[w])'
        BY <1>1, <1>2, <3>2 DEF Current
      <4>2. NoneLeased' /\ loc'[w].cancel /\ loc'[w].st \notin WorkflowTerminal
        BY <1>2, <3>1, <3>2 DEF NoneLeased
      <4> QED BY <4>1, <4>2 DEF SweepSound
    <3> QED BY <3>2, <3>3 DEF ThreadSound, HandlerSound, ClaimSound, OrphanSound
  <2> QED BY <2>1, <2>2
<1>7. CASE OrphanRead(w)
  <2>1. CASE Booted(w)
    BY <1>3, <2>1
  <2>2. CASE ~Booted(w)
    <3>1. PICK i \in TaskOps : /\ task[i].st = "running"
                               /\ loc' = [loc EXCEPT ![w] = Snapshot([NoLoc EXCEPT !.op = i])]
                               /\ Goto(w, "orphaned")
      BY <1>7, <2>2 DEF OrphanRead
    <3>2. [NoLoc EXCEPT !.op = i] \in LocType /\ [NoLoc EXCEPT !.op = i].op = i
      BY <1>1, OpsFacts DEF LocType
    <3>3. /\ loc'[w].op = i /\ loc'[w].tst = "running" /\ loc'[w].tver = task[i].ver
          /\ pc'[w] = "orphaned"
      BY <1>1, <3>1, <3>2, SnapshotFacts DEF Goto, TaskSt, TaskVer
    <3>4. plan = "approved" /\ task[i].ver \in Nat
      <4>1. task[i].st # "absent"
        BY <3>1
      <4> QED BY <4>1 DEF IInv, RowsAgree, PlanGate, TypeOK, TaskType
    <3>5. OrphanSound(w)'
      BY <1>2, <3>1, <3>3, <3>4 DEF OrphanSound
    <3> QED BY <3>3, <3>5 DEF ThreadSound, HandlerSound, ClaimSound, SweepSound
  <2> QED BY <2>1, <2>2
<1>8. CASE OrphanCheck(w)
  <2>1. CASE Booted(w)
    BY <1>3, <2>1
  <2>2. CASE ~Booted(w)
    <3>1. /\ pc[w] = "orphaned" /\ ~Active(job[op]) /\ wf.status = "running"
          /\ loc' = [loc EXCEPT ![w].rev = wf.rev, ![w].st = wf.status]
          /\ Goto(w, "blocking")
      BY <1>8, <2>2 DEF OrphanCheck
    <3>2. /\ loc'[w].op = op /\ loc'[w].tst = l.tst /\ loc'[w].tver = l.tver
          /\ loc'[w].st = "running" /\ pc'[w] = "blocking"
      <4>1. loc' = [loc EXCEPT ![w] = [l EXCEPT !.rev = wf.rev, !.st = wf.status]]
        BY <1>1, <3>1
      <4>2. loc'[w] = [l EXCEPT !.rev = wf.rev, !.st = wf.status]
        BY <1>1, <4>1
      <4>3. pc'[w] = "blocking"
        BY <1>1, <3>1 DEF Goto
      <4> QED BY <1>1, <3>1, <4>2, <4>3 DEF LocType
    <3>3. /\ op \in TaskOps /\ plan = "approved" /\ l.tst = "running"
          /\ l.tver <= task[op].ver
          /\ l.tver = task[op].ver => task[op].st \in {"running", "cancelled"}
      BY <3>1 DEF IInv, ThreadSound, OrphanSound
    <3>4. task[op].st # "running"
      BY <3>1, <3>3 DEF IInv, RowsAgree, PhaseHasItsJob
    <3>5. l.tver \in Nat /\ task[op].ver \in Nat
      BY <1>1, <3>3 DEF LocType, IInv, TypeOK, TaskType
    <3>6. l.tver < task[op].ver \/ task[op].st = "cancelled"
      BY <3>3, <3>4, <3>5
    <3>7. OrphanSound(w)'
      BY <1>2, <3>2, <3>3, <3>6 DEF OrphanSound
    <3> QED BY <3>2, <3>7 DEF ThreadSound, HandlerSound, ClaimSound, SweepSound
  <2> QED BY <2>1, <2>2
<1>9. CASE ClaimSelect(w)
  <2>1. CASE Leave(w)
    BY <1>3, <2>1
  <2>2. CASE ~Leave(w)
    <3>1. PICK o \in Ops : /\ Claimable(o)
                           /\ loc' = [loc EXCEPT ![w] = [NoLoc EXCEPT !.op = o,
                                                                      !.att = job[o].att]]
                           /\ Goto(w, "claiming")
      BY <1>9, <2>2 DEF ClaimSelect
    <3>2. loc'[w].op = o /\ loc'[w].att = job[o].att /\ pc'[w] = "claiming"
      BY <1>1, <3>1 DEF Goto, LocType
    <3>3. job[o].att > 0 /\ job[o].att \in Nat
      BY <3>1 DEF Claimable, Active, IInv, RowsAgree, NoEarlyJob, TypeOK, JobType
    <3>4. ClaimSound(w)'
      BY <1>2, <3>1, <3>2, <3>3 DEF ClaimSound, Claimable
    <3> QED BY <3>2, <3>4 DEF ThreadSound, HandlerSound, OrphanSound, SweepSound
  <2> QED BY <2>1, <2>2
<1>10. CASE StartRead(w)
  <2>1. CASE Raise(w, "retryable") \/ Goto(w, "exec")
    BY <1>3, <2>1 DEF Errors, Idle, Labels
  <2>2. CASE ~(Raise(w, "retryable") \/ Goto(w, "exec"))
    <3>1. /\ Holds(w, op, l.att) /\ Goto(w, "starting")
          /\ wf.cancel \/ TaskSt(op) = "queued"
          /\ loc' = [loc EXCEPT ![w] = Snapshot(@)]
      BY <1>10, <2>2 DEF StartRead
    <3>2. loc'[w] = Snapshot(l)
      BY <1>1, <3>1
    <3>3. /\ loc'[w].op = op /\ loc'[w].rev = wf.rev /\ loc'[w].st = wf.status
          /\ loc'[w].cancel = wf.cancel /\ loc'[w].tst = TaskSt(op)
      BY <1>1, <3>2, SnapshotFacts
    <3> QED BY <1>2, <3>1, <3>3, HolderReads
  <2> QED BY <2>1, <2>2
<1>11. CASE ExecRead(w)
  <2>1. CASE \E e \in Errors : Raise(w, e)
    BY <1>3, <2>1
  <2>2. CASE ~ \E e \in Errors : Raise(w, e)
    <3>1. /\ Holds(w, op, l.att) /\ Goto(w, "executing")
          /\ wf.cancel \/ InPhase(op)
          /\ loc' = [loc EXCEPT ![w] = Snapshot(@)]
      <4>1. "retryable" \in Errors /\ "fatal" \in Errors /\ MayRaise(op) \subseteq Errors
        BY DEF Errors, Blockers, MayRaise
      <4> QED BY <1>11, <2>2, <4>1 DEF ExecRead
    <3>2. loc'[w] = Snapshot(l)
      BY <1>1, <3>1
    <3>3. /\ loc'[w].op = op /\ loc'[w].rev = wf.rev /\ loc'[w].st = wf.status
          /\ loc'[w].cancel = wf.cancel /\ loc'[w].tst = TaskSt(op)
      BY <1>1, <3>2, SnapshotFacts
    <3>4. ~wf.cancel /\ op \in TaskOps => TaskSt(op) = "running"
      BY <3>1, OpsFacts DEF InPhase, TaskSt
    <3> QED BY <1>2, <3>1, <3>3, <3>4, HolderReads
  <2> QED BY <2>1, <2>2
<1> QED BY <1>4, <1>5, <1>6, <1>7, <1>8, <1>9, <1>10, <1>11 DEF WorkerReads

LEMMA ThreadsNext ==
    ASSUME IInv, TypeOK', [Next]_vars, NEW v \in Workers
    PROVE  ThreadSound(v)'
<1>1. TypeOK /\ RowsAgree /\ ThreadSound(v) /\ RowsAgree' /\ Onward
  BY RowsNext DEF IInv
<1>2. pc'[v] = pc[v] /\ loc'[v] = loc[v] => ThreadSound(v)'
  BY <1>1, ReadingStays
<1>3. ASSUME NEW w \in Workers,
             \/ WorkerReads(w) \/ WorkerWrites(w)
             \/ Heartbeat(w) \/ Boot(w) \/ Drain(w) \/ Crash(w) \/ Busy(w)
      PROVE  ThreadSound(v)'
  <2>1. CASE v # w
    BY <1>2, <1>3, <2>1, OtherThreads
  <2>2. CASE v = w /\ WorkerReads(w)
    BY <2>2, ReaderSound
  <2>3. CASE v = w /\ (WorkerWrites(w) \/ Boot(w) \/ Crash(w) \/ Busy(w))
    BY <2>3, WriterRests
  <2>4. CASE v = w /\ (Heartbeat(w) \/ Drain(w))
    BY <1>2, <2>4 DEF Heartbeat, Drain, procs
  <2> QED BY <1>3, <2>1, <2>2, <2>3, <2>4
<1>4. ASSUME NEW c \in Clients, UserStep(c) PROVE ThreadSound(v)'
  <2>1. UNCHANGED procs
    BY <1>4 DEF UserStep, AskApprove, AskCancel, AskRetry, AskResume, Ask, Approve,
                RequestCancel, RetryWorkflow, ResumeWorkflow, Requeue, Answer
  <2> QED BY <1>2, <2>1 DEF procs
<1>5. CASE (\E op \in Ops : LeaseExpires(op)) \/ ImportPdf \/ UNCHANGED vars
  BY <1>2, <1>5 DEF LeaseExpires, ImportPdf, procs, vars
<1> QED BY <1>3, <1>4, <1>5 DEF Next, WorkerStep, WorkerReads, WorkerWrites

LEMMA RequestsNext ==
    ASSUME IInv, TypeOK', [Next]_vars, NEW d \in Clients
    PROVE  RequestSound(d)'
<1>1. TypeOK /\ RowsAgree /\ RequestSound(d) /\ Onward /\ req \in [Clients -> ReqType]
  BY RowsNext DEF IInv, TypeOK
<1>2. req'[d] = req[d] => RequestSound(d)'
  BY <1>1, RequestStays
<1>3. ASSUME NEW c \in Clients, UserReads(c) PROVE RequestSound(d)'
  <2> DEFINE Read(r) ==
               /\ r.rev = wf.rev /\ r.st = wf.status /\ r.cancel = wf.cancel
               /\ r.kind = "approve" => wf.status = "waiting-plan-approval"
               /\ r.kind = "cancel" => /\ wf.status \notin {"cancelled", "completed"}
                                       /\ wf.cancel => NoneLeased
               /\ r.kind = "retry" => /\ wf.status = "failed" /\ r.op = lastFailed.op
                                      /\ r.att > 0
               /\ r.kind = "resume" => wf.status = "blocked" /\ r.op = 1
  <2>1. PICK r : req' = [req EXCEPT ![c] = r] /\ Read(r)
    <3>1. CASE AskApprove(c)
      <4>1. Read(Request("approve", NoKey, 1, 1))
        BY <3>1 DEF AskApprove, Request
      <4> QED BY <3>1, <4>1 DEF AskApprove, Ask
    <3>2. CASE AskCancel(c)
      <4>1. Read(Request("cancel", NoKey, PlanOp, 0))
        BY <3>2 DEF AskCancel, Request
      <4> QED BY <3>2, <4>1 DEF AskCancel, Ask
    <3>3. ASSUME NEW key \in Keys, AskRetry(c, key)
          PROVE  \E r : req' = [req EXCEPT ![c] = r] /\ Read(r)
      <4>1. Read(Request("retry", key, lastFailed.op, lastFailed.att))
        BY <3>3 DEF AskRetry, Request
      <4> QED BY <3>3, <4>1 DEF AskRetry, Ask
    <3>4. ASSUME NEW key \in Keys, AskResume(c, key)
          PROVE  \E r : req' = [req EXCEPT ![c] = r] /\ Read(r)
      <4>1. Read(Request("resume", key, 1, job[1].att))
        BY <3>4 DEF AskResume, Request
      <4> QED BY <3>4, <4>1 DEF AskResume, Ask
    <3> QED BY <1>3, <3>1, <3>2, <3>3, <3>4 DEF UserReads
  <2>2. CASE c # d
    BY <1>1, <1>2, <2>1, <2>2
  <2>3. CASE c = d
    <3>1. req'[d] = r
      BY <1>1, <2>1, <2>3
    <3>3. UNCHANGED <<wf, plan, task, job, lastFailed>>
      BY <1>3, ReadsOnward
    <3>4. wf.status # "unsupported" /\ wf.rev \in Nat
      BY <1>1 DEF TypeOK, Phases
    <3> QED BY <2>1, <3>1, <3>3, <3>4
            DEF RequestSound, Current, WorkflowTerminal, NoneLeased
  <2> QED BY <2>2, <2>3
<1>4. ASSUME NEW c \in Clients, UserWrites(c) PROVE RequestSound(d)'
  <2>1. req' = [req EXCEPT ![c] = NoReq]
    BY <1>4 DEF UserWrites, Approve, RequestCancel, RetryWorkflow, ResumeWorkflow,
                Requeue, Answer
  <2>2. CASE c # d
    BY <1>1, <1>2, <2>1, <2>2
  <2>3. CASE c = d
    <3>1. req'[d].kind = "none"
      BY <1>1, <2>1, <2>3 DEF NoReq
    <3> QED BY <3>1 DEF RequestSound
  <2> QED BY <2>2, <2>3
<1>5. ASSUME NEW w \in Workers,
             \/ WorkerReads(w) \/ WorkerWrites(w)
             \/ Heartbeat(w) \/ Boot(w) \/ Drain(w) \/ Crash(w) \/ Busy(w)
      PROVE  RequestSound(d)'
  <2>1. UNCHANGED users
    BY <1>5 DEF WorkerReads, WorkerWrites, RecoverExpired, SettleNextExpired, SettleRead,
                SettleWrite, SweepRead, SweepWrite, OrphanRead, OrphanCheck, OrphanWrite,
                ClaimSelect, ClaimWrite, StartRead, StartWrite, ExecRead, ExecWrite,
                Heartbeat, Boot, Drain, Crash, Busy
  <2> QED BY <1>2, <2>1 DEF users
<1>6. CASE (\E op \in Ops : LeaseExpires(op)) \/ ImportPdf \/ UNCHANGED vars
  BY <1>2, <1>6 DEF LeaseExpires, ImportPdf, users, vars
<1> QED BY <1>3, <1>4, <1>5, <1>6
        DEF Next, WorkerStep, UserStep, WorkerReads, WorkerWrites, UserReads, UserWrites

-----------------------------------------------------------------------------
(* The invariant. *)

LEMMA IInvInit == Init => IInv
<1> SUFFICES ASSUME Init PROVE IInv
  OBVIOUS
<1>1. TypeOK
  BY TypeInit
<1>2. /\ \A op \in Ops : op # PlanOp => job[op] = NoJob
      /\ job[PlanOp].st = "queued" /\ job[PlanOp].att = 1
  BY OpsFacts DEF Init, Queued, NoJob
<1>3. \A op \in Ops : Active(job[op]) <=> op = PlanOp
  BY <1>2 DEF Active, NoJob
<1>4. RowsAgree
  <2>1. PhaseHasItsJob
    <3>1. OneActive(PlanOp)
      BY <1>3, OpsFacts, PhaseFacts DEF OneActive, Init
    <3> QED BY <3>1, ActiveCases, OpsFacts
  <2>2. StepsInOrder /\ PlanGate /\ CancelWaitsForJob
    BY DEF StepsInOrder, PlanGate, CancelWaitsForJob, Init
  <2>3. NoEarlyJob
    BY <1>2, <1>3, OpsFacts DEF NoEarlyJob, NoJob
  <2> QED BY <2>1, <2>2, <2>3 DEF RowsAgree
<1>5. \A w \in Workers : ThreadSound(w)
  <2>1. \A w \in Workers : pc[w] = "down"
    BY DEF Init
  <2> QED BY <2>1 DEF ThreadSound, HandlerSound, SweepSound, ClaimSound, OrphanSound
<1>6. \A c \in Clients : RequestSound(c)
  BY DEF Init, RequestSound, NoReq
<1> QED BY <1>1, <1>4, <1>5, <1>6 DEF IInv

LEMMA IInvNext == IInv /\ [Next]_vars => IInv'
<1> SUFFICES ASSUME IInv, [Next]_vars PROVE IInv'
  OBVIOUS
<1>1. TypeOK'
  BY TypeNext DEF IInv
<1>2. RowsAgree'
  BY <1>1, RowsNext
<1>3. \A w \in Workers : ThreadSound(w)'
  BY <1>1, ThreadsNext
<1>4. \A c \in Clients : RequestSound(c)'
  BY <1>1, RequestsNext
<1> QED BY <1>1, <1>2, <1>3, <1>4 DEF IInv

\* IInv is inductive: the rows agree and nobody holds a belief its
\* comparisons would not catch, after any number of crashes and races.
THEOREM InvariantCorrect == Spec => []IInv
<1> QED BY IInvInit, IInvNext, PTL DEF Spec

\* A workflow under way always has exactly the job that moves it, and no job
\* outlives the phase it belongs to.
THEOREM PhaseHasItsJobCorrect == Spec => []PhaseHasItsJob
<1>1. IInv => PhaseHasItsJob
  BY DEF IInv, RowsAgree
<1> QED BY <1>1, InvariantCorrect, PTL

\* Steps of the plan start strictly in order.
THEOREM StepsInOrderCorrect == Spec => []StepsInOrder
<1>1. IInv => StepsInOrder
  BY DEF IInv, RowsAgree
<1> QED BY <1>1, InvariantCorrect, PTL
-----------------------------------------------------------------------------
(* What a step may never do                                                *)

Main == <<wf, plan, task, job>>

\* A step either writes rows in one of the ways below or leaves them alone.
LEMMA StepCases ==
    ASSUME IInv, [Next]_vars
    PROVE  \/ \E w \in Workers : WorkerWrites(w) \/ Heartbeat(w)
           \/ \E c \in Clients : UserWrites(c)
           \/ \E op \in Ops : LeaseExpires(op)
           \/ UNCHANGED Main
<1>1. CASE \/ \E w \in Workers : WorkerReads(w) \/ Boot(w) \/ Drain(w) \/ Crash(w) \/ Busy(w)
           \/ \E c \in Clients : UserReads(c)
           \/ ImportPdf \/ UNCHANGED vars
  BY <1>1, ReadsOnward DEF Main
<1> QED BY <1>1
        DEF Next, WorkerStep, UserStep, WorkerReads, WorkerWrites, UserReads, UserWrites

-----------------------------------------------------------------------------
(* A workflow that has ended. *)

\* Nothing swaps the status of a workflow that has ended.
LEMMA EndedNeverSwaps ==
    ASSUME wf.status \in WorkflowTerminal, NEW st, NEW rev, NEW target, st # target
    PROVE  ~WorkflowSwaps(st, rev, target)
<1>1. \A s \in WorkflowTerminal : \A t : WorkflowMayMove(s, t) => s = t
  BY DEF WorkflowTerminal, WorkflowMayMove, WorkflowTransitions, WorkflowRow
<1> QED BY <1>1 DEF WorkflowSwaps

LEMMA EndedHasNoHolder ==
    ASSUME IInv, wf.status \in WorkflowTerminal
    PROVE  /\ NoneActive
           /\ \A w \in Workers : ~Holds(w, loc[w].op, loc[w].att)
<1>1. wf.status \notin Working
  BY DEF WorkflowTerminal, Working
<1>2. NoneActive
  BY <1>1, IdleIsNone DEF IInv, RowsAgree
<1> QED BY <1>2, HolderIsActive DEF NoneActive, Active

LEMMA EndedWorker ==
    ASSUME IInv, TypeOK', wf.status \in WorkflowTerminal,
           NEW w \in Workers, WorkerWrites(w) \/ Heartbeat(w)
    PROVE  UNCHANGED Main
<1> DEFINE l == loc[w]
<1>1. NoneActive /\ ~Holds(w, l.op, l.att) /\ job \in [Ops -> JobType]
  BY EndedHasNoHolder DEF IInv, TypeOK
<1>2. l.op \in Ops
  <2>1. l \in LocType
    BY DEF IInv, TypeOK
  <2> QED BY <2>1 DEF LocType
<1>3. CASE RecoverExpired(w)
  <2>1. \A op \in Ops : ~(job[op].st = "leased" /\ job[op].exp)
    BY <1>1 DEF NoneActive, Active
  <2>2. job' = [op \in Ops |-> job[op]]
    BY <1>3, <2>1 DEF RecoverExpired
  <2> QED BY <1>1, <1>3, <2>2 DEF RecoverExpired, Main
<1>4. CASE SettleWrite(w)
  <2>1. UNCHANGED rows
    BY <1>1, <1>4 DEF SettleWrite, SettleCancelled, SettleRetry, SettleBlocked,
                      SettleFailed, SettleConflict, CanAcknowledge, CanRetry, CanStop
  <2> QED BY <2>1 DEF rows, Main
<1>5. CASE SweepWrite(w)
  <2>1. l.st # "cancelled"
    BY <1>5 DEF SweepWrite, IInv, ThreadSound, SweepSound, WorkflowTerminal
  <2>2. ~WorkflowSwaps(l.st, l.rev, "cancelled")
    BY <2>1, EndedNeverSwaps
  <2> QED BY <1>5, <2>2 DEF SweepWrite, rows, Main
<1>6. CASE OrphanWrite(w)
  BY <1>6, OrphanOnward DEF rows, Main
<1>7. CASE ClaimWrite(w)
  <2>1. job[l.op].st # "queued"
    BY <1>1, <1>2 DEF NoneActive, Active
  <2> QED BY <1>7, <2>1 DEF ClaimWrite, rows, Main
<1>8. CASE StartWrite(w)
  <2>1. ~l.cancel => ~TaskSwaps(l.op, "queued", l.tver, "running")
    <3>1. ~l.cancel => l.op \in TaskOps
      BY <1>8 DEF StartWrite, IInv, ThreadSound, HandlerSound
    <3> QED BY <1>1, <3>1 DEF NoneActive, TaskSwaps
  <2> QED BY <1>1, <1>8, <2>1 DEF StartWrite, CanAcknowledge, Raise, rows, Main
<1>9. CASE ExecWrite(w)
  BY <1>1, <1>9 DEF ExecWrite, CanPublish, CanAcknowledge, Raise, rows, Main
<1>10. CASE Heartbeat(w)
  BY <1>1, <1>10 DEF Heartbeat
<1> QED BY <1>3, <1>4, <1>5, <1>6, <1>7, <1>8, <1>9, <1>10 DEF WorkerWrites

LEMMA EndedUser ==
    ASSUME IInv, wf.status \in WorkflowTerminal, NEW c \in Clients, UserWrites(c)
    PROVE  UNCHANGED Main
<1>1. RequestSound(c)
  BY DEF IInv
<1>2. CASE Approve(c)
  <2>1. ~WorkflowSwaps(req[c].st, req[c].rev, "running")
    BY <1>1, <1>2, EndedNeverSwaps DEF Approve, RequestSound
  <2> QED BY <1>2, <2>1 DEF Approve, rows, Main
<1>3. CASE RequestCancel(c)
  BY <1>1, <1>3 DEF RequestCancel, RequestSound, rows, Main
<1>4. CASE RetryWorkflow(c) \/ ResumeWorkflow(c)
  <2>1. req[c].st \in {"failed", "blocked"}
    BY <1>1, <1>4 DEF RetryWorkflow, ResumeWorkflow, RequestSound
  <2>2. ~WorkflowSwaps(req[c].st, req[c].rev, PhaseOf(req[c].op))
    BY <2>1, EndedNeverSwaps, PhaseFacts DEF Working
  <2> QED BY <1>4, <2>2 DEF RetryWorkflow, ResumeWorkflow, Requeue, rows, Main
<1> QED BY <1>2, <1>3, <1>4 DEF UserWrites

LEMMA EndedStays ==
    ASSUME IInv, TypeOK', wf.status \in WorkflowTerminal, [Next]_vars
    PROVE  UNCHANGED Main
<1>1. \A op \in Ops : ~LeaseExpires(op)
  BY EndedHasNoHolder DEF NoneActive, Active, LeaseExpires
<1> QED BY <1>1, StepCases, EndedWorker, EndedUser

\* A completed or cancelled workflow is never written again, whatever a thread
\* or a request read before it ended.
THEOREM TerminalIsFinalCorrect == Spec => TerminalIsFinal
<1>1. IInv /\ [Next]_vars => [wf.status \in WorkflowTerminal => UNCHANGED Main]_vars
  BY TypeNext, EndedStays DEF IInv
<1>2. [wf.status \in WorkflowTerminal => UNCHANGED Main]_vars
      => [wf.status \in WorkflowTerminal => UNCHANGED <<wf, plan, task, job>>]_vars
  BY DEF Main
<1> QED BY <1>1, <1>2, InvariantCorrect, PTL DEF Spec, TerminalIsFinal

-----------------------------------------------------------------------------
(* A workflow whose cancellation is requested. *)

KeepsCancel ==
    /\ wf'.cancel /\ wf'.status \in {wf.status, "cancelled"}
    /\ plan' = plan
    /\ \A i \in TaskOps : task'[i].st = "completed" => task[i].st = "completed"

\* The bulk write of tasks completes none.
LEMMA CancellingKeeps ==
    ASSUME TypeOK, wf.cancel, NEW code,
           task' = CancelTasks(task), wf' = WorkflowMoved(wf, "cancelled", code),
           UNCHANGED plan
    PROVE  KeepsCancel
<1>1. \A i \in TaskOps : task'[i].st = "completed" => task[i].st = "completed"
  BY CancelTasksFacts DEF TypeOK
<1>2. wf \in WorkflowType
  BY DEF TypeOK, WorkflowType
<1> QED BY <1>1, <1>2, WorkflowMovedFacts DEF KeepsCancel

LEMMA MovingKeeps ==
    ASSUME TypeOK, wf.cancel, NEW i, NEW target, target # "completed",
           task' \in {task, TaskMoved(task, i, target)}, UNCHANGED <<wf, plan>>
    PROVE  KeepsCancel
<1>1. task \in [TaskOps -> TaskType]
  BY DEF TypeOK
<1>2. \A k \in TaskOps : task'[k].st = "completed" => task[k].st = "completed"
  BY <1>1, TaskMovedFacts
<1> QED BY <1>2 DEF KeepsCancel

\* A handler that read no cancel flag read an older revision.
LEMMA UnawareIsStale ==
    ASSUME IInv, wf.cancel, NEW w \in Workers, pc[w] \in {"settling", "starting", "executing"},
           ~loc[w].cancel, NEW target, target \notin Working
    PROVE  ~WorkflowSwaps(loc[w].st, loc[w].rev, target)
<1>1. Current(loc[w]) /\ loc[w].st \in Working
  BY PhaseFacts DEF IInv, ThreadSound, HandlerSound
<1> QED BY <1>1, SwapFacts DEF Current

LEMMA FlaggedWorker ==
    ASSUME IInv, TypeOK', wf.cancel, NEW w \in Workers, WorkerWrites(w) \/ Heartbeat(w)
    PROVE  KeepsCancel
<1> DEFINE l == loc[w]
<1>1. TypeOK
  BY DEF IInv
<1>2. ASSUME Acknowledge(w) PROVE KeepsCancel
  BY <1>1, <1>2, CancellingKeeps DEF Acknowledge
<1>3. ASSUME UNCHANGED <<wf, plan, task>> PROVE KeepsCancel
  BY <1>1, <1>3, MovingKeeps
<1>4. CASE RecoverExpired(w) \/ ClaimWrite(w) \/ Heartbeat(w) \/ OrphanWrite(w)
  <2>1. UNCHANGED <<wf, plan, task>>
    BY <1>1, <1>4, OrphanOnward DEF RecoverExpired, ClaimWrite, Heartbeat, rows
  <2> QED BY <1>3, <2>1
<1>5. CASE SettleWrite(w)
  <2>1. ~l.cancel => \A target \in {"blocked", "failed"} : ~CanStop(w, target)
    BY <1>5, UnawareIsStale DEF SettleWrite, CanStop, Working
  <2>2. ~SettleBlocked(w) /\ ~SettleFailed(w)
    BY <2>1 DEF SettleBlocked, SettleFailed
  <2>3. CASE SettleCancelled(w)
    BY <1>2, <2>3 DEF SettleCancelled
  <2>4. CASE SettleRetry(w)
    BY <1>1, <2>4, MovingKeeps DEF SettleRetry
  <2>5. CASE SettleConflict(w)
    BY <1>3, <2>5 DEF SettleConflict, rows
  <2> QED BY <1>5, <2>2, <2>3, <2>4, <2>5 DEF SettleWrite
<1>6. CASE SweepWrite(w)
  <2>1. CASE UNCHANGED rows
    BY <1>3, <2>1 DEF rows
  <2>2. CASE ~UNCHANGED rows
    BY <1>1, <1>6, <2>2, CancellingKeeps DEF SweepWrite
  <2> QED BY <2>1, <2>2
<1>7. CASE StartWrite(w)
  <2>1. CASE Acknowledge(w)
    BY <1>2, <2>1
  <2>2. CASE UNCHANGED rows
    BY <1>3, <2>2 DEF rows
  <2>3. CASE /\ task' = TaskMoved(task, l.op, "running")
             /\ UNCHANGED <<wf, plan>>
    BY <1>1, <2>3, MovingKeeps
  <2> QED BY <1>7, <2>1, <2>2, <2>3 DEF StartWrite, Raise
<1>8. CASE ExecWrite(w)
  <2>1. ~CanPublish(w)
    BY DEF CanPublish, Unchanged
  <2>2. Acknowledge(w) \/ UNCHANGED rows
    BY <1>8, <2>1 DEF ExecWrite, Raise
  <2> QED BY <1>2, <1>3, <2>2 DEF rows
<1> QED BY <1>4, <1>5, <1>6, <1>7, <1>8 DEF WorkerWrites

LEMMA FlaggedUser ==
    ASSUME IInv, TypeOK', wf.cancel, NEW c \in Clients, UserWrites(c)
    PROVE  KeepsCancel
<1>1. TypeOK /\ RequestSound(c) /\ wf.status \in Working \cup {"cancelled"}
  BY DEF IInv, RowsAgree, CancelWaitsForJob
<1>2. ASSUME UNCHANGED <<wf, plan, task>> PROVE KeepsCancel
  BY <1>1, <1>2, MovingKeeps
<1>3. CASE Approve(c)
  <2>1. ~WorkflowSwaps(req[c].st, req[c].rev, "running")
    BY <1>1, <1>3, SwapFacts DEF Approve, RequestSound, Working
  <2> QED BY <1>2, <1>3, <2>1 DEF Approve, rows
<1>4. CASE RequestCancel(c)
  <2>1. CASE UNCHANGED rows
    BY <1>2, <2>1 DEF rows
  <2>2. CASE /\ wf' = [wf EXCEPT !.cancel = TRUE, !.rev = @ + 1]
             /\ UNCHANGED <<plan, task>>
    BY <1>1, <2>2 DEF KeepsCancel, TypeOK
  <2>3. CASE /\ task' = CancelTasks(task) /\ UNCHANGED plan
             /\ \/ wf' = WorkflowMoved(wf, "cancelled", "none")
                \/ wf' = WorkflowMoved([wf EXCEPT !.cancel = TRUE, !.rev = @ + 1],
                                       "cancelled", "none")
    <3>1. wf'.cancel /\ wf'.status = "cancelled"
      <4> DEFINE flagged == [wf EXCEPT !.cancel = TRUE, !.rev = @ + 1]
      <4>1. wf \in WorkflowType /\ wf.rev + 1 \in Nat
        BY <1>1 DEF TypeOK, WorkflowType
      <4>2. flagged \in WorkflowType /\ flagged.cancel
        <5>1. \A n \in Nat : /\ [wf EXCEPT !.cancel = TRUE, !.rev = n] \in WorkflowType
                            /\ [wf EXCEPT !.cancel = TRUE, !.rev = n].cancel
          BY <4>1 DEF WorkflowType
        <5> QED BY <4>1, <5>1
      <4> HIDE DEF flagged
      <4>3. wf' \in {WorkflowMoved(wf, "cancelled", "none"),
                     WorkflowMoved(flagged, "cancelled", "none")}
        BY <2>3 DEF flagged
      <4> QED BY <4>1, <4>2, <4>3, WorkflowMovedFacts
    <3>2. \A i \in TaskOps : task'[i].st = "completed" => task[i].st = "completed"
      BY <1>1, <2>3, CancelTasksFacts DEF TypeOK
    <3> QED BY <2>3, <3>1, <3>2 DEF KeepsCancel
  <2> QED BY <1>4, <2>1, <2>2, <2>3 DEF RequestCancel
<1>5. CASE RetryWorkflow(c) \/ ResumeWorkflow(c)
  <2>1. req[c].st \in {"failed", "blocked"}
    BY <1>1, <1>5 DEF RetryWorkflow, ResumeWorkflow, RequestSound
  <2>2. ~WorkflowSwaps(req[c].st, req[c].rev, PhaseOf(req[c].op))
    BY <1>1, <2>1, SwapFacts, PhaseFacts DEF Working
  <2> QED BY <1>2, <1>5, <2>2 DEF RetryWorkflow, ResumeWorkflow, Requeue, rows
<1> QED BY <1>3, <1>4, <1>5 DEF UserWrites

LEMMA FlaggedKeeps ==
    ASSUME IInv, TypeOK', wf.cancel, [Next]_vars
    PROVE  KeepsCancel
<1>1. CASE UNCHANGED Main \/ \E op \in Ops : LeaseExpires(op)
  BY <1>1, MovingKeeps DEF IInv, Main, LeaseExpires
<1> QED BY <1>1, StepCases, FlaggedWorker, FlaggedUser

\* Once a cancellation is requested no plan, step or verdict is published and
\* the workflow can only become cancelled, however late a handler comes.
THEOREM NothingPublishedAfterCancelCorrect == Spec => NothingPublishedAfterCancel
<1>1. IInv /\ [Next]_vars => [wf.cancel => KeepsCancel]_vars
  BY TypeNext, FlaggedKeeps DEF IInv
<1> QED BY <1>1, InvariantCorrect, PTL
        DEF Spec, NothingPublishedAfterCancel, KeepsCancel

-----------------------------------------------------------------------------
(* A workflow that is cancelled. *)

CancelsTasks == wf'.status = "cancelled" => task' = CancelTasks(task)

LEMMA MovesElsewhere ==
    ASSUME TypeOK, NEW target, target # "cancelled", NEW code,
           wf' = WorkflowMoved(wf, target, code)
    PROVE  CancelsTasks
<1>1. wf \in WorkflowType
  BY DEF TypeOK, WorkflowType
<1> QED BY <1>1, WorkflowMovedFacts DEF CancelsTasks

LEMMA CancellingWorker ==
    ASSUME IInv, TypeOK', wf.status # "cancelled",
           NEW w \in Workers, WorkerWrites(w) \/ Heartbeat(w)
    PROVE  CancelsTasks
<1>1. TypeOK
  BY DEF IInv
<1>2. ASSUME UNCHANGED wf \/ task' = CancelTasks(task) PROVE CancelsTasks
  BY <1>2 DEF CancelsTasks
<1>3. ASSUME Acknowledge(w) \/ UNCHANGED rows PROVE CancelsTasks
  BY <1>2, <1>3 DEF Acknowledge, rows
<1>4. CASE RecoverExpired(w) \/ ClaimWrite(w) \/ Heartbeat(w) \/ OrphanWrite(w)
  <2>1. UNCHANGED wf
    BY <1>1, <1>4, OrphanOnward DEF RecoverExpired, ClaimWrite, Heartbeat, rows
  <2> QED BY <1>2, <2>1
<1>5. CASE SettleWrite(w)
  <2>1. CASE SettleCancelled(w) \/ SettleConflict(w)
    BY <1>3, <2>1 DEF SettleCancelled, SettleConflict
  <2>2. CASE SettleRetry(w)
    BY <1>2, <2>2 DEF SettleRetry
  <2>3. CASE SettleBlocked(w)
    BY <1>1, <2>3, MovesElsewhere DEF SettleBlocked
  <2>4. CASE SettleFailed(w)
    BY <1>1, <2>4, MovesElsewhere DEF SettleFailed
  <2> QED BY <1>5, <2>1, <2>2, <2>3, <2>4 DEF SettleWrite
<1>6. CASE SweepWrite(w)
  BY <1>2, <1>3, <1>6 DEF SweepWrite
<1>7. CASE StartWrite(w)
  BY <1>2, <1>3, <1>7 DEF StartWrite, Raise
<1>8. CASE ExecWrite(w)
  <2>1. CASE PublishPlan(w)
    BY <1>1, <2>1, MovesElsewhere DEF PublishPlan
  <2>2. CASE PublishStep(w)
    BY <1>1, <1>2, <2>2, MovesElsewhere DEF PublishStep
  <2>3. CASE PublishReview(w)
    <3>1. PICK target \in {"completed", "blocked"} :
              wf' = WorkflowMoved(wf, target, "review-required")
      BY <2>3 DEF PublishReview
    <3> QED BY <1>1, <3>1, MovesElsewhere
  <2> QED BY <1>3, <1>8, <2>1, <2>2, <2>3 DEF ExecWrite, Raise
<1> QED BY <1>4, <1>5, <1>6, <1>7, <1>8 DEF WorkerWrites

LEMMA CancellingUser ==
    ASSUME IInv, wf.status # "cancelled", NEW c \in Clients, UserWrites(c)
    PROVE  CancelsTasks
<1>1. TypeOK
  BY DEF IInv
<1>2. ASSUME UNCHANGED wf PROVE CancelsTasks
  BY <1>2 DEF CancelsTasks
<1>3. CASE Approve(c)
  BY <1>1, <1>2, <1>3, MovesElsewhere DEF Approve, rows
<1>4. CASE RequestCancel(c)
  <2>1. CASE wf' = [wf EXCEPT !.cancel = TRUE, !.rev = @ + 1]
    BY <1>1, <2>1 DEF CancelsTasks, TypeOK
  <2> QED BY <1>2, <1>4, <2>1 DEF RequestCancel, CancelsTasks, rows
<1>5. CASE RetryWorkflow(c) \/ ResumeWorkflow(c)
  <2>1. PhaseOf(req[c].op) # "cancelled"
    BY PhaseFacts DEF Working
  <2> QED BY <1>1, <1>2, <1>5, <2>1, MovesElsewhere
          DEF RetryWorkflow, ResumeWorkflow, Requeue, rows
<1> QED BY <1>3, <1>4, <1>5 DEF UserWrites

LEMMA QuietNext ==
    ASSUME IInv, IInv', CancelledIsQuiet, [Next]_vars
    PROVE  CancelledIsQuiet'
<1> SUFFICES ASSUME wf'.status = "cancelled" PROVE CancelledIsQuiet'
  BY DEF CancelledIsQuiet
<1>1. TypeOK /\ TypeOK' /\ RowsAgree'
  BY DEF IInv
<1>2. \A op \in Ops : ~Active(job'[op])
  BY <1>1, OpsFacts DEF RowsAgree, PhaseHasItsJob, Active
<1>3. \A i \in TaskOps : task'[i].st \in {"absent", "completed", "cancelled"}
  <2>1. CASE wf.status = "cancelled"
    <3>1. UNCHANGED Main
      BY <1>1, <2>1, EndedStays DEF WorkflowTerminal
    <3> QED BY <2>1, <3>1 DEF CancelledIsQuiet, Main
  <2>2. CASE wf.status # "cancelled"
    <3>1. CASE UNCHANGED Main \/ \E op \in Ops : LeaseExpires(op)
      BY <2>2, <3>1 DEF Main, LeaseExpires
    <3>2. CASE ~(UNCHANGED Main \/ \E op \in Ops : LeaseExpires(op))
      <4>1. task' = CancelTasks(task)
        BY <1>1, <2>2, <3>2, StepCases, CancellingWorker, CancellingUser DEF CancelsTasks
      <4> QED BY <1>1, <4>1, CancelTasksFacts DEF TypeOK
    <3> QED BY <3>1, <3>2
  <2> QED BY <2>1, <2>2
<1> QED BY <1>2, <1>3 DEF CancelledIsQuiet, Active

\* A cancelled workflow has no job a worker could still pick up and no task
\* that looks open, whoever cancelled it and whatever was going on.
THEOREM CancelledIsQuietCorrect == Spec => []CancelledIsQuiet
<1>1. Init => CancelledIsQuiet
  BY DEF Init, CancelledIsQuiet
<1>2. IInv /\ IInv' /\ CancelledIsQuiet /\ [Next]_vars => CancelledIsQuiet'
  BY QuietNext
<1> QED BY <1>1, <1>2, InvariantCorrect, PTL DEF Spec

-----------------------------------------------------------------------------
(* A lease and who may end it. *)

EndedByHolder(op) ==
    job[op].st = "leased" /\ job'[op].st # "leased" =>
        \E w \in Workers : /\ job[op].tok = w
                           /\ loc[w].op = op /\ loc[w].att = job[op].att
                           /\ pc[w] \in {"settling", "starting", "executing"}
                           /\ pc'[w] # pc[w]

\* The one leased job is the holder's own.
LEMMA HolderEnds ==
    ASSUME IInv, NEW w \in Workers, pc[w] \in {"settling", "starting", "executing"},
           Holds(w, loc[w].op, loc[w].att), pc'[w] # pc[w], NEW op \in Ops
    PROVE  EndedByHolder(op)
<1>1. job[op].st = "leased" => op = loc[w].op
  BY HolderIsActive DEF OneActive, Active
<1> QED BY <1>1 DEF EndedByHolder, Holds

LEMMA CancelQueuedEndsNoLease ==
    ASSUME TypeOK, job' = CancelQueued(job), NEW op \in Ops
    PROVE  EndedByHolder(op)
BY CancelQueuedFacts DEF TypeOK, EndedByHolder

LEMMA WorkerEndsOwnLease ==
    ASSUME IInv, TypeOK', NEW w \in Workers, WorkerWrites(w) \/ Heartbeat(w), NEW op \in Ops
    PROVE  EndedByHolder(op)
<1>1. TypeOK /\ job \in [Ops -> JobType] /\ pc \in [Workers -> Labels]
  BY DEF IInv, TypeOK
<1>2. ASSUME UNCHANGED job PROVE EndedByHolder(op)
  BY <1>2 DEF EndedByHolder
<1>3. CASE RecoverExpired(w)
  <2>1. job'[op] = job[op] \/ job'[op] = [job[op] EXCEPT !.tok = w]
    BY <1>3 DEF RecoverExpired
  <2> QED BY <1>1, <2>1 DEF EndedByHolder, JobType
<1>4. CASE Heartbeat(w)
  <2>1. job'[op] = job[op] \/ job'[op] = [job[op] EXCEPT !.exp = FALSE]
    BY <1>1, <1>4 DEF Heartbeat
  <2> QED BY <1>1, <2>1 DEF EndedByHolder, JobType
<1>5. CASE ClaimWrite(w)
  <2>1. CASE UNCHANGED rows
    BY <1>2, <2>1 DEF rows
  <2>2. CASE job' = [job EXCEPT ![loc[w].op].st = "leased", ![loc[w].op].tok = w]
    <3>1. op # loc[w].op => job'[op] = job[op]
      BY <1>1, <2>2
    <3>2. op = loc[w].op => job'[op].st = "leased"
      BY <1>1, <2>2 DEF JobType
    <3> QED BY <3>1, <3>2 DEF EndedByHolder
  <2> QED BY <1>5, <2>1, <2>2 DEF ClaimWrite
<1>6. CASE OrphanWrite(w)
  BY <1>2, <1>6, OrphanOnward DEF rows
<1>7. CASE SweepWrite(w)
  BY <1>1, <1>2, <1>7, CancelQueuedEndsNoLease DEF SweepWrite, rows
<1>8. CASE SettleWrite(w)
  <2>1. pc[w] = "settling" /\ pc'[w] # pc[w]
    BY <1>1, <1>8 DEF SettleWrite, Settled, Leave, Goto
  <2>2. CASE SettleConflict(w)
    BY <1>2, <2>2 DEF SettleConflict, rows
  <2>3. CASE SettleCancelled(w) \/ SettleRetry(w) \/ SettleBlocked(w) \/ SettleFailed(w)
    <3>1. Holds(w, loc[w].op, loc[w].att)
      BY <2>3 DEF SettleCancelled, SettleRetry, SettleBlocked, SettleFailed,
                  CanAcknowledge, CanRetry, CanStop
    <3> QED BY <2>1, <3>1, HolderEnds
  <2> QED BY <1>8, <2>2, <2>3 DEF SettleWrite
<1>9. CASE StartWrite(w)
  <2>1. CASE UNCHANGED job
    BY <1>2, <2>1
  <2>2. CASE CanAcknowledge(w) /\ ToExec(w)
    <3>1. pc[w] = "starting" /\ pc'[w] # pc[w]
      BY <1>1, <1>9, <2>2 DEF StartWrite, ToExec, Goto
    <3> QED BY <2>2, <3>1, HolderEnds DEF CanAcknowledge
  <2> QED BY <1>9, <2>1, <2>2 DEF StartWrite, Raise, rows
<1>10. CASE ExecWrite(w)
  <2>1. CASE UNCHANGED job
    BY <1>2, <2>1
  <2>2. CASE (CanPublish(w) \/ CanAcknowledge(w)) /\ Leave(w)
    <3>1. pc[w] = "executing" /\ pc'[w] # pc[w]
      BY <1>1, <1>10, <2>2 DEF ExecWrite, Leave, Goto
    <3> QED BY <2>2, <3>1, HolderEnds DEF CanPublish, CanAcknowledge
  <2> QED BY <1>10, <2>1, <2>2 DEF ExecWrite, Raise, rows
<1> QED BY <1>3, <1>4, <1>5, <1>6, <1>7, <1>8, <1>9, <1>10 DEF WorkerWrites

\* A request cancels queued jobs, or works on a workflow that has none.
LEMMA UserEndsNoLease ==
    ASSUME IInv, NEW c \in Clients, UserWrites(c), NEW op \in Ops
    PROVE  EndedByHolder(op)
<1>1. TypeOK /\ RequestSound(c)
  BY DEF IInv
<1>2. ASSUME UNCHANGED job \/ wf.status \notin Working PROVE EndedByHolder(op)
  <2>1. wf.status \notin Working => NoneActive
    BY IdleIsNone DEF IInv, RowsAgree
  <2> QED BY <1>2, <2>1 DEF EndedByHolder, NoneActive, Active
<1>3. CASE Approve(c)
  <2>1. WorkflowSwaps(req[c].st, req[c].rev, "running") => wf.status \notin Working
    BY <1>1, <1>3, SwapFacts DEF Approve, RequestSound, Working
  <2> QED BY <1>2, <1>3, <2>1 DEF Approve, rows
<1>4. CASE RequestCancel(c)
  BY <1>1, <1>2, <1>4, CancelQueuedEndsNoLease DEF RequestCancel, rows
<1>5. CASE RetryWorkflow(c) \/ ResumeWorkflow(c)
  <2>1. req[c].st \in {"failed", "blocked"}
    BY <1>1, <1>5 DEF RetryWorkflow, ResumeWorkflow, RequestSound
  <2>2. WorkflowSwaps(req[c].st, req[c].rev, PhaseOf(req[c].op)) => wf.status \notin Working
    BY <2>1, SwapFacts, PhaseFacts DEF Working
  <2> QED BY <1>2, <1>5, <2>2 DEF RetryWorkflow, ResumeWorkflow, Requeue, rows
<1> QED BY <1>3, <1>4, <1>5 DEF UserWrites

LEMMA LeaseEndsByHolder ==
    ASSUME IInv, TypeOK', [Next]_vars, NEW op \in Ops
    PROVE  EndedByHolder(op)
<1>1. CASE UNCHANGED Main
  BY <1>1 DEF EndedByHolder, Main
<1>2. ASSUME NEW o \in Ops, LeaseExpires(o) PROVE EndedByHolder(op)
  <2>1. job'[op] = job[op] \/ job'[op] = [job[op] EXCEPT !.exp = TRUE]
    BY <1>2 DEF LeaseExpires, IInv, TypeOK
  <2>2. job[op] \in JobType
    BY DEF IInv, TypeOK
  <2> QED BY <2>1, <2>2 DEF EndedByHolder, JobType
<1> QED BY <1>1, <1>2, StepCases, WorkerEndsOwnLease, UserEndsNoLease

\* A leased job is ended only by the thread that holds that very lease: not by
\* a thread whose lease was taken over, and by no request of the user.
THEOREM OnlyHolderSettlesCorrect == Spec => OnlyHolderSettles
<1>1. IInv /\ [Next]_vars => [\A op \in Ops : EndedByHolder(op)]_vars
  BY TypeNext, LeaseEndsByHolder DEF IInv
<1> QED BY <1>1, InvariantCorrect, PTL DEF Spec, OnlyHolderSettles, EndedByHolder

-----------------------------------------------------------------------------
(* Attempts. *)

\* The attempt is the one it was, or one the worker may begin on its own.
AttemptKept(jobs, op) ==
    \/ jobs[op].att = job[op].att /\ jobs[op].key = job[op].key
    \/ jobs[op].att <= MaxJobAttempts

LEMMA SettledAttempts ==
    ASSUME NEW jobs \in [Ops -> JobType], NEW op \in Ops, NEW st, NEW o \in Ops
    PROVE  /\ Finished(jobs, op, st)[o].att = jobs[o].att /\ Finished(jobs, op, st)[o].key = jobs[o].key
           /\ CancelQueued(jobs)[o].att = jobs[o].att /\ CancelQueued(jobs)[o].key = jobs[o].key
<1>1. jobs[o] \in JobType
  OBVIOUS
<1>2. CASE o = op
  <2>1. Finished(jobs, op, st)[o] = [jobs[o] EXCEPT !.st = st, !.tok = NoWorker, !.exp = FALSE]
    BY <1>2 DEF Finished
  <2> QED BY <1>1, <2>1 DEF JobType, CancelQueued
<1>3. CASE o # op
  <2>1. Finished(jobs, op, st)[o] = jobs[o]
    BY <1>3 DEF Finished
  <2> QED BY <1>1, <2>1 DEF JobType, CancelQueued
<1> QED BY <1>2, <1>3

LEMMA BegunAttempts ==
    ASSUME NEW jobs \in [Ops -> JobType], \A o \in Ops : AttemptKept(jobs, o),
           NEW op \in Ops, NEW att \in Nat, att <= MaxJobAttempts, NEW key
    PROVE  \A o \in Ops : AttemptKept(Enqueued(jobs, op, att, key), o)
<1> TAKE o \in Ops
<1>1. CASE jobs[op].att >= att
  BY <1>1 DEF Enqueued
<1>2. CASE ~(jobs[op].att >= att)
  <2>1. jobs[op].att < att
    BY <1>2 DEF JobType
  <2>2. CASE o = op
    <3>1. Enqueued(jobs, op, att, key)[o].att = att
      BY <2>1, <2>2, EnqueuedFacts
    <3> QED BY <3>1 DEF AttemptKept
  <2>3. CASE o # op
    <3>1. Enqueued(jobs, op, att, key)[o] = jobs[o]
      BY <2>1, <2>3, EnqueuedFacts
    <3> QED BY <3>1 DEF AttemptKept
  <2> QED BY <2>2, <2>3
<1> QED BY <1>1, <1>2

\* The worker begins an attempt below its limit, or the first one of the next operation.
LEMMA WorkerAttempts ==
    ASSUME IInv, NEW w \in Workers, WorkerWrites(w) \/ Heartbeat(w)
    PROVE  (\A o \in Ops : AttemptKept(job', o)) /\ UNCHANGED usedKeys
<1> DEFINE l == loc[w]
<1>1. job \in [Ops -> JobType] /\ l \in LocType /\ l.op \in Ops /\ l.att \in Nat
  <2>1. l \in LocType
    BY DEF IInv, TypeOK
  <2> QED BY <2>1 DEF IInv, TypeOK, LocType
<1>2. \A o \in Ops : AttemptKept(job, o)
  BY DEF AttemptKept
<1>3. ASSUME NEW st \in JobStatuses
      PROVE  /\ Finished(job, l.op, st) \in [Ops -> JobType]
             /\ \A o \in Ops : AttemptKept(Finished(job, l.op, st), o)
             /\ \A o \in Ops : AttemptKept(CancelQueued(Finished(job, l.op, st)), o)
  <2>1. Finished(job, l.op, st) \in [Ops -> JobType]
    <3>1. 0 \in Nat
      OBVIOUS
    <3> QED BY <1>1, <3>1, JobWrites
  <2>2. \A o \in Ops : /\ Finished(job, l.op, st)[o].att = job[o].att
                       /\ Finished(job, l.op, st)[o].key = job[o].key
    BY <1>1, SettledAttempts
  <2> DEFINE jobs == Finished(job, l.op, st)
  <2>3. jobs \in [Ops -> JobType]
    BY <2>1
  <2> HIDE DEF jobs
  <2>4. \A o \in Ops : CancelQueued(jobs)[o].att = jobs[o].att /\ CancelQueued(jobs)[o].key = jobs[o].key
    BY <1>1, <2>3, SettledAttempts
  <2> QED BY <2>1, <2>2, <2>4 DEF AttemptKept, jobs
<1>4. Acknowledge(w) => (\A o \in Ops : AttemptKept(job', o)) /\ UNCHANGED usedKeys
  <2>1. "cancelled" \in JobStatuses
    BY DEF JobStatuses
  <2> QED BY <1>3, <2>1 DEF Acknowledge
<1>5. ASSUME job' = job PROVE \A o \in Ops : AttemptKept(job', o)
  BY <1>2, <1>5
<1>6. CASE RecoverExpired(w)
  <2>1. \A o \in Ops : job'[o] = job[o] \/ job'[o] = [job[o] EXCEPT !.tok = w]
    BY <1>6 DEF RecoverExpired
  <2>2. \A o \in Ops : job[o] \in JobType
    BY <1>1
  <2>3. \A o \in Ops : job'[o].att = job[o].att /\ job'[o].key = job[o].key
    BY <2>1, <2>2 DEF JobType
  <2> QED BY <1>6, <2>3 DEF AttemptKept, RecoverExpired
<1>7. CASE SettleWrite(w)
  <2>1. CASE SettleCancelled(w)
    BY <1>4, <2>1 DEF SettleCancelled
  <2>2. CASE SettleRetry(w)
    <3>1. l.att + 1 \in Nat /\ l.att + 1 <= MaxJobAttempts /\ "failed" \in JobStatuses
      BY <1>1, <2>2, AttemptsAssumption DEF SettleRetry, Retries, JobStatuses
    <3>2. job' = Enqueued(Finished(job, l.op, "failed"), l.op, l.att + 1, NoKey) /\ UNCHANGED usedKeys
      BY <2>2 DEF SettleRetry, JobFails
    <3> QED BY <1>1, <1>3, <3>1, <3>2, BegunAttempts
  <2>3. CASE SettleBlocked(w) \/ SettleFailed(w)
    <3>1. "failed" \in JobStatuses
      BY DEF JobStatuses
    <3> QED BY <1>3, <2>3, <3>1 DEF SettleBlocked, SettleFailed, JobFails
  <2>4. CASE SettleConflict(w)
    BY <1>5, <2>4 DEF SettleConflict, rows
  <2> QED BY <1>7, <2>1, <2>2, <2>3, <2>4 DEF SettleWrite
<1>8. CASE SweepWrite(w)
  <2>1. (job' = CancelQueued(job) \/ job' = job) /\ UNCHANGED usedKeys
    BY <1>8 DEF SweepWrite, rows
  <2>2. \A o \in Ops : AttemptKept(CancelQueued(job), o)
    BY <1>1, SettledAttempts DEF AttemptKept
  <2> QED BY <1>5, <2>1, <2>2
<1>9. CASE OrphanWrite(w)
  BY <1>5, <1>9 DEF OrphanWrite, rows
<1>10. CASE ClaimWrite(w)
  <2>1. /\ job' = job \/ job' = [job EXCEPT ![l.op].st = "leased", ![l.op].tok = w]
        /\ UNCHANGED usedKeys
    BY <1>10 DEF ClaimWrite, rows
  <2>2. CASE job' = [job EXCEPT ![l.op].st = "leased", ![l.op].tok = w]
    <3>1. \A o \in Ops : job'[o] = job[o] \/ job'[o] = [job[o] EXCEPT !.st = "leased", !.tok = w]
      BY <1>1, <2>2
    <3>2. \A o \in Ops : job[o] \in JobType
      BY <1>1
    <3>3. \A o \in Ops : job'[o].att = job[o].att /\ job'[o].key = job[o].key
      BY <3>1, <3>2 DEF JobType
    <3> QED BY <2>1, <3>3 DEF AttemptKept
  <2> QED BY <1>5, <2>1, <2>2
<1>11. CASE StartWrite(w)
  BY <1>4, <1>5, <1>11 DEF StartWrite, Raise, rows
<1>12. CASE ExecWrite(w)
  <2>1. CASE Acknowledge(w)
    BY <1>4, <2>1
  <2>2. CASE \E err \in Errors : Raise(w, err)
    BY <1>5, <2>2 DEF Raise, rows
  <2>3. CASE UNCHANGED usedKeys /\ (PublishPlan(w) \/ PublishReview(w))
    <3>1. "succeeded" \in JobStatuses
      BY DEF JobStatuses
    <3>2. job' = Finished(job, l.op, "succeeded")
      BY <2>3 DEF PublishPlan, PublishReview
    <3> QED BY <1>3, <2>3, <3>1, <3>2
  <2>4. CASE UNCHANGED usedKeys /\ PublishStep(w)
    <3>1. "succeeded" \in JobStatuses /\ 1 \in Nat /\ 1 <= MaxJobAttempts /\ l.op + 1 \in Ops
      BY <2>4, OpsFacts, AttemptsAssumption DEF JobStatuses, PublishStep
    <3>2. job' = Enqueued(Finished(job, l.op, "succeeded"), l.op + 1, 1, NoKey)
      BY <2>4 DEF PublishStep
    <3> QED BY <1>3, <2>4, <3>1, <3>2, BegunAttempts
  <2>5. "fatal" \in Errors
    BY DEF Errors
  <2> QED BY <1>12, <2>1, <2>2, <2>3, <2>4, <2>5 DEF ExecWrite
<1>13. CASE Heartbeat(w)
  <2>1. \A o \in Ops : job'[o] = job[o] \/ job'[o] = [job[o] EXCEPT !.exp = FALSE]
    BY <1>1, <1>13 DEF Heartbeat
  <2>2. \A o \in Ops : job[o] \in JobType
    BY <1>1
  <2>3. \A o \in Ops : job'[o].att = job[o].att /\ job'[o].key = job[o].key
    BY <2>1, <2>2 DEF JobType
  <2> QED BY <1>13, <2>3 DEF AttemptKept, Heartbeat
<1> QED BY <1>6, <1>7, <1>8, <1>9, <1>10, <1>11, <1>12, <1>13 DEF WorkerWrites

\* A key that was not used before buys one attempt more.
LEMMA UserAttempts ==
    ASSUME IInv, NEW c \in Clients, UserWrites(c)
    PROVE  \/ (\A o \in Ops : AttemptKept(job', o)) /\ UNCHANGED usedKeys
           \/ \E key \in Keys \ usedKeys :
                 /\ usedKeys' = usedKeys \cup {key}
                 /\ \A o \in Ops : \/ job'[o] = job[o]
                                    \/ (job'[o].att = job[o].att + 1 /\ job'[o].key = key)
<1>1. job \in [Ops -> JobType] /\ req[c] \in ReqType
  BY DEF IInv, TypeOK
<1>2. CASE UNCHANGED rows
  BY <1>2 DEF rows, AttemptKept
<1>3. CASE Approve(c) /\ job' = Enqueued(job, 1, 1, NoKey) /\ UNCHANGED usedKeys
  <2>1. 1 \in Ops /\ 1 \in Nat /\ 1 <= MaxJobAttempts /\ \A o \in Ops : AttemptKept(job, o)
    BY OpsFacts, AttemptsAssumption DEF AttemptKept
  <2> QED BY <1>1, <1>3, <2>1, BegunAttempts
<1>4. CASE RequestCancel(c) /\ (job' = CancelQueued(job) \/ job' = job) /\ UNCHANGED usedKeys
  BY <1>1, <1>4, SettledAttempts DEF AttemptKept
<1>5. CASE /\ req[c].kind \in Keyed /\ req[c].key \notin usedKeys
           /\ job[req[c].op].att = req[c].att
           /\ job' = Enqueued(job, req[c].op, req[c].att + 1, req[c].key)
           /\ usedKeys' = usedKeys \cup {req[c].key}
  <2>1. req[c].key \in Keys /\ req[c].op \in Ops /\ req[c].att \in Nat
    BY <1>1, <1>5 DEF ReqType, Requests, Keyed
  <2>2. ~(job[req[c].op].att >= req[c].att + 1)
    BY <1>5, <2>1
  <2>3. job' = [job EXCEPT ![req[c].op] = Queued(req[c].att + 1, req[c].key)]
    BY <1>5, <2>2, Zenon DEF Enqueued
  <2>4. Queued(req[c].att + 1, req[c].key).att = req[c].att + 1 /\ Queued(req[c].att + 1, req[c].key).key = req[c].key
    BY DEF Queued, NoJob
  <2>5. \A o \in Ops : \/ job'[o] = job[o]
                      \/ (job'[o].att = job[o].att + 1 /\ job'[o].key = req[c].key)
    BY <1>1, <1>5, <2>1, <2>3, <2>4
  <2> QED BY <1>5, <2>1, <2>5
<1>6. Approve(c) => \/ UNCHANGED rows
                    \/ (job' = Enqueued(job, 1, 1, NoKey) /\ UNCHANGED usedKeys)
  BY DEF Approve
<1>7. RequestCancel(c) => \/ UNCHANGED rows
                          \/ ((job' = CancelQueued(job) \/ job' = job) /\ UNCHANGED usedKeys)
  BY DEF RequestCancel
<1>8. RetryWorkflow(c) \/ ResumeWorkflow(c) =>
        \/ UNCHANGED rows
        \/ /\ req[c].kind \in Keyed /\ req[c].key \notin usedKeys
           /\ job[req[c].op].att = req[c].att
           /\ job' = Enqueued(job, req[c].op, req[c].att + 1, req[c].key)
           /\ usedKeys' = usedKeys \cup {req[c].key}
  BY DEF RetryWorkflow, ResumeWorkflow, Requeue, Keyed
<1> QED BY <1>2, <1>3, <1>4, <1>5, <1>6, <1>7, <1>8 DEF UserWrites

BoundInv == IsFiniteSet(usedKeys) /\ AutoRetryBounded

LEMMA BoundStep ==
    ASSUME IInv, IInv', BoundInv, [Next]_vars
    PROVE  BoundInv'
<1>1. job \in [Ops -> JobType] /\ job' \in [Ops -> JobType]
  BY DEF IInv, TypeOK
<1>2. Cardinality(usedKeys) \in Nat /\ MaxJobAttempts \in Nat
  BY FS_CardinalityType, AttemptsAssumption DEF BoundInv
<1>3. ASSUME \A o \in Ops : AttemptKept(job', o), UNCHANGED usedKeys PROVE BoundInv'
  <2> SUFFICES ASSUME NEW o \in Ops
               PROVE  /\ job'[o].att <= MaxJobAttempts + Cardinality(usedKeys)
                      /\ job'[o].att > MaxJobAttempts => job'[o].key # NoKey
    BY <1>3 DEF BoundInv, AutoRetryBounded
  <2>1. job[o].att \in Nat /\ job'[o].att \in Nat
    BY <1>1 DEF JobType
  <2>2. /\ job[o].att <= MaxJobAttempts + Cardinality(usedKeys)
        /\ job[o].att > MaxJobAttempts => job[o].key # NoKey
    BY DEF BoundInv, AutoRetryBounded
  <2> QED BY <1>2, <1>3, <2>1, <2>2 DEF AttemptKept
<1>4. ASSUME NEW key \in Keys \ usedKeys, usedKeys' = usedKeys \cup {key},
             \A o \in Ops : \/ job'[o] = job[o]
                            \/ (job'[o].att = job[o].att + 1 /\ job'[o].key = key)
      PROVE  BoundInv'
  <2>1. IsFiniteSet(usedKeys') /\ Cardinality(usedKeys') = Cardinality(usedKeys) + 1
    BY <1>4, FS_AddElement DEF BoundInv
  <2>2. ASSUME NEW o \in Ops
        PROVE  /\ job'[o].att <= MaxJobAttempts + Cardinality(usedKeys')
               /\ job'[o].att > MaxJobAttempts => job'[o].key # NoKey
    <3>1. job[o].att \in Nat /\ key # NoKey
      BY <1>1, <1>4, NamesAssumption DEF JobType
    <3>2. /\ job[o].att <= MaxJobAttempts + Cardinality(usedKeys)
          /\ job[o].att > MaxJobAttempts => job[o].key # NoKey
      BY DEF BoundInv, AutoRetryBounded
    <3> QED BY <1>2, <1>4, <2>1, <3>1, <3>2
  <2> QED BY <2>1, <2>2 DEF BoundInv, AutoRetryBounded
<1>5. ASSUME NEW op \in Ops, LeaseExpires(op) PROVE BoundInv'
  <2>1. \A o \in Ops : job'[o] = job[o] \/ job'[o] = [job[o] EXCEPT !.exp = TRUE]
    BY <1>1, <1>5 DEF LeaseExpires
  <2>2. \A o \in Ops : job[o] \in JobType
    BY <1>1
  <2>3. \A o \in Ops : job'[o].att = job[o].att /\ job'[o].key = job[o].key
    BY <2>1, <2>2 DEF JobType
  <2> QED BY <1>3, <1>5, <2>3 DEF AttemptKept, LeaseExpires
<1>6. CASE \/ \E w \in Workers : WorkerReads(w) \/ Boot(w) \/ Drain(w) \/ Crash(w) \/ Busy(w)
           \/ \E c \in Clients : UserReads(c)
           \/ ImportPdf \/ UNCHANGED vars
  <2>1. UNCHANGED job
    BY <1>6, ReadsOnward
  <2>2. UNCHANGED usedKeys
    <3>1. ASSUME NEW w \in Workers, WorkerReads(w) \/ Boot(w) \/ Drain(w) \/ Crash(w) \/ Busy(w)
          PROVE UNCHANGED rows
      BY <3>1 DEF WorkerReads, SettleNextExpired, SettleRead, SweepRead, OrphanRead,
                  OrphanCheck, ClaimSelect, StartRead, ExecRead, Raise, Boot, Drain, Crash,
                  Busy
    <3>2. ASSUME NEW c \in Clients, UserReads(c) PROVE UNCHANGED rows
      BY <3>2 DEF UserReads, AskApprove, AskCancel, AskRetry, AskResume, Ask
    <3> QED BY <1>6, <3>1, <3>2 DEF rows, ImportPdf, vars
  <2> QED BY <1>3, <2>1, <2>2 DEF AttemptKept
<1>7. ASSUME NEW w \in Workers, WorkerWrites(w) \/ Heartbeat(w) PROVE BoundInv'
  BY <1>3, <1>7, WorkerAttempts
<1>8. ASSUME NEW c \in Clients, UserWrites(c) PROVE BoundInv'
  BY <1>3, <1>4, <1>8, UserAttempts
<1> QED BY <1>5, <1>6, <1>7, <1>8
        DEF Next, WorkerStep, UserStep, WorkerReads, WorkerWrites, UserReads, UserWrites

\* The worker tries an operation at most MAX_JOB_ATTEMPTS times on its own
\* (settle_leased_job_error); each attempt beyond has a request of the user behind it, and
\* one Idempotency-Key buys one (retry_workflow, resume_workflow).
THEOREM AutoRetryBoundedCorrect == Spec => []AutoRetryBounded
<1>1. Init => BoundInv
  <2> SUFFICES ASSUME Init PROVE BoundInv
    OBVIOUS
  <2>1. IsFiniteSet(usedKeys) /\ Cardinality(usedKeys) = 0
    BY FS_EmptySet DEF Init
  <2>2. \A op \in Ops : job[op].att \in {0, 1}
    BY DEF Init, Queued, NoJob
  <2> QED BY <2>1, <2>2, AttemptsAssumption DEF BoundInv, AutoRetryBounded
<1>2. IInv /\ IInv' /\ BoundInv /\ [Next]_vars => BoundInv'
  BY BoundStep
<1>3. BoundInv => AutoRetryBounded
  BY DEF BoundInv
<1> QED BY <1>1, <1>2, <1>3, InvariantCorrect, PTL DEF Spec

-----------------------------------------------------------------------------
(* The workflow its user sees. *)

PipelineStep == Pipeline!PNext \/ UNCHANGED Pipeline!pipeline

Done == {i \in TaskOps : task[i].st = "completed"}

\* How far the plan has come, by counting.
LEMMA DoneFacts ==
    /\ Cardinality(Done) \in Nat /\ IsFiniteSet(Done)
    /\ Cardinality(Done) <= Steps
    /\ Cardinality(Done) = Steps <=> \A i \in TaskOps : task[i].st = "completed"
<1>1. IsFiniteSet(TaskOps) /\ Cardinality(TaskOps) = Steps
  BY FS_Interval, StepsAssumption DEF TaskOps
<1>2. Done \in SUBSET TaskOps
  BY DEF Done
<1>3. /\ IsFiniteSet(Done) /\ Cardinality(Done) <= Cardinality(TaskOps)
      /\ Cardinality(TaskOps) = Cardinality(Done) => TaskOps = Done
  BY <1>1, <1>2, FS_Subset
<1>4. Cardinality(Done) \in Nat
  BY <1>3, FS_CardinalityType
<1>5. Done = TaskOps <=> \A i \in TaskOps : task[i].st = "completed"
  BY DEF Done
<1> QED BY <1>1, <1>3, <1>4, <1>5

\* What the user sees does not show attempts, leases and revisions.
LEMMA UnseenStep ==
    ASSUME UNCHANGED <<plan, Done>>, wf'.status = wf.status, wf'.cancel = wf.cancel
    PROVE  PipelineStep
BY DEF PipelineStep, Pipeline!pipeline, Phase, Done

LEMMA SameDone ==
    ASSUME \A i \in TaskOps : task'[i].st = "completed" <=> task[i].st = "completed"
    PROVE  Done' = Done
BY DEF Done

\* A cancellation that was asked for before, or is asked for now.
LEMMA CancellingStep ==
    ASSUME TypeOK, TypeOK', wf.status \notin WorkflowTerminal,
           task' = CancelTasks(task), UNCHANGED plan,
           wf'.status = "cancelled", wf'.cancel
    PROVE  PipelineStep
<1>1. Done' = Done
  <2>1. \A i \in TaskOps : task'[i].st = "completed" <=> task[i].st = "completed"
    BY CancelTasksFacts DEF TypeOK
  <2> QED BY <2>1, SameDone
<1>2. Phase \notin Pipeline!Over /\ Phase' = "cancelled"
  BY DEF Phase, Pipeline!Over, WorkflowTerminal
<1>3. wf.cancel \in BOOLEAN /\ wf'.cancel \in BOOLEAN
  BY DEF TypeOK
<1>4. CASE wf.cancel
  BY <1>1, <1>2, <1>3, <1>4 DEF PipelineStep, Pipeline!PNext, Pipeline!Cancel, Done
<1>5. CASE ~wf.cancel
  BY <1>1, <1>2, <1>3, <1>5 DEF PipelineStep, Pipeline!PNext, Pipeline!AskToCancel, Done
<1> QED BY <1>4, <1>5

LEMMA AcknowledgeStep ==
    ASSUME IInv, TypeOK', wf.status \notin WorkflowTerminal, NEW w \in Workers,
           pc[w] \in {"settling", "starting", "executing"}, loc[w].cancel,
           CanAcknowledge(w), Acknowledge(w)
    PROVE  PipelineStep
<1> DEFINE l == loc[w]
<1>1. TypeOK /\ Current(l) /\ l.st \in Working
  BY PhaseFacts DEF IInv, ThreadSound, HandlerSound
<1>2. wf.rev = l.rev
  BY <1>1, SwapFacts DEF CanAcknowledge, Working
<1>3. wf.cancel = l.cancel
  BY <1>1, <1>2 DEF Current
<1>4. wf'.status = "cancelled" /\ wf'.cancel = wf.cancel
  BY <1>1, WorkflowMovedFacts DEF Acknowledge, TypeOK, WorkflowType
<1> QED BY <1>1, <1>3, <1>4, CancellingStep DEF Acknowledge

\* The work of a phase stops.
LEMMA StoppingStep ==
    ASSUME UNCHANGED <<plan, Done>>, wf.status \in Working, ~wf.cancel,
           wf'.status \in {"blocked", "failed"}, wf'.cancel = wf.cancel
    PROVE  PipelineStep
<1>1. Phase \in Pipeline!Working /\ Phase' = "stopped"
  BY DEF Phase, Working, Pipeline!Working
<1> QED BY <1>1 DEF PipelineStep, Pipeline!PNext, Pipeline!Stop, Done

LEMMA SettleStep ==
    ASSUME IInv, TypeOK', wf.status \notin WorkflowTerminal, NEW w \in Workers, SettleWrite(w)
    PROVE  PipelineStep
<1> DEFINE l == loc[w]
           op == loc[w].op
<1>1. TypeOK /\ pc[w] = "settling" /\ HandlerSound(w) /\ l \in LocType /\ wf \in WorkflowType
      /\ task \in [TaskOps -> TaskType]
  BY DEF IInv, TypeOK, ThreadSound, SettleWrite, WorkflowType
<1>2. /\ Current(l) /\ l.st \in Working
      /\ op \in TaskOps => l.tst \in {"queued", "running"}
  BY <1>1, PhaseFacts DEF HandlerSound
<1>3. ASSUME Holds(w, op, l.att) PROVE op \in TaskOps => task[op].st \in {"queued", "running"}
  BY <1>3, HolderIsActive DEF OneActive
<1>4. CASE SettleCancelled(w)
  BY <1>1, <1>4, AcknowledgeStep DEF SettleCancelled
<1>5. CASE SettleRetry(w)
  <2>1. op \in TaskOps => task[op].st \in {"queued", "running"}
    BY <1>3, <1>5 DEF SettleRetry, CanRetry
  <2>2. \A i \in TaskOps : task'[i].st = "completed" <=> task[i].st = "completed"
    BY <1>1, <1>5, <2>1, TaskMovedFacts DEF SettleRetry
  <2> QED BY <1>5, <2>2, SameDone, UnseenStep DEF SettleRetry
<1>6. ASSUME NEW target \in {"blocked", "failed"}, NEW code,
             ~l.cancel, CanStop(w, target), task' = TaskStops(w, target),
             wf' = WorkflowMoved(wf, target, code), UNCHANGED plan
      PROVE  PipelineStep
  <2>1. Holds(w, op, l.att) /\ WorkflowSwaps(l.st, l.rev, target)
    BY <1>6 DEF CanStop
  <2>2. wf.status = l.st /\ wf.rev = l.rev
    BY <1>2, <2>1, SwapFacts DEF Working
  <2>3. wf.status \in Working /\ ~wf.cancel
    BY <1>2, <1>6, <2>2 DEF Current
  <2>4. wf'.status = target /\ wf'.cancel = wf.cancel
    BY <1>1, <1>6, WorkflowMovedFacts
  <2>5. \A i \in TaskOps : task'[i].st = "completed" <=> task[i].st = "completed"
    <3>1. op \in TaskOps => task[op].st \in {"queued", "running"}
      BY <1>3, <2>1
    <3> QED BY <1>1, <1>6, <3>1, TaskMovedFacts DEF TaskStops
  <2> QED BY <1>6, <2>3, <2>4, <2>5, SameDone, StoppingStep
<1>7. CASE SettleBlocked(w)
  BY <1>6, <1>7 DEF SettleBlocked
<1>8. CASE SettleFailed(w)
  BY <1>6, <1>8 DEF SettleFailed
<1>9. CASE SettleConflict(w)
  BY <1>9, UnseenStep DEF SettleConflict, rows, Done
<1> QED BY <1>4, <1>5, <1>7, <1>8, <1>9 DEF SettleWrite

LEMMA StepCompletes ==
    ASSUME IInv, TypeOK', NEW i \in TaskOps, OneActive(i), StepDone(i)
    PROVE  PipelineStep
<1>1. /\ task \in [TaskOps -> TaskType] /\ wf \in WorkflowType /\ plan = "approved"
      /\ wf.status = "running" /\ task[i].st # "completed" /\ Steps \in Nat
  BY PhaseFacts, StepsAssumption
     DEF IInv, TypeOK, WorkflowType, OneActive, RowsAgree, PlanGate
<1> DEFINE tasks == TaskMoved(task, i, "completed")
<1>2. /\ tasks \in [TaskOps -> TaskType] /\ tasks[i].st = "completed"
      /\ \A k \in TaskOps \ {i} : tasks[k] = task[k]
  <2>1. "completed" \in TaskStatuses
    BY DEF TaskStatuses
  <2> QED BY <1>1, <2>1, TaskWrites, TaskMovedFacts
<1>3. /\ \A k \in 1..i : tasks[k].st = "completed"
      /\ \A k \in (i + 1)..Steps : tasks[k].st = "pending"
      /\ task' = IF i < Steps THEN TaskMoved(tasks, i + 1, "queued") ELSE tasks
      /\ wf' = IF i < Steps THEN wf ELSE WorkflowMoved(wf, "reviewing", "none")
      /\ ~wf.cancel /\ UNCHANGED plan
  BY DEF StepDone, InOrder
<1> HIDE DEF tasks
<1>4. \A k \in TaskOps : task'[k].st = "completed" <=> (k = i \/ task[k].st = "completed")
  <2>1. CASE i < Steps
    <3>1. i + 1 \in TaskOps /\ i + 1 \in (i + 1)..Steps /\ i + 1 # i
      BY <1>1, <2>1 DEF TaskOps
    <3>2. /\ task'[i + 1].st = "queued" /\ tasks[i + 1].st = "pending"
          /\ \A k \in TaskOps \ {i + 1} : task'[k] = tasks[k]
      BY <1>2, <1>3, <2>1, <3>1, TaskMovedFacts
    <3> QED BY <1>2, <3>1, <3>2
  <2>2. CASE ~(i < Steps)
    BY <1>2, <1>3, <2>2
  <2> QED BY <2>1, <2>2
<1>5. Done' = Done \cup {i} /\ i \notin Done
  BY <1>1, <1>4 DEF Done
<1>6. Cardinality(Done') = Cardinality(Done) + 1 /\ Cardinality(Done) \in Nat
  BY <1>5, DoneFacts, FS_AddElement
<1>7. Cardinality(Done) < Steps
  BY <1>1, DoneFacts
<1>8. wf'.cancel = wf.cancel /\ wf'.status = IF i < Steps THEN "running" ELSE "reviewing"
  BY <1>1, <1>3, WorkflowMovedFacts
<1>9. i < Steps <=> Cardinality(Done') # Steps
  <2>1. CASE i < Steps
    <3>1. i + 1 \in TaskOps /\ i + 1 \in (i + 1)..Steps
      BY <1>1, <2>1 DEF TaskOps
    <3>2. task'[i + 1].st = "queued"
      BY <1>2, <1>3, <2>1, <3>1, TaskMovedFacts
    <3>3. i + 1 \notin Done' /\ i + 1 \notin Done /\ i + 1 # i
      BY <1>1, <1>4, <3>1, <3>2 DEF Done
    <3>4. IsFiniteSet(Done \cup {i}) /\ Done \cup {i} \in SUBSET TaskOps
      BY DoneFacts, FS_AddElement DEF Done
    <3>5. IsFiniteSet(TaskOps) /\ Cardinality(TaskOps) = Steps
      BY FS_Interval, StepsAssumption DEF TaskOps
    <3>6. Cardinality(TaskOps) = Cardinality(Done \cup {i}) => TaskOps = Done \cup {i}
      BY <3>4, <3>5, FS_Subset
    <3> QED BY <1>5, <2>1, <3>1, <3>3, <3>5, <3>6
  <2>2. CASE ~(i < Steps)
    <3>1. i = Steps
      BY <1>1, <2>2 DEF TaskOps
    <3>2. \A k \in TaskOps : tasks[k].st = "completed"
      BY <1>3, <3>1 DEF TaskOps
    <3>3. Done' = TaskOps
      BY <1>3, <2>2, <3>2 DEF Done
    <3>4. Cardinality(TaskOps) = Steps
      BY FS_Interval, StepsAssumption DEF TaskOps
    <3> QED BY <2>2, <3>3, <3>4
  <2> QED BY <2>1, <2>2
<1>10. Phase = "working" /\ Phase' = IF Cardinality(Done') = Steps THEN "reviewing" ELSE Phase
  BY <1>1, <1>8, <1>9 DEF Phase
<1>11. Pipeline!CompleteStep
  BY <1>3, <1>6, <1>7, <1>8, <1>10 DEF Pipeline!CompleteStep, Done
<1> QED BY <1>11 DEF PipelineStep, Pipeline!PNext

LEMMA ExecStep ==
    ASSUME IInv, TypeOK', wf.status \notin WorkflowTerminal, NEW w \in Workers, ExecWrite(w)
    PROVE  PipelineStep
<1> DEFINE l == loc[w]
           op == loc[w].op
<1>1. /\ TypeOK /\ RowsAgree /\ wf \in WorkflowType /\ pc[w] = "executing"
  BY DEF IInv, ExecWrite, TypeOK, WorkflowType
<1>2. CASE UNCHANGED rows
  BY <1>2, UnseenStep DEF rows, Done
<1>3. CASE l.cancel /\ CanAcknowledge(w) /\ Acknowledge(w)
  BY <1>1, <1>3, AcknowledgeStep
<1>4. CASE /\ CanPublish(w)
           /\ PublishPlan(w) \/ PublishStep(w) \/ PublishReview(w)
           /\ UNCHANGED <<lastFailed, pdf, usedKeys>>
  <2>1. Holds(w, op, l.att) /\ ~wf.cancel
    BY <1>4 DEF CanPublish, Unchanged
  <2>2. OneActive(op) /\ op \in Ops /\ Active(job[op])
    BY <2>1, HolderIsActive DEF Active
  <2>3. CASE PublishPlan(w)
    <3>1. op = PlanOp /\ wf.status = "planning" /\ plan # "approved"
      BY <1>1, <2>2, <2>3, PhaseFacts DEF PublishPlan, OneActive, RowsAgree, PlanGate
    <3>2. wf'.status = "waiting-plan-approval" /\ wf'.cancel = wf.cancel
      BY <1>1, <2>3, WorkflowMovedFacts DEF PublishPlan
    <3>3. Phase = "planning" /\ Phase' = "offered"
      BY <3>1, <3>2 DEF Phase
    <3> QED BY <2>1, <2>3, <3>1, <3>2, <3>3
            DEF PublishPlan, PipelineStep, Pipeline!PNext, Pipeline!Offer
  <2>4. CASE PublishStep(w)
    <3>1. op \in TaskOps /\ op \notin {PlanOp, ReviewOp}
      BY <2>4, OpsFacts DEF PublishStep
    <3>2. InOrder(op, TaskMoved(task, op, "completed"))
      BY <1>4, <3>1 DEF CanPublish
    <3>3. StepDone(op)
      BY <1>4, <2>1, <2>4, <3>2 DEF StepDone, PublishStep
    <3> QED BY <2>2, <3>1, <3>3, StepCompletes
  <2>5. CASE PublishReview(w)
    <3>1. op = ReviewOp /\ wf.status = "reviewing" /\ job[ReviewOp].att > 0
      BY <1>1, <2>2, <2>5, PhaseFacts, OpsFacts DEF PublishReview, OneActive, RowsAgree, NoEarlyJob
    <3>2. PICK target \in {"completed", "blocked"} :
             wf' = WorkflowMoved(wf, target, "review-required")
      BY <2>5 DEF PublishReview
    <3>3. wf'.status = target /\ wf'.cancel = wf.cancel
      BY <1>1, <3>2, WorkflowMovedFacts
    <3>4. UNCHANGED <<plan, Done>>
      BY <2>5 DEF PublishReview, Done
    <3>5. CASE target = "blocked"
      BY <2>1, <3>1, <3>3, <3>4, <3>5, StoppingStep DEF Working
    <3>6. CASE target = "completed"
      <4>1. Cardinality(Done) = Steps
        BY <1>1, <3>1, DoneFacts DEF RowsAgree, NoEarlyJob
      <4>2. Phase = "reviewing" /\ Phase' = "completed"
        BY <3>1, <3>3, <3>6 DEF Phase
      <4> QED BY <2>1, <3>3, <3>4, <4>1, <4>2
              DEF PipelineStep, Pipeline!PNext, Pipeline!Judge, Done
    <3> QED BY <3>5, <3>6
  <2> QED BY <1>4, <2>3, <2>4, <2>5
<1> QED BY <1>2, <1>3, <1>4 DEF ExecWrite, Raise

LEMMA WorkerPipeline ==
    ASSUME IInv, TypeOK', wf.status \notin WorkflowTerminal,
           NEW w \in Workers, WorkerWrites(w) \/ Heartbeat(w)
    PROVE  PipelineStep
<1> DEFINE l == loc[w]
<1>1. TypeOK /\ wf \in WorkflowType /\ task \in [TaskOps -> TaskType]
  BY DEF IInv, TypeOK, WorkflowType
<1>2. ASSUME UNCHANGED <<wf, plan, task>> PROVE PipelineStep
  BY <1>2, UnseenStep DEF Done
<1>3. CASE RecoverExpired(w) \/ ClaimWrite(w) \/ Heartbeat(w) \/ OrphanWrite(w)
  <2>1. UNCHANGED <<wf, plan, task>>
    BY <1>1, <1>3, OrphanOnward DEF RecoverExpired, ClaimWrite, Heartbeat, rows
  <2> QED BY <1>2, <2>1
<1>4. CASE SettleWrite(w)
  BY <1>4, SettleStep
<1>5. CASE SweepWrite(w)
  <2>1. CASE UNCHANGED rows
    BY <1>2, <2>1 DEF rows
  <2>2. CASE ~UNCHANGED rows
    <3>1. /\ WorkflowSwaps(l.st, l.rev, "cancelled") /\ task' = CancelTasks(task)
          /\ wf' = WorkflowMoved(wf, "cancelled", "none") /\ UNCHANGED plan
          /\ pc[w] = "sweeping"
      BY <1>5, <2>2 DEF SweepWrite
    <3>2. Current(l) /\ l.cancel /\ l.st # "cancelled"
      BY <3>1 DEF IInv, ThreadSound, SweepSound, WorkflowTerminal
    <3>3. wf.cancel
      BY <3>1, <3>2, SwapFacts DEF Current
    <3>4. wf'.status = "cancelled" /\ wf'.cancel
      BY <1>1, <3>1, <3>3, WorkflowMovedFacts
    <3> QED BY <1>1, <3>1, <3>4, CancellingStep
  <2> QED BY <2>1, <2>2
<1>6. CASE StartWrite(w)
  <2>1. CASE l.cancel /\ CanAcknowledge(w) /\ Acknowledge(w)
    BY <1>6, <2>1, AcknowledgeStep DEF StartWrite
  <2>2. CASE UNCHANGED rows
    BY <1>2, <2>2 DEF rows
  <2>3. CASE /\ TaskSwaps(l.op, "queued", l.tver, "running")
             /\ task' = TaskMoved(task, l.op, "running")
             /\ UNCHANGED <<wf, plan>>
    <3>1. task[l.op].st = "queued"
      BY <2>3 DEF TaskSwaps
    <3>2. \A i \in TaskOps : task'[i].st = "completed" <=> task[i].st = "completed"
      BY <1>1, <2>3, <3>1, TaskMovedFacts
    <3> QED BY <2>3, <3>2, SameDone, UnseenStep
  <2> QED BY <1>6, <2>1, <2>2, <2>3 DEF StartWrite, Raise
<1>7. CASE ExecWrite(w)
  BY <1>7, ExecStep
<1> QED BY <1>3, <1>4, <1>5, <1>6, <1>7 DEF WorkerWrites

LEMMA ApproveStep ==
    ASSUME IInv, NEW c \in Clients, Approve(c)
    PROVE  PipelineStep
<1>1. TypeOK /\ RowsAgree /\ RequestSound(c) /\ req[c].kind = "approve" /\ wf \in WorkflowType
  BY DEF IInv, Approve, TypeOK, WorkflowType
<1>2. CASE UNCHANGED rows
  BY <1>2, UnseenStep DEF rows, Done
<1>3. CASE ~UNCHANGED rows
  <2> DEFINE tasks == [i \in TaskOps |-> [st |-> "pending", ver |-> 1]]
  <2>1. /\ WorkflowSwaps(req[c].st, req[c].rev, "running") /\ plan = "pending"
        /\ plan' = "approved" /\ task' = TaskMoved(tasks, 1, "queued")
        /\ wf' = WorkflowMoved(wf, "running", "none")
    BY <1>3 DEF Approve
  <2>2. wf.status = "waiting-plan-approval" /\ ~wf.cancel
    BY <1>1, <2>1, SwapFacts DEF RequestSound, RowsAgree, CancelWaitsForJob, Working
  <2>3. wf'.status = "running" /\ wf'.cancel = wf.cancel
    BY <1>1, <2>1, WorkflowMovedFacts
  <2>4. \A i \in TaskOps : task'[i].st # "completed" /\ task[i].st # "completed"
    <3>1. tasks \in [TaskOps -> TaskType]
      BY DEF TaskType, TaskStatuses
    <3>2. \A i \in TaskOps : tasks[i].st = "pending"
      OBVIOUS
    <3> HIDE DEF tasks
    <3>3. \A i \in TaskOps : task'[i].st # "completed"
      BY <2>1, <3>1, <3>2, TaskMovedFacts
    <3>4. \A i \in TaskOps : task[i].st = "absent"
      BY <1>1, <2>1 DEF RowsAgree, PlanGate
    <3> QED BY <3>3, <3>4
  <2>5. Done' = Done
    BY <2>4, SameDone
  <2>6. Phase = "offered" /\ Phase' = "working"
    BY <2>2, <2>3 DEF Phase
  <2> QED BY <2>1, <2>2, <2>3, <2>5, <2>6
          DEF PipelineStep, Pipeline!PNext, Pipeline!Accept, Done
<1> QED BY <1>2, <1>3

LEMMA RequestCancelStep ==
    ASSUME IInv, TypeOK', wf.status \notin WorkflowTerminal, NEW c \in Clients, RequestCancel(c)
    PROVE  PipelineStep
<1> DEFINE flagged == [wf EXCEPT !.cancel = TRUE, !.rev = @ + 1]
           row     == IF req[c].cancel THEN wf ELSE flagged
<1>1. TypeOK /\ RequestSound(c) /\ req[c].kind = "cancel" /\ wf \in WorkflowType
  BY DEF IInv, RequestCancel, TypeOK, WorkflowType
<1>2. CASE UNCHANGED rows
  BY <1>2, UnseenStep DEF rows, Done
<1>3. CASE ~UNCHANGED rows
  <2>1. wf.rev = req[c].rev /\ UNCHANGED plan
    BY <1>3 DEF RequestCancel
  <2>2. req[c].cancel = wf.cancel
    BY <1>1, <2>1 DEF RequestSound, Current
  <2>3. flagged \in WorkflowType /\ flagged.status = wf.status /\ flagged.cancel
    <3>1. wf.rev + 1 \in Nat
      BY <1>1 DEF WorkflowType
    <3>2. \A n \in Nat : /\ [wf EXCEPT !.cancel = TRUE, !.rev = n] \in WorkflowType
                         /\ [wf EXCEPT !.cancel = TRUE, !.rev = n].status = wf.status
                         /\ [wf EXCEPT !.cancel = TRUE, !.rev = n].cancel
      BY <1>1 DEF WorkflowType
    <3> QED BY <3>1, <3>2
  <2> HIDE DEF flagged
  <2>4. CASE req[c].cancel \/ NoneLeased
    <3>1. task' = CancelTasks(task) /\ wf' = WorkflowMoved(row, "cancelled", "none")
      BY <1>3, <2>4 DEF RequestCancel, flagged
    <3>2. row \in WorkflowType /\ row.cancel
      BY <1>1, <2>2, <2>3
    <3> HIDE DEF row
    <3>3. wf'.status = "cancelled" /\ wf'.cancel
      BY <3>1, <3>2, WorkflowMovedFacts
    <3> QED BY <1>1, <2>1, <3>1, <3>3, CancellingStep
  <2>5. CASE ~(req[c].cancel \/ NoneLeased)
    <3>1. wf' = flagged /\ UNCHANGED task
      BY <1>3, <2>5 DEF RequestCancel, flagged
    <3>2. wf'.status = wf.status /\ wf'.cancel /\ ~wf.cancel
      BY <2>2, <2>3, <2>5, <3>1
    <3>3. wf'.cancel = TRUE
      BY <3>2 DEF TypeOK
    <3>4. Phase' = Phase /\ Phase \notin Pipeline!Over /\ Done' = Done
      BY <3>1, <3>2 DEF Phase, Done, Pipeline!Over, WorkflowTerminal
    <3> QED BY <2>1, <3>2, <3>3, <3>4
            DEF PipelineStep, Pipeline!PNext, Pipeline!AskToCancel, Done
  <2> QED BY <2>4, <2>5
<1> QED BY <1>2, <1>3

\* Work goes on where it stopped: what was to be done next is to be done next.
LEMMA TakenUpStep ==
    ASSUME IInv, NEW op \in Ops, TakenUp(op)
    PROVE  PipelineStep
<1>1. TypeOK /\ RowsAgree /\ wf \in WorkflowType /\ task \in [TaskOps -> TaskType]
  BY DEF IInv, TypeOK, WorkflowType
<1>2. /\ wf.status \in {"blocked", "failed"} /\ ~wf.cancel
      /\ wf'.status = PhaseOf(op) /\ wf'.cancel = wf.cancel /\ UNCHANGED plan
  BY <1>1, WorkflowMovedFacts DEF TakenUp, RowsAgree, CancelWaitsForJob, Working
<1>3. op \in TaskOps => task[op].st \in {"blocked", "failed"}
  BY DEF TakenUp
<1>4. \A i \in TaskOps : task'[i].st = "completed" <=> task[i].st = "completed"
  BY <1>1, <1>3, TaskMovedFacts DEF TakenUp
<1>5. Done' = Done
  BY <1>4, SameDone
<1>6. Phase' = Pipeline!Due
  <2>1. CASE op = PlanOp
    <3>1. plan # "approved"
      BY <1>1, <1>2, <2>1, OpsFacts DEF TakenUp, RowsAgree, PlanGate
    <3> QED BY <1>2, <2>1, <3>1, PhaseFacts DEF Phase, Pipeline!Due
  <2>2. CASE op \in TaskOps
    <3>1. plan = "approved" /\ Cardinality(Done) < Steps
      <4>1. plan = "approved"
        BY <1>1, <1>3, <2>2 DEF RowsAgree, PlanGate
      <4>2. Cardinality(Done) # Steps
        BY <1>3, <2>2, DoneFacts
      <4> QED BY <4>1, <4>2, DoneFacts, StepsAssumption
    <3> QED BY <1>2, <2>2, <3>1, PhaseFacts DEF Phase, Pipeline!Due, Done
  <2>3. CASE op = ReviewOp
    <3>1. \A i \in TaskOps : task[i].st = "completed"
      BY <1>1, <2>3 DEF TakenUp, RowsAgree, NoEarlyJob
    <3>2. plan = "approved"
      BY <1>1, <3>1, OpsFacts DEF RowsAgree, PlanGate
    <3>3. Cardinality(Done) = Steps
      BY <3>1, DoneFacts
    <3>4. ~(Cardinality(Done) < Steps)
      BY <3>3, StepsAssumption
    <3> QED BY <1>2, <2>3, <3>2, <3>4, PhaseFacts DEF Phase, Pipeline!Due, Done
  <2> QED BY <2>1, <2>2, <2>3, OpsFacts
<1>7. Phase = "stopped"
  BY <1>2 DEF Phase
<1> QED BY <1>2, <1>5, <1>6, <1>7
        DEF PipelineStep, Pipeline!PNext, Pipeline!Reopen, Done

LEMMA RequeueStep ==
    ASSUME IInv, NEW c \in Clients, RetryWorkflow(c) \/ ResumeWorkflow(c)
    PROVE  PipelineStep
<1> DEFINE r == req[c]
           op == req[c].op
<1>1. RequestSound(c) /\ op \in Ops
  <2>1. r \in ReqType
    BY DEF IInv, TypeOK
  <2>2. op \in Ops
    BY <2>1 DEF ReqType, Requests
  <2> QED BY <2>2 DEF IInv
<1>2. CASE UNCHANGED rows
  BY <1>2, UnseenStep DEF rows, Done
<1>3. CASE ~UNCHANGED rows
  <2>1. TakenUp(op)
    BY <1>1, <1>3, TakesUp
  <2> QED BY <1>1, <2>1, TakenUpStep
<1> QED BY <1>2, <1>3

LEMMA PipelineNext ==
    ASSUME IInv, TypeOK', [Next]_vars
    PROVE  PipelineStep
<1>1. CASE UNCHANGED Main \/ \E op \in Ops : LeaseExpires(op)
  BY <1>1, UnseenStep DEF Main, LeaseExpires, Done
<1>2. CASE wf.status \in WorkflowTerminal
  BY <1>1, <1>2, EndedStays
<1>3. ASSUME wf.status \notin WorkflowTerminal, NEW c \in Clients, UserWrites(c)
      PROVE  PipelineStep
  BY <1>3, ApproveStep, RequestCancelStep, RequeueStep DEF UserWrites
<1> QED BY <1>1, <1>2, <1>3, StepCases, WorkerPipeline

LEMMA PipelineInit == ASSUME Init PROVE Pipeline!PInit
<1>1. Done = {}
  BY DEF Init, Done
<1>2. Cardinality(Done) = 0
  BY <1>1, FS_EmptySet
<1> QED BY <1>2 DEF Init, Pipeline!PInit, Phase, Done

\* Jobs, leases, retries, crashes and races implement the pipeline of the
\* user: steps are completed once each and in order, work is taken up where it
\* stopped (retry_workflow, resume_workflow), and after a cancellation request
\* nothing but the cancellation is seen to happen.
THEOREM ImplementsPipelineCorrect == Spec => ImplementsPipeline
<1>1. Init => Pipeline!PInit
  BY PipelineInit
<1>2. IInv /\ [Next]_vars => [Pipeline!PNext]_(Pipeline!pipeline)
  BY TypeNext, PipelineNext DEF IInv, PipelineStep
<1> QED BY <1>1, <1>2, InvariantCorrect, PTL
        DEF Spec, ImplementsPipeline, Pipeline!PSpec
=============================================================================

--------------------------- MODULE DiscoveryProofs ---------------------------
(***************************************************************************)
(* A search is executed at most once, its answer is kept, the searches     *)
(* follow the approved policy and are asked as SearchOnce promises: for    *)
(* any number of queries, providers, processes, attempts, crashes and lost *)
(* leases.                                                                 *)
(***************************************************************************)
EXTENDS Discovery, SequenceTheorems, FiniteSetTheorems, TLAPS

Rows == [status : {"prepared", "pending", "succeeded", "failed", "outcome-unknown", "cancelled"}, code : Codes]
Points == {"idle", "down", "leased", "started", "prepared", "authorized", "answered", "recorded",
           "settling", "recovering"}
\* Points of a process that has an invocation of its own.
Working == {"prepared", "authorized", "answered", "recorded"}
Repeatable(r) == r.status = "failed" /\ r.code \in {"safe", "unsent"}

Types ==
    /\ wf \in [status : {"running", "blocked", "failed", "cancelled"}, cancel : BOOLEAN]
    /\ task \in [Operations -> CancellableTask \cup {"completed", "cancelled"}]
    /\ job \in [op : Operations, attempt : Nat \ {0}, holder : Processes \cup {NoProcess}, live : BOOLEAN,
                status : {"queued", "leased", "succeeded", "failed", "cancelled"}, error : Codes]
    /\ inv \in [Operations -> Seq(Rows)]
    /\ found \in Seq([op : Operations, result : Results])
    /\ served \in [Operations -> Nat]
    /\ pc \in [Processes -> Points]
    /\ loc \in [Processes -> [op : Operations \cup {NoOperation}, attempt : Nat,
                              out : {"none", "failed", "expired"}, answer : Answers \cup {"none"}]]

\* The job has an owner exactly while it is leased, and the owner works on this attempt.
Owned ==
    /\ job.holder \in Processes <=> job.status = "leased"
    /\ job.live => job.status = "leased"
    /\ \A p \in Processes : pc[p] \notin {"idle", "down"} =>
          /\ loc[p].op \in Operations /\ loc[p].attempt \in Nat \ {0}
          /\ Holds(p) => loc[p].op = job.op /\ loc[p].attempt = job.attempt

\* Only the last attempt of an operation may stand for a request that was sent.
Attempts ==
    /\ \A o \in Operations : \A a \in 1 .. Len(inv[o]) - 1 : Repeatable(inv[o][a])
    /\ Len(inv[job.op]) <= job.attempt
    /\ job.status = "queued" => Len(inv[job.op]) < job.attempt
    /\ \A o \in Operations : task[o] = "pending" => inv[o] = <<>>
    /\ \A p \in Processes : pc[p] \in {"leased", "started"} /\ Holds(p) => Len(inv[job.op]) < job.attempt

\* Every row has one process that made it; who may send or has sent knows the last row, and
\* only who takes the lease over can have changed it meanwhile.
Invocations ==
    /\ \A p \in Processes : pc[p] \in Working => loc[p].attempt \in 1 .. Len(inv[loc[p].op])
    /\ \A p, q \in Processes :
          pc[p] \in Working /\ pc[q] \in Working /\ loc[p].op = loc[q].op /\ loc[p].attempt = loc[q].attempt
              => p = q
    /\ \A p \in Processes : pc[p] \in {"authorized", "answered"} =>
          loc[p].attempt = Len(inv[loc[p].op]) /\ Mine(p).status \in {"pending", "outcome-unknown"}
    /\ \A p \in Processes : Holds(p) =>
          /\ pc[p] = "prepared" => Mine(p).status = "prepared"
          /\ pc[p] \in {"authorized", "answered"} => Mine(p).status = "pending"

\* A request that was executed is the last of its operation, and no record denies it.
Executions ==
    /\ \A o \in Operations : served[o] <= 1
    /\ \A o \in Operations : served[o] > 0 =>
          inv[o] # <<>> /\ Last(o).status # "prepared" /\ ~Repeatable(Last(o))
    /\ \A p \in Processes : pc[p] = "authorized" => served[loc[p].op] = 0
    /\ \A p \in Processes : pc[p] = "answered" =>
          loc[p].answer \in Answers /\ served[loc[p].op] = IF loc[p].answer \in Refusals THEN 0 ELSE 1

Unanswered(o) == \A i \in DOMAIN found : found[i].op # o

\* An answer belongs to a search that succeeded, and only who has that record ends its job.
Answered ==
    /\ \A i \in DOMAIN found : inv[found[i].op] # <<>> /\ Last(found[i].op).status = "succeeded"
    /\ AnswerIsKept
    /\ job.status \in {"queued", "leased"} /\ Len(inv[job.op]) < job.attempt => Unanswered(job.op)
    /\ \A p \in Processes : Holds(p) /\ pc[p] = "settling" => wf.cancel \/ Unanswered(job.op)

\* While a search is under way, every other is unasked or answered.
OthersRest == \A o \in Operations \ {job.op} : inv[o] = <<>> \/ Last(o).status = "succeeded"

DInv == Types /\ Owned /\ Attempts /\ Invocations /\ Executions /\ Answered /\ OthersRest
-----------------------------------------------------------------------------
LEMMA EmptyRows == ASSUME NEW s \in Seq(Rows) PROVE s = <<>> <=> Len(s) = 0
  BY EmptySeq

LEMMA FoundTyped == ASSUME Types PROVE \A i \in DOMAIN found : found[i].op \in Operations
<1> DEFINE R == [op : Operations, result : Results]
<1>1. found \in Seq(R) /\ DOMAIN found = 1 .. Len(found)
  BY LenProperties DEF Types
<1>2. \A i \in DOMAIN found : found[i] \in R
  BY <1>1, ElementOfSeq
<1> QED BY <1>2

LEMMA InvInit == Init => DInv
<1> SUFFICES ASSUME NEW first \in Operations,
        /\ wf = [status |-> "running", cancel |-> FALSE]
        /\ task = [o \in Operations |-> IF o = first THEN "queued" ELSE "pending"]
        /\ job = [op |-> first, attempt |-> 1, status |-> "queued", holder |-> NoProcess,
                  live |-> FALSE, error |-> "none"]
        /\ inv = [o \in Operations |-> <<>>]
        /\ found = <<>>
        /\ pc = [p \in Processes |-> "idle"]
        /\ loc = [p \in Processes |-> Idle]
        /\ served = [o \in Operations |-> 0]
     PROVE DInv
  BY DEF Init
<1>1. Types
  <2>1. <<>> \in Seq(Rows) /\ <<>> \in Seq([op : Operations, result : Results])
    OBVIOUS
  <2> QED BY <2>1 DEF Types, CancellableTask, Codes, Points, Idle
<1>2. Owned
  BY DiscoveryAssumption DEF Owned
<1>3. Len(<<>>) = 0 /\ DOMAIN <<>> = {}
  OBVIOUS
<1> QED BY <1>1, <1>2, <1>3
        DEF DInv, Attempts, Invocations, Executions, Answered, OthersRest, AnswerIsKept, Unanswered, Holds, Working

\* A step of the job, the tasks and the processes that leaves the records alone, starts no
\* attempt and gives up no answer.
LEMMA ControlKeeps ==
  ASSUME DInv, Types', Owned', UNCHANGED <<inv, found, served>>, AnswerIsKept',
         job'.op = job.op, job'.attempt = job.attempt,
         job'.status = "queued" => job.status = "queued",
         job'.status = "leased" => job.status \in {"queued", "leased"},
         \A o \in Operations : task'[o] = "pending" => task[o] = "pending",
         \A p \in Processes :
            /\ pc'[p] \in Working => pc[p] = pc'[p] /\ loc'[p].op = loc[p].op
                                      /\ loc'[p].attempt = loc[p].attempt /\ loc'[p].answer = loc[p].answer
            /\ pc'[p] \in {"leased", "started"} /\ Holds(p)' =>
                  job.status = "queued" \/ (pc[p] \in {"leased", "started"} /\ Holds(p))
            /\ pc'[p] \in Working /\ Holds(p)' => Holds(p)
            /\ pc'[p] = "settling" /\ Holds(p)' => wf'.cancel \/ Unanswered(job.op)
  PROVE  DInv'
<1>1. Attempts'
  BY DEF DInv, Attempts
<1>2. Invocations'
  BY DEF DInv, Invocations, Mine, Working
<1>3. Executions'
  BY DEF DInv, Executions, Last, Working
<1>4. Answered'
  BY DEF DInv, Answered, Last, Unanswered
<1>5. OthersRest'
  BY DEF DInv, OthersRest, Last
<1> QED BY <1>1, <1>2, <1>3, <1>4, <1>5 DEF DInv

\* The parts of the invariant the control steps use.
LEMMA Known == ASSUME DInv
  PROVE  /\ Types /\ Owned /\ AnswerIsKept
         /\ NoProcess \notin Processes
         /\ \A p \in Processes : Holds(p) => job.status = "leased"
         /\ \A p, q \in Processes : Holds(p) /\ Holds(q) => p = q
  BY DiscoveryAssumption DEF DInv, Answered, Holds, Owned

LEMMA LocMoves ==
  ASSUME Types, NEW p \in Processes, NEW out \in {"none", "failed", "expired"}, NEW answer \in Answers,
         loc' \in {[loc EXCEPT ![p].out = out], [loc EXCEPT ![p].answer = answer]}
  PROVE  loc' \in [Processes -> [op : Operations \cup {NoOperation}, attempt : Nat,
                                 out : {"none", "failed", "expired"}, answer : Answers \cup {"none"}]]
<1> DEFINE L == [op : Operations \cup {NoOperation}, attempt : Nat,
                 out : {"none", "failed", "expired"}, answer : Answers \cup {"none"}]
<1>1. loc \in [Processes -> L] /\ loc[p] \in L
  BY DEF Types
<1>2. [loc[p] EXCEPT !.out = out] \in L /\ [loc[p] EXCEPT !.answer = answer] \in L
  BY <1>1
<1> HIDE DEF L
<1>3. loc' \in {[loc EXCEPT ![p] = [loc[p] EXCEPT !.out = out]], [loc EXCEPT ![p] = [loc[p] EXCEPT !.answer = answer]]}
  BY <1>1
<1>4. loc' \in [Processes -> L]
  BY <1>1, <1>2, <1>3
<1> QED BY <1>4 DEF L

LEMMA BootKeeps == ASSUME DInv, NEW p \in Processes, Boot(p) PROVE DInv'
<1>1. Types' /\ Owned' /\ AnswerIsKept'
  BY Known DEF Boot, Move, Types, Owned, Holds, AnswerIsKept, Points
<1> QED BY <1>1, Known, ControlKeeps DEF Boot, Move, Holds, Types, Working, Answered, DInv

LEMMA CrashKeeps == ASSUME DInv, NEW p \in Processes, Crash(p) PROVE DInv'
<1>1. Types'
  BY Known DEF Crash, Move, Types, Points, Idle
<1>2. Owned' /\ AnswerIsKept'
  BY Known DEF Crash, Move, Types, Owned, Holds, AnswerIsKept
<1>3. \A q \in Processes : pc'[q] # "down" => q # p /\ pc'[q] = pc[q] /\ loc'[q] = loc[q]
  BY Known DEF Crash, Move, Types
<1>4. UNCHANGED <<wf, task, job, inv, found, served>>
  BY DEF Crash
<1> QED BY <1>1, <1>2, <1>3, <1>4, ControlKeeps, Known DEF Holds, Working, Answered, DInv

LEMMA LeaseKeeps == ASSUME DInv, NEW live \in BOOLEAN, job.status = "leased", job' = [job EXCEPT !.live = live],
                           UNCHANGED <<wf, task, inv, found, pc, loc, served>>
                    PROVE  DInv'
<1>1. /\ job'.op = job.op /\ job'.attempt = job.attempt /\ job'.status = job.status /\ job'.holder = job.holder
      /\ job'.error = job.error /\ job'.live = live
  BY Known DEF Types
<1>2. Types'
  BY Known DEF Types
<1>3. Owned' /\ AnswerIsKept'
  BY <1>1, Known DEF Owned, Holds, AnswerIsKept
<1> QED BY <1>1, <1>2, <1>3, ControlKeeps DEF Holds, Answered, DInv

LEMMA LeaseJobKeeps == ASSUME DInv, NEW p \in Processes, LeaseJob(p) PROVE DInv'
<1>1. Types'
  BY Known DEF LeaseJob, Move, Types, Points, Idle
<1>2. /\ job.status = "queued" /\ pc[p] = "idle" /\ job' = [job EXCEPT !.status = "leased", !.holder = p, !.live = TRUE]
      /\ loc' = [loc EXCEPT ![p] = [Idle EXCEPT !.op = job.op, !.attempt = job.attempt]]
      /\ pc' = [pc EXCEPT ![p] = "leased"] /\ UNCHANGED <<wf, task, inv, found, served>>
  BY DEF LeaseJob, Move
<1>3. /\ job'.op = job.op /\ job'.attempt = job.attempt /\ job'.status = "leased" /\ job'.holder = p
      /\ loc'[p].op = job.op /\ loc'[p].attempt = job.attempt /\ pc'[p] = "leased"
      /\ job.op \in Operations /\ job.attempt \in Nat \ {0}
      /\ \A q \in Processes \ {p} : loc'[q] = loc[q] /\ pc'[q] = pc[q]
  BY <1>2, Known DEF Types, Idle
<1>4. Owned' /\ AnswerIsKept'
  BY <1>2, <1>3, Known DEF Owned, Holds, AnswerIsKept
<1> QED BY <1>1, <1>2, <1>3, <1>4, ControlKeeps DEF Holds, Working

LEMMA TakeExpiredKeeps == ASSUME DInv, NEW p \in Processes, TakeExpired(p) PROVE DInv'
<1>1. Types'
  BY Known DEF TakeExpired, Move, Types, Points, Idle
<1>2. /\ job.status = "leased" /\ pc[p] = "idle" /\ job' = [job EXCEPT !.holder = p, !.live = TRUE]
      /\ loc' = [loc EXCEPT ![p] = [Idle EXCEPT !.op = job.op, !.attempt = job.attempt]]
      /\ pc' = [pc EXCEPT ![p] = "recovering"] /\ UNCHANGED <<wf, task, inv, found, served>>
  BY DEF TakeExpired, Takeable, Move
<1>3. /\ job'.op = job.op /\ job'.attempt = job.attempt /\ job'.status = "leased" /\ job'.holder = p
      /\ loc'[p].op = job.op /\ loc'[p].attempt = job.attempt /\ pc'[p] = "recovering"
      /\ job.op \in Operations /\ job.attempt \in Nat \ {0}
      /\ \A q \in Processes \ {p} : loc'[q] = loc[q] /\ pc'[q] = pc[q]
  BY <1>2, Known DEF Types, Idle
<1>4. Owned' /\ AnswerIsKept'
  BY <1>2, <1>3, Known DEF Owned, Holds, AnswerIsKept
<1> QED BY <1>1, <1>2, <1>3, <1>4, ControlKeeps DEF Holds, Working

\* A process goes on to settle its job, or finds that it is not its any more.
LEMMA LeaveKeeps ==
  ASSUME DInv, NEW p \in Processes, pc[p] \notin {"idle", "down"}, NEW out \in {"failed", "expired"}, Leave(p, out),
         UNCHANGED <<wf, task, job, inv, found, served>>, Holds(p) => wf.cancel \/ Unanswered(job.op)
  PROVE  DInv'
<1>1. Types'
  <2>1. pc' \in [Processes -> Points]
    BY Known DEF Leave, Move, Types, Points
  <2>2. \E any \in Answers : TRUE
    BY DEF Answers
  <2>3. loc' \in [Processes -> [op : Operations \cup {NoOperation}, attempt : Nat,
                              out : {"none", "failed", "expired"}, answer : Answers \cup {"none"}]]
    BY <2>2, Known, LocMoves DEF Leave
  <2> QED BY <2>1, <2>3, Known DEF Types
<1>2. /\ pc'[p] = "settling" /\ loc'[p].op = loc[p].op /\ loc'[p].attempt = loc[p].attempt
      /\ \A q \in Processes \ {p} : loc'[q] = loc[q] /\ pc'[q] = pc[q]
  BY Known DEF Leave, Move, Types
<1>3. Owned' /\ AnswerIsKept'
  BY <1>2, Known DEF Owned, Holds, AnswerIsKept
<1> QED BY <1>1, <1>2, <1>3, ControlKeeps DEF Holds, Working, Answered, DInv

LEMMA StartKeeps == ASSUME DInv, NEW p \in Processes, Start(p) PROVE DInv'
<1>1. CASE Holds(p) /\ ~wf.cancel
  <2>1. Types'
    BY <1>1, Known DEF Start, Move, Types, Points, CancellableTask
  <2>2. /\ pc[p] = "leased" /\ pc'[p] = "started" /\ \A q \in Processes \ {p} : pc'[q] = pc[q]
        /\ UNCHANGED <<wf, job, inv, found, loc, served>>
    BY <1>1, Known DEF Start, Move, Types
  <2>3. job.op \in Operations /\ \A o \in Operations \ {job.op} : task'[o] = task[o]
    BY <1>1, Known DEF Start, Types
  <2>4. task'[job.op] = "running"
    BY <1>1, <2>3, Known DEF Start, Types
  <2>5. Owned' /\ AnswerIsKept'
    <3>1. \A i \in DOMAIN found : found[i].op \in Operations
      BY Known, FoundTyped
    <3>2. Owned'
      BY <2>2, Known DEF Owned, Holds
    <3>3. AnswerIsKept'
      BY <1>1, <2>2, <2>3, <3>1, Known DEF AnswerIsKept
    <3> QED BY <3>2, <3>3
  <2> QED BY <1>1, <2>1, <2>2, <2>3, <2>4, <2>5, ControlKeeps DEF Holds, Working, Answered, DInv
<1>2. CASE ~(Holds(p) /\ ~wf.cancel)
  BY <1>2, LeaveKeeps DEF Start
<1> QED BY <1>1, <1>2

\* A process settles the job it holds.
LEMMA EndJobKeeps ==
  ASSUME DInv, NEW p \in Processes, Done(p), NEW st \in {"succeeded", "failed", "cancelled"}, NEW e \in Codes,
         job' = EndJob(st, e), UNCHANGED <<inv, found, served>>, AnswerIsKept',
         wf' \in [status : {"running", "blocked", "failed", "cancelled"}, cancel : BOOLEAN],
         task' \in [Operations -> CancellableTask \cup {"completed", "cancelled"}],
         \A o \in Operations : task'[o] = "pending" => task[o] = "pending"
  PROVE  DInv'
<1>1. Types'
  BY Known DEF Done, Move, EndJob, Types, Points, Idle
<1>2. /\ job'.op = job.op /\ job'.attempt = job.attempt /\ job'.status = st /\ job'.holder = NoProcess
      /\ job'.live = FALSE
  BY Known DEF EndJob, Types
<1>3. pc'[p] = "idle" /\ \A q \in Processes \ {p} : loc'[q] = loc[q] /\ pc'[q] = pc[q]
  BY Known DEF Done, Move, Types
<1>4. Owned'
  BY <1>2, <1>3, Known DEF Owned, Holds
<1> QED BY <1>1, <1>2, <1>3, <1>4, ControlKeeps DEF Holds, Working

LEMMA TaskToKeeps ==
  ASSUME Types, NEW o \in Operations, NEW st \in {"failed", "blocked", "cancelled", "queued"}, TaskTo(o, st)
  PROVE  /\ task' \in [Operations -> CancellableTask \cup {"completed", "cancelled"}]
         /\ \A r \in Operations : task'[r] = "pending" => task[r] = "pending"
         /\ \A r \in Operations : task[r] = "completed" => task'[r] = "completed"
  BY DEF Types, TaskTo, CancellableTask

LEMMA CancelTasksKeeps ==
  ASSUME Types, task' = CancelTasks
  PROVE  /\ task' \in [Operations -> CancellableTask \cup {"completed", "cancelled"}]
         /\ \A r \in Operations : task'[r] = "pending" => task[r] = "pending"
         /\ \A r \in Operations : task[r] = "completed" => task'[r] = "completed"
  BY DEF Types, CancelTasks, CancellableTask

\* No answer is given up with a job that brought none.
LEMMA NoAnswerGoes ==
  ASSUME DInv, UNCHANGED <<wf, found>>, Unanswered(job.op),
         \A r \in Operations : task[r] = "completed" => task'[r] = "completed"
  PROVE  AnswerIsKept'
<1>1. \A i \in DOMAIN found : found[i].op \in Operations
  BY Known, FoundTyped
<1>2. ASSUME NEW i \in DOMAIN found PROVE task'[found[i].op] = "completed" \/ wf.cancel
  BY <1>1, Known DEF AnswerIsKept, Unanswered
<1> QED BY <1>2 DEF AnswerIsKept

\* An invocation that did not succeed brought no answer.
LEMMA NoSuccessNoAnswer ==
  ASSUME DInv, inv[job.op] # <<>>, Last(job.op).status # "succeeded"
  PROVE  Unanswered(job.op)
  BY DEF DInv, Answered, Unanswered

\* Who holds the job and has its invocation knows the last row.
LEMMA HolderKnows ==
  ASSUME DInv, NEW p \in Processes, Holds(p), pc[p] \in Working \/ (pc[p] = "recovering" /\ Evidence(p) # "none")
  PROVE  /\ loc[p].op = job.op /\ loc[p].attempt = job.attempt /\ job.attempt = Len(inv[job.op])
         /\ job.op \in Operations /\ inv[job.op] # <<>> /\ inv[job.op] \in Seq(Rows)
         /\ Mine(p) = Last(job.op) /\ Mine(p) \in Rows
<1>1. /\ loc[p].op = job.op /\ loc[p].attempt = job.attempt /\ job.op \in Operations /\ job.attempt \in Nat \ {0}
      /\ Len(inv[job.op]) <= job.attempt
  BY Known DEF Owned, Working, Types, DInv, Attempts
<1>2. inv[job.op] \in Seq(Rows) /\ Len(inv[job.op]) \in Nat
  BY <1>1, Known DEF Types
<1>3. job.attempt = Len(inv[job.op])
  BY <1>1, <1>2 DEF DInv, Invocations, Evidence
<1>4. Mine(p) \in Rows
  BY <1>1, <1>2, <1>3 DEF Mine
<1> QED BY <1>1, <1>2, <1>3, <1>4, EmptyRows DEF Mine, Last

LEMMA AgentStops == ASSUME DInv, NEW st \in {"failed", "blocked"}, wf' = [wf EXCEPT !.status = st],
                           UNCHANGED <<task, job, inv, found, pc, loc, served>>
                    PROVE  DInv'
<1>1. Types' /\ Owned' /\ wf'.cancel = wf.cancel
  BY Known DEF Types, Owned, Holds
<1>2. AnswerIsKept'
  BY <1>1, Known DEF AnswerIsKept
<1> QED BY <1>1, <1>2, ControlKeeps DEF Holds, Working, Answered, DInv

\* What the user and the sweep cancel at once.
LEMMA CancelRestKeeps ==
  ASSUME DInv, job.status # "leased", CancelRest, wf'.cancel, UNCHANGED <<pc, loc>>,
         wf' \in [status : {"running", "blocked", "failed", "cancelled"}, cancel : BOOLEAN]
  PROVE  DInv'
<1>1. /\ task' = CancelTasks /\ UNCHANGED <<inv, found, served, pc, loc>>
      /\ job' = job \/ (job.status = "queued" /\ job' = EndJob("cancelled", "none"))
  BY DEF CancelRest
<1>2. /\ job'.op = job.op /\ job'.attempt = job.attempt /\ job'.status \in {job.status, "cancelled"}
      /\ job'.holder \in {job.holder, NoProcess} /\ job.holder \notin Processes
      /\ job'.live \in {job.live, FALSE}
      /\ job' \in [op : Operations, attempt : Nat \ {0}, holder : Processes \cup {NoProcess}, live : BOOLEAN,
                status : {"queued", "leased", "succeeded", "failed", "cancelled"}, error : Codes]
  BY <1>1, Known DEF EndJob, Types, Owned, Codes
<1>3. Types'
  BY <1>1, <1>2, Known, CancelTasksKeeps DEF Types
<1>4. \A p \in Processes : ~Holds(p) /\ ~Holds(p)'
  BY <1>2, Known DEF Holds
<1>5. Owned'
  BY <1>1, <1>2, <1>4, Known DEF Owned, Holds
<1>6. AnswerIsKept'
  BY DEF AnswerIsKept
<1> QED BY <1>1, <1>2, <1>3, <1>4, <1>5, <1>6, Known, CancelTasksKeeps, ControlKeeps

LEMMA RequestCancelKeeps == ASSUME DInv, RequestCancel PROVE DInv'
<1>1. CASE job.status # "leased"
  <2>1. wf' = [status |-> "cancelled", cancel |-> TRUE] /\ CancelRest /\ UNCHANGED <<pc, loc>>
    BY <1>1 DEF RequestCancel
  <2>2. wf'.cancel /\ wf' \in [status : {"running", "blocked", "failed", "cancelled"}, cancel : BOOLEAN]
    BY <2>1
  <2> QED BY <1>1, <2>1, <2>2, CancelRestKeeps
<1>2. CASE job.status = "leased"
  <2>1. /\ wf' = [wf EXCEPT !.cancel = TRUE] /\ wf'.cancel
        /\ UNCHANGED <<task, job, inv, found, served, pc, loc>>
    BY <1>2, Known DEF RequestCancel, Types
  <2>2. Types' /\ Owned' /\ AnswerIsKept'
    BY <2>1, Known DEF Types, Owned, Holds, AnswerIsKept
  <2> QED BY <2>1, <2>2, ControlKeeps DEF Holds, Working
<1> QED BY <1>1, <1>2

LEMMA SweepKeeps == ASSUME DInv, NEW p \in Processes, Sweep(p) PROVE DInv'
<1>1. wf' \in [status : {"running", "blocked", "failed", "cancelled"}, cancel : BOOLEAN] /\ wf'.cancel
  BY Known DEF Sweep, Sweepable, Types
<1> QED BY <1>1, CancelRestKeeps DEF Sweep, Sweepable

\* The step of an answered search is completed with its job.
LEMMA CompleteKeeps ==
  ASSUME DInv, NEW p \in Processes, Holds(p), Done(p), Complete(job.op), UNCHANGED <<inv, found, served>>
  PROVE  DInv'
<1>1. /\ task' = [task EXCEPT ![job.op] = "completed"] /\ job' = EndJob("succeeded", "none")
      /\ wf' \in {wf, [wf EXCEPT !.status = "blocked"]}
  BY DEF Complete
<1>2. /\ wf' \in [status : {"running", "blocked", "failed", "cancelled"}, cancel : BOOLEAN] /\ wf'.cancel = wf.cancel
      /\ job.op \in Operations
  BY <1>1, Known DEF Types
<1>3. /\ task' \in [Operations -> CancellableTask \cup {"completed", "cancelled"}]
      /\ task'[job.op] = "completed" /\ \A r \in Operations \ {job.op} : task'[r] = task[r]
  BY <1>1, <1>2, Known DEF Types
<1>4. AnswerIsKept'
  <2>1. ASSUME NEW i \in DOMAIN found PROVE task'[found[i].op] = "completed" \/ wf'.cancel
    BY <1>2, <1>3, Known, FoundTyped DEF AnswerIsKept
  <2> QED BY <2>1 DEF AnswerIsKept
<1>5. \A o \in Operations : task'[o] = "pending" => task[o] = "pending"
  BY <1>3
<1> QED BY <1>1, <1>2, <1>3, <1>4, <1>5, EndJobKeeps DEF Codes

\* The job of a search that brought no answer is settled with its step.
LEMMA FailureKeeps ==
  ASSUME DInv, NEW p \in Processes, Done(p), Unanswered(job.op), NEW st \in {"failed", "cancelled"}, NEW e \in Codes,
         NEW o \in Operations, NEW to \in {"failed", "blocked", "cancelled"},
         job' = EndJob(st, e), TaskTo(o, to), UNCHANGED <<inv, found, served>>,
         wf'.cancel = wf.cancel, wf' \in [status : {"running", "blocked", "failed", "cancelled"}, cancel : BOOLEAN]
  PROVE  DInv'
<1>1. AnswerIsKept'
  <2>1. ASSUME NEW i \in DOMAIN found PROVE task'[found[i].op] = "completed" \/ wf'.cancel
    BY Known, FoundTyped, TaskToKeeps DEF AnswerIsKept, Unanswered
  <2> QED BY <2>1 DEF AnswerIsKept
<1> QED BY <1>1, Known, TaskToKeeps, EndJobKeeps

LEMMA ConcludeKeeps == ASSUME DInv, NEW p \in Processes, Conclude(p) PROVE DInv'
<1>1. CASE ~Holds(p)
  BY <1>1, LeaveKeeps DEF Conclude
<1>2. CASE Holds(p)
  <2>1. /\ pc[p] = "recorded" /\ Done(p) /\ UNCHANGED <<inv, found, served>>
        /\ loc[p].op = job.op /\ job.op \in Operations /\ inv[job.op] # <<>> /\ Mine(p) = Last(job.op)
        /\ Mine(p) \in Rows
    BY <1>2, HolderKnows DEF Conclude, Working
  <2>2. CASE Mine(p).status = "succeeded"
    BY <1>2, <2>1, <2>2, CompleteKeeps DEF Conclude
  <2>3. CASE Mine(p).status # "succeeded"
    <3>1. Unanswered(job.op) /\ Mine(p).code \in Codes
      BY <2>1, <2>3, NoSuccessNoAnswer DEF Rows
    <3>2. /\ job' = EndJob("failed", Mine(p).code) /\ UNCHANGED wf
          /\ \E to \in {"failed", "blocked"} : TaskTo(job.op, to)
      BY <1>2, <2>1, <2>3 DEF Conclude
    <3> QED BY <2>1, <3>1, <3>2, Known, FailureKeeps DEF Types
  <2> QED BY <2>2, <2>3
<1> QED BY <1>1, <1>2

LEMMA RecoverEnds ==
  ASSUME DInv, NEW p \in Processes, RecoverAnswered(p) \/ RecoverCancelled(p) \/ RecoverFailed(p)
  PROVE  DInv'
<1>1. /\ pc[p] = "recovering" /\ Holds(p) /\ Evidence(p) # "none" /\ Done(p) /\ UNCHANGED <<inv, found, served>>
  BY DEF RecoverAnswered, RecoverCancelled, RecoverFailed, Recovers
<1>2. /\ loc[p].op = job.op /\ job.op \in Operations /\ inv[job.op] # <<>> /\ Mine(p) = Last(job.op)
      /\ Mine(p) \in Rows
  BY <1>1, HolderKnows
<1>3. Evidence(p) = Mine(p).status
  BY <1>1 DEF Evidence
<1>4. CASE RecoverAnswered(p)
  BY <1>1, <1>2, <1>4, CompleteKeeps DEF RecoverAnswered
<1>5. CASE RecoverCancelled(p)
  <2>1. Unanswered(job.op)
    BY <1>2, <1>3, <1>5, NoSuccessNoAnswer DEF RecoverCancelled
  <2> QED BY <1>1, <1>2, <1>5, <2>1, Known, FailureKeeps DEF RecoverCancelled, Types, Codes
<1>6. CASE RecoverFailed(p)
  <2>1. Unanswered(job.op) /\ Mine(p).code \in Codes
    BY <1>2, <1>3, <1>6, NoSuccessNoAnswer DEF RecoverFailed, Rows
  <2> QED BY <1>1, <1>2, <1>6, <2>1, Known, FailureKeeps DEF RecoverFailed, Types
<1> QED BY <1>4, <1>5, <1>6

LEMMA RecoverNothingKeeps == ASSUME DInv, NEW p \in Processes, RecoverNothing(p) PROVE DInv'
<1>1. pc[p] = "recovering" /\ Holds(p) /\ Evidence(p) = "none" /\ Leave(p, "expired")
  BY DEF RecoverNothing, Recovers
<1>2. loc[p].op = job.op /\ loc[p].attempt = job.attempt /\ job.status = "leased" /\ job.op \in Operations
      /\ job.attempt \in Nat \ {0} /\ inv[job.op] \in Seq(Rows)
  BY <1>1, Known DEF Owned, Types
<1>3. Len(inv[job.op]) < job.attempt
  <2> SUFFICES ASSUME Len(inv[job.op]) >= job.attempt PROVE FALSE
    BY <1>2, LenProperties
  <2>1. inv[job.op][job.attempt] \in Rows
    BY <1>2, ElementOfSeq, LenProperties
  <2> QED BY <1>1, <1>2, <2>1 DEF Evidence, Mine, Rows
<1>4. Unanswered(job.op)
  BY <1>2, <1>3 DEF DInv, Answered
<1> QED BY <1>1, <1>4, LeaveKeeps DEF RecoverNothing

LEMMA RecoverLostKeeps == ASSUME DInv, NEW p \in Processes, RecoverLost(p) PROVE DInv'
<1>1. pc'[p] = "idle" /\ \A q \in Processes \ {p} : loc'[q] = loc[q] /\ pc'[q] = pc[q]
  BY Known DEF RecoverLost, Done, Move, Types
<1>2. UNCHANGED <<wf, task, job, inv, found, served>>
  BY DEF RecoverLost
<1>3. Types'
  BY Known DEF RecoverLost, Done, Move, Types, Points, Idle
<1>4. Owned' /\ AnswerIsKept'
  BY <1>1, <1>2, Known DEF Owned, Holds, AnswerIsKept
<1> QED BY <1>1, <1>2, <1>3, <1>4, ControlKeeps DEF Holds, Working, Answered, DInv

\* A new attempt of a search that brought no answer is queued.
LEMMA RequeueKeeps ==
  ASSUME DInv, Unanswered(job.op), Queued(job.op, job.attempt + 1), UNCHANGED <<inv, found, served>>,
         \A p \in Processes : Holds(p) => pc'[p] = "idle",
         \A p \in Processes : pc'[p] = "idle" \/ (pc'[p] = pc[p] /\ loc'[p] = loc[p]),
         Types', wf'.cancel = wf.cancel,
         \A r \in Operations : task'[r] = "pending" => task[r] = "pending",
         \A r \in Operations : task[r] = "completed" => r = job.op \/ task'[r] = "completed"
  PROVE  DInv'
<1>1. /\ job'.op = job.op /\ job'.attempt = job.attempt + 1 /\ job'.status = "queued" /\ job'.holder = NoProcess
      /\ job'.live = FALSE /\ job.op \in Operations /\ job.attempt \in Nat \ {0} /\ Len(inv[job.op]) \in Nat
  BY Known, LenProperties DEF Queued, Types
<1>2. Owned'
  BY <1>1, Known DEF Owned, Holds
<1>3. AnswerIsKept'
  <2>1. ASSUME NEW i \in DOMAIN found PROVE task'[found[i].op] = "completed" \/ wf'.cancel
    BY <1>1, Known, FoundTyped DEF AnswerIsKept, Unanswered
  <2> QED BY <2>1 DEF AnswerIsKept
<1>4. \A p \in Processes : ~Holds(p)'
  BY <1>1 DEF Holds
<1>5. Attempts'
  BY <1>1, <1>4 DEF DInv, Attempts
<1>6. Invocations'
  BY <1>4 DEF DInv, Invocations, Mine, Working
<1>7. Executions'
  BY DEF DInv, Executions, Last
<1>8. Answered'
  BY <1>1, <1>3, <1>4 DEF DInv, Answered, Last, Unanswered
<1>9. OthersRest'
  BY <1>1 DEF DInv, OthersRest, Last
<1> QED BY <1>2, <1>5, <1>6, <1>7, <1>8, <1>9 DEF DInv

\* The agent or the user repeats a failed search.
LEMMA RetryKeeps ==
  ASSUME DInv, job.status = "failed", ~wf.cancel, task[job.op] = "failed", Queued(job.op, job.attempt + 1),
         task' = [task EXCEPT ![job.op] = "queued"], UNCHANGED <<inv, found, served, pc, loc>>,
         wf' \in {wf, [wf EXCEPT !.status = "running"]}
  PROVE  DInv'
<1>1. Unanswered(job.op) /\ \A p \in Processes : ~Holds(p)
  BY Known DEF AnswerIsKept, Unanswered
<1>2. Types' /\ wf'.cancel = wf.cancel /\ job.op \in Operations
  <2>1. /\ wf' \in [status : {"running", "blocked", "failed", "cancelled"}, cancel : BOOLEAN] /\ wf'.cancel = wf.cancel
        /\ job.op \in Operations /\ job.attempt + 1 \in Nat \ {0}
    BY Known DEF Types
  <2>2. job' \in [op : Operations, attempt : Nat \ {0}, holder : Processes \cup {NoProcess}, live : BOOLEAN,
                status : {"queued", "leased", "succeeded", "failed", "cancelled"}, error : Codes]
    BY <2>1 DEF Queued, Codes
  <2>3. task' \in [Operations -> CancellableTask \cup {"completed", "cancelled"}]
    BY <2>1, Known DEF Types, CancellableTask
  <2> QED BY <2>1, <2>2, <2>3, Known DEF Types
<1>3. /\ \A r \in Operations : task'[r] = "pending" => task[r] = "pending"
      /\ \A r \in Operations : task[r] = "completed" => r = job.op \/ task'[r] = "completed"
  BY <1>2, Known DEF Types
<1> QED BY <1>1, <1>2, <1>3, RequeueKeeps

\* Only after a search that succeeded is another selected.
LEMMA SelectKeeps == ASSUME DInv, NEW o \in Operations, Select(o) PROVE DInv'
<1>1. /\ job.status = "succeeded" /\ ~wf.cancel /\ task[o] = "pending" /\ task' = [task EXCEPT ![o] = "queued"]
      /\ job' = [op |-> o, attempt |-> 1, status |-> "queued", holder |-> NoProcess, live |-> FALSE, error |-> "none"]
      /\ UNCHANGED <<wf, inv, found, pc, loc, served>>
  BY DEF Select, Continues, Decides, Best, Eligible, Queued
<1>2. inv[o] = <<>> /\ \A p \in Processes : ~Holds(p) /\ ~Holds(p)'
  BY <1>1, Known, DiscoveryAssumption DEF DInv, Attempts, Holds
<1>3. \A r \in Operations : inv[r] = <<>> \/ Last(r).status = "succeeded"
  <2> SUFFICES ASSUME NEW r \in Operations, inv[r] # <<>> PROVE Last(r).status = "succeeded"
    OBVIOUS
  <2>1. inv[r] \in Seq(Rows) /\ Len(inv[r]) \in Nat \ {0} /\ DOMAIN inv[r] = 1 .. Len(inv[r])
    BY Known, EmptySeq, LenProperties DEF Types
  <2>2. Last(r) \in Rows /\ Len(inv[r]) \in DOMAIN inv[r]
    BY <2>1, ElementOfSeq DEF Last
  <2>3. Last(r).status \notin {"prepared", "pending", "outcome-unknown", "cancelled", "failed"}
    BY <2>1, <2>2 DEF Select, Halted, Last
  <2> QED BY <2>2, <2>3 DEF Rows
<1>4. Types'
  BY <1>1, Known DEF Types, CancellableTask, Codes
<1>5. Owned'
  BY <1>1, <1>2, Known, DiscoveryAssumption DEF Owned
<1>6. Unanswered(o)
  BY <1>2 DEF DInv, Answered, Unanswered
<1>7. AnswerIsKept'
  <2>1. ASSUME NEW i \in DOMAIN found PROVE task'[found[i].op] = "completed"
    BY <1>1, <1>6, Known, FoundTyped DEF AnswerIsKept, Unanswered, Types
  <2> QED BY <1>1, <2>1 DEF AnswerIsKept
<1>8. job'.op = o /\ job'.attempt = 1 /\ job'.status = "queued" /\ Len(<<>>) = 0
  BY <1>1, EmptySeq
<1>9. Attempts'
  <2>1. \A r \in Operations : task'[r] = "pending" => inv[r] = <<>>
    BY <1>1, Known DEF DInv, Attempts, Types
  <2> QED BY <1>1, <1>2, <1>8, <2>1 DEF DInv, Attempts
<1>10. Invocations' /\ Executions'
  BY <1>1, <1>2 DEF DInv, Invocations, Mine, Executions, Last
<1>11. Answered'
  BY <1>1, <1>2, <1>6, <1>7, <1>8 DEF DInv, Answered, Last, Unanswered
<1>12. OthersRest'
  BY <1>1, <1>3, <1>8 DEF OthersRest, Last
<1> QED BY <1>4, <1>5, <1>9, <1>10, <1>11, <1>12 DEF DInv

LEMMA SettleKeeps == ASSUME DInv, NEW p \in Processes, Settle(p) PROVE DInv'
<1>1. /\ pc[p] = "settling" /\ Done(p) /\ UNCHANGED <<inv, found, served>>
      /\ loc[p].op \in Operations /\ (Holds(p) => loc[p].op = job.op) /\ job.op \in Operations
      /\ pc'[p] = "idle" /\ \A q \in Processes \ {p} : loc'[q] = loc[q] /\ pc'[q] = pc[q]
  BY Known DEF Settle, Owned, Done, Move, Types
<1>2. Holds(p) /\ ~wf.cancel => Unanswered(job.op)
  BY <1>1 DEF DInv, Answered
<1>3. CASE ~Holds(p)
  <2>1. UNCHANGED <<wf, task, job>>
    BY <1>3 DEF Settle
  <2>2. Types'
    BY <1>1, <2>1, Known DEF Done, Move, Types, Points, Idle
  <2>3. Owned' /\ AnswerIsKept'
    BY <1>1, <2>1, Known DEF Owned, Holds, AnswerIsKept
  <2> QED BY <1>1, <2>1, <2>2, <2>3, ControlKeeps DEF Holds, Working, Answered, DInv
<1>4. CASE Holds(p) /\ wf.cancel
  <2>1. wf' = [wf EXCEPT !.status = "cancelled"] /\ task' = CancelTasks /\ job' = EndJob("cancelled", "none")
    BY <1>4 DEF Settle
  <2>2. wf'.cancel /\ wf' \in [status : {"running", "blocked", "failed", "cancelled"}, cancel : BOOLEAN]
    BY <1>4, <2>1, Known DEF Types
  <2>3. AnswerIsKept'
    BY <2>2 DEF AnswerIsKept
  <2> QED BY <1>1, <2>1, <2>2, <2>3, Known, CancelTasksKeeps, EndJobKeeps DEF Codes
<1>5. CASE Holds(p) /\ ~wf.cancel /\ loc[p].out = "expired" /\ job.attempt < MaxAttempts
  <2>1. TaskTo(job.op, "queued") /\ Queued(job.op, job.attempt + 1) /\ UNCHANGED wf
    BY <1>1, <1>5 DEF Settle
  <2>2. Types'
    <3>1. loc' \in [Processes -> [op : Operations \cup {NoOperation}, attempt : Nat,
                              out : {"none", "failed", "expired"}, answer : Answers \cup {"none"}]]
          /\ pc' \in [Processes -> Points]
      BY <1>1, Known DEF Done, Move, Types, Points, Idle
    <3>2. job' \in [op : Operations, attempt : Nat \ {0}, holder : Processes \cup {NoProcess}, live : BOOLEAN,
                status : {"queued", "leased", "succeeded", "failed", "cancelled"}, error : Codes]
      BY <1>1, <2>1, Known DEF Queued, Types, Codes
    <3> QED BY <1>1, <2>1, <3>1, <3>2, Known, TaskToKeeps DEF Types
  <2>3. \A q \in Processes : Holds(q) => q = p
    BY <1>5, Known
  <2> QED BY <1>1, <1>2, <1>5, <2>1, <2>2, <2>3, Known, TaskToKeeps, RequeueKeeps
<1>6. CASE Holds(p) /\ ~wf.cancel /\ ~(loc[p].out = "expired" /\ job.attempt < MaxAttempts)
  <2>1. TaskTo(job.op, "failed") /\ job' = EndJob("failed", "other") /\ wf' = [wf EXCEPT !.status = "failed"]
    BY <1>1, <1>6 DEF Settle
  <2>2. wf'.cancel = wf.cancel /\ wf' \in [status : {"running", "blocked", "failed", "cancelled"}, cancel : BOOLEAN]
    BY <2>1, Known DEF Types
  <2> QED BY <1>1, <1>2, <1>6, <2>1, <2>2, FailureKeeps DEF Codes
<1> QED BY <1>3, <1>4, <1>5, <1>6

-----------------------------------------------------------------------------
\* What marking the last row of an operation does to the records.
LEMMA MarkIs ==
  ASSUME Types, NEW p \in Processes, NEW o \in Operations, loc[p].op = o, inv[o] # <<>>,
         loc[p].attempt = Len(inv[o]), NEW s, NEW c, Row(s, c) \in Rows, Mark(p, s, c)
  PROVE  /\ inv' \in [Operations -> Seq(Rows)]
         /\ \A r \in Operations \ {o} : inv'[r] = inv[r]
         /\ Len(inv'[o]) = Len(inv[o]) /\ Len(inv[o]) \in Nat \ {0} /\ inv'[o] # <<>>
         /\ inv'[o][Len(inv[o])] = Row(s, c)
         /\ \A a \in 1 .. Len(inv[o]) - 1 : inv'[o][a] = inv[o][a]
<1> DEFINE n == Len(inv[o])
<1>1. inv[o] \in Seq(Rows) /\ n \in Nat \ {0} /\ n \in 1 .. Len(inv[o])
  BY EmptySeq, LenProperties DEF Types
<1>2. inv' = [inv EXCEPT ![o] = [inv[o] EXCEPT ![n] = Row(s, c)]]
  BY DEF Mark, Types
<1>3. inv'[o] = [inv[o] EXCEPT ![n] = Row(s, c)] /\ \A r \in Operations \ {o} : inv'[r] = inv[r]
  BY <1>2 DEF Types
<1>4. /\ inv'[o] \in Seq(Rows) /\ Len(inv'[o]) = Len(inv[o])
      /\ \A j \in 1 .. Len(inv[o]) : inv'[o][j] = IF j = n THEN Row(s, c) ELSE inv[o][j]
  BY <1>1, <1>3, ExceptSeq
<1>5. inv' \in [Operations -> Seq(Rows)]
  BY <1>2, <1>3, <1>4 DEF Types
<1>6. inv'[o] # <<>>
  BY <1>1, <1>4, EmptySeq
<1> QED BY <1>1, <1>3, <1>4, <1>5, <1>6

\* What recording a new attempt does.
LEMMA AppendIs ==
  ASSUME Types, NEW o \in Operations, NEW r \in Rows, inv' = [inv EXCEPT ![o] = Append(@, r)]
  PROVE  /\ inv' \in [Operations -> Seq(Rows)]
         /\ \A q \in Operations \ {o} : inv'[q] = inv[q]
         /\ Len(inv'[o]) = Len(inv[o]) + 1 /\ Len(inv[o]) \in Nat /\ inv'[o] # <<>>
         /\ inv'[o][Len(inv'[o])] = r
         /\ \A a \in 1 .. Len(inv[o]) : inv'[o][a] = inv[o][a]
<1>1. inv[o] \in Seq(Rows) /\ Len(inv[o]) \in Nat
  BY LenProperties DEF Types
<1>2. inv'[o] = Append(inv[o], r) /\ \A q \in Operations \ {o} : inv'[q] = inv[q]
  BY DEF Types
<1>3. /\ inv'[o] \in Seq(Rows) /\ Len(inv'[o]) = Len(inv[o]) + 1
      /\ inv'[o][Len(inv[o]) + 1] = r /\ \A a \in 1 .. Len(inv[o]) : inv'[o][a] = inv[o][a]
  BY <1>1, <1>2
<1>4. inv' \in [Operations -> Seq(Rows)]
  BY <1>2, <1>3 DEF Types
<1> QED BY <1>1, <1>2, <1>3, <1>4, EmptySeq

\* A search is entered by who holds its job and has the right to repeat it.
LEMMA EnterKeeps ==
  ASSUME DInv, NEW p \in Processes, pc[p] = "started", Authority(p), SafeAttempt(loc[p].op, loc[p].attempt),
         NEW st \in {"prepared", "failed"}, NEW to \in {"prepared", "recorded"}, st = "prepared" <=> to = "prepared",
         inv' = [inv EXCEPT ![loc[p].op] = Append(@, Row(st, IF st = "prepared" THEN "none" ELSE "other"))],
         Move(p, to), UNCHANGED <<wf, task, job, found, loc, served>>
  PROVE  DInv'
<1> DEFINE o == loc[p].op  r == Row(st, IF st = "prepared" THEN "none" ELSE "other")
<1>1. /\ o \in Operations /\ o = job.op /\ loc[p].attempt = job.attempt /\ Holds(p) /\ job.status = "leased"
      /\ task[o] = "running" /\ job.attempt \in Nat \ {0}
  BY Known DEF Authority, Owned
<1>2. r \in Rows /\ ~Repeatable(r) /\ r.status = st
  BY DEF Row, Rows, Codes, Repeatable
<1> HIDE DEF r
<1>3. /\ inv' \in [Operations -> Seq(Rows)]
      /\ \A q \in Operations \ {o} : inv'[q] = inv[q]
      /\ Len(inv'[o]) = Len(inv[o]) + 1 /\ Len(inv[o]) \in Nat /\ inv'[o] # <<>>
      /\ inv'[o][Len(inv'[o])] = r
      /\ \A a \in 1 .. Len(inv[o]) : inv'[o][a] = inv[o][a]
  BY <1>1, <1>2, Known, AppendIs DEF r
<1>4. pc'[p] = to /\ \A q \in Processes \ {p} : pc'[q] = pc[q]
  BY Known DEF Move, Types
<1>5. \A q \in Processes : Holds(q)' <=> q = p
  BY <1>1, Known DEF Holds
<1>6. /\ job.attempt = Len(inv[o]) + 1
      /\ inv[o] = <<>> \/ Repeatable(Last(o))
  BY <1>1, EmptySeq DEF SafeAttempt, Repeatable
<1>7. Types' /\ Owned' /\ AnswerIsKept'
  BY <1>3, <1>4, Known DEF Types, Points, Move, Owned, Holds, AnswerIsKept
<1>8. Attempts'
  <2>1. \A a \in 1 .. Len(inv'[o]) - 1 : Repeatable(inv'[o][a])
    <3>1. \A a \in 1 .. Len(inv[o]) - 1 : Repeatable(inv[o][a])
      BY <1>1 DEF DInv, Attempts
    <3>2. Len(inv[o]) \in Nat /\ (inv[o] = <<>> => Len(inv[o]) = 0)
      BY <1>3, EmptySeq
    <3> QED BY <1>3, <1>6, <3>1, <3>2 DEF Last
  <2>2. \A q \in Operations : \A a \in 1 .. Len(inv'[q]) - 1 : Repeatable(inv'[q][a])
    BY <1>3, <2>1 DEF DInv, Attempts
  <2>3. \A q \in Operations : task'[q] = "pending" => inv'[q] = <<>>
    BY <1>1, <1>3 DEF DInv, Attempts
  <2> QED BY <1>1, <1>3, <1>4, <1>5, <1>6, <2>2, <2>3 DEF Attempts
<1>9. \A q \in Processes : pc[q] \in Working =>
         loc[q].op \in Operations /\ loc[q].attempt \in 1 .. Len(inv[loc[q].op])
  BY Known DEF DInv, Invocations, Owned, Working
<1>10. \A q \in Processes : pc[q] \in {"authorized", "answered"} => loc[q].op # o
  <2> SUFFICES ASSUME NEW q \in Processes, pc[q] \in {"authorized", "answered"}, loc[q].op = o PROVE FALSE
    OBVIOUS
  <2>1. loc[q].attempt = Len(inv[o]) /\ inv[o][loc[q].attempt].status \in {"pending", "outcome-unknown"}
    BY DEF DInv, Invocations, Mine
  <2>2. inv[o] # <<>>
    BY <1>9, EmptySeq DEF Working
  <2> QED BY <1>6, <2>1, <2>2 DEF Last, Repeatable
<1>11. Invocations'
  <2>1. \A q \in Processes : pc'[q] \in Working => loc[q].attempt \in 1 .. Len(inv'[loc[q].op])
    BY <1>1, <1>3, <1>4, <1>6, <1>9
  <2>2. \A q \in Processes \ {p} : pc'[q] \in Working /\ loc[q].op = o => loc[q].attempt # loc[p].attempt
    BY <1>1, <1>3, <1>4, <1>6, <1>9
  <2>3. \A q \in Processes : pc'[q] \in {"authorized", "answered"} => pc[q] = pc'[q] /\ loc[q].op \in Operations \ {o}
    BY <1>4, <1>9, <1>10 DEF Working
  <2>4. pc'[p] = "prepared" => inv'[o][loc[p].attempt].status = "prepared"
    BY <1>1, <1>2, <1>3, <1>4, <1>6
  <2>5. \A x, y \in Processes :
          pc'[x] \in Working /\ pc'[y] \in Working /\ loc[x].op = loc[y].op /\ loc[x].attempt = loc[y].attempt
              => x = y
    BY <1>4, <2>2 DEF DInv, Invocations
  <2>6. \A q \in Processes : pc'[q] \in {"authorized", "answered"} =>
          loc[q].attempt = Len(inv'[loc[q].op])
          /\ inv'[loc[q].op][loc[q].attempt].status \in {"pending", "outcome-unknown"}
    BY <1>3, <2>3 DEF DInv, Invocations, Mine
  <2>7. pc'[p] \notin {"authorized", "answered"}
    BY <1>4
  <2> QED BY <1>1, <1>5, <2>1, <2>4, <2>5, <2>6, <2>7 DEF Invocations, Mine
<1>12. served[o] = 0
  BY <1>1, <1>6, Known DEF DInv, Executions, Types
<1>13. Executions'
  <2>1. \A b \in Operations \ {o} : inv'[b] = inv[b]
    BY <1>3
  <2>2. \A b \in Operations : served[b] <= 1 /\ (served[b] > 0 => b # o /\ inv'[b] = inv[b])
    BY <1>12, <2>1 DEF DInv, Executions
  <2>3. \A q \in Processes : /\ pc'[q] = "authorized" => pc[q] = "authorized"
                             /\ pc'[q] = "answered" => pc[q] = "answered"
    BY <1>4
  <2> QED BY <2>2, <2>3 DEF DInv, Executions, Last
<1>14. Answered'
  <2>1. Unanswered(o)
    BY <1>1, <1>6 DEF DInv, Answered, Unanswered, Repeatable
  <2> QED BY <1>1, <1>3, <1>4, <1>5, <1>6, <1>7, <2>1, Known, FoundTyped DEF DInv, Answered, Last, Unanswered
<1>15. OthersRest'
  BY <1>1, <1>3 DEF DInv, OthersRest, Last
<1> QED BY <1>7, <1>8, <1>11, <1>13, <1>14, <1>15 DEF DInv

\* The row a process works on is the last of the operation whose job is the newest, as long
\* as it has no outcome.
LEMMA OpenRowIsLast ==
  ASSUME DInv, NEW p \in Processes,
         pc[p] \in Working \/ (pc[p] = "recovering" /\ Holds(p) /\ Evidence(p) # "none"),
         Mine(p).status \in {"prepared", "pending", "outcome-unknown"}
  PROVE  /\ loc[p].op = job.op /\ job.op \in Operations /\ inv[job.op] # <<>>
         /\ loc[p].attempt = Len(inv[job.op]) /\ Mine(p) = Last(job.op) /\ inv[job.op] \in Seq(Rows)
<1> DEFINE o == loc[p].op  a == loc[p].attempt
<1>1. CASE pc[p] = "recovering"
  BY <1>1, HolderKnows DEF Working
<1>2. CASE pc[p] \in Working
  <2>1. o \in Operations /\ a \in 1 .. Len(inv[o]) /\ inv[o] \in Seq(Rows)
    BY <1>2, Known DEF DInv, Invocations, Owned, Working, Types
  <2>2. a = Len(inv[o])
    <3>1. a \notin 1 .. Len(inv[o]) - 1
      BY <2>1 DEF DInv, Attempts, Repeatable, Mine
    <3> QED BY <2>1, <3>1, LenProperties
  <2>3. inv[o] # <<>> /\ Mine(p) = Last(o)
    BY <2>1, <2>2, EmptySeq DEF Mine, Last
  <2>4. o = job.op
    BY <2>1, <2>3 DEF DInv, OthersRest
  <2> QED BY <2>1, <2>2, <2>3, <2>4
<1> QED BY <1>1, <1>2

\* An outcome, or the permission to send, is written by the process that made the row or took it over.
LEMMA MarkKeeps ==
  ASSUME DInv, NEW p \in Processes, pc[p] \in {"prepared", "answered", "recovering"},
         Mine(p).status = IF pc[p] = "answered" THEN "pending" ELSE "prepared",
         pc[p] = "recovering" => Holds(p) /\ Evidence(p) # "none",
         NEW s, NEW c, Row(s, c) \in Rows, s # "prepared", Mark(p, s, c),
         Repeatable(Row(s, c)) => served[loc[p].op] = 0,
         NEW to \in {"authorized", "recorded", "settling", "recovering"}, pc' = [pc EXCEPT ![p] = to],
         \A q \in Processes : /\ loc'[q].op = loc[q].op /\ loc'[q].attempt = loc[q].attempt
                              /\ loc'[q].answer = loc[q].answer,
         loc' \in [Processes -> [op : Operations \cup {NoOperation}, attempt : Nat,
                              out : {"none", "failed", "expired"}, answer : Answers \cup {"none"}]],
         to = "authorized" <=> s = "pending", to = "authorized" => pc[p] = "prepared",
         to \in {"settling", "recovering"} <=> pc[p] = "recovering",
         NEW result \in Results, s = "succeeded" => Holds(p) /\ to = "recorded",
         found' = IF s = "succeeded" THEN Append(found, [op |-> loc[p].op, result |-> result]) ELSE found,
         UNCHANGED <<wf, task, job, served>>
  PROVE  DInv'
<1> DEFINE o == loc[p].op
<1>1. /\ o = job.op /\ o \in Operations /\ inv[o] # <<>> /\ loc[p].attempt = Len(inv[o])
      /\ Mine(p) = Last(o) /\ inv[o] \in Seq(Rows)
  BY OpenRowIsLast DEF Working
<1>2. /\ inv' \in [Operations -> Seq(Rows)]
      /\ \A r \in Operations \ {o} : inv'[r] = inv[r]
      /\ Len(inv'[o]) = Len(inv[o]) /\ Len(inv[o]) \in Nat \ {0} /\ inv'[o] # <<>>
      /\ inv'[o][Len(inv[o])] = Row(s, c)
      /\ \A a \in 1 .. Len(inv[o]) - 1 : inv'[o][a] = inv[o][a]
  BY <1>1, Known, MarkIs
<1>3. /\ Row(s, c).status = s /\ \A r \in Operations : Len(inv'[r]) = Len(inv[r])
      /\ \A r \in Operations \ {o} : inv'[r][Len(inv'[r])] = Last(r)
      /\ inv'[o][Len(inv'[o])] = Row(s, c)
  BY <1>2 DEF Row, Last
<1>4. pc'[p] = to /\ \A q \in Processes \ {p} : pc'[q] = pc[q]
  BY Known DEF Types
<1>5. \A q \in Processes : Holds(q)' <=> Holds(q)
  BY DEF Holds
<1>6. Types'
  <2>1. found' \in Seq([op : Operations, result : Results])
    <3> DEFINE e == [op |-> o, result |-> result]
    <3>1. e \in [op : Operations, result : Results]
      BY <1>1
    <3> HIDE DEF e
    <3>2. Append(found, e) \in Seq([op : Operations, result : Results])
      BY <3>1, Known DEF Types
    <3> QED BY <3>2, Known DEF e, Types
  <2>2. pc' \in [Processes -> Points]
    BY Known DEF Types, Points
  <2> QED BY <1>2, <2>1, <2>2, Known DEF Types
<1>7. Owned'
  <2>1. \A q \in Processes : pc'[q] \notin {"idle", "down"} => pc[q] \notin {"idle", "down"}
    BY <1>4, Known DEF Working
  <2>2. \A q \in Processes : pc'[q] \notin {"idle", "down"} =>
          /\ loc'[q].op \in Operations /\ loc'[q].attempt \in Nat \ {0}
          /\ Holds(q) => loc'[q].op = job.op /\ loc'[q].attempt = job.attempt
    BY <2>1, Known DEF Owned
  <2> QED BY <1>5, <2>2, Known DEF Owned
<1>8. Attempts'
  <2>1. \A r \in Operations : Len(inv'[r]) = Len(inv[r])
    BY <1>2
  <2>2. \A r \in Operations : \A a \in 1 .. Len(inv'[r]) - 1 : Repeatable(inv'[r][a])
    BY <1>2 DEF DInv, Attempts
  <2>3. \A r \in Operations : task'[r] = "pending" => inv'[r] = <<>>
    BY <1>1, <1>2 DEF DInv, Attempts
  <2> QED BY <1>1, <1>4, <1>5, <2>1, <2>2, <2>3 DEF DInv, Attempts
<1>9. \A q \in Processes : pc[q] \in Working =>
         loc[q].op \in Operations /\ loc[q].attempt \in 1 .. Len(inv[loc[q].op])
  BY Known DEF DInv, Invocations, Owned, Working
<1>10. ASSUME NEW q \in Processes \ {p}, pc[q] \in {"authorized", "answered"} PROVE loc[q].op # o
  <2> SUFFICES ASSUME loc[q].op = o PROVE FALSE
    OBVIOUS
  <2>1. loc[q].attempt = Len(inv[o]) /\ inv[o][loc[q].attempt].status \in {"pending", "outcome-unknown"}
    BY <1>10 DEF DInv, Invocations, Mine
  <2>2. CASE pc[p] \in Working
    BY <1>1, <1>10, <2>1, <2>2 DEF DInv, Invocations, Working
  <2>3. CASE pc[p] = "recovering"
    BY <1>1, <2>1, <2>3 DEF Last
  <2> QED BY <2>2, <2>3 DEF Working
<1>11. Invocations'
  <2>1. \A q \in Processes : pc'[q] \in Working => pc[q] \in Working
    BY <1>4 DEF Working
  <2>2. \A q \in Processes : pc'[q] \in Working => loc'[q].attempt \in 1 .. Len(inv'[loc'[q].op])
    BY <1>3, <1>9, <2>1
  <2>3. \A x, y \in Processes :
          pc'[x] \in Working /\ pc'[y] \in Working /\ loc'[x].op = loc'[y].op /\ loc'[x].attempt = loc'[y].attempt
              => x = y
    BY <2>1 DEF DInv, Invocations
  <2>4. \A q \in Processes \ {p} : pc'[q] \in {"authorized", "answered"} =>
          pc[q] = pc'[q] /\ loc[q].op \in Operations \ {o}
    BY <1>4, <1>9, <1>10 DEF Working
  <2>5. \A q \in Processes \ {p} : pc'[q] \in {"authorized", "answered"} =>
          /\ loc'[q].attempt = Len(inv'[loc'[q].op])
          /\ inv'[loc'[q].op][loc'[q].attempt].status \in {"pending", "outcome-unknown"}
          /\ (Holds(q) => inv'[loc'[q].op][loc'[q].attempt].status = "pending")
    <3> SUFFICES ASSUME NEW q \in Processes \ {p}, pc'[q] \in {"authorized", "answered"}
                 PROVE  /\ loc[q].attempt = Len(inv'[loc[q].op])
                        /\ inv'[loc[q].op][loc[q].attempt].status \in {"pending", "outcome-unknown"}
                        /\ (Holds(q) => inv'[loc[q].op][loc[q].attempt].status = "pending")
      OBVIOUS
    <3>1. inv'[loc[q].op] = inv[loc[q].op] /\ pc[q] \in {"authorized", "answered"}
      BY <1>2, <2>4
    <3> QED BY <3>1 DEF DInv, Invocations, Mine
  <2>6. pc'[p] \in {"authorized", "answered"} =>
          /\ loc'[p].attempt = Len(inv'[loc'[p].op])
          /\ inv'[loc'[p].op][loc'[p].attempt].status = "pending"
    BY <1>1, <1>2, <1>3, <1>4
  <2>7. \A q \in Processes : Holds(q) /\ pc'[q] = "prepared" =>
          inv'[loc'[q].op][loc'[q].attempt].status = "prepared"
    <3> SUFFICES ASSUME NEW q \in Processes, Holds(q), pc'[q] = "prepared"
                 PROVE  inv'[loc'[q].op][loc'[q].attempt].status = "prepared"
      OBVIOUS
    <3>1. q # p /\ pc[q] = "prepared"
      BY <1>4
    <3>2. Mine(q).status = "prepared"
      BY <3>1 DEF DInv, Invocations
    <3>3. loc[q].op = job.op /\ loc[q].attempt = Len(inv[job.op])
      BY <3>1, <3>2, OpenRowIsLast DEF Working
    <3>4. CASE pc[p] \in Working
      BY <1>1, <3>1, <3>3, <3>4 DEF DInv, Invocations, Working
    <3>5. CASE pc[p] = "recovering"
      BY <3>1, <3>5, Known
    <3> QED BY <3>4, <3>5 DEF Working
  <2> QED BY <1>5, <2>2, <2>3, <2>5, <2>6, <2>7 DEF Invocations, Mine
<1>12. Executions'
  <2>1. \A r \in Operations : served[r] > 0 => inv'[r] # <<>> /\ inv'[r][Len(inv'[r])].status # "prepared"
                                              /\ ~Repeatable(inv'[r][Len(inv'[r])])
    BY <1>1, <1>2, <1>3 DEF DInv, Executions
  <2>2. pc[p] = "prepared" => served[o] = 0
    BY <1>1, Known DEF DInv, Executions, Types
  <2>3. \A r \in Operations : served[r] <= 1
    BY DEF DInv, Executions
  <2>4. \A q \in Processes : pc'[q] = "authorized" => served[loc'[q].op] = 0
    BY <1>1, <1>4, <2>2 DEF DInv, Executions
  <2>5. \A q \in Processes : pc'[q] = "answered" => pc[q] = "answered"
    BY <1>4
  <2>6. \A q \in Processes : pc'[q] = "answered" => loc'[q].answer \in Answers
            /\ served[loc'[q].op] = IF loc'[q].answer \in Refusals THEN 0 ELSE 1
    BY <2>5 DEF DInv, Executions
  <2> QED BY <2>1, <2>3, <2>4, <2>6 DEF Executions, Last
<1>13. Answered'
  <2>1. Unanswered(o)
    BY <1>1, NoSuccessNoAnswer
  <2>2. DOMAIN found = 1 .. Len(found) /\ Len(found) \in Nat
    BY Known, LenProperties DEF Types
  <2>3. CASE s # "succeeded"
    <3>1. found' = found /\ AnswerIsKept'
      BY <2>3, Known DEF AnswerIsKept
    <3>2. \A i \in DOMAIN found : inv'[found[i].op] # <<>>
             /\ inv'[found[i].op][Len(inv'[found[i].op])].status = "succeeded"
      <4> SUFFICES ASSUME NEW i \in DOMAIN found
                   PROVE  inv'[found[i].op] # <<>> /\ inv'[found[i].op][Len(inv'[found[i].op])].status = "succeeded"
        OBVIOUS
      <4>1. found[i].op \in Operations /\ found[i].op # o
        BY <2>1, Known, FoundTyped DEF Unanswered
      <4>2. inv[found[i].op] # <<>> /\ Last(found[i].op).status = "succeeded"
        BY DEF DInv, Answered
      <4> QED BY <1>2, <4>1, <4>2 DEF Last
    <3>3. \A q \in Processes : Holds(q) /\ pc'[q] = "settling" => wf.cancel \/ Unanswered(job.op)
      BY <1>1, <2>1
    <3>4. Len(inv'[job.op]) = Len(inv[job.op])
      BY <1>1, <1>3
    <3>5. (job.status \in {"queued", "leased"} /\ Len(inv[job.op]) < job.attempt => Unanswered(job.op))'
      BY <1>1, <2>1, <3>1 DEF Unanswered
    <3>6. (\A i \in DOMAIN found : inv[found[i].op] # <<>> /\ Last(found[i].op).status = "succeeded")'
      BY <3>1, <3>2 DEF Last
    <3>7. (\A q \in Processes : Holds(q) /\ pc[q] = "settling" => wf.cancel \/ Unanswered(job.op))'
      BY <1>5, <3>1, <3>3 DEF Unanswered
    <3> QED BY <3>1, <3>5, <3>6, <3>7 DEF Answered
  <2>4. CASE s = "succeeded"
    <3>1. /\ DOMAIN found' = 1 .. Len(found) + 1 /\ found'[Len(found) + 1].op = o
          /\ \A i \in DOMAIN found : found'[i] = found[i]
      BY <2>2, <2>4
    <3>2. \A i \in DOMAIN found' : found'[i].op = o \/ (i \in DOMAIN found /\ found'[i] = found[i])
      BY <2>2, <3>1
    <3>3. \A i \in DOMAIN found' : inv'[found'[i].op] # <<>>
             /\ inv'[found'[i].op][Len(inv'[found'[i].op])].status = "succeeded"
      <4> SUFFICES ASSUME NEW i \in DOMAIN found'
                   PROVE  /\ inv'[found'[i].op] # <<>>
                          /\ inv'[found'[i].op][Len(inv'[found'[i].op])].status = "succeeded"
        OBVIOUS
      <4>1. CASE found'[i].op = o
        BY <1>2, <1>3, <2>4, <4>1
      <4>2. CASE i \in DOMAIN found /\ found'[i] = found[i]
        BY <1>2, <1>3, <2>1, <4>2, Known, FoundTyped DEF DInv, Answered, Unanswered
      <4> QED BY <3>2, <4>1, <4>2
    <3>4. Holds(p) /\ job.status = "leased"
      BY <2>4, Known
    <3>5. AnswerIsKept'
      <4>1. \A i \in DOMAIN found' : found'[i].op = job.op
                \/ (i \in DOMAIN found /\ found'[i].op = found[i].op)
        BY <1>1, <3>2
      <4>2. \A i \in DOMAIN found : \/ task[found[i].op] = "completed" \/ wf.cancel
                                    \/ job.op = found[i].op /\ job.status = "leased"
        BY Known DEF AnswerIsKept
      <4> QED BY <3>4, <4>1, <4>2 DEF AnswerIsKept
    <3>6. Len(inv[job.op]) = job.attempt
      BY <1>1, <3>4, Known DEF Owned
    <3>7. \A q \in Processes : Holds(q) /\ pc'[q] = "settling" => FALSE
      BY <1>4, <2>4, <3>4, Known
    <3>8. (job.status \in {"queued", "leased"} /\ Len(inv[job.op]) < job.attempt => Unanswered(job.op))'
      BY <1>1, <1>2, <3>6
    <3>9. (\A i \in DOMAIN found : inv[found[i].op] # <<>> /\ Last(found[i].op).status = "succeeded")'
      BY <3>3 DEF Last
    <3> QED BY <1>5, <3>5, <3>7, <3>8, <3>9 DEF Answered
  <2> QED BY <2>3, <2>4
<1>14. OthersRest'
  BY <1>1, <1>2, <1>3 DEF DInv, OthersRest, Last
<1> QED BY <1>6, <1>7, <1>8, <1>11, <1>12, <1>13, <1>14 DEF DInv

LEMMA AuthorizeKeeps == ASSUME DInv, NEW p \in Processes, Authorize(p) PROVE DInv'
<1>1. pc[p] = "prepared" /\ UNCHANGED <<wf, task, job, found, served>>
  BY DEF Authorize
<1>2. CASE Mine(p).status # "prepared"
  <2>1. ~Holds(p)
    BY <1>1, <1>2 DEF DInv, Invocations
  <2> QED BY <1>1, <1>2, <2>1, LeaveKeeps DEF Authorize
<1>3. CASE Mine(p).status = "prepared"
  <2>1. \E s \in {"pending", "cancelled", "failed"}, c \in {"none", "other"}, to \in {"authorized", "recorded"} :
          /\ Mark(p, s, c) /\ pc' = [pc EXCEPT ![p] = to] /\ loc' = loc
          /\ (to = "authorized" <=> s = "pending") /\ (s = "failed" <=> c = "other")
    BY <1>3 DEF Authorize, GiveUp, Move
  <2>2. PICK s \in {"pending", "cancelled", "failed"}, c \in {"none", "other"}, to \in {"authorized", "recorded"} :
          /\ Mark(p, s, c) /\ pc' = [pc EXCEPT ![p] = to] /\ loc' = loc
          /\ (to = "authorized" <=> s = "pending") /\ (s = "failed" <=> c = "other")
    BY <2>1
  <2>3. Row(s, c) \in Rows /\ ~Repeatable(Row(s, c))
    BY DEF Row, Rows, Codes, Repeatable
  <2>4. PICK result \in Results : TRUE
    BY DEF Results
  <2> QED BY <1>1, <1>3, <2>2, <2>3, <2>4, Known, MarkKeeps DEF Types
<1> QED BY <1>2, <1>3

LEMMA CallKeeps == ASSUME DInv, NEW p \in Processes, NEW answer \in Answers, Call(p, answer) PROVE DInv'
<1> DEFINE o == loc[p].op
<1>1. /\ pc[p] = "authorized" /\ UNCHANGED <<wf, task, job, inv, found>>
      /\ served' = IF answer \in Refusals THEN served ELSE [served EXCEPT ![o] = @ + 1]
      /\ loc' = [loc EXCEPT ![p].answer = answer] /\ pc' = [pc EXCEPT ![p] = "answered"]
  BY DEF Call, Move
<1>2. /\ o \in Operations /\ inv[o] # <<>> /\ Mine(p) = Last(o) /\ served[o] = 0
      /\ Mine(p).status \in {"pending", "outcome-unknown"} /\ loc[p].attempt = Len(inv[o])
  <2>1. o \in Operations /\ loc[p].attempt \in 1 .. Len(inv[o])
    BY <1>1, Known DEF DInv, Invocations, Owned, Working
  <2> QED BY <1>1, <2>1, EmptySeq DEF DInv, Invocations, Executions, Mine, Last
<1>3. /\ pc'[p] = "answered" /\ loc'[p].op = o /\ loc'[p].attempt = loc[p].attempt /\ loc'[p].answer = answer
      /\ \A q \in Processes \ {p} : loc'[q] = loc[q] /\ pc'[q] = pc[q]
      /\ served'[o] = IF answer \in Refusals THEN 0 ELSE 1
      /\ \A r \in Operations \ {o} : served'[r] = served[r]
  BY <1>1, <1>2, Known DEF Types
<1>4. Types'
  <2>1. served' \in [Operations -> Nat]
    BY <1>1, <1>2, Known DEF Types
  <2>2. loc' \in [Processes -> [op : Operations \cup {NoOperation}, attempt : Nat,
                              out : {"none", "failed", "expired"}, answer : Answers \cup {"none"}]]
    BY <1>1, Known, LocMoves DEF Types
  <2> QED BY <1>1, <2>1, <2>2, Known DEF Types, Points
<1>5. Owned' /\ Attempts'
  BY <1>1, <1>3, Known DEF Owned, Holds, DInv, Attempts
<1>6. \A q \in Processes \ {p} : pc[q] \in {"authorized", "answered"} => loc[q].op # o
  BY <1>1, <1>2 DEF DInv, Invocations, Working
<1>7. Invocations'
  <2>1. \A q \in Processes : /\ loc'[q].op = loc[q].op /\ loc'[q].attempt = loc[q].attempt
                             /\ (Holds(q)' <=> Holds(q)) /\ (pc'[q] = pc[q] \/ (q = p /\ pc'[q] = "answered"))
    BY <1>1, <1>3 DEF Holds
  <2>2. \A q \in Processes : /\ pc'[q] \in Working => pc[q] \in Working
                             /\ pc'[q] \in {"authorized", "answered"} => pc[q] \in {"authorized", "answered"}
                             /\ pc'[q] = "prepared" => pc[q] = "prepared"
    BY <1>1, <2>1 DEF Working
  <2> QED BY <1>1, <2>1, <2>2 DEF DInv, Invocations, Mine
<1>8. Executions'
  <2>1. ~Repeatable(Last(o)) /\ Last(o).status # "prepared"
    BY <1>2 DEF Repeatable
  <2>2. \A q \in Processes : pc[q] \in {"authorized", "answered"} => loc[q].op \in Operations
    BY Known DEF Owned
  <2> QED BY <1>1, <1>2, <1>3, <1>6, <2>1, <2>2 DEF DInv, Executions, Last
<1>9. Answered' /\ OthersRest'
  BY <1>1, <1>3 DEF DInv, Answered, OthersRest, AnswerIsKept, Unanswered, Last, Holds
<1> QED BY <1>4, <1>5, <1>7, <1>8, <1>9 DEF DInv

LEMMA RecordKeeps == ASSUME DInv, NEW p \in Processes, Record(p) PROVE DInv'
<1> DEFINE o == loc[p].op  answer == loc[p].answer
<1>1. pc[p] = "answered" /\ UNCHANGED <<wf, task, job, served>>
  BY DEF Record
<1>2. answer \in Answers /\ served[o] = IF answer \in Refusals THEN 0 ELSE 1
  BY <1>1 DEF DInv, Executions
<1>3. CASE Mine(p).status # "pending"
  <2>1. ~Holds(p)
    BY <1>1, <1>3 DEF DInv, Invocations
  <2> QED BY <1>1, <1>3, <2>1, LeaveKeeps DEF Record
<1>4. CASE Mine(p).status = "pending" /\ ~Authority(p)
  <2>1. PICK s \in {"cancelled", "failed"}, c \in {"none", "other"} : Mark(p, s, c) /\ (s = "failed" <=> c = "other")
    BY <1>4 DEF Record, GiveUp
  <2>2. Row(s, c) \in Rows /\ ~Repeatable(Row(s, c))
    BY <2>1 DEF Row, Rows, Codes, Repeatable
  <2>3. pc' = [pc EXCEPT ![p] = "recorded"] /\ loc' = loc /\ found' = found
    BY <1>4 DEF Record, Move
  <2>4. PICK result \in Results : TRUE
    BY DEF Results
  <2> QED BY <1>1, <1>4, <2>1, <2>2, <2>3, <2>4, Known, MarkKeeps DEF Types
<1>5. CASE Mine(p).status = "pending" /\ Authority(p)
  <2>1. pc' = [pc EXCEPT ![p] = "recorded"] /\ loc' = loc /\ MarkAnswer(p) /\ Holds(p)
        /\ found' = IF answer \in Results THEN Append(found, [op |-> o, result |-> answer]) ELSE found
    BY <1>5 DEF Record, Move, Authority
  <2>2. CASE answer \in Results
    <3>1. Mark(p, "succeeded", "none") /\ Row("succeeded", "none") \in Rows /\ ~Repeatable(Row("succeeded", "none"))
      BY <2>1, <2>2 DEF MarkAnswer, Results, Refusals, Row, Rows, Codes, Repeatable
    <3>2. found' = Append(found, [op |-> o, result |-> answer])
      BY <2>1, <2>2
    <3> QED BY <1>1, <1>5, <2>1, <2>2, <3>1, <3>2, Known, MarkKeeps DEF Types
  <2>3. CASE answer \notin Results
    <3>1. PICK s \in {"failed", "outcome-unknown"}, c \in {"safe", "other"} :
             Mark(p, s, c) /\ (c = "safe" => answer \in Refusals)
      BY <2>1, <2>3 DEF MarkAnswer, Results, Refusals
    <3>2. Row(s, c) \in Rows /\ (Repeatable(Row(s, c)) => served[o] = 0)
      BY <1>2, <3>1 DEF Row, Rows, Codes, Repeatable
    <3>3. found' = found
      BY <2>1, <2>3
    <3>4. PICK result \in Results : TRUE
      BY DEF Results
    <3> QED BY <1>1, <1>5, <2>1, <3>1, <3>2, <3>3, <3>4, Known, MarkKeeps DEF Types
  <2> QED BY <2>2, <2>3
<1> QED BY <1>3, <1>4, <1>5

LEMMA RecoverUnsentKeeps == ASSUME DInv, NEW p \in Processes, RecoverUnsent(p) PROVE DInv'
<1>1. /\ pc[p] = "recovering" /\ Holds(p) /\ Evidence(p) = "prepared" /\ Mine(p).status = "prepared"
      /\ UNCHANGED <<wf, task, job, found, served>>
  BY DEF RecoverUnsent, Recovers, Unsent, Evidence
<1>2. served[loc[p].op] = 0
  <2>1. loc[p].op \in Operations /\ Last(loc[p].op).status = "prepared"
    BY <1>1, HolderKnows
  <2> QED BY <2>1, Known DEF DInv, Executions, Types
<1>3. PICK c \in {"unsent", "other"} : Mark(p, "failed", c)
  BY DEF RecoverUnsent
<1>4. Row("failed", c) \in Rows
  BY DEF Row, Rows, Codes
<1>5. PICK to \in {"settling", "recovering"} :
        /\ pc' = [pc EXCEPT ![p] = to]
        /\ \A q \in Processes : /\ loc'[q].op = loc[q].op /\ loc'[q].attempt = loc[q].attempt
                                /\ loc'[q].answer = loc[q].answer
        /\ loc' \in [Processes -> [op : Operations \cup {NoOperation}, attempt : Nat,
                              out : {"none", "failed", "expired"}, answer : Answers \cup {"none"}]]
  <2>1. CASE Leave(p, "expired")
    <3>1. /\ \A q \in Processes : /\ loc'[q].op = loc[q].op /\ loc'[q].attempt = loc[q].attempt
                                  /\ loc'[q].answer = loc[q].answer
          /\ pc' = [pc EXCEPT ![p] = "settling"]
      BY <2>1, Known DEF Leave, Move, Types
    <3>2. loc' \in [Processes -> [op : Operations \cup {NoOperation}, attempt : Nat,
                              out : {"none", "failed", "expired"}, answer : Answers \cup {"none"}]]
      <4>1. "lost" \in Answers /\ loc' = [loc EXCEPT ![p].out = "expired"]
        BY <2>1 DEF Answers, Leave
      <4> QED BY <4>1, Known, LocMoves
    <3> QED BY <3>1, <3>2
  <2>2. CASE UNCHANGED <<pc, loc>>
    BY <1>1, <2>2, Known DEF Types
  <2> QED BY <2>1, <2>2 DEF RecoverUnsent
<1>6. PICK result \in Results : TRUE
  BY DEF Results
<1>7. pc[p] # "answered" /\ pc[p] \in {"prepared", "answered", "recovering"} /\ to # "authorized" /\ "failed" # "succeeded"
  BY <1>1, <1>5
<1> QED BY <1>1, <1>2, <1>3, <1>4, <1>5, <1>6, <1>7, MarkKeeps

LEMMA RecoverUnknownKeeps == ASSUME DInv, NEW p \in Processes, RecoverUnknown(p) PROVE DInv'
<1> DEFINE o == job.op
<1>1. /\ pc[p] = "recovering" /\ Holds(p) /\ Evidence(p) # "none" /\ Mine(p).status \in {"pending", "outcome-unknown"}
      /\ Mark(p, "outcome-unknown", "other") /\ TaskTo(loc[p].op, "blocked") /\ job' = EndJob("failed", "other")
      /\ wf' = [wf EXCEPT !.status = "blocked"] /\ Done(p) /\ UNCHANGED <<found, served>>
  BY DEF RecoverUnknown, Recovers, Evidence
<1>2. /\ loc[p].op = o /\ o \in Operations /\ inv[o] # <<>> /\ loc[p].attempt = Len(inv[o])
      /\ Mine(p) = Last(o) /\ job.status = "leased" /\ Row("outcome-unknown", "other") \in Rows
  BY <1>1, HolderKnows, Known DEF Row, Rows, Codes
<1>3. /\ inv' \in [Operations -> Seq(Rows)]
      /\ \A r \in Operations \ {o} : inv'[r] = inv[r]
      /\ Len(inv'[o]) = Len(inv[o]) /\ Len(inv[o]) \in Nat \ {0} /\ inv'[o] # <<>>
      /\ inv'[o][Len(inv[o])] = Row("outcome-unknown", "other")
      /\ \A a \in 1 .. Len(inv[o]) - 1 : inv'[o][a] = inv[o][a]
  BY <1>1, <1>2, Known, MarkIs
<1>4. /\ Row("outcome-unknown", "other").status = "outcome-unknown" /\ ~Repeatable(Row("outcome-unknown", "other"))
      /\ \A r \in Operations : Len(inv'[r]) = Len(inv[r])
      /\ \A r \in Operations \ {o} : inv'[r][Len(inv'[r])] = Last(r)
      /\ inv'[o][Len(inv'[o])] = Row("outcome-unknown", "other")
  BY <1>3 DEF Row, Last, Repeatable
<1>5. /\ job'.op = o /\ job'.attempt = job.attempt /\ job'.status = "failed" /\ job'.holder = NoProcess /\ job'.live = FALSE
      /\ job' \in [op : Operations, attempt : Nat \ {0}, holder : Processes \cup {NoProcess}, live : BOOLEAN,
                status : {"queued", "leased", "succeeded", "failed", "cancelled"}, error : Codes]
  BY <1>1, Known DEF EndJob, Types, Codes
<1>6. /\ pc'[p] = "idle" /\ \A q \in Processes \ {p} : loc'[q] = loc[q] /\ pc'[q] = pc[q]
      /\ \A q \in Processes : ~Holds(q)'
  BY <1>1, <1>5, Known DEF Done, Move, Types, Holds
<1>7. /\ task' \in [Operations -> CancellableTask \cup {"completed", "cancelled"}]
      /\ \A r \in Operations : task'[r] = "pending" => task[r] = "pending"
      /\ \A r \in Operations : task[r] = "completed" => task'[r] = "completed"
  BY <1>1, <1>2, Known, TaskToKeeps
<1>8. /\ wf' \in [status : {"running", "blocked", "failed", "cancelled"}, cancel : BOOLEAN] /\ wf'.cancel = wf.cancel
  BY <1>1, Known DEF Types
<1>9. Types'
  <2>1. /\ pc' \in [Processes -> Points]
        /\ loc' \in [Processes -> [op : Operations \cup {NoOperation}, attempt : Nat,
                              out : {"none", "failed", "expired"}, answer : Answers \cup {"none"}]]
    BY <1>1, Known DEF Done, Move, Types, Points, Idle
  <2> QED BY <1>1, <1>3, <1>5, <1>7, <1>8, <2>1, Known DEF Types
<1>10. Owned'
  BY <1>5, <1>6, Known DEF Owned, Holds
<1>11. Attempts'
  <2>1. \A r \in Operations : \A a \in 1 .. Len(inv'[r]) - 1 : Repeatable(inv'[r][a])
    BY <1>3 DEF DInv, Attempts
  <2>2. \A r \in Operations : task'[r] = "pending" => inv'[r] = <<>>
    BY <1>2, <1>3, <1>7 DEF DInv, Attempts
  <2> QED BY <1>2, <1>4, <1>5, <1>6, <2>1, <2>2 DEF DInv, Attempts
<1>12. Invocations'
  <2>1. \A q \in Processes : pc'[q] \in Working =>
          q # p /\ pc[q] = pc'[q] /\ loc'[q] = loc[q] /\ loc[q].op \in Operations
          /\ loc[q].attempt \in 1 .. Len(inv[loc[q].op])
    BY <1>6, Known DEF DInv, Invocations, Owned, Working
  <2>2. \A q \in Processes : pc'[q] \in Working => loc'[q].attempt \in 1 .. Len(inv'[loc'[q].op])
    BY <1>4, <2>1
  <2>3. \A x, y \in Processes :
          pc'[x] \in Working /\ pc'[y] \in Working /\ loc'[x].op = loc'[y].op /\ loc'[x].attempt = loc'[y].attempt
              => x = y
    BY <2>1 DEF DInv, Invocations
  <2>4. ASSUME NEW q \in Processes, pc'[q] \in {"authorized", "answered"}
        PROVE  /\ loc[q].attempt = Len(inv'[loc[q].op])
               /\ inv'[loc[q].op][loc[q].attempt].status \in {"pending", "outcome-unknown"}
    <3>1. pc[q] = pc'[q] /\ loc[q].op \in Operations
      BY <2>1, <2>4 DEF Working
    <3>2. loc[q].attempt = Len(inv[loc[q].op]) /\ inv[loc[q].op][loc[q].attempt].status \in {"pending", "outcome-unknown"}
      BY <2>4, <3>1 DEF DInv, Invocations, Mine
    <3>3. CASE loc[q].op = o
      BY <1>3, <1>4, <3>2, <3>3
    <3>4. CASE loc[q].op # o
      BY <1>3, <3>1, <3>2, <3>4
    <3> QED BY <3>3, <3>4
  <2>5. \A q \in Processes : pc'[q] \in {"authorized", "answered"} => loc'[q] = loc[q]
    BY <2>1 DEF Working
  <2> QED BY <1>6, <2>2, <2>3, <2>4, <2>5 DEF Invocations, Mine
<1>13. Executions'
  <2>1. \A r \in Operations : served[r] > 0 => inv'[r] # <<>> /\ inv'[r][Len(inv'[r])].status # "prepared"
                                              /\ ~Repeatable(inv'[r][Len(inv'[r])])
    BY <1>3, <1>4 DEF DInv, Executions
  <2> QED BY <1>1, <1>6, <2>1 DEF DInv, Executions, Last
<1>14. Answered'
  <2>1. Unanswered(o)
    BY <1>1, <1>2, NoSuccessNoAnswer
  <2>2. (\A i \in DOMAIN found : inv[found[i].op] # <<>> /\ Last(found[i].op).status = "succeeded")'
    BY <1>1, <1>3, <1>4, <2>1, Known, FoundTyped DEF DInv, Answered, Unanswered, Last
  <2>3. AnswerIsKept'
    <3>1. ASSUME NEW i \in DOMAIN found PROVE task'[found[i].op] = "completed" \/ wf'.cancel
      BY <1>7, <1>8, <2>1, Known, FoundTyped DEF AnswerIsKept, Unanswered
    <3> QED BY <1>1, <3>1 DEF AnswerIsKept
  <2> QED BY <1>5, <1>6, <2>2, <2>3 DEF Answered
<1>15. OthersRest'
  BY <1>3, <1>4, <1>5 DEF DInv, OthersRest, Last
<1> QED BY <1>9, <1>10, <1>11, <1>12, <1>13, <1>14, <1>15 DEF DInv

LEMMA EntersKeep == ASSUME DInv, NEW p \in Processes, Enter(p) \/ RejectRequest(p) PROVE DInv'
<1>1. CASE RejectRequest(p)
  BY <1>1, EnterKeeps DEF RejectRequest
<1>2. CASE Enter(p) /\ Authority(p) /\ SafeAttempt(loc[p].op, loc[p].attempt)
  <2>1. /\ inv' = [inv EXCEPT ![loc[p].op] = Append(@, Row("prepared", "none"))]
        /\ pc[p] = "started" /\ Move(p, "prepared") /\ UNCHANGED <<wf, task, job, found, loc, served>>
    BY <1>2 DEF Enter
  <2> QED BY <1>2, <2>1, EnterKeeps
<1>3. CASE Enter(p) /\ ~(Authority(p) /\ SafeAttempt(loc[p].op, loc[p].attempt))
  <2>1. pc[p] = "started" /\ Leave(p, "failed") /\ UNCHANGED <<wf, task, job, inv, found, served>>
    BY <1>3 DEF Enter
  <2>2. Holds(p) => Unanswered(job.op)
    BY <2>1, Known DEF DInv, Attempts, Answered
  <2> QED BY <2>1, <2>2, LeaveKeeps
<1> QED BY <1>1, <1>2, <1>3

LEMMA DInvStep == DInv /\ [Next]_vars => DInv'
<1> SUFFICES ASSUME DInv, [Next]_vars PROVE DInv'
  OBVIOUS
<1>1. CASE UNCHANGED vars
  BY <1>1, Known, ControlKeeps DEF vars, Types, Owned, Holds, AnswerIsKept, Answered, DInv, Working
<1>2. CASE SelectRaises \/ AgentStop
  BY <1>2, AgentStops DEF SelectRaises, AgentStop
<1>3. CASE AgentRetry \/ Retry
  BY <1>3, RetryKeeps DEF AgentRetry, Retry, Decides
<1>4. ASSUME NEW o \in Operations, Select(o) PROVE DInv'
  BY <1>4, SelectKeeps
<1>5. CASE RequestCancel
  BY <1>5, RequestCancelKeeps
<1>6. CASE LeaseRunsOut \/ Stall
  BY <1>6, LeaseKeeps DEF LeaseRunsOut, Stall, ExpireLease
<1>7. ASSUME NEW p \in Processes, Step(p) PROVE DInv'
  BY <1>7, LeaseJobKeeps, StartKeeps, EntersKeep, AuthorizeKeeps, CallKeeps, RecordKeeps, ConcludeKeeps,
     TakeExpiredKeeps, RecoverNothingKeeps, RecoverUnsentKeeps, RecoverUnknownKeeps, RecoverEnds, RecoverLostKeeps,
     SettleKeeps, SweepKeeps, BootKeeps
  DEF Step, Recover
<1>8. ASSUME NEW p \in Processes, Heartbeat(p) PROVE DInv'
  BY <1>8, LeaseKeeps, Known DEF Heartbeat
<1>9. ASSUME NEW p \in Processes, Crash(p) PROVE DInv'
  BY <1>9, CrashKeeps
<1> QED BY <1>1, <1>2, <1>3, <1>4, <1>5, <1>6, <1>7, <1>8, <1>9 DEF Next, Agent

\* What the proofs below rest on.
LEMMA Invariant == Spec => []DInv
  BY InvInit, DInvStep, PTL DEF Spec

-----------------------------------------------------------------------------
\* A provider never executes a search twice, and never one that the records say may be repeated:
\* whatever crashes, lost leases, takeovers and retries there are (recover_expired_discovery_job,
\* _assert_attempt_is_safe).
THEOREM ServedOnceCorrect == Spec => []ServedOnce
<1>1. DInv => ServedOnce
  <2> SUFFICES ASSUME DInv PROVE ServedOnce
    OBVIOUS
  <2>1. ServedAtMostOnce
    BY DEF DInv, Executions, ServedAtMostOnce
  <2>2. RepeatableIsUnserved
    <3> SUFFICES ASSUME NEW o \in Operations, \A a \in DOMAIN inv[o] : Repeatable(inv[o][a]), served[o] # 0 PROVE FALSE
      BY DEF RepeatableIsUnserved, Repeatable
    <3>1. served[o] > 0 /\ inv[o] \in Seq(Rows)
      BY Known DEF Types
    <3>2. inv[o] # <<>> /\ ~Repeatable(Last(o))
      BY <3>1 DEF DInv, Executions
    <3>3. Len(inv[o]) \in DOMAIN inv[o]
      BY <3>1, <3>2, EmptySeq, LenProperties
    <3> QED BY <3>2, <3>3 DEF Last
  <2> QED BY <2>1, <2>2 DEF ServedOnce
<1> QED BY <1>1, Invariant, PTL

\* Every row is in a state the code names, and no answer that was paid for is missing from the
\* steps, unless the user cancelled.
THEOREM RecordsAgreeCorrect == Spec => []RecordsAgree
<1>1. DInv => RecordsAgree
  <2> SUFFICES ASSUME DInv PROVE RecordsAgree
    OBVIOUS
  <2>1. ASSUME NEW o \in Operations, NEW a \in DOMAIN inv[o]
        PROVE  inv[o][a] \in [status : {"prepared", "pending", "succeeded", "failed",
                                        "outcome-unknown", "cancelled"}, code : Codes]
    <3>1. inv[o] \in Seq(Rows) /\ DOMAIN inv[o] = 1 .. Len(inv[o])
      BY Known, LenProperties DEF Types
    <3> QED BY <3>1, ElementOfSeq DEF Rows
  <2>2. TypeOK
    BY <2>1, Known DEF Types, Owned, TypeOK
  <2> QED BY <2>2, Known DEF RecordsAgree
<1> QED BY <1>1, Invariant, PTL

-----------------------------------------------------------------------------
(* The approved policy. *)

\* While the newest job has no answer the policy has not said stop, and no query that has
\* operations left was asked less often than the one that is being asked.
Searching ==
    Unanswered(job.op) =>
        /\ ~StopReason(found)
        /\ \A r \in Operations : task[r] = "pending" => Cardinality(OfQuery(job.op)) <= Cardinality(OfQuery(r))

PolicyInv == PolicyIsKept /\ Searching

\* Whatever is counted among the answers is finite.
LEMMA FoundFinite ==
  ASSUME Types
  PROVE  /\ Len(found) \in Nat /\ DOMAIN found = 1 .. Len(found)
         /\ \A i \in DOMAIN found : found[i] \in [op : Operations, result : Results]
         /\ \A S \in SUBSET DOMAIN found : IsFiniteSet(S) /\ Cardinality(S) \in Nat
<1>1. found \in Seq([op : Operations, result : Results])
  BY DEF Types
<1>2. Len(found) \in Nat /\ DOMAIN found = 1 .. Len(found)
  BY <1>1, LenProperties
<1>3. \A i \in DOMAIN found : found[i] \in [op : Operations, result : Results]
  BY <1>1, <1>2, ElementOfSeq
<1>4. IsFiniteSet(DOMAIN found)
  BY <1>2, FS_Interval
<1>5. \A S \in SUBSET DOMAIN found : IsFiniteSet(S) /\ Cardinality(S) \in Nat
  BY <1>4, FS_Subset, FS_CardinalityType
<1> QED BY <1>2, <1>3, <1>5

LEMMA PolicyInit == Init => PolicyInv
<1> SUFFICES ASSUME found = <<>> PROVE PolicyInv
  BY DEF Init
<1>1. Len(found) = 0 /\ DOMAIN found = {}
  OBVIOUS
<1>2. Cardinality({}) = 0
  BY FS_EmptySet
<1>3. /\ MinCandidates \in Nat \ {0} /\ MaxNoNovelty \in Nat \ {0} /\ MaxSearches \in Int /\ MaxSearches > 0
  BY DiscoveryAssumption
<1>4. \A o : Cardinality(OfQuery(o)) = 0
  <2>1. \A o : OfQuery(o) = {}
    BY <1>1 DEF OfQuery
  <2> QED BY <1>2, <2>1
<1>5. Barren(found) = 0 /\ Candidates(found) = 0
  <2>1. /\ {i \in DOMAIN found : \A j \in i .. Len(found) : found[j].result # "novel"} = {}
        /\ {i \in DOMAIN found : found[i].result # "nothing"} = {}
    BY <1>1
  <2> QED BY <1>2, <2>1 DEF Barren, Candidates
<1>6. PolicyIsKept
  <2>1. 1 .. Len(found) - 1 = {}
    BY <1>1
  <2>2. \A o, r \in Operations : task[r] = "pending" => Cardinality(OfQuery(o)) <= Cardinality(OfQuery(r)) + 1
    BY <1>4
  <2>3. Len(found) <= MaxSearches
    BY <1>1, <1>3
  <2> QED BY <2>1, <2>2, <2>3 DEF PolicyIsKept
<1>7. Searching
  <2>1. ~StopReason(found)
    BY <1>1, <1>3, <1>5 DEF StopReason
  <2>2. \A r \in Operations : task[r] = "pending" => Cardinality(OfQuery(job.op)) <= Cardinality(OfQuery(r))
    BY <1>4
  <2> QED BY <2>1, <2>2 DEF Searching
<1> QED BY <1>6, <1>7 DEF PolicyInv

\* A step that records no answer and goes on with the same operation.
LEMMA PolicyUntouched ==
  ASSUME PolicyInv, found' = found, job'.op = job.op,
         \A r \in Operations : task'[r] = "pending" => task[r] = "pending"
  PROVE  PolicyInv'
<1>1. \A o : OfQuery(o)' = OfQuery(o)
  BY DEF OfQuery
<1>2. OfQuery(job.op)' = OfQuery(job.op) /\ Unanswered(job.op)' = Unanswered(job.op)
  BY DEF OfQuery, Unanswered
<1>3. StopReason(found)' = StopReason(found)
  BY DEF StopReason, Candidates, Barren
<1>4. PolicyIsKept'
  BY <1>1 DEF PolicyInv, PolicyIsKept
<1>5. Searching'
  BY <1>1, <1>2, <1>3 DEF PolicyInv, Searching
<1> QED BY <1>4, <1>5 DEF PolicyInv

\* The selector takes a query that was asked least often, before the policy says stop.
LEMMA SelectFollows == ASSUME DInv, PolicyInv, NEW o \in Operations, Select(o) PROVE PolicyInv'
<1>1. /\ found' = found /\ job'.op = o /\ ~StopReason(found) /\ o \in Best
      /\ task' = [task EXCEPT ![o] = "queued"]
  BY DEF Select, Queued, Halted
<1>2. \A r \in Operations : task'[r] = "pending" => task[r] = "pending"
  BY <1>1, Known DEF Types
<1>3. \A r : OfQuery(r)' = OfQuery(r)
  BY <1>1 DEF OfQuery
<1>4. ASSUME NEW r \in Operations, task[r] = "pending"
      PROVE  Cardinality(OfQuery(o)) <= Cardinality(OfQuery(r))
  <2>1. ~Before(Rank(r), Rank(o))
    BY <1>1, <1>4 DEF Best, Eligible
  <2>2. DOMAIN Rank(r) = 1 .. 3 /\ Rank(r)[1] = Cardinality(OfQuery(r)) /\ Rank(o)[1] = Cardinality(OfQuery(o))
    BY DEF Rank
  <2>3. ~(Cardinality(OfQuery(r)) < Cardinality(OfQuery(o)))
    <3> HIDE DEF Rank
    <3>1. 1 \in DOMAIN Rank(r) /\ \A l \in 1 .. 1 - 1 : Rank(r)[l] = Rank(o)[l]
      BY <2>2
    <3> QED BY <2>1, <2>2, <3>1 DEF Before
  <2>4. Cardinality(OfQuery(r)) \in Nat /\ Cardinality(OfQuery(o)) \in Nat
    <3>1. OfQuery(r) \in SUBSET DOMAIN found /\ OfQuery(o) \in SUBSET DOMAIN found
      BY DEF OfQuery
    <3> QED BY <3>1, Known, FoundFinite
  <2> QED BY <2>3, <2>4
<1>5. PolicyIsKept'
  BY <1>1, <1>2, <1>3 DEF PolicyInv, PolicyIsKept
<1>6. Searching'
  <2>1. OfQuery(job.op)' = OfQuery(o)
    BY <1>1 DEF OfQuery
  <2>2. ~StopReason(found)'
    BY <1>1 DEF StopReason, Candidates, Barren
  <2> QED BY <1>2, <1>3, <1>4, <2>1, <2>2 DEF Searching
<1> QED BY <1>5, <1>6 DEF PolicyInv

\* Where the policy has not said stop, every prefix of the answers is one it lets go on.
LEMMA PrefixesGoOn ==
  ASSUME Types, PolicyIsKept, ~StopReason(found)
  PROVE  /\ Len(found) < MaxSearches
         /\ \A k \in 1 .. Len(found) :
              /\ Cardinality({i \in 1 .. k : found[i].result \in {"novel", "known"}}) < MinCandidates
              /\ k >= MaxNoNovelty => \E i \in k - MaxNoNovelty + 1 .. k : found[i].result = "novel"
<1> DEFINE L == Len(found)
           B == {i \in DOMAIN found : \A j \in i .. Len(found) : found[j].result # "novel"}
<1>1. L \in Nat /\ DOMAIN found = 1 .. L /\ \A i \in 1 .. L : found[i].result \in Results
  BY FoundFinite
<1>2. MinCandidates \in Nat /\ MaxNoNovelty \in Nat \ {0} /\ MaxSearches \in Int
  BY DiscoveryAssumption
<1>3. Cardinality(B) \in Nat /\ IsFiniteSet(B) /\ Candidates(found) \in Nat
  <2>1. B \in SUBSET DOMAIN found /\ {i \in DOMAIN found : found[i].result # "nothing"} \in SUBSET DOMAIN found
    OBVIOUS
  <2> QED BY <2>1, FoundFinite DEF Candidates
<1>4. L < MaxSearches /\ Candidates(found) < MinCandidates /\ Cardinality(B) < MaxNoNovelty
  <2>1. Barren(found) = Cardinality(B)
    BY DEF Barren
  <2> HIDE DEF B
  <2>2. L < MaxSearches /\ Candidates(found) < MinCandidates
    BY <1>1, <1>2, <1>3 DEF StopReason
  <2>3. Cardinality(B) < MaxNoNovelty
    BY <1>2, <1>3, <2>1 DEF StopReason
  <2> QED BY <2>2, <2>3
<1>5. Cardinality({i \in 1 .. L : found[i].result \in {"novel", "known"}}) < MinCandidates
  <2>1. {i \in 1 .. L : found[i].result \in {"novel", "known"}} = {i \in DOMAIN found : found[i].result # "nothing"}
    BY <1>1 DEF Results
  <2> QED BY <1>4, <2>1 DEF Candidates
<1>6. ASSUME L >= MaxNoNovelty PROVE \E i \in L - MaxNoNovelty + 1 .. L : found[i].result = "novel"
  <2> DEFINE a == L - MaxNoNovelty + 1
  <2> SUFFICES ASSUME \A i \in a .. L : found[i].result # "novel" PROVE FALSE
    OBVIOUS
  <2>1. a \in Int /\ a <= L /\ a >= 1
    BY <1>1, <1>2, <1>6
  <2>2. a .. L \in SUBSET B
    BY <1>1, <2>1
  <2>3. Cardinality(a .. L) = L - a + 1
    BY <1>1, <2>1, FS_Interval
  <2>4. Cardinality(a .. L) <= Cardinality(B)
    BY <1>3, <2>2, FS_Subset
  <2> QED BY <1>1, <1>2, <1>3, <1>4, <2>3, <2>4
<1>7. ASSUME NEW k \in 1 .. L, k # L
      PROVE  /\ Cardinality({i \in 1 .. k : found[i].result \in {"novel", "known"}}) < MinCandidates
             /\ k >= MaxNoNovelty => \E i \in k - MaxNoNovelty + 1 .. k : found[i].result = "novel"
  <2>1. L \in Nat
    BY <1>1
  <2> HIDE DEF L
  <2>2. k \in 1 .. L - 1
    BY <1>7, <2>1
  <2> QED BY <2>2 DEF PolicyIsKept, L
<1> QED BY <1>4, <1>5, <1>6, <1>7

\* An answer to the newest job, which had none.
LEMMA AnswerFollows ==
  ASSUME Types, PolicyInv, NEW e \in [op : Operations, result : Results], e.op = job.op, Unanswered(job.op),
         task[job.op] # "pending", found' = Append(found, e), UNCHANGED <<task, job>>
  PROVE  PolicyInv'
<1> DEFINE L == Len(found)
<1>1. L \in Nat /\ DOMAIN found = 1 .. L
  BY FoundFinite
<1>2. /\ Len(found') = L + 1 /\ DOMAIN found' = 1 .. L + 1
      /\ found'[L + 1] = e /\ \A i \in 1 .. L : found'[i] = found[i]
  BY AppendProperties DEF Types
<1>3. /\ ~StopReason(found)
      /\ \A r \in Operations : task[r] = "pending" => Cardinality(OfQuery(job.op)) <= Cardinality(OfQuery(r))
  BY DEF PolicyInv, Searching
<1>4. /\ L < MaxSearches
      /\ \A k \in 1 .. L :
           /\ Cardinality({i \in 1 .. k : found[i].result \in {"novel", "known"}}) < MinCandidates
           /\ k >= MaxNoNovelty => \E i \in k - MaxNoNovelty + 1 .. k : found[i].result = "novel"
  BY <1>3, PrefixesGoOn DEF PolicyInv
<1>5. ASSUME NEW o \in Operations
      PROVE  /\ Cardinality(OfQuery(o)) \in Nat
             /\ Cardinality(OfQuery(o)') = IF o[1] = job.op[1] THEN Cardinality(OfQuery(o)) + 1
                                           ELSE Cardinality(OfQuery(o))
  <2>1. IsFiniteSet(OfQuery(o)) /\ Cardinality(OfQuery(o)) \in Nat /\ L + 1 \notin OfQuery(o)
    <3>1. OfQuery(o) \in SUBSET DOMAIN found
      BY DEF OfQuery
    <3> QED BY <1>1, <3>1, FoundFinite
  <2>2. OfQuery(o)' = IF o[1] = job.op[1] THEN OfQuery(o) \cup {L + 1} ELSE OfQuery(o)
    BY <1>1, <1>2 DEF OfQuery
  <2> QED BY <2>1, <2>2, FS_AddElement
<1>6. ASSUME NEW o \in Operations, NEW r \in Operations, task[r] = "pending"
      PROVE  Cardinality(OfQuery(o)') <= Cardinality(OfQuery(r)') + 1
  <2>1. Cardinality(OfQuery(o)) <= Cardinality(OfQuery(r)) + 1
    BY <1>6 DEF PolicyInv, PolicyIsKept
  <2>2. o[1] = job.op[1] => Cardinality(OfQuery(o)) <= Cardinality(OfQuery(r))
    <3>1. o[1] = job.op[1] => OfQuery(o) = OfQuery(job.op)
      BY DEF OfQuery
    <3> QED BY <1>3, <1>6, <3>1
  <2> QED BY <1>5, <2>1, <2>2
<1>7. PolicyIsKept'
  <2>1. \A k \in 1 .. L : {i \in 1 .. k : found'[i].result \in {"novel", "known"}}
                          = {i \in 1 .. k : found[i].result \in {"novel", "known"}}
    BY <1>1, <1>2
  <2>2. ASSUME NEW k \in 1 .. L, k >= MaxNoNovelty
        PROVE  \E i \in k - MaxNoNovelty + 1 .. k : found'[i].result = "novel"
    <3>1. PICK i \in k - MaxNoNovelty + 1 .. k : found[i].result = "novel"
      BY <1>4, <2>2
    <3>2. i \in 1 .. L
      BY <1>1, <2>2, <3>1, DiscoveryAssumption
    <3> QED BY <1>2, <3>1, <3>2
  <2>3. Len(found') <= MaxSearches
    BY <1>1, <1>2, <1>4, DiscoveryAssumption
  <2>4. 1 .. Len(found') - 1 = 1 .. L
    BY <1>1, <1>2
  <2> QED BY <1>4, <1>6, <2>1, <2>2, <2>3, <2>4 DEF PolicyIsKept
<1>8. Searching'
  <2>1. L + 1 \in DOMAIN found' /\ found'[L + 1].op = job'.op
    BY <1>1, <1>2
  <2> QED BY <2>1 DEF Searching, Unanswered
<1> QED BY <1>7, <1>8 DEF PolicyInv

LEMMA RecordFollows == ASSUME DInv, PolicyInv, NEW p \in Processes, Record(p) PROVE PolicyInv'
<1>1. pc[p] = "answered" /\ UNCHANGED <<task, job>>
  BY DEF Record
<1>2. CASE found' = found
  BY <1>1, <1>2, PolicyUntouched
<1>3. CASE found' # found
  <2>1. /\ Mine(p).status = "pending" /\ Authority(p) /\ loc[p].answer \in Results
        /\ found' = Append(found, [op |-> loc[p].op, result |-> loc[p].answer])
    BY <1>3 DEF Record
  <2>2. /\ loc[p].op = job.op /\ job.op \in Operations /\ inv[job.op] # <<>> /\ Last(job.op).status = "pending"
        /\ task[job.op] = "running"
    BY <1>1, <2>1, HolderKnows DEF Authority, Working
  <2>3. Unanswered(job.op)
    BY <2>2, NoSuccessNoAnswer
  <2> DEFINE e == [op |-> loc[p].op, result |-> loc[p].answer]
  <2>4. e \in [op : Operations, result : Results] /\ e.op = job.op /\ found' = Append(found, e)
    BY <2>1, <2>2
  <2> HIDE DEF e
  <2> QED BY <1>1, <2>2, <2>3, <2>4, Known, AnswerFollows
<1> QED BY <1>2, <1>3

\* The steps of a worker that record no answer go on with the operation of the newest job.
LEMMA StepFollows == ASSUME DInv, PolicyInv, NEW p \in Processes, Step(p) PROVE PolicyInv'
<1> DEFINE Same == found' = found /\ job'.op = job.op
           NoPending == \A r \in Operations : task'[r] = "pending" => task[r] = "pending"
<1>1. CASE LeaseJob(p) \/ Start(p)
  <2>1. job.op \in Operations /\ task \in [Operations -> CancellableTask \cup {"completed", "cancelled"}]
    BY Known DEF Types
  <2>2. Same
    BY <1>1, Known DEF LeaseJob, Start, Types
  <2>3. NoPending
    BY <1>1, <2>1 DEF LeaseJob, Start
  <2> QED BY <2>2, <2>3, PolicyUntouched
<1>2. CASE Enter(p) \/ RejectRequest(p) \/ Authorize(p) \/ (\E answer \in Answers : Call(p, answer)) \/ Boot(p)
  BY <1>2, PolicyUntouched DEF Enter, RejectRequest, Authorize, Call, Boot
<1>3. CASE Record(p)
  BY <1>3, RecordFollows
<1>4. ASSUME NEW o \in Operations, NEW st \in {"failed", "blocked", "cancelled", "queued"}, TaskTo(o, st) PROVE NoPending
  BY <1>4, Known, TaskToKeeps
<1>5. \A st, e : EndJob(st, e).op = job.op
  BY Known DEF EndJob, Types
<1>6. ASSUME NEW o \in Operations, Complete(o), found' = found PROVE PolicyInv'
  <2>1. NoPending
    BY <1>6, Known DEF Complete, Types
  <2> QED BY <1>5, <1>6, <2>1, PolicyUntouched DEF Complete
<1>7. pc[p] \notin {"idle", "down"} => loc[p].op \in Operations /\ (Holds(p) => loc[p].op = job.op)
  BY Known DEF Owned
<1>8. CASE Conclude(p)
  <2>1. found' = found /\ loc[p].op \in Operations
    BY <1>7, <1>8 DEF Conclude
  <2>2. CASE ~Holds(p)
    BY <1>8, <2>1, <2>2, PolicyUntouched DEF Conclude
  <2>3. CASE Holds(p) /\ Mine(p).status = "succeeded"
    BY <1>6, <1>8, <2>1, <2>3 DEF Conclude
  <2>4. CASE Holds(p) /\ Mine(p).status # "succeeded"
    <3>1. job'.op = job.op
      BY <1>5, <1>8, <2>4 DEF Conclude
    <3>2. NoPending
      BY <1>4, <1>8, <2>1, <2>4 DEF Conclude
    <3> QED BY <2>1, <3>1, <3>2, PolicyUntouched
  <2> QED BY <2>2, <2>3, <2>4
<1>9. CASE TakeExpired(p)
  <2>1. Same
    BY <1>9, Known DEF TakeExpired, Types
  <2> QED BY <1>9, <2>1, PolicyUntouched DEF TakeExpired
<1>10. CASE Recover(p)
  <2>1. found' = found /\ loc[p].op \in Operations
    BY <1>7, <1>10 DEF Recover, RecoverNothing, RecoverUnsent, RecoverUnknown, RecoverAnswered, RecoverCancelled,
                       RecoverFailed, RecoverLost, Recovers
  <2>2. CASE RecoverAnswered(p)
    BY <1>6, <2>1, <2>2 DEF RecoverAnswered
  <2>3. CASE RecoverUnknown(p) \/ RecoverCancelled(p) \/ RecoverFailed(p)
    <3>1. job'.op = job.op
      BY <1>5, <2>3 DEF RecoverUnknown, RecoverCancelled, RecoverFailed
    <3>2. NoPending
      BY <1>4, <2>1, <2>3 DEF RecoverUnknown, RecoverCancelled, RecoverFailed
    <3> QED BY <2>1, <3>1, <3>2, PolicyUntouched
  <2>4. CASE UNCHANGED <<task, job>>
    BY <2>1, <2>4, PolicyUntouched
  <2> QED BY <1>10, <2>2, <2>3, <2>4 DEF Recover, RecoverNothing, RecoverUnsent, RecoverLost
<1>11. CASE Settle(p)
  <2>1. found' = found /\ loc[p].op \in Operations /\ (Holds(p) => loc[p].op = job.op)
    BY <1>7, <1>11 DEF Settle
  <2>2. CASE ~Holds(p)
    BY <1>11, <2>1, <2>2, PolicyUntouched DEF Settle
  <2>3. CASE Holds(p) /\ wf.cancel
    <3>1. task' = CancelTasks /\ job'.op = job.op
      BY <1>5, <1>11, <2>3 DEF Settle
    <3>2. NoPending
      BY <3>1, Known, CancelTasksKeeps
    <3> QED BY <2>1, <3>1, <3>2, PolicyUntouched
  <2>4. CASE Holds(p) /\ ~wf.cancel
    <3>1. job'.op = job.op /\ (TaskTo(loc[p].op, "queued") \/ TaskTo(loc[p].op, "failed"))
      BY <1>5, <1>11, <2>1, <2>4 DEF Settle, Queued
    <3>2. NoPending
      BY <1>4, <2>1, <3>1
    <3> QED BY <2>1, <3>1, <3>2, PolicyUntouched
  <2> QED BY <2>2, <2>3, <2>4
<1>12. CASE Sweep(p)
  <2>1. found' = found /\ task' = CancelTasks /\ job'.op = job.op
    BY <1>5, <1>12 DEF Sweep, CancelRest
  <2>2. NoPending
    BY <2>1, Known, CancelTasksKeeps
  <2> QED BY <2>1, <2>2, PolicyUntouched
<1> QED BY <1>1, <1>2, <1>3, <1>8, <1>9, <1>10, <1>11, <1>12 DEF Step

LEMMA PolicyStep == DInv /\ PolicyInv /\ [Next]_vars => PolicyInv'
<1> SUFFICES ASSUME DInv, PolicyInv, [Next]_vars PROVE PolicyInv'
  OBVIOUS
<1>1. job.op \in Operations /\ task \in [Operations -> CancellableTask \cup {"completed", "cancelled"}]
  BY Known DEF Types
<1>2. CASE UNCHANGED vars
  BY <1>2, PolicyUntouched DEF vars
<1>3. CASE SelectRaises \/ AgentStop
  BY <1>3, PolicyUntouched DEF SelectRaises, AgentStop
<1>4. CASE AgentRetry \/ Retry
  <2>1. found' = found /\ job'.op = job.op /\ task' = [task EXCEPT ![job.op] = "queued"]
    BY <1>4 DEF AgentRetry, Retry, Queued
  <2>2. \A r \in Operations : task'[r] = "pending" => task[r] = "pending"
    BY <1>1, <2>1
  <2> QED BY <2>1, <2>2, PolicyUntouched
<1>5. ASSUME NEW o \in Operations, Select(o) PROVE PolicyInv'
  BY <1>5, SelectFollows
<1>6. CASE RequestCancel
  <2>1. CASE job.status = "leased"
    BY <1>6, <2>1, PolicyUntouched DEF RequestCancel
  <2>2. CASE job.status # "leased"
    <3>1. found' = found /\ task' = CancelTasks /\ job'.op = job.op
      BY <1>6, <2>2, Known DEF RequestCancel, CancelRest, EndJob, Types
    <3>2. \A r \in Operations : task'[r] = "pending" => task[r] = "pending"
      BY <3>1, Known, CancelTasksKeeps
    <3> QED BY <3>1, <3>2, PolicyUntouched
  <2> QED BY <2>1, <2>2
<1>7. CASE LeaseRunsOut \/ Stall \/ \E p \in Processes : Heartbeat(p)
  <2>1. found' = found /\ job'.op = job.op /\ task' = task
    BY <1>7, Known DEF LeaseRunsOut, Stall, Heartbeat, ExpireLease, Types
  <2> QED BY <2>1, PolicyUntouched
<1>8. ASSUME NEW p \in Processes, Crash(p) PROVE PolicyInv'
  BY <1>8, PolicyUntouched DEF Crash
<1>9. ASSUME NEW p \in Processes, Step(p) PROVE PolicyInv'
  BY <1>9, StepFollows
<1> QED BY <1>2, <1>3, <1>4, <1>5, <1>6, <1>7, <1>8, <1>9 DEF Next, Agent

\* The searches follow the approved policy over crashes, takeovers and retries: the queries take
\* turns and no search is made after the policy said stop (_select_discovery_next_task,
\* _discovery_stop_reason).
THEOREM PolicyIsKeptCorrect == Spec => []PolicyIsKept
<1>1. PolicyInv => PolicyIsKept
  BY DEF PolicyInv
<1> QED BY <1>1, PolicyInit, PolicyStep, Invariant, PTL DEF Spec

-----------------------------------------------------------------------------
(* The refinement of SearchOnce. *)

Phases == [o \in Operations |-> PhaseOf(o)]
Executed == {o \in Operations : served[o] > 0}

LEMMA PhasesInit == Init => Promise!SInit
<1> SUFFICES ASSUME Init PROVE Promise!SInit
  OBVIOUS
<1>1. \A o \in Operations : inv[o] = <<>> /\ served[o] = 0
  BY DEF Init
<1> QED BY <1>1 DEF Promise!SInit, PhaseOf

\* A step that leaves every phase and what was executed alone.
LEMMA PhasesStutter ==
  ASSUME \A o \in Operations : PhaseOf(o)' = PhaseOf(o), \A o \in Operations : served'[o] > 0 <=> served[o] > 0
  PROVE  UNCHANGED Promise!svars
  BY DEF Promise!svars

RowPhase(r) ==
    CASE r.status = "prepared" -> "open"
      [] r.status = "pending" -> "asked"
      [] r.status = "succeeded" -> "found"
      [] r.status = "outcome-unknown" -> "unknown"
      [] r.status = "failed" /\ r.code \in {"safe", "unsent"} -> "open"
      [] OTHER -> "closed"

\* A step that changes one phase.
LEMMA PhaseMoves ==
  ASSUME NEW o \in Operations, NEW to, PhaseOf(o)' = to, \A r \in Operations \ {o} : PhaseOf(r)' = PhaseOf(r),
         served' = served
  PROVE  Promise!To(o, to)
  BY DEF Promise!To

\* What marking the open row of the newest job means for the phases.
LEMMA MarkedPhase ==
  ASSUME DInv, NEW p \in Processes,
         pc[p] \in Working \/ (pc[p] = "recovering" /\ Holds(p) /\ Evidence(p) # "none"),
         Mine(p).status \in {"prepared", "pending", "outcome-unknown"},
         NEW s, NEW c, Row(s, c) \in Rows, Mark(p, s, c), served' = served
  PROVE  /\ loc[p].op \in Operations
         /\ PhaseOf(loc[p].op) = RowPhase(Mine(p))
         /\ Promise!To(loc[p].op, RowPhase(Row(s, c)))
         /\ RowPhase(Row(s, c)) = RowPhase(Mine(p)) => UNCHANGED Promise!svars
         /\ \A r \in Operations \ {loc[p].op} : PhaseOf(r) \in {"open", "found"}
<1>0. PICK o : o = loc[p].op
  OBVIOUS
<1>1. /\ o = job.op /\ o \in Operations /\ inv[o] # <<>> /\ loc[p].attempt = Len(inv[o])
      /\ Mine(p) = Last(o) /\ inv[o] \in Seq(Rows)
  BY <1>0, OpenRowIsLast
<1>2. /\ \A r \in Operations \ {o} : inv'[r] = inv[r]
      /\ Len(inv'[o]) = Len(inv[o]) /\ inv'[o] # <<>> /\ inv'[o][Len(inv[o])] = Row(s, c)
  <2>1. Types /\ loc[p].op = o
    BY <1>0, Known
  <2> QED BY <1>1, <2>1, MarkIs
<1>3. PhaseOf(o) = RowPhase(Mine(p))
  BY <1>1 DEF PhaseOf, RowPhase
<1>4. PhaseOf(o)' = RowPhase(Row(s, c))
  BY <1>2 DEF PhaseOf, RowPhase, Last
<1>5. \A r \in Operations \ {o} : PhaseOf(r)' = PhaseOf(r)
  BY <1>2 DEF PhaseOf, Last
<1>6. \A r \in Operations \ {o} : PhaseOf(r) \in {"open", "found"}
  BY <1>1 DEF DInv, OthersRest, PhaseOf
<1>7. Promise!To(o, RowPhase(Row(s, c)))
  BY <1>1, <1>4, <1>5, PhaseMoves
<1>8. RowPhase(Row(s, c)) = RowPhase(Mine(p)) => UNCHANGED Promise!svars
  BY <1>3, <1>4, <1>5, PhasesStutter
<1> QED BY <1>0, <1>1, <1>3, <1>6, <1>7, <1>8

\* The steps that leave the records of the searches alone.
LEMMA QuietSteps == ASSUME UNCHANGED <<inv, served>> PROVE UNCHANGED Promise!svars
  BY DEF Promise!svars, PhaseOf, Last

LEMMA PhaseAsked == ASSUME DInv, NEW p \in Processes, Authorize(p) PROVE [Promise!SNext]_(Promise!svars)
<1> DEFINE o == loc[p].op
<1>1. pc[p] = "prepared" /\ pc[p] \in Working /\ served' = served
  BY DEF Authorize, Working
<1>2. CASE Mine(p).status # "prepared"
  BY <1>1, <1>2, QuietSteps DEF Authorize
<1>3. CASE Mine(p).status = "prepared"
  <2>1. PICK s \in {"pending", "cancelled", "failed"}, c \in {"none", "other"} :
          Mark(p, s, c) /\ (s = "failed" <=> c = "other")
    BY <1>3 DEF Authorize, GiveUp
  <2>2. Row(s, c) \in Rows /\ RowPhase(Row(s, c)) = (IF s = "pending" THEN "asked" ELSE "closed") /\ RowPhase(Mine(p)) = "open"
    BY <1>3, <2>1 DEF Row, Rows, Codes, RowPhase
  <2>3. /\ o \in Operations /\ PhaseOf(o) = "open" /\ Promise!To(o, IF s = "pending" THEN "asked" ELSE "closed")
        /\ \A r \in Operations : PhaseOf(r) \in {"open", "found"}
    BY <1>1, <1>3, <2>1, <2>2, MarkedPhase
  <2>4. o \notin Executed
    <3>1. Last(o).status = "prepared"
      BY <1>1, <1>3, OpenRowIsLast
    <3> QED BY <2>3, <3>1 DEF DInv, Executions, Executed
  <2>5. CASE s = "pending"
    <3>1. Promise!Ask(o)
      BY <2>3, <2>4, <2>5 DEF Promise!Ask, Executed
    <3> QED BY <2>3, <3>1 DEF Promise!SNext
  <2>6. CASE s # "pending"
    <3>1. Promise!Close(o)
      BY <2>3, <2>6 DEF Promise!Close
    <3> QED BY <2>3, <3>1 DEF Promise!SNext
  <2> QED BY <2>5, <2>6
<1> QED BY <1>2, <1>3

LEMMA PhaseEntered == ASSUME DInv, NEW p \in Processes, Enter(p) \/ RejectRequest(p) PROVE [Promise!SNext]_(Promise!svars)
<1>0. PICK o : o = loc[p].op
  OBVIOUS
<1>1. pc[p] = "started" /\ o \in Operations /\ served' = served
  BY <1>0, Known DEF Enter, RejectRequest, Owned
<1>2. CASE inv' = inv
  BY <1>1, <1>2, QuietSteps
<1>3. CASE inv' # inv
  <2>1. SafeAttempt(o, loc[p].attempt)
    BY <1>0, <1>3 DEF Enter, RejectRequest
  <2>2. PICK r \in {Row("prepared", "none"), Row("failed", "other")} : inv' = [inv EXCEPT ![o] = Append(@, r)]
    BY <1>0, <1>3 DEF Enter, RejectRequest
  <2>3. r \in Rows /\ RowPhase(r) \in {"open", "closed"}
    BY <2>2 DEF Row, Rows, Codes, RowPhase
  <2>4. /\ \A q \in Operations \ {o} : inv'[q] = inv[q]
        /\ inv'[o] # <<>> /\ inv'[o][Len(inv'[o])] = r
    BY <1>1, <2>2, <2>3, Known, AppendIs
  <2>5. PhaseOf(o) = "open"
    BY <2>1 DEF SafeAttempt, PhaseOf
  <2>6. PhaseOf(o)' = RowPhase(r) /\ \A q \in Operations \ {o} : PhaseOf(q)' = PhaseOf(q)
    BY <2>4 DEF PhaseOf, RowPhase, Last
  <2>7. CASE RowPhase(r) = "open"
    BY <1>1, <2>5, <2>6, <2>7, PhasesStutter
  <2>8. CASE RowPhase(r) = "closed"
    <3>1. Promise!Close(o)
      BY <1>1, <2>5, <2>6, <2>8, PhaseMoves DEF Promise!Close
    <3> QED BY <1>1, <3>1 DEF Promise!SNext
  <2> QED BY <2>3, <2>7, <2>8
<1> QED BY <1>2, <1>3

LEMMA PhaseExecuted == ASSUME DInv, NEW p \in Processes, NEW answer \in Answers, Call(p, answer)
                       PROVE  [Promise!SNext]_(Promise!svars)
<1>0. PICK o : o = loc[p].op
  OBVIOUS
<1>1. /\ pc[p] = "authorized" /\ inv' = inv /\ o \in Operations
      /\ served' = IF answer \in Refusals THEN served ELSE [served EXCEPT ![o] = @ + 1]
  BY <1>0, Known DEF Call, Owned
<1>2. CASE answer \in Refusals
  BY <1>1, <1>2, QuietSteps
<1>3. CASE answer \notin Refusals
  <2>1. /\ inv[o] # <<>> /\ Last(o).status \in {"pending", "outcome-unknown"} /\ served[o] = 0
    <3>1. loc[p].attempt \in 1 .. Len(inv[o])
      BY <1>0, <1>1 DEF DInv, Invocations, Working
    <3> QED BY <1>0, <1>1, <3>1, EmptySeq DEF DInv, Invocations, Executions, Mine, Last
  <2>2. PhaseOf(o) \in {"asked", "unknown"}
    BY <2>1 DEF PhaseOf
  <2>3. served'[o] = 1 /\ \A r \in Operations \ {o} : served'[r] = served[r]
    BY <1>1, <1>3, <2>1, Known DEF Types
  <2>4. Promise!Execute(o)
    <3>1. {r \in Operations : served'[r] > 0} = {r \in Operations : served[r] > 0} \cup {o}
      BY <1>1, <2>3
    <3>2. [r \in Operations |-> PhaseOf(r)]' = [r \in Operations |-> PhaseOf(r)]
      BY <1>1 DEF PhaseOf, Last
    <3> QED BY <1>1, <2>1, <2>2, <3>1, <3>2 DEF Promise!Execute
  <2> QED BY <1>1, <2>4 DEF Promise!SNext
<1> QED BY <1>2, <1>3

LEMMA PhaseRecorded == ASSUME DInv, NEW p \in Processes, Record(p) PROVE [Promise!SNext]_(Promise!svars)
<1> DEFINE o == loc[p].op  answer == loc[p].answer
<1>1. pc[p] = "answered" /\ pc[p] \in Working /\ served' = served
  BY DEF Record, Working
<1>2. answer \in Answers /\ served[o] = IF answer \in Refusals THEN 0 ELSE 1
  BY <1>1 DEF DInv, Executions
<1>3. CASE Mine(p).status # "pending"
  BY <1>1, <1>3, QuietSteps DEF Record
<1>4. CASE Mine(p).status = "pending"
  <2>1. PICK s \in {"succeeded", "failed", "outcome-unknown", "cancelled"}, c \in {"none", "safe", "other"} :
          /\ Mark(p, s, c)
          /\ s = "succeeded" => answer \in Results
          /\ s = "failed" => c # "none" /\ (c = "safe" => answer \in Refusals)
    BY <1>4 DEF Record, GiveUp, MarkAnswer
  <2>2. /\ Row(s, c) \in Rows /\ RowPhase(Mine(p)) = "asked"
        /\ RowPhase(Row(s, c)) = IF s = "succeeded" THEN "found" ELSE IF s = "outcome-unknown" THEN "unknown"
                                 ELSE IF s = "failed" /\ c = "safe" THEN "open" ELSE "closed"
    BY <1>4, <2>1 DEF Row, Rows, Codes, RowPhase
  <2>3. o \in Operations /\ PhaseOf(o) = "asked" /\ Promise!To(o, RowPhase(Row(s, c)))
    BY <1>1, <1>4, <2>1, <2>2, MarkedPhase
  <2>4. CASE s = "succeeded"
    <3>1. served[o] = 1
      BY <1>2, <2>1, <2>4 DEF Results, Refusals
    <3>2. Promise!Find(o)
      BY <2>2, <2>3, <2>4, <3>1 DEF Promise!Find
    <3> QED BY <2>3, <3>2 DEF Promise!SNext
  <2>5. CASE s = "outcome-unknown"
    <3>1. Promise!Lose(o)
      BY <2>2, <2>3, <2>5 DEF Promise!Lose
    <3> QED BY <2>3, <3>1 DEF Promise!SNext
  <2>6. CASE s = "failed" /\ c = "safe"
    <3>1. served[o] = 0
      BY <1>2, <2>1, <2>6
    <3>2. Promise!Refuse(o)
      BY <2>2, <2>3, <2>6, <3>1 DEF Promise!Refuse
    <3> QED BY <2>3, <3>2 DEF Promise!SNext
  <2>7. CASE s \notin {"succeeded", "outcome-unknown"} /\ ~(s = "failed" /\ c = "safe")
    <3>1. Promise!Close(o)
      BY <2>2, <2>3, <2>7 DEF Promise!Close
    <3> QED BY <2>3, <3>1 DEF Promise!SNext
  <2> QED BY <2>4, <2>5, <2>6, <2>7
<1> QED BY <1>3, <1>4

LEMMA PhaseRecovered == ASSUME DInv, NEW p \in Processes, Recover(p) PROVE [Promise!SNext]_(Promise!svars)
<1> DEFINE o == loc[p].op
<1>1. CASE RecoverUnsent(p)
  <2>1. /\ pc[p] = "recovering" /\ Holds(p) /\ Evidence(p) # "none" /\ Mine(p).status = "prepared" /\ served' = served
    BY <1>1 DEF RecoverUnsent, Recovers, Unsent, Evidence
  <2>2. PICK c \in {"unsent", "other"} : Mark(p, "failed", c)
    BY <1>1 DEF RecoverUnsent
  <2>3. /\ Row("failed", c) \in Rows /\ RowPhase(Mine(p)) = "open"
        /\ RowPhase(Row("failed", c)) = IF c = "unsent" THEN "open" ELSE "closed"
    BY <2>1, <2>2 DEF Row, Rows, Codes, RowPhase
  <2>4. /\ o \in Operations /\ PhaseOf(o) = "open" /\ Promise!To(o, RowPhase(Row("failed", c)))
        /\ c = "unsent" => UNCHANGED Promise!svars
    BY <2>1, <2>2, <2>3, MarkedPhase
  <2>5. c = "other" => Promise!Close(o)
    BY <2>3, <2>4 DEF Promise!Close
  <2> QED BY <2>2, <2>4, <2>5 DEF Promise!SNext
<1>2. CASE RecoverUnknown(p)
  <2>1. /\ pc[p] = "recovering" /\ Holds(p) /\ Evidence(p) # "none" /\ Mine(p).status \in {"pending", "outcome-unknown"}
        /\ served' = served /\ Mark(p, "outcome-unknown", "other")
    BY <1>2 DEF RecoverUnknown, Recovers, Evidence
  <2>2. /\ Row("outcome-unknown", "other") \in Rows /\ RowPhase(Row("outcome-unknown", "other")) = "unknown"
        /\ RowPhase(Mine(p)) \in {"asked", "unknown"}
    BY <2>1 DEF Row, Rows, Codes, RowPhase
  <2>3. /\ o \in Operations /\ PhaseOf(o) = RowPhase(Mine(p)) /\ Promise!To(o, "unknown")
        /\ RowPhase(Mine(p)) = "unknown" => UNCHANGED Promise!svars
    BY <2>1, <2>2, MarkedPhase
  <2>4. RowPhase(Mine(p)) = "asked" => Promise!Lose(o)
    BY <2>3 DEF Promise!Lose
  <2> QED BY <2>2, <2>3, <2>4 DEF Promise!SNext
<1>3. CASE UNCHANGED <<inv, served>>
  BY <1>3, QuietSteps
<1> QED BY <1>1, <1>2, <1>3
        DEF Recover, RecoverNothing, RecoverAnswered, RecoverCancelled, RecoverFailed, RecoverLost

\* The searches are asked as SearchOnce promises: one at a time, none again that a provider
\* executed, and none after one whose outcome nobody knows or that was given up.
THEOREM ImplementsSearchOnceCorrect == Spec => ImplementsSearchOnce
<1>1. DInv /\ [Next]_vars => [Promise!SNext]_(Promise!svars)
  <2> SUFFICES ASSUME DInv, [Next]_vars PROVE [Promise!SNext]_(Promise!svars)
    OBVIOUS
  <2>1. ASSUME NEW p \in Processes, Step(p) PROVE [Promise!SNext]_(Promise!svars)
    <3>1. CASE UNCHANGED <<inv, served>>
      BY <3>1, QuietSteps
    <3> QED
      BY <2>1, <3>1, PhaseEntered, PhaseAsked, PhaseExecuted, PhaseRecorded, PhaseRecovered
      DEF Step, LeaseJob, Start, Conclude, TakeExpired, Settle, Sweep, CancelRest, Boot
  <2>2. CASE UNCHANGED <<inv, served>>
    BY <2>2, QuietSteps
  <2> QED
    BY <2>1, <2>2
    DEF Next, Agent, SelectRaises, AgentRetry, AgentStop, Select, RequestCancel, CancelRest, Retry, LeaseRunsOut, Stall,
        Heartbeat, Crash, vars
<1> QED BY <1>1, PhasesInit, Invariant, PTL DEF Spec, ImplementsSearchOnce, Promise!SSpec
=============================================================================

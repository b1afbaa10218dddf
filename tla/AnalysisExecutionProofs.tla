------------------------ MODULE AnalysisExecutionProofs ------------------------
(***************************************************************************)
(* TLAPS proofs about AnalysisExecution, for any number of processes,      *)
(* repairs, attempts, retries and faults.                                  *)
(***************************************************************************)
EXTENDS AnalysisExecution, FiniteSetTheorems, WellFoundedInduction, TLAPS

-----------------------------------------------------------------------------
(* The inductive invariant. *)

PcStates == {"idle", "down", "booting", "cleared", "leased", "recovering", "started", "ready",
             "checked", "claimed", "copied", "running", "answered", "ran", "failing",
             "publishing", "reporting", "settling"}

LocType == [intent : 0 .. MaxRepairs + 1, rev : Nat, bytes : {"none", "approved", "changed", "gone"},
            out : {"none", "completed", "failed", "expired", "unknown"}, error : Errors,
            next : {"idle", "reporting", "settling", "none", "running", "completed", "failed"}]

JobType == [intent : 0 .. MaxRepairs + 1, status : {"none", "queued", "leased", "succeeded", "failed", "cancelled"},
            holder : Processes \cup {NoProcess}, live : BOOLEAN, attempt : Nat, error : Errors]

WfType == [status : {"running", "blocked", "failed", "cancelled"}, cancel : BOOLEAN, rev : Nat, agent : BOOLEAN]
IntentType == [status : IntentStatuses, rev : Nat, error : Errors]
RunType == [status : {"none", "running", "completed", "failed"}, evidence : {"none", "full", "torn"}]
Dirs == {"none", "input", "outputs", "cleared", "log"}

Types ==
    /\ wf \in WfType /\ task \in TaskStatuses
    /\ job \in JobType
    /\ (job.holder \in Processes) <=> (job.status = "leased")
    /\ job.live => job.status = "leased"
    /\ intent \in [Intents -> IntentType] /\ run \in [Intents -> RunType]
    /\ exch \in [Processes -> {"none", "recent", "old"}]
    /\ disk \in [data : {"approved", "changed", "gone"}, dir : [Intents -> Dirs]]
    /\ pc \in [Processes -> PcStates] /\ loc \in [Processes -> LocType]
    /\ starts \in [Intents -> Nat]
    /\ budget \in [faults : Nat, retries : Nat, renewed : Nat, undone : BOOLEAN]

\* The approval of an intent in this status has been given.
Passed == {"approved", "executing", "completed", "failed"}

\* The approval is spent, though the agent may have set it back.
Spent(i) == \/ intent[i].status \in {"executing", "completed", "failed"}
            \/ intent[i].status = "approved" /\ budget.renewed > 0

Newest(i) == intent[i].status # "none" /\ \A j \in Intents : j > i => intent[j].status = "none"

\* Threads that execute an approval they have claimed, threads that know of their job's
\* intent, and processes that are about to fail a run.
ActivePcs == {"claimed", "copied", "running", "answered", "ran", "failing"}
BoundPcs == {"ready", "checked", "publishing", "reporting"} \cup ActivePcs
Active(p) == pc[p] \in ActivePcs
Boots(p) == pc[p] \in {"booting", "cleared"}

\* Only the newest intent has not failed; a compiled analysis has only one.
Line ==
    /\ intent[1].status # "none"
    /\ \A i, j \in Intents : j < i /\ intent[i].status # "none" => intent[j].status = "failed"
    /\ \A i \in Intents : intent[i].rev <= wf.rev
    /\ wf.agent => \A i \in Intents : i > 1 => intent[i].status = "none"

\* Every retry moves the revision past the one the approval binds.
Renewal == budget.renewed > 0 => wf.agent /\ job.status # "none" /\ intent[1].rev < wf.rev

\* The job of the step is the newest intent's while it can run or be retried.
JobRow ==
    /\ job.status # "none" => job.intent \in Intents /\ intent[job.intent].status \in Passed
    /\ job.status \in {"queued", "leased"} \/ wf.status = "failed" =>
          job.status # "none" /\ Newest(job.intent)
    /\ task = "waiting-approval" => job.status \notin {"queued", "leased"}
    /\ job.status = "succeeded" /\ ~budget.undone => run[job.intent].status = "completed"

\* The step has ended, or been retried, before the run did: the run will not complete.
Undeliverable(i) ==
    /\ intent[i].status # "completed"
    /\ task \in {"failed", "cancelled"} \/ intent[i].rev < wf.rev \/ intent[i].status = "failed"

\* What each thread knows.
ThreadSound(p) ==
    /\ pc[p] \in BoundPcs => loc[p].intent \in Intents
    /\ pc[p] \in BoundPcs /\ Holds(p) => job.intent = loc[p].intent
    /\ Active(p) => intent[loc[p].intent].rev = loc[p].rev /\ run[loc[p].intent].status # "none"
    /\ pc[p] \in {"running", "answered", "ran"} => loc[p].bytes = "approved"
    /\ pc[p] = "failing" => loc[p].next \in {"reporting", "settling"}
    /\ pc[p] = "answered" => loc[p].out \in {"completed", "failed"}
    /\ pc[p] = "ran" => loc[p].out \in {"completed", "failed"}
    /\ pc[p] = "ran" /\ budget.renewed = 0 /\ ~budget.undone /\ disk.data # "gone" =>
          disk.dir[loc[p].intent] = "outputs"
    /\ Boots(p) =>
          /\ loc[p].intent \in Intents /\ run[loc[p].intent].status # "none"
          /\ loc[p].next = "running" /\ loc[p].rev <= budget.renewed /\ loc[p].out \in {"none", "failed"}
          /\ loc[p].out = "none" => Undeliverable(loc[p].intent)

\* As long as no approval was set back, one thread executes, and what it executes is the
\* newest intent; when that was failed under it, then not in a way that allows a repair.
Solo ==
    budget.renewed = 0 =>
        /\ \A p, q \in Processes : Active(p) /\ Active(q) => p = q
        /\ \A p \in Processes : Active(p) =>
              LET i == loc[p].intent IN
              /\ Newest(i)
              /\ intent[i].status = "executing" \/ (intent[i].status = "failed" /\ intent[i].error = "other")

\* An approval that is not spent, a thread about to start the runtime and a start of the
\* runtime are worth the same; only a renewal adds one.
Unspent(i) == IF intent[i].status \in {"none", "waiting-approval", "approved"} THEN 1 ELSE 0
AboutToStart(i) == {p \in Processes : pc[p] \in {"claimed", "copied"} /\ loc[p].intent = i}
Counted ==
    \A i \in Intents :
        /\ IsFiniteSet(AboutToStart(i))
        /\ starts[i] + Cardinality(AboutToStart(i)) + Unspent(i) <= 1 + budget.renewed

Runs ==
    /\ \A i \in Intents :
          /\ run[i].status # "none" => Spent(i)
          /\ starts[i] > 0 => run[i].status # "none"
          /\ intent[i].status = "executing" => run[i].status = "running"
          /\ intent[i].status = "completed" <=> run[i].status = "completed"
          /\ run[i].status = "completed" =>
                /\ budget.renewed = 0 /\ Newest(i) /\ run[i].evidence = "full"
                /\ \A p \in Processes : ~Active(p)
                /\ ~budget.undone => task = "completed" /\ (disk.data # "gone" => disk.dir[i] = "outputs")
    /\ task = "completed" => \E i \in Intents : run[i].status = "completed"

AInv == Types /\ Line /\ Renewal /\ JobRow /\ (\A p \in Processes : ThreadSound(p))
        /\ Solo /\ Counted /\ Runs
-----------------------------------------------------------------------------
(* What holds of the sets and the rows. *)

LEMMA IntentsAre ==
  /\ MaxRepairs \in Nat /\ Intents = 1 .. (MaxRepairs + 1) /\ 1 \in Intents
  /\ \A i \in Intents : i \in 0 .. MaxRepairs + 1 /\ i \in Nat
  /\ NoProcess \notin Processes
BY AnalysisAssumption DEF Intents

LEMMA Known == ASSUME AInv
  PROVE  /\ Types
         /\ wf \in WfType /\ job \in JobType
         /\ \A i \in Intents : intent[i] \in IntentType /\ run[i] \in RunType /\ starts[i] \in Nat
         /\ \A p \in Processes : pc[p] \in PcStates /\ loc[p] \in LocType
         /\ budget.renewed \in Nat /\ budget.undone \in BOOLEAN /\ wf.rev \in Nat
         /\ \A i \in Intents : intent[i].rev \in Nat
         /\ \A p \in Processes : ThreadSound(p)
         /\ \A p, q \in Processes : Holds(p) /\ Holds(q) => p = q
         /\ \A p \in Processes : Holds(p) => job.status = "leased" /\ job.intent \in Intents /\ Newest(job.intent)
<1>1. Types /\ \A p \in Processes : ThreadSound(p)
  BY DEF AInv
<1>2. wf \in WfType /\ job \in JobType /\ budget.renewed \in Nat /\ budget.undone \in BOOLEAN /\ wf.rev \in Nat
  BY <1>1 DEF Types, WfType
<1>3. \A i \in Intents : intent[i] \in IntentType /\ run[i] \in RunType /\ starts[i] \in Nat
  BY <1>1 DEF Types
<1>4. \A p \in Processes : pc[p] \in PcStates /\ loc[p] \in LocType
  BY <1>1 DEF Types
<1>5. \A i \in Intents : intent[i].rev \in Nat
  BY <1>3 DEF IntentType
<1>6. \A p \in Processes : Holds(p) => job.status = "leased" /\ job.intent \in Intents /\ Newest(job.intent)
  BY DEF Holds, AInv, JobRow
<1> QED BY <1>1, <1>2, <1>3, <1>4, <1>5, <1>6 DEF Holds

LEMMA TypesSuffice == Types => TypeOK
BY DEF Types, TypeOK, WfType, JobType, IntentType, RunType, Dirs

\* Two newest intents are one.
LEMMA NewestIsOne ==
  ASSUME NEW i \in Intents, NEW j \in Intents, Newest(i), Newest(j)
  PROVE  i = j
BY IntentsAre DEF Newest

\* An intent that is there and has not failed is the newest.
LEMMA UnfailedIsNewest ==
  ASSUME Types, Line, NEW i \in Intents, intent[i].status \notin {"none", "failed"}
  PROVE  Newest(i)
BY IntentsAre DEF Line, Newest

\* The agent's workflow has one intent.
LEMMA AgentsIntent ==
  ASSUME Types, Line, wf.agent, NEW i \in Intents, intent[i].status # "none"
  PROVE  i = 1 /\ Newest(1)
BY IntentsAre DEF Line, Newest

\* As soon as an approval was set back, the workflow is past what any approval binds.
LEMMA RenewedIsPast ==
  ASSUME AInv, budget.renewed > 0, NEW i \in Intents, intent[i].status # "none"
  PROVE  i = 1 /\ intent[i].rev < wf.rev
BY AgentsIntent DEF AInv, Renewal

\* An active thread executes an approval that is spent.
LEMMA ActiveSpends ==
  ASSUME AInv, NEW p \in Processes, Active(p)
  PROVE  /\ loc[p].intent \in Intents /\ Spent(loc[p].intent)
         /\ intent[loc[p].intent].status \in Passed
<1>1. loc[p].intent \in Intents /\ run[loc[p].intent].status # "none"
  BY DEF AInv, ThreadSound, Active, BoundPcs
<1>2. Spent(loc[p].intent)
  BY <1>1 DEF AInv, Runs
<1> QED BY <1>1, <1>2 DEF Spent, Passed

LEMMA BootingSpent ==
  ASSUME AInv, NEW p \in Processes, Boots(p)
  PROVE  /\ loc[p].intent \in Intents /\ Spent(loc[p].intent)
         /\ intent[loc[p].intent].status \in Passed
<1>1. loc[p].intent \in Intents /\ run[loc[p].intent].status # "none"
  BY DEF AInv, ThreadSound
<1>2. Spent(loc[p].intent)
  BY <1>1 DEF AInv, Runs
<1> QED BY <1>1, <1>2 DEF Spent, Passed

\* While something active is there, nothing has completed.
LEMMA ActiveUnfinished ==
  ASSUME AInv, NEW p \in Processes, Active(p)
  PROVE  /\ task # "completed"
         /\ \A i \in Intents : run[i].status # "completed" /\ intent[i].status # "completed"
BY DEF AInv, Runs

LEMMA InitHolds == Init => AInv
<1> SUFFICES ASSUME Init PROVE AInv
  OBVIOUS
<1>1. Idle \in LocType
  BY IntentsAre DEF Idle, LocType, Errors
<1>2. Types
  <2>1. wf \in WfType /\ task \in TaskStatuses
    <3>1. wf \in [status : {"running"}, cancel : {FALSE}, rev : {1}, agent : BOOLEAN]
      BY DEF Init
    <3>2. PICK agent \in BOOLEAN : wf = [status |-> "running", cancel |-> FALSE, rev |-> 1, agent |-> agent]
      BY <3>1
    <3>3. wf \in WfType
      BY <3>2 DEF WfType
    <3> QED BY <3>3 DEF Init, TaskStatuses, CancellableTask
  <2>2. job \in JobType
    BY IntentsAre DEF Init, JobType, Errors
  <2>3. intent \in [Intents -> IntentType] /\ run \in [Intents -> RunType]
    BY DEF Init, IntentType, RunType, Proposed, NoRun, IntentStatuses, Errors
  <2>4. exch \in [Processes -> {"none", "recent", "old"}] /\ starts \in [Intents -> Nat]
    BY DEF Init
  <2>5. disk \in [data : {"approved", "changed", "gone"}, dir : [Intents -> Dirs]]
    BY DEF Init, Dirs
  <2>6. pc \in [Processes -> PcStates] /\ loc \in [Processes -> LocType]
    BY <1>1 DEF Init, PcStates
  <2>7. budget \in [faults : Nat, retries : Nat, renewed : Nat, undone : BOOLEAN]
    BY DEF Init
  <2>8. /\ (job.holder \in Processes) <=> (job.status = "leased")
        /\ job.live => job.status = "leased"
    BY IntentsAre DEF Init
  <2> QED BY <2>1, <2>2, <2>3, <2>4, <2>5, <2>6, <2>7, <2>8 DEF Types
<1>3. /\ \A i \in Intents : intent[i].status = IF i = 1 THEN "waiting-approval" ELSE "none"
      /\ \A i \in Intents : intent[i].rev <= 1 /\ run[i].status = "none" /\ starts[i] = 0
      /\ wf.rev = 1 /\ wf.status = "running" /\ job.status = "none" /\ task = "waiting-approval"
      /\ budget.renewed = 0 /\ \A p \in Processes : pc[p] \in {"idle", "down"}
  BY DEF Init, Proposed, NoRun
<1>4. Line /\ Renewal /\ JobRow
  BY <1>3, IntentsAre DEF Line, Renewal, JobRow
<1>5. \A p \in Processes : ~Active(p) /\ pc[p] \notin BoundPcs /\ ~Boots(p)
  BY <1>3 DEF Active, ActivePcs, BoundPcs, Boots
<1>6. (\A p \in Processes : ThreadSound(p)) /\ Solo
  BY <1>3, <1>5 DEF ThreadSound, Solo
<1>7. Counted
  <2>1. \A i \in Intents : AboutToStart(i) = {}
    BY <1>3 DEF AboutToStart
  <2>2. \A i \in Intents : IsFiniteSet(AboutToStart(i)) /\ Cardinality(AboutToStart(i)) = 0
    BY <2>1, FS_EmptySet
  <2> QED BY <1>3, <2>2 DEF Counted, Unspent
<1>8. Runs
  BY <1>3 DEF Runs
<1> QED BY <1>2, <1>4, <1>6, <1>7, <1>8 DEF AInv

-----------------------------------------------------------------------------
(* What the steps of others leave alone. *)

\* What a thread knows stays true while the rows only move on.
LEMMA OthersStay ==
  ASSUME AInv, NEW q \in Processes, UNCHANGED <<pc[q], loc[q]>>,
         Holds(q)' => Holds(q) /\ job'.intent = job.intent,
         \A i \in Intents : run[i].status # "none" => run'[i].status # "none" /\ intent'[i].rev = intent[i].rev,
         budget.renewed <= budget'.renewed, budget'.renewed \in Nat,
         pc[q] = "ran" /\ budget'.renewed = 0 /\ ~budget'.undone /\ disk'.data # "gone" =>
            /\ ~budget.undone /\ disk.data # "gone"
            /\ disk.dir[loc[q].intent] = "outputs" => disk'.dir[loc[q].intent] = "outputs",
         Boots(q) /\ Undeliverable(loc[q].intent) => Undeliverable(loc[q].intent)'
  PROVE  ThreadSound(q)'
<1>1. ThreadSound(q) /\ budget.renewed \in Nat /\ loc[q].rev \in Nat
  BY Known DEF LocType
<1>2. /\ pc'[q] \in BoundPcs => loc'[q].intent \in Intents
      /\ pc'[q] \in BoundPcs /\ Holds(q)' => job'.intent = loc'[q].intent
      /\ pc'[q] \in {"running", "answered", "ran"} => loc'[q].bytes = "approved"
      /\ pc'[q] = "failing" => loc'[q].next \in {"reporting", "settling"}
      /\ pc'[q] = "answered" => loc'[q].out \in {"completed", "failed"}
      /\ pc'[q] = "ran" => loc'[q].out \in {"completed", "failed"}
  BY <1>1 DEF ThreadSound
<1>3. Active(q)' => intent'[loc'[q].intent].rev = loc'[q].rev /\ run'[loc'[q].intent].status # "none"
  <2>1. Active(q)' => Active(q) /\ loc[q].intent \in Intents
    BY <1>1 DEF ThreadSound, Active, BoundPcs
  <2> QED BY <1>1, <2>1 DEF ThreadSound
<1>4. pc'[q] = "ran" /\ budget'.renewed = 0 /\ ~budget'.undone /\ disk'.data # "gone" =>
         disk'.dir[loc'[q].intent] = "outputs"
  BY <1>1 DEF ThreadSound
<1>5. Boots(q)' =>
          /\ loc'[q].intent \in Intents /\ run'[loc'[q].intent].status # "none"
          /\ loc'[q].next = "running" /\ loc'[q].rev <= budget'.renewed /\ loc'[q].out \in {"none", "failed"}
          /\ loc'[q].out = "none" => Undeliverable(loc[q].intent)'
  <2> SUFFICES ASSUME Boots(q)'
               PROVE  /\ loc[q].intent \in Intents /\ run'[loc[q].intent].status # "none"
                      /\ loc[q].next = "running" /\ loc[q].rev <= budget'.renewed /\ loc[q].out \in {"none", "failed"}
                      /\ loc[q].out = "none" => Undeliverable(loc[q].intent)'
    OBVIOUS
  <2>1. Boots(q)
    BY DEF Boots
  <2>2. /\ loc[q].intent \in Intents /\ run[loc[q].intent].status # "none"
        /\ loc[q].next = "running" /\ loc[q].rev <= budget.renewed /\ loc[q].out \in {"none", "failed"}
        /\ loc[q].out = "none" => Undeliverable(loc[q].intent)
    BY <1>1, <2>1 DEF ThreadSound
  <2>3. loc[q].rev <= budget'.renewed
    BY <1>1, <2>2
  <2> QED BY <2>1, <2>2, <2>3
<1> DEFINE i == loc'[q].intent
<1>6. loc'[q].out = "none" /\ Boots(q)' => Undeliverable(loc[q].intent)'
  BY <1>5
<1> QED BY <1>2, <1>3, <1>4, <1>5, <1>6 DEF ThreadSound

\* No thread comes to start a runtime, and no approval becomes unspent.
LEMMA CountStays ==
  ASSUME AInv, UNCHANGED starts, budget.renewed <= budget'.renewed, budget'.renewed \in Nat,
         \A i \in Intents : AboutToStart(i)' \subseteq AboutToStart(i),
         \A i \in Intents : Unspent(i)' <= Unspent(i) + (budget'.renewed - budget.renewed)
  PROVE  Counted'
<1> SUFFICES ASSUME NEW i \in Intents
             PROVE  /\ IsFiniteSet(AboutToStart(i)')
                    /\ starts[i] + Cardinality(AboutToStart(i)') + Unspent(i)' <= 1 + budget'.renewed
  BY DEF Counted
<1>1. /\ IsFiniteSet(AboutToStart(i)) /\ starts[i] \in Nat /\ budget.renewed \in Nat
      /\ starts[i] + Cardinality(AboutToStart(i)) + Unspent(i) <= 1 + budget.renewed
  BY Known DEF AInv, Counted
<1>2. IsFiniteSet(AboutToStart(i)') /\ Cardinality(AboutToStart(i)') <= Cardinality(AboutToStart(i))
  BY <1>1, FS_Subset
<1>3. /\ Cardinality(AboutToStart(i)) \in Nat /\ Cardinality(AboutToStart(i)') \in Nat
      /\ Unspent(i) \in Nat /\ Unspent(i)' \in Nat
  BY <1>1, <1>2, FS_CardinalityType DEF Unspent
<1> QED BY <1>1, <1>2, <1>3
OnlyMoves(p) ==
    /\ pc' \in [Processes -> PcStates] /\ loc' \in [Processes -> LocType]
    /\ \A q \in Processes \ {p} : pc'[q] = pc[q] /\ loc'[q] = loc[q]

LEMMA MoveIs ==
  ASSUME Types, NEW p \in Processes, NEW to \in PcStates, Move(p, to)
  PROVE  pc' \in [Processes -> PcStates] /\ pc'[p] = to /\ \A q \in Processes \ {p} : pc'[q] = pc[q]
BY DEF Types, Move

LEMMA RememberIs ==
  ASSUME Types, NEW p \in Processes, NEW out \in {"completed", "failed"}, NEW error \in Errors,
         NEW next \in {"idle", "reporting", "settling"},
         Remember(p, out, error, next)
  PROVE  /\ loc' \in [Processes -> LocType] /\ \A q \in Processes \ {p} : loc'[q] = loc[q]
         /\ loc'[p].intent = loc[p].intent /\ loc'[p].rev = loc[p].rev /\ loc'[p].bytes = loc[p].bytes
         /\ loc'[p].out = out /\ loc'[p].error = error /\ loc'[p].next = next
<1> DEFINE l == [loc[p] EXCEPT !.out = out, !.error = error, !.next = next]
<1>1. loc' = [loc EXCEPT ![p] = l] /\ loc \in [Processes -> LocType] /\ loc[p] \in LocType
  BY DEF Remember, Types
<1>2. /\ l \in LocType /\ l.intent = loc[p].intent /\ l.rev = loc[p].rev /\ l.bytes = loc[p].bytes
      /\ l.out = out /\ l.error = error /\ l.next = next
  BY <1>1 DEF LocType
<1> HIDE DEF l
<1> QED BY <1>1, <1>2

LEMMA DoneIs ==
  ASSUME Types, NEW p \in Processes, Done(p)
  PROVE  OnlyMoves(p) /\ pc'[p] = "idle" /\ loc'[p] = Idle
<1>1. Idle \in LocType
  BY IntentsAre DEF Idle, LocType, Errors
<1> QED BY <1>1 DEF Done, Move, OnlyMoves, Types, PcStates

\* The lease changes hands or runs out, and one thread moves or not.
RowsRest ==
    /\ UNCHANGED <<wf, intent, run, starts>>
    /\ task' = task \/ (task = "queued" /\ task' = "running")
    /\ budget' \in [faults : Nat, retries : Nat, renewed : Nat, undone : BOOLEAN]
    /\ budget'.renewed = budget.renewed /\ budget'.undone = budget.undone
    /\ exch' \in [Processes -> {"none", "recent", "old"}]
    /\ job' \in JobType /\ job'.intent = job.intent
    /\ job'.status = job.status \/ (job.status = "queued" /\ job'.status = "leased")
    /\ job'.holder \in Processes <=> job'.status = "leased"
    /\ job'.live => job'.status = "leased"

LEMMA ThreadMoves ==
  ASSUME AInv, NEW p \in Processes, OnlyMoves(p), RowsRest, UNCHANGED disk,
         \A q \in Processes \ {p} : Holds(q)' => Holds(q),
         pc'[p] \in ActivePcs => Active(p) /\ loc'[p].intent = loc[p].intent,
         pc'[p] \in {"claimed", "copied"} => UNCHANGED <<pc[p], loc[p]>>,
         ThreadSound(p)'
  PROVE  AInv'
<1>1. Types /\ Types'
  BY Known DEF Types, RowsRest, OnlyMoves, TaskStatuses, CancellableTask
<1>2. Line' /\ Renewal'
  BY DEF AInv, Line, Renewal, RowsRest
<1>3. JobRow'
  BY DEF AInv, JobRow, RowsRest, Newest
<1>4. \A q \in Processes \ {p} : UNCHANGED <<pc[q], loc[q]>>
  BY DEF OnlyMoves
<1>5. ASSUME NEW q \in Processes \ {p} PROVE ThreadSound(q)'
  <2>1. Undeliverable(loc[q].intent) => Undeliverable(loc[q].intent)'
    BY <1>4 DEF Undeliverable, RowsRest
  <2> QED BY <1>4, <2>1, Known, OthersStay DEF RowsRest
<1>6. \A q \in Processes : Active(q)' => Active(q) /\ loc'[q].intent = loc[q].intent
  BY <1>4 DEF Active
<1>7. Solo'
  <2> SUFFICES ASSUME budget.renewed = 0
               PROVE  (/\ \A x, y \in Processes : Active(x) /\ Active(y) => x = y
                       /\ \A x \in Processes : Active(x) =>
                             /\ Newest(loc[x].intent)
                             /\ \/ intent[loc[x].intent].status = "executing"
                                \/ intent[loc[x].intent].status = "failed" /\ intent[loc[x].intent].error = "other")'
    BY DEF Solo, RowsRest
  <2>1. \A i \in Intents : Newest(i)' <=> Newest(i)
    BY DEF Newest, RowsRest
  <2>2. ASSUME NEW x \in Processes, Active(x)'
        PROVE  (/\ Newest(loc[x].intent)
                /\ \/ intent[loc[x].intent].status = "executing"
                   \/ intent[loc[x].intent].status = "failed" /\ intent[loc[x].intent].error = "other")'
    <3>1. PICK i \in Intents : i = loc[x].intent
      BY <1>6, <2>2, ActiveSpends
    <3>2. Newest(i) /\ (intent[i].status = "executing" \/ (intent[i].status = "failed" /\ intent[i].error = "other"))
      BY <1>6, <2>2, <3>1 DEF AInv, Solo
    <3>3. loc'[x].intent = i /\ intent' = intent
      BY <1>6, <2>2, <3>1 DEF RowsRest
    <3> QED BY <2>1, <3>2, <3>3 DEF Newest
  <2>3. \A x, y \in Processes : Active(x)' /\ Active(y)' => x = y
    BY <1>6 DEF AInv, Solo
  <2> QED BY <2>2, <2>3
<1>8. Counted'
  <2>1. \A i \in Intents : AboutToStart(i)' \subseteq AboutToStart(i)
    BY <1>4 DEF AboutToStart
  <2>2. \A i \in Intents : Unspent(i)' = Unspent(i) /\ Unspent(i) \in Nat
    BY DEF Unspent, RowsRest
  <2> QED BY <2>1, <2>2, Known, CountStays DEF RowsRest
<1>9. Runs'
  <2>1. \A i \in Intents : (Spent(i)' <=> Spent(i)) /\ (Newest(i)' <=> Newest(i))
    BY DEF Spent, Newest, RowsRest
  <2>2. task = "completed" => task' = "completed"
    BY DEF RowsRest
  <2>3. task' = "completed" => task = "completed"
    BY DEF RowsRest
  <2> QED BY <1>6, <2>1, <2>2, <2>3 DEF AInv, Runs, RowsRest
<1> QED BY <1>1, <1>2, <1>3, <1>5, <1>7, <1>8, <1>9 DEF AInv

\* A thread that stops executing, or never did, and has nothing to know.
LEMMA ThreadRests ==
  ASSUME NEW p \in Processes, pc'[p] \notin BoundPcs, ~Boots(p)'
  PROVE  ThreadSound(p)'
BY DEF ThreadSound, Active, BoundPcs, ActivePcs

-----------------------------------------------------------------------------
(* Leases. *)

LEMMA LeaseJobKeeps == ASSUME AInv, NEW p \in Processes, LeaseJob(p) \/ TakeExpired(p) PROVE AInv'
<1>1. /\ job.status \in {"queued", "leased"} /\ job' = [job EXCEPT !.status = "leased", !.holder = p, !.live = TRUE]
      /\ UNCHANGED <<wf, task, intent, run, exch, disk, loc, starts, budget>>
      /\ pc'[p] \in {"leased", "recovering"} /\ OnlyMoves(p)
  <2>1. CASE LeaseJob(p)
    BY <2>1, Known, MoveIs DEF LeaseJob, OnlyMoves, Types, PcStates
  <2>2. CASE TakeExpired(p)
    <3>1. job.status = "leased" /\ job' = [job EXCEPT !.holder = p, !.live = TRUE] /\ Move(p, "recovering")
      BY <2>2 DEF TakeExpired, Takeable
    <3>2. job' = [job EXCEPT !.status = "leased", !.holder = p, !.live = TRUE]
      BY <3>1, Known DEF JobType
    <3> QED BY <2>2, <3>1, <3>2, Known, MoveIs DEF TakeExpired, OnlyMoves, Types, PcStates
  <2> QED BY <2>1, <2>2
<1>2. job' \in JobType /\ job'.status = "leased" /\ job'.holder = p /\ job'.intent = job.intent
  BY <1>1, Known DEF JobType
<1>3. \A q \in Processes \ {p} : ~Holds(q)'
  BY <1>2 DEF Holds
<1>4. RowsRest
  BY <1>1, <1>2, Known DEF RowsRest, Types
<1>5. pc'[p] \notin BoundPcs /\ ~Boots(p)'
  BY <1>1 DEF BoundPcs, ActivePcs, Boots
<1> QED BY <1>1, <1>3, <1>4, <1>5, ThreadRests, ThreadMoves DEF BoundPcs

LEMMA LeaseKeeps ==
  ASSUME AInv, LeaseRunsOut \/ Stall \/ \E p \in Processes : Heartbeat(p)
  PROVE  AInv'
<1>1. /\ job.status = "leased" /\ (job' = [job EXCEPT !.live = FALSE] \/ job' = [job EXCEPT !.live = TRUE])
      /\ budget' = budget \/ budget' = [budget EXCEPT !.faults = @ + 1]
      /\ UNCHANGED <<wf, task, intent, run, exch, disk, pc, loc, starts>>
  BY DEF LeaseRunsOut, Stall, Heartbeat, ExpireLease, Holds
<1>2. /\ job' \in JobType /\ job'.status = "leased" /\ job'.holder = job.holder /\ job'.intent = job.intent
  BY <1>1, Known DEF JobType
<1>3. /\ budget' \in [faults : Nat, retries : Nat, renewed : Nat, undone : BOOLEAN]
      /\ budget'.renewed = budget.renewed /\ budget'.undone = budget.undone
  BY <1>1, Known DEF Types
<1>4. RowsRest /\ \A q \in Processes : Holds(q)' <=> Holds(q)
  BY <1>1, <1>2, <1>3, Known DEF RowsRest, Types, Holds
<1>5. PICK p \in Processes : p = job.holder
  BY <1>1, Known DEF Types
<1>6. OnlyMoves(p)
  BY <1>1, Known DEF Types, OnlyMoves
<1>7. ThreadSound(p)'
  <2>1. Undeliverable(loc[p].intent) => Undeliverable(loc[p].intent)'
    BY <1>1 DEF Undeliverable
  <2> QED BY <1>1, <1>2, <1>3, <1>4, <2>1, Known, OthersStay
<1> QED BY <1>1, <1>4, <1>6, <1>7, ThreadMoves DEF Active

LEMMA CrashKeeps == ASSUME AInv, NEW p \in Processes, Crash(p) PROVE AInv'
<1>1. /\ pc' = [pc EXCEPT ![p] = "down"] /\ loc' = [loc EXCEPT ![p] = Idle]
      /\ budget' = [budget EXCEPT !.faults = @ + 1]
      /\ UNCHANGED <<wf, task, job, intent, run, exch, disk, starts>>
  BY DEF Crash
<1>2. Idle \in LocType
  BY IntentsAre DEF Idle, LocType, Errors
<1>3. OnlyMoves(p) /\ pc'[p] = "down"
  BY <1>1, <1>2, Known DEF OnlyMoves, Types, PcStates
<1>4. /\ budget' \in [faults : Nat, retries : Nat, renewed : Nat, undone : BOOLEAN]
      /\ budget'.renewed = budget.renewed /\ budget'.undone = budget.undone
  BY <1>1, Known DEF Types
<1>5. RowsRest /\ \A q \in Processes : Holds(q)' <=> Holds(q)
  BY <1>1, <1>4, Known DEF RowsRest, Types, Holds
<1>6. pc'[p] \notin BoundPcs /\ ~Boots(p)'
  BY <1>3 DEF BoundPcs, ActivePcs, Boots
<1> QED BY <1>1, <1>3, <1>5, <1>6, ThreadRests, ThreadMoves DEF BoundPcs

LEMMA AgeKeeps == ASSUME AInv, NEW p \in Processes, Age(p) PROVE AInv'
<1>1. exch' = [exch EXCEPT ![p] = "old"] /\ UNCHANGED <<wf, task, job, intent, run, disk, pc, loc, starts, budget>>
  BY DEF Age
<1>2. RowsRest /\ OnlyMoves(p) /\ \A q \in Processes : Holds(q)' <=> Holds(q)
  BY <1>1, Known DEF RowsRest, Types, OnlyMoves, Holds
<1>3. ThreadSound(p)'
  <2>1. Undeliverable(loc[p].intent) => Undeliverable(loc[p].intent)'
    BY <1>1 DEF Undeliverable
  <2> QED BY <1>1, <1>2, <2>1, Known, OthersStay
<1> QED BY <1>1, <1>2, <1>3, ThreadMoves DEF Active

-----------------------------------------------------------------------------
(* Steps of one thread that change no row. *)

LEMMA LocalKeeps ==
  ASSUME AInv, NEW p \in Processes, OnlyMoves(p), UNCHANGED <<wf, job, intent, run, disk, starts, budget>>,
         task' = task \/ (task = "queued" /\ task' = "running"),
         exch' \in [Processes -> {"none", "recent", "old"}],
         pc'[p] \in ActivePcs => Active(p) /\ loc'[p].intent = loc[p].intent,
         pc'[p] \notin {"claimed", "copied"}, ThreadSound(p)'
  PROVE  AInv'
<1>1. RowsRest /\ \A q \in Processes : Holds(q)' <=> Holds(q)
  BY Known DEF RowsRest, Types, Holds
<1> QED BY <1>1, ThreadMoves

LEMMA TurnsAway ==
  ASSUME AInv, NEW p \in Processes, NEW out \in {"completed", "failed"}, NEW error \in Errors,
         NEW next \in {"idle", "reporting", "settling"}, NEW to \in {"settling", "reporting", "failing"},
         Remember(p, out, error, next), Move(p, to),
         to = "reporting" => pc[p] \in BoundPcs,
         to = "failing" => Active(p) /\ next \in {"reporting", "settling"},
         UNCHANGED <<wf, task, job, intent, run, exch, disk, starts, budget>>
  PROVE  AInv'
<1>1. /\ loc' \in [Processes -> LocType] /\ \A q \in Processes \ {p} : loc'[q] = loc[q]
      /\ loc'[p].intent = loc[p].intent /\ loc'[p].rev = loc[p].rev /\ loc'[p].next = next
  BY Known, RememberIs
<1>2. pc' \in [Processes -> PcStates] /\ pc'[p] = to /\ \A q \in Processes \ {p} : pc'[q] = pc[q]
  BY Known, MoveIs DEF PcStates
<1>3. OnlyMoves(p)
  BY <1>1, <1>2 DEF OnlyMoves
<1>4. ThreadSound(p)'
  <2>1. CASE to = "settling"
    BY <1>2, <2>1, ThreadRests DEF BoundPcs, ActivePcs, Boots
  <2>2. CASE to = "reporting"
    <3>1. loc[p].intent \in Intents /\ (Holds(p) => job.intent = loc[p].intent)
      BY <2>2, Known DEF ThreadSound
    <3> QED BY <1>1, <1>2, <2>2, <3>1 DEF ThreadSound, Holds, Active, ActivePcs, BoundPcs, Boots
  <2>3. CASE to = "failing"
    <3>1. /\ loc[p].intent \in Intents /\ (Holds(p) => job.intent = loc[p].intent)
          /\ intent[loc[p].intent].rev = loc[p].rev /\ run[loc[p].intent].status # "none"
      BY <2>3, Known DEF ThreadSound, BoundPcs, Active
    <3> QED BY <1>1, <1>2, <2>3, <3>1 DEF ThreadSound, Holds, Active, ActivePcs, BoundPcs, Boots
  <2> QED BY <2>1, <2>2, <2>3
<1> QED BY <1>1, <1>2, <1>3, <1>4, Known, LocalKeeps DEF Types, ActivePcs

LEMMA StartKeeps == ASSUME AInv, NEW p \in Processes, Start(p) PROVE AInv'
<1>1. CASE Holds(p) /\ ~wf.cancel
  <2>1. /\ task' = (IF task = "queued" THEN "running" ELSE task) /\ Move(p, "started")
        /\ UNCHANGED <<wf, job, intent, run, exch, disk, starts, budget, loc>>
    BY <1>1 DEF Start
  <2>2. OnlyMoves(p) /\ pc'[p] = "started"
    BY <2>1, Known, MoveIs DEF OnlyMoves, Types, PcStates
  <2>3. ThreadSound(p)'
    BY <2>2, ThreadRests DEF BoundPcs, ActivePcs, Boots
  <2> QED BY <2>1, <2>2, <2>3, Known, LocalKeeps DEF Types, ActivePcs
<1>2. CASE ~(Holds(p) /\ ~wf.cancel)
  BY <1>2, TurnsAway DEF Start, Errors
<1> QED BY <1>1, <1>2

LEMMA PreflightKeeps == ASSUME AInv, NEW p \in Processes, Preflight(p) PROVE AInv'
<1>1. CASE ~(Holds(p) /\ WorkflowRuns /\ task = "running" /\ Binds(job.intent))
  BY <1>1, TurnsAway DEF Preflight, Errors
<1>2. CASE Holds(p) /\ WorkflowRuns /\ task = "running" /\ Binds(job.intent)
  <2> DEFINE l == [Idle EXCEPT !.intent = job.intent, !.rev = wf.rev]
  <2>1. loc' = [loc EXCEPT ![p] = l] /\ Move(p, "ready")
        /\ UNCHANGED <<wf, task, job, intent, run, exch, disk, starts, budget>>
    BY <1>2 DEF Preflight
  <2>2. job.intent \in Intents
    BY <1>2, Known
  <2>3. l \in LocType /\ l.intent = job.intent
    BY <2>2, Known, IntentsAre DEF Idle, LocType, Errors
  <2> HIDE DEF l
  <2>4. loc' \in [Processes -> LocType] /\ loc'[p] = l /\ \A q \in Processes \ {p} : loc'[q] = loc[q]
    BY <2>1, <2>3, Known DEF Types
  <2>5. OnlyMoves(p) /\ pc'[p] = "ready"
    BY <2>1, <2>4, Known, MoveIs DEF OnlyMoves, PcStates
  <2>6. ThreadSound(p)'
    BY <2>1, <2>2, <2>3, <2>4, <2>5 DEF ThreadSound, Active, ActivePcs, Boots
  <2> QED BY <2>1, <2>5, <2>6, Known, LocalKeeps DEF Types, ActivePcs
<1> QED BY <1>1, <1>2

LEMMA EntryKeeps == ASSUME AInv, NEW p \in Processes, EnterExchange(p) \/ RefuseEntry(p) PROVE AInv'
<1>1. CASE RefuseEntry(p)
  BY <1>1, TurnsAway DEF RefuseEntry, Errors, BoundPcs
<1>2. CASE EnterExchange(p)
  <2>1. /\ pc[p] = "ready" /\ exch' = WithoutStale /\ Move(p, "checked")
        /\ UNCHANGED <<wf, task, job, intent, run, disk, loc, starts, budget>>
    BY <1>2 DEF EnterExchange
  <2>2. OnlyMoves(p) /\ pc'[p] = "checked"
    BY <2>1, Known, MoveIs DEF OnlyMoves, Types, PcStates
  <2>3. exch' \in [Processes -> {"none", "recent", "old"}]
    BY <2>1, Known DEF Types, WithoutStale
  <2>4. loc[p].intent \in Intents /\ (Holds(p) => job.intent = loc[p].intent)
    BY <2>1, Known DEF ThreadSound, BoundPcs
  <2>5. ThreadSound(p)'
    BY <2>1, <2>2, <2>4 DEF ThreadSound, Holds, Active, ActivePcs, Boots
  <2> QED BY <2>1, <2>2, <2>3, <2>5, LocalKeeps DEF ActivePcs
<1> QED BY <1>1, <1>2

LEMMA RecoverLeaseKeeps == ASSUME AInv, NEW p \in Processes, RecoverLease(p) PROVE AInv'
<1> DEFINE i == job.intent
           o == IF ~Holds(p) THEN "failed"
                ELSE IF Readable(i) /\ run[i].status \in {"completed", "failed"} THEN run[i].status
                ELSE IF intent[i].status = "approved" /\ run[i].status = "none" THEN "expired"
                ELSE "unknown"
           l == [Idle EXCEPT !.intent = i, !.error = "other", !.out = o]
           to == CASE Holds(p) /\ Readable(i) /\ run[i].status = "completed" -> "publishing"
                   [] Holds(p) /\ Readable(i) /\ run[i].status = "failed" -> "reporting"
                   [] OTHER -> "settling"
<1>1. /\ loc' = [loc EXCEPT ![p] = l] /\ Move(p, to)
      /\ UNCHANGED <<wf, task, job, intent, run, exch, disk, starts, budget>>
  BY DEF RecoverLease
<1>2. to \in {"publishing", "reporting", "settling"} /\ (to # "settling" => Holds(p))
  OBVIOUS
<1>3. o \in {"completed", "failed", "expired", "unknown"}
  OBVIOUS
<1>4. i \in 0 .. MaxRepairs + 1
  BY Known DEF JobType
<1> HIDE DEF o, to
<1>5. l \in LocType /\ l.intent = i
  BY <1>3, <1>4 DEF Idle, LocType, Errors
<1> HIDE DEF l
<1>6. loc' \in [Processes -> LocType] /\ loc'[p] = l /\ \A q \in Processes \ {p} : loc'[q] = loc[q]
  BY <1>1, <1>5, Known DEF Types
<1>7. OnlyMoves(p) /\ pc'[p] = to
  BY <1>1, <1>2, <1>6, Known, MoveIs DEF OnlyMoves, PcStates
<1>8. ThreadSound(p)'
  <2>1. CASE to = "settling"
    BY <1>7, <2>1, ThreadRests DEF BoundPcs, ActivePcs, Boots
  <2>2. CASE to # "settling"
    <3>1. i \in Intents
      BY <1>2, <2>2, Known
    <3> QED BY <1>1, <1>2, <1>5, <1>6, <1>7, <2>2, <3>1 DEF ThreadSound, Active, ActivePcs, Boots
  <2> QED BY <2>1, <2>2
<1> QED BY <1>1, <1>2, <1>7, <1>8, Known, LocalKeeps DEF Types, ActivePcs

LEMMA RuntimeKeeps ==
  ASSUME AInv, NEW p \in Processes,
         (\E error \in {"timeout", "other"} : ExecutionErrs(p, error)) \/ Interrupt(p)
            \/ \E out \in {"completed", "failed"} : RuntimeAnswers(p, out)
  PROVE  AInv'
<1>1. CASE \E error \in {"timeout", "other"} : ExecutionErrs(p, error)
  BY <1>1, TurnsAway DEF ExecutionErrs, Errors, Active, ActivePcs
<1>2. CASE Interrupt(p)
  BY <1>2, TurnsAway DEF Interrupt, Errors, Active, ActivePcs
<1>3. CASE \E out \in {"completed", "failed"} : RuntimeAnswers(p, out)
  <2>1. PICK out \in {"completed", "failed"} : RuntimeAnswers(p, out)
    BY <1>3
  <2>2. /\ pc[p] = "running" /\ Remember(p, out, "none", "idle") /\ Move(p, "answered")
        /\ UNCHANGED <<wf, task, job, intent, run, exch, disk, starts, budget>>
    BY <2>1 DEF RuntimeAnswers
  <2>3. /\ loc' \in [Processes -> LocType] /\ \A q \in Processes \ {p} : loc'[q] = loc[q]
        /\ loc'[p].intent = loc[p].intent /\ loc'[p].rev = loc[p].rev /\ loc'[p].bytes = loc[p].bytes
        /\ loc'[p].out = out
    <3>1. "none" \in Errors
      BY DEF Errors
    <3> QED BY <2>2, <3>1, Known, RememberIs
  <2>4. OnlyMoves(p) /\ pc'[p] = "answered"
    BY <2>2, <2>3, Known, MoveIs DEF OnlyMoves, PcStates
  <2>5. /\ loc[p].intent \in Intents /\ (Holds(p) => job.intent = loc[p].intent)
        /\ intent[loc[p].intent].rev = loc[p].rev /\ run[loc[p].intent].status # "none"
        /\ loc[p].bytes = "approved"
    BY <2>2, Known DEF ThreadSound, BoundPcs, Active, ActivePcs
  <2>6. ThreadSound(p)'
    BY <2>2, <2>3, <2>4, <2>5 DEF ThreadSound, Holds, Boots
  <2> QED BY <2>2, <2>3, <2>4, <2>6, Known, LocalKeeps DEF Types, Active, ActivePcs
<1> QED BY <1>1, <1>2, <1>3

LEMMA BootReadsKeeps == ASSUME AInv, NEW p \in Processes, BootReads(p) PROVE AInv'
<1>1. UNCHANGED <<wf, task, job, intent, run, disk, starts, budget>>
  BY DEF BootReads
<1>2. CASE LostRuns \cup Orphaned = {}
  <2>1. Move(p, "idle") /\ exch' = WithoutStale /\ UNCHANGED loc
    BY <1>2 DEF BootReads
  <2>2. OnlyMoves(p) /\ pc'[p] = "idle"
    BY <2>1, Known, MoveIs DEF OnlyMoves, Types, PcStates
  <2>3. exch' \in [Processes -> {"none", "recent", "old"}]
    BY <2>1, Known DEF Types, WithoutStale
  <2>4. ThreadSound(p)'
    BY <2>2, ThreadRests DEF BoundPcs, ActivePcs, Boots
  <2> QED BY <1>1, <2>2, <2>3, <2>4, LocalKeeps DEF ActivePcs
<1>3. CASE LostRuns \cup Orphaned # {}
  <2>1. PICK i \in LostRuns \cup Orphaned :
           loc' = [loc EXCEPT ![p] = [Idle EXCEPT !.intent = i, !.rev = budget.renewed, !.next = run[i].status,
                     !.out = IF task \in {"cancelled", "failed"} THEN "none" ELSE "failed"]]
    BY <1>3 DEF BootReads
  <2>2. Move(p, "booting") /\ UNCHANGED exch
    BY <1>3 DEF BootReads
  <2> DEFINE l == [Idle EXCEPT !.intent = i, !.rev = budget.renewed, !.next = run[i].status,
                     !.out = IF task \in {"cancelled", "failed"} THEN "none" ELSE "failed"]
  <2>3. i \in Intents /\ run[i].status = "running"
    BY DEF LostRuns, Orphaned, AInv, Runs
  <2>4. /\ l \in LocType /\ l.intent = i /\ l.next = "running" /\ l.rev = budget.renewed
        /\ l.out = IF task \in {"cancelled", "failed"} THEN "none" ELSE "failed"
    BY <2>3, Known, IntentsAre DEF Idle, LocType, Errors
  <2>5. loc' = [loc EXCEPT ![p] = l]
    BY <2>1
  <2> HIDE DEF l
  <2>6. loc' \in [Processes -> LocType] /\ loc'[p] = l /\ \A q \in Processes \ {p} : loc'[q] = loc[q]
    BY <2>4, <2>5, Known DEF Types
  <2>7. OnlyMoves(p) /\ pc'[p] = "booting"
    BY <2>2, <2>6, Known, MoveIs DEF OnlyMoves, PcStates
  <2>8. intent[i].status # "completed"
    BY <2>3 DEF AInv, Runs
  <2>9. l.out = "none" => Undeliverable(i)
    BY <2>4, <2>8 DEF Undeliverable
  <2>10. ThreadSound(p)'
    <3>1. l.out = "none" => Undeliverable(i)'
      BY <1>1, <2>9 DEF Undeliverable
    <3>2. loc'[p].out = "none" => Undeliverable(loc[p].intent)'
      BY <1>1, <2>4, <2>6, <2>9 DEF Undeliverable
    <3> QED BY <1>1, <2>3, <2>4, <2>6, <2>7, <3>2, Known DEF ThreadSound, Active, ActivePcs, BoundPcs
  <2> QED BY <1>1, <2>2, <2>7, <2>10, Known, LocalKeeps DEF Types, ActivePcs
<1> QED BY <1>2, <1>3

-----------------------------------------------------------------------------
(* The files. *)

LEMMA FilesMove ==
  ASSUME AInv, UNCHANGED <<wf, task, job, intent, run>>,
         pc' \in [Processes -> PcStates], loc' \in [Processes -> LocType],
         exch' \in [Processes -> {"none", "recent", "old"}], starts' \in [Intents -> Nat],
         disk' \in [data : {"approved", "changed", "gone"}, dir : [Intents -> Dirs]],
         budget' \in [faults : Nat, retries : Nat, renewed : Nat, undone : BOOLEAN],
         budget'.renewed = budget.renewed, budget.undone => budget'.undone,
         \A i \in Intents : run[i].status = "completed" /\ ~budget'.undone /\ disk'.data # "gone" =>
            disk.data # "gone" /\ (disk.dir[i] = "outputs" => disk'.dir[i] = "outputs"),
         \A q \in Processes : Active(q)' => Active(q) /\ loc'[q].intent = loc[q].intent,
         \A i \in Intents : starts'[i] > 0 => run[i].status # "none",
         \A q \in Processes : ThreadSound(q)',
         Counted'
  PROVE  AInv'
<1>1. Types'
  BY Known DEF Types
<1>2. Line' /\ Renewal' /\ JobRow'
  BY DEF AInv, Line, Renewal, JobRow, Newest
<1>3. Solo'
  <2> SUFFICES ASSUME budget.renewed = 0
               PROVE  (/\ \A x, y \in Processes : Active(x) /\ Active(y) => x = y
                       /\ \A x \in Processes : Active(x) =>
                             /\ Newest(loc[x].intent)
                             /\ \/ intent[loc[x].intent].status = "executing"
                                \/ intent[loc[x].intent].status = "failed" /\ intent[loc[x].intent].error = "other")'
    BY DEF Solo
  <2>1. \A i \in Intents : Newest(i)' <=> Newest(i)
    BY DEF Newest
  <2>2. ASSUME NEW x \in Processes, Active(x)'
        PROVE  (/\ Newest(loc[x].intent)
                /\ \/ intent[loc[x].intent].status = "executing"
                   \/ intent[loc[x].intent].status = "failed" /\ intent[loc[x].intent].error = "other")'
    <3>1. PICK i \in Intents : i = loc[x].intent
      BY <2>2, ActiveSpends
    <3>2. Newest(i) /\ (intent[i].status = "executing" \/ (intent[i].status = "failed" /\ intent[i].error = "other"))
      BY <2>2, <3>1 DEF AInv, Solo
    <3>3. loc'[x].intent = i
      BY <2>2, <3>1
    <3> QED BY <2>1, <3>2, <3>3 DEF Newest
  <2>3. \A x, y \in Processes : Active(x)' /\ Active(y)' => x = y
    BY DEF AInv, Solo
  <2> QED BY <2>2, <2>3
<1>4. Runs'
  <2>1. \A i \in Intents : (Spent(i)' <=> Spent(i)) /\ (Newest(i)' <=> Newest(i))
    BY DEF Spent, Newest
  <2>2. \A i \in Intents : run[i].status = "completed" /\ ~budget'.undone =>
            task = "completed" /\ (disk'.data # "gone" => disk'.dir[i] = "outputs")
    BY DEF AInv, Runs
  <2>3. \A i \in Intents : run[i].status = "completed" =>
            budget.renewed = 0 /\ Newest(i) /\ run[i].evidence = "full" /\ \A q \in Processes : ~Active(q)'
    BY DEF AInv, Runs
  <2>4. \A i \in Intents : /\ run[i].status # "none" => Spent(i)
                           /\ intent[i].status = "executing" => run[i].status = "running"
                           /\ (intent[i].status = "completed" <=> run[i].status = "completed")
    BY DEF AInv, Runs
  <2>5. task = "completed" => \E i \in Intents : run[i].status = "completed"
    BY DEF AInv, Runs
  <2> QED BY <2>1, <2>2, <2>3, <2>4, <2>5 DEF Runs
<1> QED BY <1>1, <1>2, <1>3, <1>4 DEF AInv

\* An active thread is the only one that needs the directories, unless an approval was set back.
LEMMA AloneAtWork ==
  ASSUME AInv, NEW p \in Processes, Active(p), budget.renewed = 0, NEW q \in Processes \ {p}
  PROVE  pc[q] \notin ActivePcs
BY DEF AInv, Solo, Active

\* The input is copied, or the outputs are.
LEMMA CopiesKeep == ASSUME AInv, NEW p \in Processes, CopyInputs(p) \/ CollectOutputs(p) PROVE AInv'
<1> DEFINE i == loc[p].intent
<1>1. /\ UNCHANGED <<wf, task, job, intent, run, starts, budget>> /\ Active(p)
      /\ pc' \in [Processes -> PcStates] /\ \A q \in Processes \ {p} : pc'[q] = pc[q]
      /\ exch' \in [Processes -> {"none", "recent", "old"}]
  BY Known, MoveIs DEF CopyInputs, CollectOutputs, WithOutputs, Active, ActivePcs, Types, PcStates
<1>2. i \in Intents /\ \A q \in Processes \ {p} : budget.renewed = 0 => pc[q] # "ran"
  BY <1>1, ActiveSpends, AloneAtWork DEF ActivePcs
<1>3. /\ loc' \in [Processes -> LocType] /\ \A q \in Processes \ {p} : loc'[q] = loc[q]
      /\ loc'[p].intent = loc[p].intent /\ loc'[p].rev = loc[p].rev /\ loc'[p].out = loc[p].out
      /\ pc'[p] = "ran" => loc'[p].bytes = loc[p].bytes
  <2>1. CASE CopyInputs(p)
    <3> DEFINE l == [loc[p] EXCEPT !.bytes = disk.data]
    <3>1. disk.data \in {"approved", "changed", "gone"} /\ loc \in [Processes -> LocType] /\ loc[p] \in LocType
      BY Known DEF Types
    <3>2. l \in LocType /\ l.intent = loc[p].intent /\ l.rev = loc[p].rev /\ l.out = loc[p].out
      BY <3>1 DEF LocType
    <3>3. loc' = [loc EXCEPT ![p] = l] /\ pc'[p] = "copied"
      BY <2>1, Known DEF CopyInputs, Move, Types
    <3> HIDE DEF l
    <3> QED BY <3>1, <3>2, <3>3
  <2>2. CASE CollectOutputs(p)
    BY <2>2, Known DEF CollectOutputs, Types
  <2> QED BY <2>1, <2>2
<1>4. /\ disk' \in [data : {"approved", "changed", "gone"}, dir : [Intents -> Dirs]] /\ disk'.data = disk.data
      /\ \/ pc[p] = "claimed" /\ pc'[p] = "copied"
         \/ pc[p] = "answered" /\ pc'[p] = "ran" /\ disk'.dir[i] = "outputs"
  <2>1. disk \in [data : {"approved", "changed", "gone"}, dir : [Intents -> Dirs]]
    BY Known DEF Types
  <2>2. CASE CopyInputs(p)
    <3>1. disk' = [disk EXCEPT !.dir[i] = "input"] /\ pc[p] = "claimed" /\ pc'[p] = "copied"
      BY <2>2, Known, MoveIs DEF CopyInputs, PcStates
    <3> QED BY <1>2, <2>1, <3>1 DEF Dirs
  <2>3. CASE CollectOutputs(p)
    <3>1. disk' = [disk EXCEPT !.dir[i] = "outputs"] /\ pc[p] = "answered" /\ pc'[p] = "ran"
      BY <2>3, Known, MoveIs DEF CollectOutputs, WithOutputs, PcStates
    <3> QED BY <1>2, <2>1, <3>1 DEF Dirs
  <2> QED BY <2>2, <2>3
<1>5. \A q \in Processes : Active(q)' => Active(q) /\ loc'[q].intent = loc[q].intent
  BY <1>1, <1>3 DEF Active
<1>6. \A j \in Intents : run[j].status # "completed"
  BY <1>1, ActiveUnfinished
<1>7. ASSUME NEW q \in Processes PROVE ThreadSound(q)'
  <2>1. CASE q = p
    <3>1. ThreadSound(p) /\ (Holds(p)' <=> Holds(p))
      BY <1>1, Known DEF Holds
    <3>2. /\ Holds(p) => job.intent = i
          /\ intent[i].rev = loc[p].rev /\ run[i].status # "none"
          /\ pc[p] = "answered" => loc[p].bytes = "approved" /\ loc[p].out \in {"completed", "failed"}
      BY <1>1, <3>1 DEF ThreadSound, BoundPcs, Active
    <3> QED BY <1>1, <1>2, <1>3, <1>4, <2>1, <3>1, <3>2 DEF ThreadSound, Boots
  <2>2. CASE q # p
    <3>1. pc'[q] = pc[q] /\ loc'[q] = loc[q] /\ (Holds(q)' <=> Holds(q))
      BY <1>1, <1>3, <2>2 DEF Holds
    <3>2. Undeliverable(loc[q].intent) => Undeliverable(loc[q].intent)'
      BY <1>1, <3>1 DEF Undeliverable
    <3>3. budget'.renewed = 0 => pc[q] # "ran"
      BY <1>1, <1>2, <2>2
    <3> QED BY <1>1, <3>1, <3>2, <3>3, Known, OthersStay
  <2> QED BY <2>1, <2>2
<1>8. Counted'
  <2>1. \A j \in Intents : AboutToStart(j)' \subseteq AboutToStart(j)
    BY <1>1, <1>3, <1>4 DEF AboutToStart
  <2>2. \A j \in Intents : Unspent(j)' = Unspent(j) /\ Unspent(j) \in Nat
    BY <1>1 DEF Unspent
  <2> QED BY <1>1, <2>1, <2>2, Known, CountStays
<1>9. \A j \in Intents : starts[j] > 0 => run[j].status # "none"
  BY DEF AInv, Runs
<1> QED BY <1>1, <1>3, <1>4, <1>5, <1>6, <1>7, <1>8, <1>9, Known, FilesMove DEF Types

LEMMA StartRuntimeKeeps == ASSUME AInv, NEW p \in Processes, StartRuntime(p) PROVE AInv'
<1>0. PICK i \in Intents : i = loc[p].intent
  BY ActiveSpends DEF StartRuntime, Active, ActivePcs
<1>1. /\ UNCHANGED <<wf, task, job, intent, run, exch, disk, loc, budget>> /\ pc[p] = "copied" /\ Active(p)
      /\ pc' \in [Processes -> PcStates] /\ pc'[p] = "running" /\ \A q \in Processes \ {p} : pc'[q] = pc[q]
      /\ starts' = [starts EXCEPT ![i] = @ + 1] /\ loc[p].bytes = "approved"
  BY <1>0, Known, MoveIs DEF StartRuntime, CopiedAsApproved, Active, ActivePcs, PcStates
<1>2. /\ i \in Intents /\ run[i].status # "none" /\ intent[i].rev = loc[p].rev /\ (Holds(p) => job.intent = i)
  BY <1>0, <1>1, Known DEF ThreadSound, Active, ActivePcs, BoundPcs
<1>3. /\ starts' \in [Intents -> Nat] /\ starts'[i] = starts[i] + 1
      /\ \A j \in Intents \ {i} : starts'[j] = starts[j]
  BY <1>1, <1>2, Known DEF Types
<1>4. ASSUME NEW q \in Processes PROVE ThreadSound(q)'
  <2>1. CASE q = p
    BY <1>0, <1>1, <1>2, <2>1 DEF ThreadSound, Holds, Boots, Active
  <2>2. CASE q # p
    <3>1. pc'[q] = pc[q] /\ loc'[q] = loc[q] /\ (Holds(q)' <=> Holds(q))
      BY <1>1, <2>2 DEF Holds
    <3>2. Undeliverable(loc[q].intent) => Undeliverable(loc[q].intent)'
      BY <1>1, <3>1 DEF Undeliverable
    <3> QED BY <1>1, <3>1, <3>2, Known, OthersStay
  <2> QED BY <2>1, <2>2
<1>5. Counted'
  <2>1. \A j \in Intents : Unspent(j)' = Unspent(j)
    BY <1>1 DEF Unspent
  <2>2. AboutToStart(i)' = AboutToStart(i) \ {p} /\ p \in AboutToStart(i)
    BY <1>0, <1>1 DEF AboutToStart
  <2>3. \A j \in Intents \ {i} : AboutToStart(j)' = AboutToStart(j)
    BY <1>0, <1>1 DEF AboutToStart
  <2>4. /\ IsFiniteSet(AboutToStart(i)) /\ Unspent(i) \in Nat /\ starts[i] \in Nat
        /\ starts[i] + Cardinality(AboutToStart(i)) + Unspent(i) <= 1 + budget.renewed
    BY <1>2, Known DEF AInv, Counted, Unspent
  <2>5. /\ IsFiniteSet(AboutToStart(i) \ {p})
        /\ Cardinality(AboutToStart(i) \ {p}) = Cardinality(AboutToStart(i)) - 1
    BY <2>2, <2>4, FS_RemoveElement
  <2>6. Cardinality(AboutToStart(i)) \in Nat
    BY <2>4, FS_CardinalityType
  <2>7. starts'[i] + Cardinality(AboutToStart(i)') + Unspent(i)' <= 1 + budget.renewed
    <3>1. Cardinality(AboutToStart(i)') = Cardinality(AboutToStart(i)) - 1
      BY <2>2, <2>5
    <3>2. Unspent(i)' = Unspent(i) /\ starts'[i] = starts[i] + 1 /\ budget.renewed \in Nat
      BY <1>2, <1>3, <2>1, Known
    <3> QED BY <2>4, <2>6, <3>1, <3>2
  <2>8. \A j \in Intents \ {i} : /\ IsFiniteSet(AboutToStart(j)')
                                 /\ starts'[j] + Cardinality(AboutToStart(j)') + Unspent(j)' <= 1 + budget.renewed
    BY <1>3, <2>1, <2>3 DEF AInv, Counted
  <2>9. IsFiniteSet(AboutToStart(i)')
    BY <2>2, <2>5
  <2> QED BY <1>1, <2>7, <2>8, <2>9 DEF Counted
<1>6. \A q \in Processes : Active(q)' => Active(q) /\ loc'[q].intent = loc[q].intent
  BY <1>1 DEF Active
<1>7. \A j \in Intents : starts'[j] > 0 => run[j].status # "none"
  BY <1>2, <1>3 DEF AInv, Runs
<1> QED BY <1>1, <1>3, <1>4, <1>5, <1>6, <1>7, Known, FilesMove DEF Types

LEMMA BootClearsKeeps == ASSUME AInv, NEW p \in Processes, BootClears(p) PROVE AInv'
<1> DEFINE i == loc[p].intent
<1>1. /\ UNCHANGED <<wf, task, job, intent, run, exch, loc, starts>> /\ pc[p] = "booting" /\ Boots(p)
      /\ pc' \in [Processes -> PcStates] /\ pc'[p] = "cleared" /\ \A q \in Processes \ {p} : pc'[q] = pc[q]
      /\ disk' = [disk EXCEPT !.dir[i] = Cleared(@)] /\ Overtaken(p, disk.dir[i] = "outputs")
  BY Known, MoveIs DEF BootClears, Boots, PcStates
<1>2. ThreadSound(p) /\ i \in Intents /\ loc[p].next = "running"
  BY <1>1, Known DEF ThreadSound
<1>3. /\ budget' \in [faults : Nat, retries : Nat, renewed : Nat, undone : BOOLEAN]
      /\ budget'.renewed = budget.renewed
      /\ budget'.undone <=> (budget.undone \/ disk.dir[i] = "outputs")
  <2>1. budget \in [faults : Nat, retries : Nat, renewed : Nat, undone : BOOLEAN]
    BY Known DEF Types
  <2>2. budget' = [budget EXCEPT !.undone = budget.undone \/ disk.dir[i] = "outputs"]
    BY <1>1, <1>2 DEF Overtaken
  <2> DEFINE u == budget.undone \/ disk.dir[i] = "outputs"
  <2>3. u \in BOOLEAN
    OBVIOUS
  <2>4. budget' = [budget EXCEPT !.undone = u]
    BY <2>2
  <2> HIDE DEF u
  <2>5. budget' \in [faults : Nat, retries : Nat, renewed : Nat, undone : BOOLEAN]
        /\ budget'.renewed = budget.renewed /\ budget'.undone = u
    BY <2>1, <2>3, <2>4
  <2> QED BY <2>5 DEF u
<1>4. /\ disk' \in [data : {"approved", "changed", "gone"}, dir : [Intents -> Dirs]] /\ disk'.data = disk.data
      /\ \A j \in Intents \ {i} : disk'.dir[j] = disk.dir[j]
  <2>1. disk \in [data : {"approved", "changed", "gone"}, dir : [Intents -> Dirs]]
    BY Known DEF Types
  <2>2. Cleared(disk.dir[i]) \in Dirs
    BY <1>2, <2>1 DEF Cleared, Dirs
  <2>3. disk' = [disk EXCEPT !.dir = [disk.dir EXCEPT ![i] = Cleared(disk.dir[i])]]
    BY <1>1
  <2>4. [disk.dir EXCEPT ![i] = Cleared(disk.dir[i])] \in [Intents -> Dirs]
    BY <2>1, <2>2
  <2> QED BY <2>1, <2>3, <2>4
<1>5. ~budget'.undone => \A j \in Intents : disk.dir[j] = "outputs" => disk'.dir[j] = "outputs"
  BY <1>3, <1>4
<1>6. ~budget'.undone => ~budget.undone
  BY <1>3
<1>7. ASSUME NEW q \in Processes PROVE ThreadSound(q)'
  <2>1. Undeliverable(loc[q].intent) => Undeliverable(loc[q].intent)'
    BY <1>1 DEF Undeliverable
  <2>2. Holds(q)' <=> Holds(q)
    BY <1>1 DEF Holds
  <2>3. CASE q = p
    <3>1. /\ loc[p].intent \in Intents /\ run[loc[p].intent].status # "none"
          /\ loc[p].next = "running" /\ loc[p].rev <= budget.renewed /\ loc[p].out \in {"none", "failed"}
          /\ loc[p].out = "none" => Undeliverable(loc[p].intent)
      BY <1>1, <1>2 DEF ThreadSound
    <3> QED BY <1>1, <1>3, <2>1, <2>3, <3>1 DEF ThreadSound, Active, ActivePcs, BoundPcs, Boots
  <2>4. CASE q # p
    <3>1. pc[q] = "ran" => loc[q].intent \in Intents
      BY Known DEF ThreadSound, BoundPcs, ActivePcs
    <3> QED BY <1>1, <1>3, <1>4, <1>5, <1>6, <2>1, <2>2, <2>4, <3>1, Known, OthersStay
  <2> QED BY <2>3, <2>4
<1>8. Counted'
  <2>1. \A j \in Intents : AboutToStart(j)' = AboutToStart(j)
    BY <1>1 DEF AboutToStart
  <2>2. \A j \in Intents : Unspent(j)' = Unspent(j) /\ Unspent(j) \in Nat
    BY <1>1 DEF Unspent
  <2> QED BY <1>1, <1>3, <2>1, <2>2, Known, CountStays
<1>9. \A q \in Processes : Active(q)' => Active(q) /\ loc'[q].intent = loc[q].intent
  BY <1>1 DEF Active, ActivePcs
<1>10. \A j \in Intents : starts'[j] > 0 => run[j].status # "none"
  BY <1>1 DEF AInv, Runs
<1> QED BY <1>1, <1>3, <1>4, <1>5, <1>6, <1>7, <1>8, <1>9, <1>10, Known, FilesMove DEF Types

LEMMA ChangeFilesKeeps == ASSUME AInv, NEW data \in {"changed", "gone"}, ChangeFiles(data) PROVE AInv'
<1>1. /\ UNCHANGED <<wf, task, job, intent, run, exch, pc, loc, starts>> /\ disk.data = "approved"
      /\ disk' = [data |-> data, dir |-> [i \in Intents |-> IF data = "gone" THEN "none" ELSE disk.dir[i]]]
      /\ budget' = [budget EXCEPT !.faults = @ + 1]
  BY DEF ChangeFiles
<1>2. /\ budget' \in [faults : Nat, retries : Nat, renewed : Nat, undone : BOOLEAN]
      /\ budget'.renewed = budget.renewed /\ budget'.undone = budget.undone
  BY <1>1, Known DEF Types
<1>3. disk' \in [data : {"approved", "changed", "gone"}, dir : [Intents -> Dirs]] /\ disk'.data = data
  BY <1>1, Known DEF Types, Dirs
<1>4. data # "gone" => \A i \in Intents : disk'.dir[i] = disk.dir[i]
  BY <1>1
<1>5. ASSUME NEW q \in Processes PROVE ThreadSound(q)'
  <2>1. Undeliverable(loc[q].intent) => Undeliverable(loc[q].intent)'
    BY <1>1 DEF Undeliverable
  <2>2. pc[q] = "ran" => loc[q].intent \in Intents
    BY Known DEF ThreadSound, BoundPcs, ActivePcs
  <2>3. Holds(q)' <=> Holds(q)
    BY <1>1 DEF Holds
  <2> QED BY <1>1, <1>2, <1>3, <1>4, <2>1, <2>2, <2>3, Known, OthersStay
<1>6. Counted'
  <2>1. \A j \in Intents : AboutToStart(j)' = AboutToStart(j)
    BY <1>1 DEF AboutToStart
  <2>2. \A j \in Intents : Unspent(j)' = Unspent(j) /\ Unspent(j) \in Nat
    BY <1>1 DEF Unspent
  <2> QED BY <1>1, <1>2, <2>1, <2>2, Known, CountStays
<1>7. \A q \in Processes : Active(q)' => Active(q) /\ loc'[q].intent = loc[q].intent
  BY <1>1 DEF Active
<1>8. \A j \in Intents : starts'[j] > 0 => run[j].status # "none"
  BY <1>1 DEF AInv, Runs
<1> QED BY <1>1, <1>2, <1>3, <1>4, <1>5, <1>6, <1>7, <1>8, Known, FilesMove DEF Types

-----------------------------------------------------------------------------
(* The claim, and the three ways a run is written at its end. *)

LEMMA ApprovedIsOpen ==
  ASSUME AInv, NEW i \in Intents, intent[i].status = "approved"
  PROVE  \A j \in Intents : run[j].status # "completed" /\ intent[j].status # "completed"
<1>1. Newest(i)
  BY Known, UnfailedIsNewest DEF AInv
<1> SUFFICES ASSUME NEW j \in Intents, run[j].status = "completed" \/ intent[j].status = "completed" PROVE FALSE
  OBVIOUS
<1>2. intent[j].status = "completed" /\ Newest(j)
  BY DEF AInv, Runs
<1> QED BY <1>1, <1>2, NewestIsOne

LEMMA ClaimKeeps == ASSUME AInv, NEW p \in Processes, ClaimIntent(p), Executable(p) PROVE AInv'
<1>1. PICK i \in Intents : i = loc[p].intent /\ (Holds(p) => job.intent = i)
  BY Known DEF ClaimIntent, ThreadSound, BoundPcs
<1>2. /\ UNCHANGED <<wf, job, exch, disk, starts, budget, loc>>
      /\ pc' \in [Processes -> PcStates] /\ pc'[p] = "claimed" /\ \A q \in Processes \ {p} : pc'[q] = pc[q]
      /\ intent' = [intent EXCEPT ![i].status = "executing"] /\ run' = [run EXCEPT ![i] = Claimed]
      /\ task' = "running" /\ pc[p] = "checked"
  BY <1>1, Known, MoveIs DEF ClaimIntent, PcStates
<1>3. /\ intent[i].status = "approved" /\ intent[i].rev = loc[p].rev
      /\ task \notin {"completed", "failed", "cancelled"}
  BY <1>1 DEF Executable, Decided, ApprovedAt
<1>4. Newest(i)
  BY <1>3, Known, UnfailedIsNewest DEF AInv
<1>5. /\ intent' \in [Intents -> IntentType] /\ run' \in [Intents -> RunType]
      /\ intent'[i].status = "executing" /\ intent'[i].rev = intent[i].rev /\ intent'[i].error = intent[i].error
      /\ \A j \in Intents \ {i} : intent'[j] = intent[j] /\ run'[j] = run[j]
      /\ run'[i].status = "running"
  <2> DEFINE row == [intent[i] EXCEPT !.status = "executing"]
  <2>1. intent[i] \in IntentType /\ intent \in [Intents -> IntentType] /\ run \in [Intents -> RunType]
    BY Known DEF Types
  <2>2. row \in IntentType /\ row.status = "executing" /\ row.rev = intent[i].rev /\ row.error = intent[i].error
    BY <2>1 DEF IntentType, IntentStatuses
  <2>3. intent' = [intent EXCEPT ![i] = row] /\ Claimed \in RunType /\ Claimed.status = "running"
    BY <1>2, <2>1 DEF Claimed, RunType
  <2> HIDE DEF row
  <2> QED BY <1>2, <2>1, <2>2, <2>3
<1>6. \A j \in Intents : run[j].status # "completed" /\ intent[j].status # "completed"
  BY <1>1, <1>3, ApprovedIsOpen
<1>7. budget.renewed = 0 => \A q \in Processes : ~Active(q)
  <2> SUFFICES ASSUME budget.renewed = 0, NEW q \in Processes, Active(q) PROVE FALSE
    OBVIOUS
  <2>1. PICK j \in Intents : j = loc[q].intent
    BY ActiveSpends
  <2>2. Newest(j) /\ intent[j].status \in {"executing", "failed"}
    BY <2>1 DEF AInv, Solo
  <2> QED BY <1>3, <1>4, <2>2, NewestIsOne
<1>8. Types'
  BY <1>2, <1>5, Known DEF Types, TaskStatuses, CancellableTask
<1>9. \A j \in Intents : /\ Newest(j)' <=> Newest(j)
                         /\ intent'[j].status = "none" <=> intent[j].status = "none"
                         /\ intent'[j].status = "failed" <=> intent[j].status = "failed"
                         /\ intent'[j].rev = intent[j].rev
  BY <1>3, <1>5 DEF Newest
<1>10. Line' /\ Renewal'
  BY <1>2, <1>9, IntentsAre DEF AInv, Line, Renewal
<1>11. JobRow'
  <2>1. \A j \in Intents : intent[j].status \in Passed => intent'[j].status \in Passed
    BY <1>5 DEF Passed
  <2>2. ~(job.status = "succeeded" /\ ~budget.undone)
    <3>1. job.status = "succeeded" => job.intent \in Intents
      BY DEF AInv, JobRow
    <3> QED BY <1>6, <3>1 DEF AInv, JobRow
  <2> QED BY <1>2, <1>9, <2>1, <2>2 DEF AInv, JobRow
<1>12. ASSUME NEW q \in Processes PROVE ThreadSound(q)'
  <2>1. Holds(q)' <=> Holds(q)
    BY <1>2 DEF Holds
  <2>2. CASE q = p
    BY <1>1, <1>2, <1>3, <1>5, <2>1, <2>2 DEF ThreadSound, Boots
  <2>3. CASE q # p
    <3>1. pc'[q] = pc[q] /\ loc'[q] = loc[q]
      BY <1>2, <2>3
    <3>2. Boots(q) /\ Undeliverable(loc[q].intent) => Undeliverable(loc[q].intent)'
      <4> SUFFICES ASSUME Boots(q), Undeliverable(loc[q].intent) PROVE Undeliverable(loc[q].intent)'
        OBVIOUS
      <4>1. PICK j \in Intents : j = loc[q].intent
        BY BootingSpent
      <4>2. intent'[j].status # "completed" /\ (intent[j].rev < wf.rev \/ intent[j].status = "failed")
        BY <1>3, <1>5, <1>6, <4>1 DEF Undeliverable
      <4>3. intent'[j].status # "completed" /\ (intent'[j].rev < wf'.rev \/ intent'[j].status = "failed")
        BY <1>2, <1>9, <4>2
      <4> QED BY <3>1, <4>1, <4>3 DEF Undeliverable
    <3>3. \A j \in Intents : run[j].status # "none" => run'[j].status # "none" /\ intent'[j].rev = intent[j].rev
      BY <1>5, <1>9
    <3> QED BY <1>2, <2>1, <3>1, <3>2, <3>3, Known, OthersStay
  <2> QED BY <2>2, <2>3
<1>13. Solo'
  <2>1. budget.renewed = 0 => \A q \in Processes : Active(q)' <=> q = p
    BY <1>2, <1>7 DEF Active, ActivePcs
  <2>2. Newest(loc[p].intent)' /\ intent'[loc'[p].intent].status = "executing"
    <3>1. Newest(i)' /\ loc'[p].intent = i
      BY <1>1, <1>2, <1>4, <1>9
    <3> QED BY <1>5, <3>1 DEF Newest
  <2> QED BY <1>2, <2>1, <2>2 DEF Solo
<1>14. Counted'
  <2>1. /\ AboutToStart(i)' = AboutToStart(i) \cup {p} /\ p \notin AboutToStart(i)
        /\ \A j \in Intents \ {i} : AboutToStart(j)' = AboutToStart(j)
    BY <1>1, <1>2 DEF AboutToStart
  <2>2. /\ Unspent(i) = 1 /\ Unspent(i)' = 0
        /\ \A j \in Intents \ {i} : Unspent(j)' = Unspent(j)
    BY <1>3, <1>5 DEF Unspent
  <2>3. /\ IsFiniteSet(AboutToStart(i)) /\ starts[i] \in Nat /\ budget.renewed \in Nat
        /\ starts[i] + Cardinality(AboutToStart(i)) + Unspent(i) <= 1 + budget.renewed
    BY Known DEF AInv, Counted
  <2>4. /\ IsFiniteSet(AboutToStart(i) \cup {p})
        /\ Cardinality(AboutToStart(i) \cup {p}) = Cardinality(AboutToStart(i)) + 1
        /\ Cardinality(AboutToStart(i)) \in Nat
    BY <2>1, <2>3, FS_AddElement, FS_CardinalityType
  <2>5. /\ IsFiniteSet(AboutToStart(i)')
        /\ starts[i] + Cardinality(AboutToStart(i)') + Unspent(i)' <= 1 + budget.renewed
    <3>1. Cardinality(AboutToStart(i)') = Cardinality(AboutToStart(i)) + 1 /\ IsFiniteSet(AboutToStart(i)')
      BY <2>1, <2>4
    <3> QED BY <2>2, <2>3, <2>4, <3>1
  <2>6. \A j \in Intents \ {i} : /\ IsFiniteSet(AboutToStart(j)')
                                 /\ starts[j] + Cardinality(AboutToStart(j)') + Unspent(j)' <= 1 + budget.renewed
    BY <2>1, <2>2 DEF AInv, Counted
  <2> QED BY <1>2, <2>5, <2>6 DEF Counted
<1>15. Runs'
  <2>1. \A j \in Intents : run'[j].status # "none" => Spent(j)'
    BY <1>2, <1>5 DEF AInv, Runs, Spent
  <2>2. \A j \in Intents : /\ starts[j] > 0 => run'[j].status # "none"
                           /\ intent'[j].status = "executing" => run'[j].status = "running"
                           /\ run'[j].status # "completed" /\ intent'[j].status # "completed"
    BY <1>5, <1>6 DEF AInv, Runs
  <2> QED BY <1>2, <2>1, <2>2 DEF Runs
<1> QED BY <1>8, <1>10, <1>11, <1>12, <1>13, <1>14, <1>15 DEF AInv

LEMMA FailedRow ==
  ASSUME AInv, NEW i \in Intents, intent[i].status \in Passed, NEW e \in Errors,
         intent' = [intent EXCEPT ![i] = Failed(@, e)], UNCHANGED <<wf, job>>, budget'.renewed = budget.renewed
  PROVE  /\ intent' \in [Intents -> IntentType]
         /\ intent'[i].status = "failed" /\ intent'[i].error = e
         /\ \A j \in Intents \ {i} : intent'[j] = intent[j]
         /\ \A j \in Intents : /\ Newest(j)' <=> Newest(j)
                               /\ intent'[j].status = "none" <=> intent[j].status = "none"
                               /\ intent[j].status \in Passed => intent'[j].status \in Passed
                               /\ intent'[j].rev = intent[j].rev
                               /\ Spent(j) => Spent(j)'
                               /\ Unspent(j)' <= Unspent(j)
         /\ Line' /\ Renewal'
<1> DEFINE row == Failed(intent[i], e)
<1>1. intent[i] \in IntentType /\ intent \in [Intents -> IntentType]
  BY Known DEF Types
<1>2. row \in IntentType /\ row.status = "failed" /\ row.error = e /\ row.rev = intent[i].rev
  BY <1>1 DEF Failed, IntentType, IntentStatuses
<1>3. intent' = [intent EXCEPT ![i] = row]
  OBVIOUS
<1> HIDE DEF row
<1>4. /\ intent' \in [Intents -> IntentType] /\ intent'[i] = row
      /\ \A j \in Intents \ {i} : intent'[j] = intent[j]
  BY <1>1, <1>2, <1>3
<1>5. \A j \in Intents : /\ intent'[j].status = "none" <=> intent[j].status = "none"
                         /\ intent'[j].rev = intent[j].rev
                         /\ intent[j].status = "failed" => intent'[j].status = "failed"
  BY <1>2, <1>4 DEF Passed
<1>6. \A j \in Intents : Newest(j)' <=> Newest(j)
  BY <1>5 DEF Newest
<1>7. \A j \in Intents : intent[j].status \in Passed => intent'[j].status \in Passed
  BY <1>2, <1>4 DEF Passed
<1>8. \A j \in Intents : (Spent(j) => Spent(j)') /\ Unspent(j)' <= Unspent(j)
  BY <1>2, <1>4 DEF Spent, Unspent, Passed
<1>9. Line' /\ Renewal'
  BY <1>5, IntentsAre DEF AInv, Line, Renewal
<1> QED BY <1>2, <1>4, <1>5, <1>6, <1>7, <1>8, <1>9

LEMMA RunFails ==
  ASSUME AInv, NEW p \in Processes, OnlyMoves(p), NEW i \in Intents, intent[i].status \in Passed, Spent(i),
         NEW e \in Errors, intent' = [intent EXCEPT ![i] = Failed(@, e)], UNCHANGED <<wf, job, starts>>,
         exch' \in [Processes -> {"none", "recent", "old"}],
         disk' \in [data : {"approved", "changed", "gone"}, dir : [Intents -> Dirs]],
         budget' \in [faults : Nat, retries : Nat, renewed : Nat, undone : BOOLEAN],
         budget'.renewed = budget.renewed, budget.undone => budget'.undone,
         run' \in [Intents -> RunType], \A j \in Intents \ {i} : run'[j] = run[j],
         run'[i].status \in {"running", "failed"}, task' = task \/ task' = "failed",
         ~budget'.undone => \A j \in Intents : run[j].status # "completed",
         task' = "completed" => \E j \in Intents : run'[j].status = "completed",
         budget.renewed = 0 => e = "other" \/ \A q \in Processes : ~Active(q)',
         \A q \in Processes \ {p} : pc[q] = "ran" /\ budget.renewed = 0 /\ ~budget'.undone /\ disk'.data # "gone" =>
            disk.data # "gone" /\ (disk.dir[loc[q].intent] = "outputs" => disk'.dir[loc[q].intent] = "outputs"),
         pc'[p] \notin ActivePcs, ThreadSound(p)'
  PROVE  AInv'
<1>1. /\ intent' \in [Intents -> IntentType]
      /\ intent'[i].status = "failed" /\ intent'[i].error = e
      /\ \A j \in Intents \ {i} : intent'[j] = intent[j]
      /\ \A j \in Intents : /\ Newest(j)' <=> Newest(j)
                            /\ intent'[j].status = "none" <=> intent[j].status = "none"
                            /\ intent[j].status \in Passed => intent'[j].status \in Passed
                            /\ intent'[j].rev = intent[j].rev
                            /\ Spent(j) => Spent(j)'
                            /\ Unspent(j)' <= Unspent(j)
      /\ Line' /\ Renewal'
  BY FailedRow
<1>2. task' \in TaskStatuses
  BY Known DEF Types, TaskStatuses, CancellableTask
<1>3. Types'
  BY <1>1, <1>2, Known DEF Types, OnlyMoves
<1>4. JobRow'
  <2>1. job.status # "none" => job.intent \in Intents /\ intent[job.intent].status \in Passed
    BY DEF AInv, JobRow
  <2>2. ~(job.status = "succeeded" /\ ~budget'.undone)
    BY <2>1 DEF AInv, JobRow
  <2>3. job.status # "none" => intent'[job.intent].status \in Passed
    BY <1>1, <2>1
  <2>4. job.status \in {"queued", "leased"} \/ wf.status = "failed" => job.status # "none" /\ Newest(job.intent)
    BY DEF AInv, JobRow
  <2>5. job.status \in {"queued", "leased"} \/ wf.status = "failed" => (job.status # "none" /\ Newest(job.intent))'
    BY <1>1, <2>1, <2>4
  <2>6. task' = "waiting-approval" => job.status \notin {"queued", "leased"}
    BY DEF AInv, JobRow
  <2> QED BY <2>1, <2>2, <2>3, <2>5, <2>6 DEF JobRow
<1>5. \A q \in Processes \ {p} : pc'[q] = pc[q] /\ loc'[q] = loc[q]
  BY DEF OnlyMoves
<1>6. \A j \in Intents : run[j].status # "none" => run'[j].status # "none" /\ intent'[j].rev = intent[j].rev
  BY <1>1
<1>7. ASSUME NEW q \in Processes \ {p} PROVE ThreadSound(q)'
  <2>1. Boots(q) /\ Undeliverable(loc[q].intent) => Undeliverable(loc[q].intent)'
    <3> SUFFICES ASSUME Boots(q), Undeliverable(loc[q].intent) PROVE Undeliverable(loc[q].intent)'
      OBVIOUS
    <3>1. PICK j \in Intents : j = loc[q].intent
      BY BootingSpent
    <3>2. intent'[j].status # "completed"
      BY <1>1, <3>1 DEF Undeliverable
    <3>3. task' \in {"failed", "cancelled"} \/ intent'[j].rev < wf'.rev \/ intent'[j].status = "failed"
      BY <1>1, <3>1 DEF Undeliverable
    <3> QED BY <1>5, <3>1, <3>2, <3>3 DEF Undeliverable
  <2>2. Holds(q)' <=> Holds(q)
    BY DEF Holds
  <2>3. ~budget'.undone => ~budget.undone
    OBVIOUS
  <2> QED BY <1>5, <1>6, <2>1, <2>2, <2>3, Known, OthersStay
<1>8. \A q \in Processes : Active(q)' => q # p /\ Active(q) /\ loc'[q].intent = loc[q].intent
  BY <1>5 DEF Active
<1>9. Solo'
  <2> SUFFICES ASSUME budget.renewed = 0
               PROVE  (/\ \A x, y \in Processes : Active(x) /\ Active(y) => x = y
                       /\ \A x \in Processes : Active(x) =>
                             /\ Newest(loc[x].intent)
                             /\ \/ intent[loc[x].intent].status = "executing"
                                \/ intent[loc[x].intent].status = "failed" /\ intent[loc[x].intent].error = "other")'
    BY DEF Solo
  <2>1. ASSUME NEW x \in Processes, Active(x)'
        PROVE  (/\ Newest(loc[x].intent)
                /\ \/ intent[loc[x].intent].status = "executing"
                   \/ intent[loc[x].intent].status = "failed" /\ intent[loc[x].intent].error = "other")'
    <3>1. PICK j \in Intents : j = loc[x].intent
      BY <1>8, <2>1, ActiveSpends
    <3>2. Newest(j) /\ (intent[j].status = "executing" \/ (intent[j].status = "failed" /\ intent[j].error = "other"))
      BY <1>8, <2>1, <3>1 DEF AInv, Solo
    <3>3. Newest(j)' /\ loc'[x].intent = j
      BY <1>1, <1>8, <2>1, <3>1, <3>2
    <3>4. intent'[j].status = "executing" \/ (intent'[j].status = "failed" /\ intent'[j].error = "other")
      BY <1>1, <2>1, <3>2
    <3> QED BY <3>3, <3>4 DEF Newest
  <2>2. \A x, y \in Processes : Active(x)' /\ Active(y)' => x = y
    BY <1>8 DEF AInv, Solo
  <2> QED BY <2>1, <2>2
<1>10. Counted'
  <2>1. \A j \in Intents : AboutToStart(j)' \subseteq AboutToStart(j)
    <3>1. pc'[p] \notin {"claimed", "copied"}
      BY DEF ActivePcs
    <3> QED BY <1>5, <3>1 DEF AboutToStart
  <2>2. \A j \in Intents : Unspent(j)' <= Unspent(j) /\ Unspent(j)' \in Nat /\ Unspent(j) \in Nat
    BY <1>1 DEF Unspent
  <2> QED BY <2>1, <2>2, Known, CountStays
<1>11. Runs'
  <2>1. \A j \in Intents : run'[j].status # "none" => Spent(j)'
    BY <1>1 DEF AInv, Runs
  <2>2. \A j \in Intents : /\ starts[j] > 0 => run'[j].status # "none"
                           /\ intent'[j].status = "executing" => run'[j].status = "running"
                           /\ (intent'[j].status = "completed" <=> run'[j].status = "completed")
    BY <1>1 DEF AInv, Runs
  <2>3. \A j \in Intents : run'[j].status = "completed" =>
            /\ budget.renewed = 0 /\ Newest(j)' /\ run'[j].evidence = "full" /\ budget'.undone
            /\ \A q \in Processes : ~Active(q)'
    BY <1>1, <1>8 DEF AInv, Runs
  <2> QED BY <2>1, <2>2, <2>3 DEF Runs
<1> QED BY <1>1, <1>3, <1>4, <1>7, <1>9, <1>10, <1>11 DEF AInv

LEMMA PersistFailureKeeps == ASSUME AInv, NEW p \in Processes, PersistFailure(p) PROVE AInv'
<1>1. Active(p) /\ pc[p] = "failing"
  BY DEF PersistFailure, Active, ActivePcs
<1>2. PICK i \in Intents : i = loc[p].intent
  BY <1>1, ActiveSpends
<1>3. /\ Spent(i) /\ intent[i].status \in Passed /\ loc[p].error \in Errors
      /\ loc[p].next \in {"reporting", "settling"} /\ (Holds(p) => job.intent = i)
  BY <1>1, <1>2, ActiveSpends, Known DEF ThreadSound, BoundPcs, ActivePcs, LocType
<1>4. /\ UNCHANGED <<wf, job, loc, starts, budget>>
      /\ run' = [run EXCEPT ![i] = [status |-> "failed", evidence |-> "none"]]
      /\ intent' = [intent EXCEPT ![i] = Failed(@, loc[p].error)]
      /\ task' = FailTask /\ exch' = [exch EXCEPT ![p] = "none"]
      /\ disk' = [disk EXCEPT !.dir[i] = Logged(@)] /\ Move(p, loc[p].next)
  BY <1>2 DEF PersistFailure
<1>5. OnlyMoves(p) /\ pc'[p] = loc[p].next
  BY <1>3, <1>4, Known, MoveIs DEF OnlyMoves, PcStates, Types
<1>6. disk' \in [data : {"approved", "changed", "gone"}, dir : [Intents -> Dirs]]
  <2>1. disk \in [data : {"approved", "changed", "gone"}, dir : [Intents -> Dirs]]
    BY Known DEF Types
  <2>2. Logged(disk.dir[i]) \in Dirs
    BY <2>1 DEF Logged, Dirs
  <2>3. disk' = [disk EXCEPT !.dir = [disk.dir EXCEPT ![i] = Logged(disk.dir[i])]]
    BY <1>4
  <2>4. [disk.dir EXCEPT ![i] = Logged(disk.dir[i])] \in [Intents -> Dirs]
    BY <2>1, <2>2
  <2> QED BY <2>1, <2>3, <2>4
<1>7. /\ exch' \in [Processes -> {"none", "recent", "old"}]
      /\ budget' \in [faults : Nat, retries : Nat, renewed : Nat, undone : BOOLEAN]
  BY <1>4, Known DEF Types
<1>8. /\ run' \in [Intents -> RunType] /\ run'[i].status = "failed"
      /\ \A j \in Intents \ {i} : run'[j] = run[j]
  BY <1>4, Known DEF Types, RunType
<1>9. /\ task' = task \/ task' = "failed"
      /\ task' # "completed"
      /\ \A j \in Intents : run[j].status # "completed"
  BY <1>1, <1>4, ActiveUnfinished DEF FailTask
<1>10. pc'[p] \notin ActivePcs
  BY <1>3, <1>5 DEF ActivePcs
<1>11. budget.renewed = 0 => \A q \in Processes : ~Active(q)' /\ (q # p => pc[q] # "ran")
  BY <1>1, <1>5, <1>10, AloneAtWork DEF OnlyMoves, Active, ActivePcs
<1>12. ThreadSound(p)'
  BY <1>2, <1>3, <1>4, <1>5 DEF ThreadSound, Holds, Boots, Active, ActivePcs
<1>13. PICK e \in Errors : e = loc[p].error
  BY <1>3
<1> QED BY <1>3, <1>4, <1>5, <1>6, <1>7, <1>8, <1>9, <1>10, <1>11, <1>12, <1>13, RunFails

LEMMA ClaimIntentKeeps == ASSUME AInv, NEW p \in Processes, ClaimIntent(p) PROVE AInv'
<1>1. CASE Executable(p)
  BY <1>1, ClaimKeeps
<1>2. CASE ~Executable(p)
  BY <1>2, TurnsAway DEF ClaimIntent, Errors, BoundPcs
<1> QED BY <1>1, <1>2

\* A result is accepted at the revision its approval names, so nothing was renewed.
LEMMA CompletesAlone ==
  ASSUME AInv, NEW p \in Processes, pc[p] = "ran", Revalidates(p), ~Superseded(p)
  PROVE  /\ budget.renewed = 0 /\ loc[p].intent \in Intents /\ Newest(loc[p].intent)
         /\ intent[loc[p].intent].status = "executing" /\ intent[loc[p].intent].rev = wf.rev
         /\ run[loc[p].intent] = Claimed /\ task = "running" /\ WorkflowRuns
         /\ \A q \in Processes \ {p} : pc[q] \notin ActivePcs
         /\ ~budget.undone /\ disk.data # "gone" => disk.dir[loc[p].intent] = "outputs"
<1>1. Active(p)
  BY DEF Active, ActivePcs
<1>2. PICK i \in Intents : i = loc[p].intent
  BY <1>1, ActiveSpends
<1>3. intent[i].rev = loc[p].rev
  BY <1>1, <1>2, Known DEF ThreadSound
<1>4. intent[i].status = "executing" /\ run[i] = Claimed /\ task = "running"
  BY <1>2 DEF Revalidates, Fingerprint
<1>5. WorkflowRuns /\ wf.rev = loc[p].rev
  BY DEF Superseded
<1>6. budget.renewed = 0
  <2>1. ~(budget.renewed > 0)
    BY <1>3, <1>4, <1>5, Known, RenewedIsPast
  <2> QED BY <2>1, Known
<1>7. Newest(i)
  BY <1>4, Known, UnfailedIsNewest DEF AInv
<1>8. \A q \in Processes \ {p} : pc[q] \notin ActivePcs
  BY <1>1, <1>6, AloneAtWork
<1>9. ~budget.undone /\ disk.data # "gone" => disk.dir[i] = "outputs"
  BY <1>2, <1>6, Known DEF ThreadSound
<1> QED BY <1>2, <1>3, <1>4, <1>5, <1>6, <1>7, <1>8, <1>9

LEMMA CompletionKeeps ==
  ASSUME AInv, NEW p \in Processes, pc[p] = "ran", Revalidates(p), ~Superseded(p), loc[p].out = "completed",
         Finalize(p)
  PROVE  AInv'
<1>1. PICK i \in Intents : i = loc[p].intent
  BY CompletesAlone
<1>2. /\ budget.renewed = 0 /\ Newest(i) /\ intent[i].status = "executing" /\ intent[i].rev = wf.rev
      /\ run[i] = Claimed /\ task = "running"
      /\ \A q \in Processes \ {p} : pc[q] \notin ActivePcs
      /\ ~budget.undone /\ disk.data # "gone" => disk.dir[i] = "outputs"
  BY <1>1, CompletesAlone
<1>3. /\ UNCHANGED <<wf, job, exch, disk, starts, budget>>
      /\ run' = [run EXCEPT ![i] = [status |-> "completed", evidence |-> "full"]]
      /\ intent' = [intent EXCEPT ![i] = [@ EXCEPT !.status = "completed"]]
      /\ task' = "completed" /\ Remember(p, "completed", "none", "idle") /\ Move(p, "publishing")
  BY <1>1 DEF Finalize
<1>4. /\ loc' \in [Processes -> LocType] /\ \A q \in Processes \ {p} : loc'[q] = loc[q]
      /\ loc'[p].intent = i
  <2>1. "none" \in Errors
    BY DEF Errors
  <2> QED BY <1>1, <1>3, <2>1, Known, RememberIs
<1>5. /\ pc' \in [Processes -> PcStates] /\ pc'[p] = "publishing" /\ \A q \in Processes \ {p} : pc'[q] = pc[q]
  BY <1>3, Known, MoveIs DEF PcStates
<1>6. /\ intent' \in [Intents -> IntentType] /\ run' \in [Intents -> RunType]
      /\ intent'[i].status = "completed" /\ intent'[i].rev = intent[i].rev
      /\ \A j \in Intents \ {i} : intent'[j] = intent[j] /\ run'[j] = run[j]
      /\ run'[i].status = "completed" /\ run'[i].evidence = "full"
  <2> DEFINE row == [intent[i] EXCEPT !.status = "completed"]
             outcome == [status |-> "completed", evidence |-> "full"]
  <2>1. intent[i] \in IntentType /\ intent \in [Intents -> IntentType] /\ run \in [Intents -> RunType]
    BY Known DEF Types
  <2>2. row \in IntentType /\ row.status = "completed" /\ row.rev = intent[i].rev
    BY <2>1 DEF IntentType, IntentStatuses
  <2>3. intent' = [intent EXCEPT ![i] = row] /\ run' = [run EXCEPT ![i] = outcome]
    BY <1>3
  <2>4. outcome \in RunType /\ outcome.status = "completed" /\ outcome.evidence = "full"
    BY DEF RunType
  <2> HIDE DEF row, outcome
  <2> QED BY <2>1, <2>2, <2>3, <2>4
<1>7. Active(p)
  BY DEF Active, ActivePcs
<1>8. \A j \in Intents : run[j].status # "completed" /\ intent[j].status # "completed"
  BY <1>7, ActiveUnfinished
<1>9. Types'
  BY <1>3, <1>4, <1>5, <1>6, Known DEF Types, TaskStatuses
<1>10. \A j \in Intents : /\ Newest(j)' <=> Newest(j)
                          /\ intent'[j].status = "none" <=> intent[j].status = "none"
                          /\ intent'[j].status = "failed" <=> intent[j].status = "failed"
                          /\ intent'[j].rev = intent[j].rev
  BY <1>2, <1>6 DEF Newest
<1>11. Line' /\ Renewal'
  BY <1>3, <1>10, IntentsAre DEF AInv, Line, Renewal
<1>12. JobRow'
  <2>1. \A j \in Intents : intent[j].status \in Passed => intent'[j].status \in Passed
    BY <1>6 DEF Passed
  <2>2. ~(job.status = "succeeded" /\ ~budget.undone)
    <3>1. job.status = "succeeded" => job.intent \in Intents
      BY DEF AInv, JobRow
    <3> QED BY <1>8, <3>1 DEF AInv, JobRow
  <2> QED BY <1>3, <1>10, <2>1, <2>2 DEF AInv, JobRow
<1>13. \A q \in Processes : ~Active(q)'
  BY <1>2, <1>5 DEF Active, ActivePcs
<1>14. ASSUME NEW q \in Processes PROVE ThreadSound(q)'
  <2>1. Holds(q)' <=> Holds(q)
    BY <1>3 DEF Holds
  <2>2. CASE q = p
    <3>1. Holds(p) => job.intent = i
      BY <1>1, Known DEF ThreadSound, BoundPcs, ActivePcs
    <3> QED BY <1>1, <1>4, <1>5, <1>3, <2>1, <2>2, <3>1 DEF ThreadSound, Boots, Active, ActivePcs
  <2>3. CASE q # p
    <3>1. pc'[q] = pc[q] /\ loc'[q] = loc[q] /\ pc[q] # "ran"
      BY <1>2, <1>4, <1>5, <2>3 DEF ActivePcs
    <3>2. Boots(q) /\ Undeliverable(loc[q].intent) => Undeliverable(loc[q].intent)'
      <4> SUFFICES ASSUME Boots(q), Undeliverable(loc[q].intent) PROVE Undeliverable(loc[q].intent)'
        OBVIOUS
      <4>1. PICK j \in Intents : j = loc[q].intent
        BY BootingSpent
      <4>2. intent[j].rev < wf.rev \/ intent[j].status = "failed"
        BY <1>2, <4>1 DEF Undeliverable
      <4>3. j # i
        BY <1>2, <4>2, Known
      <4>4. intent'[j].status # "completed" /\ (intent'[j].rev < wf'.rev \/ intent'[j].status = "failed")
        BY <1>3, <1>6, <1>8, <4>2, <4>3
      <4> QED BY <3>1, <4>1, <4>4 DEF Undeliverable
    <3>3. \A j \in Intents : run[j].status # "none" => run'[j].status # "none" /\ intent'[j].rev = intent[j].rev
      BY <1>6
    <3> QED BY <1>3, <2>1, <3>1, <3>2, <3>3, Known, OthersStay
  <2> QED BY <2>2, <2>3
<1>15. Solo'
  BY <1>13 DEF Solo
<1>16. Counted'
  <2>1. \A j \in Intents : AboutToStart(j)' \subseteq AboutToStart(j)
    BY <1>4, <1>5 DEF AboutToStart
  <2>2. \A j \in Intents : Unspent(j)' <= Unspent(j) /\ Unspent(j) \in Nat
    BY <1>6 DEF Unspent
  <2> QED BY <1>3, <2>1, <2>2, Known, CountStays
<1>17. Runs'
  <2>1. \A j \in Intents : run'[j].status # "none" => Spent(j)'
    BY <1>3, <1>6 DEF AInv, Runs, Spent
  <2>2. \A j \in Intents : /\ starts[j] > 0 => run'[j].status # "none"
                           /\ intent'[j].status = "executing" => run'[j].status = "running"
                           /\ (intent'[j].status = "completed" <=> run'[j].status = "completed")
                           /\ run'[j].status = "completed" => j = i
    BY <1>6, <1>8 DEF AInv, Runs
  <2>3. /\ budget'.renewed = 0 /\ Newest(i)' /\ run'[i].evidence = "full"
        /\ ~budget'.undone => task' = "completed" /\ (disk'.data # "gone" => disk'.dir[i] = "outputs")
    BY <1>2, <1>3, <1>6, <1>10
  <2>4. task' = "completed" => \E j \in Intents : run'[j].status = "completed"
    BY <1>6
  <2> QED BY <1>3, <1>13, <2>1, <2>2, <2>3, <2>4 DEF Runs
<1> QED BY <1>9, <1>11, <1>12, <1>14, <1>15, <1>16, <1>17 DEF AInv

LEMMA FinalizeKeeps == ASSUME AInv, NEW p \in Processes, Finalize(p) PROVE AInv'
<1>1. pc[p] = "ran" /\ Active(p) /\ UNCHANGED <<wf, job, exch, disk, starts, budget>>
  BY DEF Finalize, Active, ActivePcs
<1>2. loc[p].out \in {"completed", "failed"}
  BY <1>1, Known DEF ThreadSound
<1>3. CASE ~Revalidates(p)
  BY <1>1, <1>3, TurnsAway DEF Finalize, Errors
<1>4. CASE Revalidates(p) /\ ~Superseded(p) /\ loc[p].out = "completed"
  BY <1>1, <1>4, CompletionKeeps
<1>5. CASE Revalidates(p) /\ (Superseded(p) \/ loc[p].out = "failed")
  <2>1. PICK i \in Intents : i = loc[p].intent
    BY <1>1, ActiveSpends
  <2>2. PICK e \in Errors : e = IF Superseded(p) THEN "other" ELSE "code"
    BY DEF Errors
  <2>3. /\ run' = [run EXCEPT ![i] = [status |-> "failed", evidence |-> "full"]]
        /\ intent' = [intent EXCEPT ![i] = Failed(@, e)]
        /\ task' = "failed" /\ Remember(p, "failed", "none", "idle") /\ Move(p, "reporting")
    BY <1>5, <2>1, <2>2 DEF Finalize
  <2>4. Spent(i) /\ intent[i].status \in Passed /\ (Holds(p) => job.intent = i)
    BY <1>1, <2>1, ActiveSpends, Known DEF ThreadSound, BoundPcs, ActivePcs
  <2>5. /\ loc' \in [Processes -> LocType] /\ \A q \in Processes \ {p} : loc'[q] = loc[q]
        /\ loc'[p].intent = i
    <3>1. "none" \in Errors
      BY DEF Errors
    <3> QED BY <2>1, <2>3, <3>1, Known, RememberIs
  <2>6. OnlyMoves(p) /\ pc'[p] = "reporting"
    BY <2>3, <2>5, Known, MoveIs DEF OnlyMoves, PcStates
  <2>7. /\ run' \in [Intents -> RunType] /\ run'[i].status = "failed"
        /\ \A j \in Intents \ {i} : run'[j] = run[j]
    BY <2>3, Known DEF Types, RunType
  <2>8. \A j \in Intents : run[j].status # "completed"
    BY <1>1, ActiveUnfinished
  <2>9. pc'[p] \notin ActivePcs
    BY <2>6 DEF ActivePcs
  <2>10. budget.renewed = 0 => \A q \in Processes : ~Active(q)' /\ (q # p => pc[q] # "ran")
    BY <1>1, <2>6, <2>9, AloneAtWork DEF OnlyMoves, Active, ActivePcs
  <2>11. ThreadSound(p)'
    BY <1>1, <2>4, <2>5, <2>6 DEF ThreadSound, Holds, Boots, Active, ActivePcs
  <2>12. /\ exch' \in [Processes -> {"none", "recent", "old"}]
         /\ disk' \in [data : {"approved", "changed", "gone"}, dir : [Intents -> Dirs]]
         /\ budget' \in [faults : Nat, retries : Nat, renewed : Nat, undone : BOOLEAN]
    BY <1>1, Known DEF Types
  <2> QED BY <1>1, <2>3, <2>4, <2>6, <2>7, <2>8, <2>9, <2>10, <2>11, <2>12, RunFails
<1> QED BY <1>2, <1>3, <1>4, <1>5

LEMMA BootWritesKeeps == ASSUME AInv, NEW p \in Processes, BootWrites(p) PROVE AInv'
<1>1. pc[p] = "cleared" /\ Boots(p)
  BY DEF BootWrites, Boots
<1>2. PICK i \in Intents : i = loc[p].intent
  BY <1>1, BootingSpent
<1>3. /\ Spent(i) /\ intent[i].status \in Passed /\ run[i].status # "none"
      /\ loc[p].next = "running" /\ loc[p].rev <= budget.renewed
      /\ loc[p].out = "none" => Undeliverable(i)
      /\ loc[p].out \in {"none", "failed"}
  <2>1. /\ run[loc[p].intent].status # "none" /\ loc[p].next = "running" /\ loc[p].rev <= budget.renewed
        /\ loc[p].out = "none" => Undeliverable(loc[p].intent)
        /\ loc[p].out \in {"none", "failed"}
    BY <1>1, Known DEF ThreadSound
  <2> QED BY <1>1, <1>2, <2>1, BootingSpent
<1>4. /\ UNCHANGED <<wf, job, exch, disk, starts>>
      /\ run' = (IF loc[p].rev # budget.renewed THEN run
                 ELSE [run EXCEPT ![i] = [status |-> "failed",
                                          evidence |-> IF @.evidence = "none" THEN "none" ELSE "torn"]])
      /\ intent' = [intent EXCEPT ![i] = Failed(@, "other")]
      /\ task' = (IF loc[p].out = "failed" THEN "failed" ELSE task)
      /\ Overtaken(p, run[i].status = "completed" \/ task = "completed")
      /\ pc' = [pc EXCEPT ![p] = "down"] /\ loc' = [loc EXCEPT ![p] = Idle]
  BY <1>2 DEF BootWrites, Interrupted
<1>5. Idle \in LocType
  BY IntentsAre DEF Idle, LocType, Errors
<1>6. OnlyMoves(p) /\ pc'[p] = "down"
  BY <1>4, <1>5, Known DEF OnlyMoves, Types, PcStates
<1>7. ThreadSound(p)' /\ pc'[p] \notin ActivePcs
  BY <1>6, ThreadRests DEF BoundPcs, ActivePcs, Boots
<1>8. /\ budget' \in [faults : Nat, retries : Nat, renewed : Nat, undone : BOOLEAN]
      /\ budget'.renewed = budget.renewed
      /\ budget'.undone <=> (budget.undone \/ run[i].status = "completed" \/ task = "completed")
  <2> DEFINE u == budget.undone \/ run[i].status = "completed" \/ task = "completed"
  <2>1. budget \in [faults : Nat, retries : Nat, renewed : Nat, undone : BOOLEAN]
    BY Known DEF Types
  <2>2. u \in BOOLEAN /\ budget' = [budget EXCEPT !.undone = u]
    BY <1>3, <1>4 DEF Overtaken
  <2> HIDE DEF u
  <2>3. budget' \in [faults : Nat, retries : Nat, renewed : Nat, undone : BOOLEAN]
        /\ budget'.renewed = budget.renewed /\ budget'.undone = u
    BY <2>1, <2>2
  <2> QED BY <2>3 DEF u
<1>9. run[i].status \in {"running", "failed", "completed"} /\ run[i] \in RunType /\ run \in [Intents -> RunType]
  BY <1>3, Known DEF Types, RunType
<1>10. loc[p].rev # budget.renewed => run[i].status # "completed"
  <2>1. loc[p].rev # budget.renewed => budget.renewed # 0
    BY <1>3, Known DEF LocType
  <2> QED BY <2>1 DEF AInv, Runs
<1>11. /\ run' \in [Intents -> RunType] /\ run'[i].status \in {"running", "failed"}
       /\ \A j \in Intents \ {i} : run'[j] = run[j]
  <2>1. CASE loc[p].rev # budget.renewed
    BY <1>4, <1>9, <1>10, <2>1
  <2>2. CASE loc[p].rev = budget.renewed
    <3> DEFINE row == [status |-> "failed", evidence |-> IF run[i].evidence = "none" THEN "none" ELSE "torn"]
    <3>1. row \in RunType /\ row.status = "failed"
      BY DEF RunType
    <3>2. run' = [run EXCEPT ![i] = row]
      BY <1>4, <2>2
    <3> HIDE DEF row
    <3> QED BY <1>9, <3>1, <3>2
  <2> QED BY <2>1, <2>2
<1>12. ~budget'.undone => \A j \in Intents : run[j].status # "completed"
  BY <1>8 DEF AInv, Runs
<1>13. task' = "completed" => \E j \in Intents : run'[j].status = "completed"
  <2> SUFFICES ASSUME task' = "completed" PROVE \E j \in Intents : run'[j].status = "completed"
    OBVIOUS
  <2>1. task = "completed" /\ Undeliverable(i)
    BY <1>3, <1>4
  <2>2. run[i].status # "completed"
    BY <2>1 DEF AInv, Runs, Undeliverable
  <2>3. PICK j \in Intents : run[j].status = "completed"
    BY <2>1 DEF AInv, Runs
  <2> QED BY <1>11, <2>2, <2>3
<1>14. /\ exch' \in [Processes -> {"none", "recent", "old"}]
       /\ disk' \in [data : {"approved", "changed", "gone"}, dir : [Intents -> Dirs]]
  BY <1>4, Known DEF Types
<1>15. "other" \in Errors /\ (task' = task \/ task' = "failed") /\ (budget.undone => budget'.undone)
  BY <1>4, <1>8 DEF Errors
<1>16. PICK e \in Errors : e = "other"
  BY <1>15
<1> QED BY <1>3, <1>4, <1>6, <1>7, <1>8, <1>11, <1>12, <1>13, <1>14, <1>15, <1>16, RunFails

LEMMA PublishKeeps == ASSUME AInv, NEW p \in Processes, Publish(p) PROVE AInv'
<1>0. PICK i \in Intents : i = loc[p].intent /\ (Holds(p) => job.intent = i)
  BY Known DEF Publish, ThreadSound, BoundPcs
<1> DEFINE good == Holds(p) /\ WorkflowRuns /\ task = "completed" /\ run[i].status = "completed" /\ Readable(i)
<1>1. CASE ~good
  BY <1>0, <1>1, TurnsAway DEF Publish, Errors
<1>2. CASE good
  <2>1. /\ job' = [job EXCEPT !.status = "succeeded", !.holder = NoProcess, !.live = FALSE] /\ Done(p)
        /\ UNCHANGED <<wf, task, intent, run, exch, disk, starts, budget>>
    BY <1>0, <1>2 DEF Publish, EndJob
  <2>2. OnlyMoves(p) /\ pc'[p] = "idle"
    BY <2>1, Known, DoneIs
  <2>3. /\ job' \in JobType /\ job'.status = "succeeded" /\ job'.holder = NoProcess /\ job'.live = FALSE
        /\ job'.intent = i
    BY <1>0, <1>2, <2>1, Known DEF JobType
  <2>4. \A q \in Processes : ~Holds(q)'
    BY <2>3 DEF Holds
  <2>5. Types'
    BY <2>1, <2>2, <2>3, Known, IntentsAre DEF Types, OnlyMoves
  <2>6. Line' /\ Renewal'
    <3>1. job.status # "none"
      BY <1>2 DEF Holds
    <3> QED BY <2>1, <2>3, <3>1 DEF AInv, Line, Renewal
  <2>7. JobRow'
    <3>1. intent[i].status = "completed"
      BY <1>2 DEF AInv, Runs
    <3>2. wf.status = "running" /\ task = "completed"
      BY <1>2 DEF WorkflowRuns
    <3> QED BY <1>2, <2>1, <2>3, <3>1, <3>2 DEF JobRow, Passed
  <2>8. ASSUME NEW q \in Processes PROVE ThreadSound(q)'
    <3>1. CASE q = p
      BY <2>2, <3>1, ThreadRests DEF BoundPcs, ActivePcs, Boots
    <3>2. CASE q # p
      <4>1. pc'[q] = pc[q] /\ loc'[q] = loc[q]
        BY <2>2, <3>2 DEF OnlyMoves
      <4>2. Undeliverable(loc[q].intent) => Undeliverable(loc[q].intent)'
        BY <2>1, <4>1 DEF Undeliverable
      <4> QED BY <2>1, <2>4, <4>1, <4>2, Known, OthersStay
    <3> QED BY <3>1, <3>2
  <2>9. \A q \in Processes : ~Active(q)
    BY <1>2 DEF AInv, Runs
  <2>10. \A q \in Processes : ~Active(q)'
    BY <2>2, <2>9 DEF OnlyMoves, Active, ActivePcs
  <2>11. Solo'
    BY <2>10 DEF Solo
  <2>12. Counted'
    <3>1. \A j \in Intents : AboutToStart(j)' \subseteq AboutToStart(j)
      BY <2>2 DEF AboutToStart, OnlyMoves
    <3>2. \A j \in Intents : Unspent(j)' = Unspent(j) /\ Unspent(j) \in Nat
      BY <2>1 DEF Unspent
    <3> QED BY <2>1, <3>1, <3>2, Known, CountStays
  <2>13. Runs'
    <3>1. \A j \in Intents : (Spent(j)' <=> Spent(j)) /\ (Newest(j)' <=> Newest(j))
      BY <2>1 DEF Spent, Newest
    <3> QED BY <2>1, <2>10, <3>1 DEF AInv, Runs
  <2> QED BY <2>5, <2>6, <2>7, <2>8, <2>11, <2>12, <2>13 DEF AInv
<1> QED BY <1>1, <1>2

-----------------------------------------------------------------------------
(* The job, the step and the workflow move on; intents and runs do not. *)

LEMMA RowsMove ==
  ASSUME AInv, UNCHANGED <<intent, run, exch, disk, starts>>,
         wf' \in WfType, wf'.agent = wf.agent, wf.rev <= wf'.rev, wf'.rev \in Nat, task' \in TaskStatuses,
         job' \in JobType, job'.intent = job.intent, job'.holder \in Processes <=> job'.status = "leased",
         job'.live => job'.status = "leased",
         job.status # "none" => job'.status # "none", job'.status # "none" => job.status # "none",
         \A q \in Processes : Holds(q)' => Holds(q),
         job'.status \in {"queued", "leased"} \/ wf'.status = "failed" => job.status # "none" /\ Newest(job.intent),
         task' = "waiting-approval" => job'.status \notin {"queued", "leased"},
         job'.status = "succeeded" => job.status = "succeeded",
         task' = "completed" <=> task = "completed",
         task \in {"failed", "cancelled"} => task' \in {"failed", "cancelled"} \/ wf.rev < wf'.rev,
         budget' \in [faults : Nat, retries : Nat, renewed : Nat, undone : BOOLEAN],
         budget'.renewed = budget.renewed, budget'.undone = budget.undone,
         pc' \in [Processes -> PcStates], loc' \in [Processes -> LocType],
         \A q \in Processes : \/ pc'[q] = pc[q] /\ loc'[q] = loc[q]
                              \/ pc'[q] \notin BoundPcs /\ ~Boots(q)'
  PROVE  AInv'
<1>1. Types'
  BY Known DEF Types
<1>2. \A j \in Intents : (Newest(j)' <=> Newest(j)) /\ (Spent(j)' <=> Spent(j))
  BY DEF Newest, Spent
<1>3. Line'
  <2>1. \A j \in Intents : intent[j].rev <= wf'.rev
    BY Known DEF AInv, Line
  <2> QED BY <2>1 DEF AInv, Line
<1>4. Renewal'
  <2>1. budget.renewed > 0 => wf.agent /\ job.status # "none" /\ intent[1].rev < wf.rev
    BY DEF AInv, Renewal
  <2>2. intent[1].rev \in Nat /\ wf.rev \in Nat
    BY Known, IntentsAre
  <2> QED BY <2>1, <2>2 DEF Renewal
<1>5. JobRow'
  <2>1. job.status # "none" => job.intent \in Intents /\ intent[job.intent].status \in Passed
    BY DEF AInv, JobRow
  <2>2. job.status = "succeeded" /\ ~budget.undone => run[job.intent].status = "completed"
    BY DEF AInv, JobRow
  <2>3. job.status # "none" /\ Newest(job.intent) => Newest(job.intent)'
    BY <1>2, <2>1 DEF Newest
  <2> QED BY <2>1, <2>2, <2>3 DEF JobRow, Newest
<1>6. ASSUME NEW q \in Processes PROVE ThreadSound(q)'
  <2>1. CASE pc'[q] \notin BoundPcs /\ ~Boots(q)'
    BY <2>1, ThreadRests
  <2>2. CASE pc'[q] = pc[q] /\ loc'[q] = loc[q]
    <3>1. Boots(q) /\ Undeliverable(loc[q].intent) => Undeliverable(loc[q].intent)'
      <4> SUFFICES ASSUME Boots(q), Undeliverable(loc[q].intent) PROVE Undeliverable(loc[q].intent)'
        OBVIOUS
      <4>1. PICK j \in Intents : j = loc[q].intent
        BY BootingSpent
      <4>2. intent[j].rev \in Nat /\ intent[j].rev <= wf.rev /\ wf.rev \in Nat
        BY Known DEF AInv, Line
      <4>3. intent[j].status # "completed"
            /\ (task \in {"failed", "cancelled"} \/ intent[j].rev < wf.rev \/ intent[j].status = "failed")
        BY <4>1 DEF Undeliverable
      <4>4. task' \in {"failed", "cancelled"} \/ intent[j].rev < wf'.rev \/ intent[j].status = "failed"
        BY <4>2, <4>3
      <4> QED BY <2>2, <4>1, <4>3, <4>4 DEF Undeliverable
    <3> QED BY <2>2, <3>1, Known, OthersStay
  <2> QED BY <2>1, <2>2
<1>7. \A q \in Processes : Active(q)' => Active(q) /\ loc'[q].intent = loc[q].intent
  BY DEF Active, BoundPcs
<1>8. Solo'
  <2> SUFFICES ASSUME budget.renewed = 0
               PROVE  (/\ \A x, y \in Processes : Active(x) /\ Active(y) => x = y
                       /\ \A x \in Processes : Active(x) =>
                             /\ Newest(loc[x].intent)
                             /\ \/ intent[loc[x].intent].status = "executing"
                                \/ intent[loc[x].intent].status = "failed" /\ intent[loc[x].intent].error = "other")'
    BY DEF Solo
  <2>1. ASSUME NEW x \in Processes, Active(x)'
        PROVE  (/\ Newest(loc[x].intent)
                /\ \/ intent[loc[x].intent].status = "executing"
                   \/ intent[loc[x].intent].status = "failed" /\ intent[loc[x].intent].error = "other")'
    <3>1. PICK j \in Intents : j = loc[x].intent
      BY <1>7, <2>1, ActiveSpends
    <3>2. Newest(j) /\ (intent[j].status = "executing" \/ (intent[j].status = "failed" /\ intent[j].error = "other"))
      BY <1>7, <2>1, <3>1 DEF AInv, Solo
    <3>3. loc'[x].intent = j
      BY <1>7, <2>1, <3>1
    <3> QED BY <1>2, <3>2, <3>3 DEF Newest
  <2>2. \A x, y \in Processes : Active(x)' /\ Active(y)' => x = y
    BY <1>7 DEF AInv, Solo
  <2> QED BY <2>1, <2>2
<1>9. Counted'
  <2>1. \A j \in Intents : AboutToStart(j)' \subseteq AboutToStart(j)
    BY DEF AboutToStart, BoundPcs, ActivePcs
  <2>2. \A j \in Intents : Unspent(j)' = Unspent(j) /\ Unspent(j) \in Nat
    BY DEF Unspent
  <2> QED BY <2>1, <2>2, Known, CountStays
<1>10. Runs'
  BY <1>2, <1>7 DEF AInv, Runs
<1> QED BY <1>1, <1>3, <1>4, <1>5, <1>6, <1>8, <1>9, <1>10 DEF AInv

LEMMA WorkflowRow ==
  ASSUME wf \in WfType, NEW status \in {"running", "blocked", "failed", "cancelled"}, NEW cancel \in BOOLEAN,
         NEW rev \in Nat, wf' = [wf EXCEPT !.status = status, !.cancel = cancel, !.rev = rev]
  PROVE  wf' \in WfType /\ wf'.status = status /\ wf'.agent = wf.agent /\ wf'.cancel = cancel /\ wf'.rev = rev
BY DEF WfType

LEMMA WorkflowMoves ==
  ASSUME AInv, NEW status \in {"running", "blocked", "failed", "cancelled"}, WorkflowTo(status)
  PROVE  wf' \in WfType /\ wf'.status = status /\ wf'.agent = wf.agent /\ wf'.cancel = wf.cancel
         /\ wf'.rev = wf.rev + 1 /\ wf'.rev \in Nat /\ wf.rev < wf'.rev
<1>1. wf \in WfType /\ wf.rev \in Nat /\ wf.cancel \in BOOLEAN
  BY Known DEF WfType
<1>2. wf' = [wf EXCEPT !.status = status, !.cancel = wf.cancel, !.rev = wf.rev + 1]
  BY <1>1 DEF WorkflowTo, WfType
<1>3. wf.rev + 1 \in Nat /\ wf.rev < wf.rev + 1
  BY <1>1
<1> QED BY <1>1, <1>2, <1>3, WorkflowRow

LEMMA EndedJob ==
  ASSUME AInv, NEW status \in {"queued", "failed", "cancelled"}, NEW attempt \in Nat, NEW error \in Errors,
         job' = [EndJob(status) EXCEPT !.attempt = attempt, !.error = error]
  PROVE  /\ job' \in JobType /\ job'.intent = job.intent /\ job'.status = status
         /\ (job'.holder \in Processes <=> job'.status = "leased") /\ (job'.live => job'.status = "leased")
         /\ \A q \in Processes : ~Holds(q)'
<1>1. job \in JobType
  BY Known
<1>2. /\ job' \in JobType /\ job'.intent = job.intent /\ job'.status = status /\ job'.holder = NoProcess
      /\ job'.live = FALSE
  BY <1>1 DEF EndJob, JobType
<1> QED BY <1>2, IntentsAre DEF Holds

LEMMA SettleKeeps == ASSUME AInv, NEW p \in Processes, Settle(p) PROVE AInv'
<1>1. Done(p) /\ UNCHANGED <<intent, run, exch, disk, starts, budget>>
  BY DEF Settle
<1>2. OnlyMoves(p) /\ pc'[p] = "idle"
  BY <1>1, Known, DoneIs
<1>3. \A q \in Processes : (pc'[q] = pc[q] /\ loc'[q] = loc[q]) \/ (pc'[q] \notin BoundPcs /\ ~Boots(q)')
  BY <1>2 DEF OnlyMoves, BoundPcs, ActivePcs, Boots
<1>4. /\ budget' \in [faults : Nat, retries : Nat, renewed : Nat, undone : BOOLEAN]
      /\ task \in TaskStatuses /\ job \in JobType
      /\ (job.holder \in Processes <=> job.status = "leased") /\ (job.live => job.status = "leased")
  BY <1>1, Known DEF Types
<1>5. CASE ~Holds(p)
  <2>1. UNCHANGED <<wf, task, job>>
    BY <1>5 DEF Settle
  <2>2. job.status \in {"queued", "leased"} \/ wf.status = "failed" => job.status # "none" /\ Newest(job.intent)
    BY DEF AInv, JobRow
  <2>3. task = "waiting-approval" => job.status \notin {"queued", "leased"}
    BY DEF AInv, JobRow
  <2>4. \A q \in Processes : Holds(q)' => Holds(q)
    BY <2>1 DEF Holds
  <2>5. wf' \in WfType /\ wf'.rev \in Nat /\ wf.rev <= wf'.rev
    BY <2>1, Known
  <2> QED BY <1>1, <1>2, <1>3, <1>4, <2>1, <2>2, <2>3, <2>4, <2>5, RowsMove DEF OnlyMoves
<1>6. CASE Holds(p)
  <2>1. job.status = "leased" /\ Newest(job.intent) /\ task # "waiting-approval"
    BY <1>6, Known DEF AInv, JobRow
  <2>2. job.attempt \in Nat /\ job.error \in Errors /\ job.attempt + 1 \in Nat
    BY <1>4 DEF JobType
  <2>3. CASE wf.cancel
    <3>1. WorkflowTo("cancelled") /\ task' = CancelTask /\ job' = EndJob("cancelled")
      BY <1>6, <2>3 DEF Settle
    <3>2. job' = [EndJob("cancelled") EXCEPT !.attempt = job.attempt, !.error = job.error]
      BY <1>4, <3>1 DEF EndJob, JobType
    <3>3. /\ task' \in TaskStatuses /\ (task' = "completed" <=> task = "completed") /\ task' # "waiting-approval"
      BY <1>4, <2>1, <3>1 DEF CancelTask, CancellableTask, TaskStatuses
    <3>4. /\ wf' \in WfType /\ wf'.status = "cancelled" /\ wf'.agent = wf.agent
          /\ wf'.rev \in Nat /\ wf.rev < wf'.rev /\ wf.rev <= wf'.rev
      BY <3>1, Known, WorkflowMoves
    <3>5. /\ job' \in JobType /\ job'.intent = job.intent /\ job'.status = "cancelled"
          /\ (job'.holder \in Processes <=> job'.status = "leased") /\ (job'.live => job'.status = "leased")
          /\ \A q \in Processes : ~Holds(q)'
      BY <2>2, <3>2, EndedJob
    <3> QED BY <1>1, <1>2, <1>3, <1>4, <2>1, <3>3, <3>4, <3>5, RowsMove DEF OnlyMoves
  <2>4. CASE ~wf.cancel /\ loc[p].out = "expired" /\ job.attempt < MaxAttempts
    <3>1. /\ task' = (IF task = "running" THEN "queued" ELSE task) /\ UNCHANGED wf
          /\ job' = [EndJob("queued") EXCEPT !.attempt = @ + 1]
      BY <1>6, <2>4 DEF Settle
    <3>2. job' = [EndJob("queued") EXCEPT !.attempt = job.attempt + 1, !.error = job.error]
      BY <1>4, <3>1 DEF EndJob, JobType
    <3>3. /\ task' \in TaskStatuses /\ (task' = "completed" <=> task = "completed") /\ task' # "waiting-approval"
          /\ task \in {"failed", "cancelled"} => task' \in {"failed", "cancelled"}
      BY <1>4, <2>1, <3>1 DEF CancellableTask, TaskStatuses
    <3>4. wf' \in WfType /\ wf'.rev \in Nat /\ wf.rev <= wf'.rev
      BY <3>1, Known
    <3>5. /\ job' \in JobType /\ job'.intent = job.intent /\ job'.status = "queued"
          /\ (job'.holder \in Processes <=> job'.status = "leased") /\ (job'.live => job'.status = "leased")
          /\ \A q \in Processes : ~Holds(q)'
      BY <2>2, <3>2, EndedJob
    <3> QED BY <1>1, <1>2, <1>3, <1>4, <2>1, <3>1, <3>3, <3>4, <3>5, RowsMove DEF OnlyMoves
  <2>5. CASE ~wf.cancel /\ ~(loc[p].out = "expired" /\ job.attempt < MaxAttempts)
    <3> DEFINE e == IF loc[p].out = "expired" THEN "timeout" ELSE "other"
               s == IF loc[p].out = "unknown" THEN "blocked" ELSE "failed"
    <3>1. /\ task' = (IF task \in {"queued", "running"} THEN "failed" ELSE task)
          /\ job' = [EndJob("failed") EXCEPT !.error = e] /\ WorkflowTo(s)
      BY <1>6, <2>5 DEF Settle
    <3>2. e \in Errors /\ s \in {"running", "blocked", "failed", "cancelled"}
      BY DEF Errors
    <3> HIDE DEF e, s
    <3>3. job' = [EndJob("failed") EXCEPT !.attempt = job.attempt, !.error = e]
      BY <1>4, <3>1 DEF EndJob, JobType
    <3>4. /\ task' \in TaskStatuses /\ (task' = "completed" <=> task = "completed") /\ task' # "waiting-approval"
      BY <1>4, <2>1, <3>1 DEF CancellableTask, TaskStatuses
    <3>5. /\ wf' \in WfType /\ wf'.agent = wf.agent
          /\ wf'.rev \in Nat /\ wf.rev < wf'.rev /\ wf.rev <= wf'.rev
      BY <3>1, <3>2, Known, WorkflowMoves
    <3>6. /\ job' \in JobType /\ job'.intent = job.intent /\ job'.status = "failed"
          /\ (job'.holder \in Processes <=> job'.status = "leased") /\ (job'.live => job'.status = "leased")
          /\ \A q \in Processes : ~Holds(q)'
      BY <2>2, <3>2, <3>3, EndedJob
    <3> QED BY <1>1, <1>2, <1>3, <1>4, <2>1, <3>4, <3>5, <3>6, RowsMove DEF OnlyMoves
  <2> QED BY <2>3, <2>4, <2>5
<1> QED BY <1>5, <1>6

LEMMA RequestCancelKeeps == ASSUME AInv, RequestCancel PROVE AInv'
<1>1. /\ UNCHANGED <<intent, run, exch, disk, starts, budget, pc, loc>>
  BY DEF RequestCancel, CancelRest
<1>2. /\ budget' \in [faults : Nat, retries : Nat, renewed : Nat, undone : BOOLEAN]
      /\ task \in TaskStatuses /\ job \in JobType /\ wf \in WfType /\ wf.rev \in Nat
      /\ (job.holder \in Processes <=> job.status = "leased") /\ (job.live => job.status = "leased")
      /\ pc' \in [Processes -> PcStates] /\ loc' \in [Processes -> LocType]
  BY <1>1, Known DEF Types
<1>3. /\ job.status \in {"queued", "leased"} \/ wf.status = "failed" => job.status # "none" /\ Newest(job.intent)
      /\ task = "waiting-approval" => job.status \notin {"queued", "leased"}
  BY DEF AInv, JobRow
<1>4. CASE job.status = "leased"
  <2>1. wf' = [wf EXCEPT !.cancel = TRUE, !.rev = @ + 1] /\ UNCHANGED <<task, job>>
    BY <1>4 DEF RequestCancel
  <2>2. /\ wf' \in WfType /\ wf'.status = wf.status /\ wf'.agent = wf.agent /\ wf'.rev = wf.rev + 1
    <3>1. wf.status \in {"running", "blocked", "failed", "cancelled"} /\ wf.rev + 1 \in Nat
      BY <1>2 DEF WfType
    <3>2. wf' = [wf EXCEPT !.status = wf.status, !.cancel = TRUE, !.rev = wf.rev + 1]
      BY <1>2, <2>1 DEF WfType
    <3> QED BY <1>2, <3>1, <3>2, WorkflowRow
  <2>3. wf'.rev \in Nat /\ wf.rev <= wf'.rev
    BY <1>2, <2>2
  <2>4. \A q \in Processes : Holds(q)' => Holds(q)
    BY <2>1 DEF Holds
  <2> QED BY <1>1, <1>2, <1>3, <2>1, <2>2, <2>3, <2>4, RowsMove
<1>5. CASE job.status # "leased"
  <2>1. /\ wf' = [wf EXCEPT !.status = "cancelled", !.cancel = TRUE, !.rev = @ + (IF wf.cancel THEN 1 ELSE 2)]
        /\ job' = (IF job.status = "queued" THEN EndJob("cancelled") ELSE job) /\ task' = CancelTask
    BY <1>5 DEF RequestCancel, CancelRest
  <2>2. /\ wf' \in WfType /\ wf'.status = "cancelled" /\ wf'.agent = wf.agent /\ wf.rev < wf'.rev
        /\ wf'.rev \in Nat /\ wf.rev <= wf'.rev
    <3>1. PICK n \in {1, 2} : n = IF wf.cancel THEN 1 ELSE 2
      OBVIOUS
    <3>2. wf' = [wf EXCEPT !.status = "cancelled", !.cancel = TRUE, !.rev = wf.rev + n]
      BY <2>1, <3>1
    <3>3. wf.rev + n \in Nat /\ wf.rev < wf.rev + n
      BY <1>2
    <3>4. wf' \in WfType /\ wf'.status = "cancelled" /\ wf'.agent = wf.agent /\ wf'.rev = wf.rev + n
      BY <1>2, <3>2, <3>3, WorkflowRow
    <3> QED BY <1>2, <3>3, <3>4
  <2>3. /\ task' \in TaskStatuses /\ (task' = "completed" <=> task = "completed") /\ task' # "waiting-approval"
    BY <1>2, <2>1 DEF CancelTask, CancellableTask, TaskStatuses
  <2>4. /\ job' \in JobType /\ job'.intent = job.intent
        /\ (job'.holder \in Processes <=> job'.status = "leased") /\ (job'.live => job'.status = "leased")
        /\ \A q \in Processes : ~Holds(q)'
        /\ job'.status \notin {"queued", "leased"} /\ (job.status # "none" <=> job'.status # "none")
        /\ job'.status = "succeeded" => job.status = "succeeded"
    <3>1. CASE job.status = "queued"
      <4>1. job' = [EndJob("cancelled") EXCEPT !.attempt = job.attempt, !.error = job.error]
        BY <1>2, <2>1, <3>1 DEF EndJob, JobType
      <4>2. job.attempt \in Nat /\ job.error \in Errors
        BY <1>2 DEF JobType
      <4> QED BY <3>1, <4>1, <4>2, EndedJob
    <3>2. CASE job.status # "queued"
      BY <1>2, <1>5, <2>1, <3>2 DEF Holds
    <3> QED BY <3>1, <3>2
  <2> QED BY <1>1, <1>2, <1>3, <2>2, <2>3, <2>4, RowsMove
<1> QED BY <1>4, <1>5

LEMMA RetryKeeps == ASSUME AInv, Retry PROVE AInv'
<1>1. /\ UNCHANGED <<intent, run, exch, disk, starts, pc, loc>> /\ wf.status = "failed" /\ job.status = "failed"
      /\ task = "failed" /\ task' = "queued" /\ WorkflowTo("running")
      /\ job' = [job EXCEPT !.status = "queued", !.attempt = @ + 1, !.error = "none"]
      /\ budget' = [budget EXCEPT !.retries = @ + 1]
  BY DEF Retry
<1>2. /\ budget' \in [faults : Nat, retries : Nat, renewed : Nat, undone : BOOLEAN]
      /\ budget'.renewed = budget.renewed /\ budget'.undone = budget.undone
  BY <1>1, Known DEF Types
<1>3. /\ wf' \in WfType /\ wf'.status = "running" /\ wf'.agent = wf.agent
      /\ wf'.rev \in Nat /\ wf.rev < wf'.rev /\ wf.rev <= wf'.rev
  BY <1>1, Known, WorkflowMoves
<1>4. job \in JobType /\ (job.holder \in Processes <=> job.status = "leased") /\ (job.live => job.status = "leased")
  BY Known DEF Types
<1>5. /\ job' \in JobType /\ job'.status = "queued" /\ job'.intent = job.intent /\ job'.holder = job.holder
      /\ job'.live = job.live
  <2>1. job.attempt + 1 \in Nat /\ "none" \in Errors
    BY <1>4 DEF JobType, Errors
  <2>2. job' = [job EXCEPT !.status = "queued", !.attempt = job.attempt + 1, !.error = "none"]
    BY <1>1
  <2> QED BY <1>4, <2>1, <2>2 DEF JobType
<1>6. job.status # "none" /\ Newest(job.intent)
  BY <1>1 DEF AInv, JobRow
<1>7. \A q \in Processes : ~Holds(q)'
  BY <1>5 DEF Holds
<1>8. pc' \in [Processes -> PcStates] /\ loc' \in [Processes -> LocType] /\ task' \in TaskStatuses
  BY <1>1, Known DEF Types, TaskStatuses, CancellableTask
<1> QED BY <1>1, <1>2, <1>3, <1>4, <1>5, <1>6, <1>7, <1>8, RowsMove

-----------------------------------------------------------------------------
(* An intent is proposed, decided or set back. *)

LEMMA IntentMoves ==
  ASSUME AInv, NEW k \in Intents, UNCHANGED <<run, exch, disk, starts>>, Types', Line', Renewal', JobRow',
         \A j \in Intents \ {k} : intent'[j] = intent[j],
         intent'[k].status \in {"waiting-approval", "approved", "rejected"},
         run[k].status # "none" => Spent(k)' /\ intent'[k].rev = intent[k].rev,
         \A q \in Processes : Holds(q)' => Holds(q) /\ job'.intent = job.intent,
         budget.renewed <= budget'.renewed, budget'.renewed \in Nat, budget'.undone = budget.undone,
         budget'.renewed = 0 => \A q \in Processes : ~Active(q)',
         \A j \in Intents : run[j].status # "completed",
         task' # "completed",
         Unspent(k)' <= Unspent(k) + (budget'.renewed - budget.renewed),
         \A q \in Processes : \/ pc'[q] = pc[q] /\ loc'[q] = loc[q]
                              \/ pc'[q] \notin BoundPcs /\ ~Boots(q)',
         \A j \in Intents : Spent(j) /\ Undeliverable(j) => Undeliverable(j)'
  PROVE  AInv'
<1>1. budget.renewed \in Nat
  BY Known
<1>2. \A j \in Intents : run[j].status # "none" => Spent(j)' /\ intent'[j].rev = intent[j].rev
  <2> SUFFICES ASSUME NEW j \in Intents \ {k}, run[j].status # "none" PROVE Spent(j)' /\ intent'[j].rev = intent[j].rev
    OBVIOUS
  <2>1. Spent(j) /\ intent'[j] = intent[j]
    BY DEF AInv, Runs
  <2> QED BY <1>1, <2>1 DEF Spent
<1>3. ASSUME NEW q \in Processes PROVE ThreadSound(q)'
  <2>1. CASE pc'[q] \notin BoundPcs /\ ~Boots(q)'
    BY <2>1, ThreadRests
  <2>2. CASE pc'[q] = pc[q] /\ loc'[q] = loc[q]
    <3>1. Boots(q) /\ Undeliverable(loc[q].intent) => Undeliverable(loc[q].intent)'
      <4> SUFFICES ASSUME Boots(q), Undeliverable(loc[q].intent) PROVE Undeliverable(loc[q].intent)'
        OBVIOUS
      <4>1. PICK j \in Intents : j = loc[q].intent /\ Spent(j)
        BY BootingSpent
      <4>2. Undeliverable(j)'
        BY <4>1
      <4> QED BY <2>2, <4>1, <4>2 DEF Undeliverable
    <3> QED BY <1>2, <2>2, <3>1, Known, OthersStay
  <2> QED BY <2>1, <2>2
<1>4. Solo'
  BY DEF Solo
<1>5. Counted'
  <2>1. \A j \in Intents : AboutToStart(j)' \subseteq AboutToStart(j)
    BY DEF AboutToStart, BoundPcs, ActivePcs
  <2>2. \A j \in Intents \ {k} : Unspent(j)' = Unspent(j) /\ Unspent(j) \in Nat
    BY DEF Unspent
  <2>3. \A j \in Intents \ {k} : Unspent(j)' <= Unspent(j) + (budget'.renewed - budget.renewed)
    BY <1>1, <2>2
  <2> QED BY <2>1, <2>3, CountStays
<1>6. Runs'
  <2>1. \A j \in Intents : /\ starts[j] > 0 => run'[j].status # "none"
                           /\ intent'[j].status = "executing" => run'[j].status = "running"
                           /\ intent'[j].status # "completed" /\ run'[j].status # "completed"
    BY DEF AInv, Runs
  <2> QED BY <1>2, <2>1 DEF Runs
<1> QED BY <1>3, <1>4, <1>5, <1>6 DEF AInv

\* The newest intent exists, and the snapshot shows it.
LEMMA CurrentIsNewest == ASSUME Types, Line PROVE Current \in Intents /\ Newest(Current)
<1> DEFINE S == {n \in Nat : \E j \in Intents : n = (MaxRepairs + 1) - j /\ intent[j].status # "none"}
<1>1. MaxRepairs \in S /\ S \subseteq Nat
  BY IntentsAre DEF Line
<1>2. PICK n \in S : \A m \in S : ~(<<m, n>> \in OpToRel(<, Nat))
  BY <1>1, NatLessThanWellFounded, WFMin
<1>3. PICK i \in Intents : n = (MaxRepairs + 1) - i /\ intent[i].status # "none"
  OBVIOUS
<1>4. ASSUME NEW j \in Intents, j > i, intent[j].status # "none" PROVE FALSE
  <2>1. PICK m \in Nat : m = (MaxRepairs + 1) - j
    BY IntentsAre
  <2>2. m \in S /\ m < n
    BY <1>3, <1>4, <2>1, IntentsAre
  <2> QED BY <1>2, <2>2 DEF OpToRel
<1>5. Newest(i)
  BY <1>3, <1>4 DEF Newest
<1> QED BY <1>5 DEF Current, Newest

\* While the newest intent waits for its decision nobody executes and nothing has ended well.
LEMMA WaitingIsQuiet ==
  ASSUME AInv, NEW i \in Intents, Newest(i), intent[i].status = "waiting-approval"
  PROVE  /\ run[i].status = "none" /\ ~Spent(i)
         /\ \A j \in Intents : run[j].status # "completed"
         /\ budget.renewed = 0 => \A q \in Processes : ~Active(q)
<1>1. run[i].status = "none" /\ ~Spent(i)
  BY DEF AInv, Runs, Spent
<1>2. \A j \in Intents : run[j].status # "completed"
  <2> SUFFICES ASSUME NEW j \in Intents, run[j].status = "completed" PROVE FALSE
    OBVIOUS
  <2>1. Newest(j)
    BY DEF AInv, Runs
  <2> QED BY <1>1, <2>1, NewestIsOne
<1>3. ASSUME budget.renewed = 0, NEW q \in Processes, Active(q) PROVE FALSE
  <2>1. PICK j \in Intents : j = loc[q].intent
    BY <1>3, ActiveSpends
  <2>2. Newest(j) /\ intent[j].status \in {"executing", "failed"}
    BY <1>3, <2>1 DEF AInv, Solo
  <2> QED BY <2>2, NewestIsOne
<1> QED BY <1>1, <1>2, <1>3

LEMMA DecidedRow ==
  ASSUME AInv, NEW i \in Intents, Newest(i), intent[i].status = "waiting-approval",
         NEW status \in {"approved", "rejected"}, intent' = [intent EXCEPT ![i].status = status],
         wf' \in WfType, wf.rev <= wf'.rev, wf'.agent = wf.agent
  PROVE  /\ intent' \in [Intents -> IntentType] /\ intent'[i].status = status /\ intent'[i].rev = intent[i].rev
         /\ \A j \in Intents \ {i} : intent'[j] = intent[j]
         /\ \A j \in Intents : Newest(j)' <=> Newest(j)
         /\ \A j \in Intents : intent[j].status \in Passed => intent'[j].status \in Passed
         /\ Line'
<1> DEFINE row == [intent[i] EXCEPT !.status = status]
<1>1. intent[i] \in IntentType /\ intent \in [Intents -> IntentType]
  BY Known DEF Types
<1>2. row \in IntentType /\ row.status = status /\ row.rev = intent[i].rev
  BY <1>1 DEF IntentType, IntentStatuses
<1>3. intent' = [intent EXCEPT ![i] = row]
  BY <1>1
<1> HIDE DEF row
<1>4. /\ intent' \in [Intents -> IntentType] /\ intent'[i].status = status /\ intent'[i].rev = intent[i].rev
      /\ \A j \in Intents \ {i} : intent'[j] = intent[j]
  BY <1>1, <1>2, <1>3
<1>5. \A j \in Intents : /\ intent'[j].status = "none" <=> intent[j].status = "none"
                         /\ intent'[j].status = "failed" <=> intent[j].status = "failed"
                         /\ intent'[j].rev = intent[j].rev
  BY <1>4
<1>6. \A j \in Intents : Newest(j)' <=> Newest(j)
  BY <1>5 DEF Newest
<1>7. \A j \in Intents : intent[j].status \in Passed => intent'[j].status \in Passed
  BY <1>4 DEF Passed
<1>8. \A j \in Intents : intent[j].rev \in Nat /\ wf.rev \in Nat /\ wf'.rev \in Nat /\ intent[j].rev <= wf.rev
  BY Known DEF AInv, Line, WfType
<1>9. \A j \in Intents : intent'[j].rev <= wf'.rev
  BY <1>5, <1>8
<1>10. Line'
  BY <1>5, <1>9, IntentsAre DEF AInv, Line
<1> QED BY <1>4, <1>6, <1>7, <1>10

LEMMA ApproveKeeps == ASSUME AInv, Approve PROVE AInv'
<1>1. PICK i \in Intents : i = Current /\ Newest(i)
  BY CurrentIsNewest DEF AInv
<1>2. /\ UNCHANGED <<wf, run, exch, disk, pc, loc, starts, budget>>
      /\ intent[i].status = "waiting-approval" /\ intent' = [intent EXCEPT ![i].status = "approved"]
      /\ task = "waiting-approval" /\ task' = "queued"
      /\ job' = [intent |-> i, status |-> "queued", holder |-> NoProcess,
                 live |-> FALSE, attempt |-> 1, error |-> "none"]
  BY <1>1 DEF Approve
<1>3. /\ intent' \in [Intents -> IntentType] /\ intent'[i].status = "approved" /\ intent'[i].rev = intent[i].rev
      /\ \A j \in Intents \ {i} : intent'[j] = intent[j]
      /\ \A j \in Intents : Newest(j)' <=> Newest(j)
      /\ \A j \in Intents : intent[j].status \in Passed => intent'[j].status \in Passed
      /\ Line'
  <2>1. wf' \in WfType /\ wf.rev <= wf'.rev /\ wf'.agent = wf.agent
    BY <1>2, Known
  <2> QED BY <1>1, <1>2, <2>1, DecidedRow
<1>4. /\ job' \in JobType /\ job'.intent = i /\ job'.status = "queued" /\ job'.holder \notin Processes /\ ~job'.live
  BY <1>2, IntentsAre DEF JobType, Errors
<1>5. Types'
  BY <1>2, <1>3, <1>4, Known DEF Types, TaskStatuses, CancellableTask
<1>6. /\ run[i].status = "none" /\ ~Spent(i)
      /\ \A j \in Intents : run[j].status # "completed"
      /\ budget.renewed = 0 => \A q \in Processes : ~Active(q)
  BY <1>1, <1>2, WaitingIsQuiet
<1>7. Renewal'
  <2>1. intent'[1].rev = intent[1].rev
    BY <1>3, IntentsAre
  <2> QED BY <1>2, <1>4, <2>1 DEF AInv, Renewal
<1>8. JobRow'
  BY <1>1, <1>2, <1>3, <1>4, Known DEF JobRow, Passed, Newest
<1>9. \A q \in Processes : ~Holds(q)' /\ (Active(q)' <=> Active(q))
  BY <1>2, <1>4 DEF Holds, Active
<1>10. Unspent(i)' <= Unspent(i) + (budget'.renewed - budget.renewed)
  <2>1. Unspent(i)' = 1 /\ Unspent(i) = 1 /\ budget'.renewed = budget.renewed /\ budget.renewed \in Nat
    BY <1>2, <1>3, Known DEF Unspent
  <2> QED BY <2>1
<1>11. \A j \in Intents : Spent(j) /\ Undeliverable(j) => Undeliverable(j)'
  BY <1>2, <1>3, <1>6 DEF Undeliverable
<1>12. \A q \in Processes : pc'[q] = pc[q] /\ loc'[q] = loc[q]
  BY <1>2
<1> QED BY <1>2, <1>3, <1>5, <1>6, <1>7, <1>8, <1>9, <1>10, <1>11, <1>12, Known, IntentMoves

LEMMA RejectKeeps == ASSUME AInv, Reject PROVE AInv'
<1>1. PICK i \in Intents : i = Current /\ Newest(i)
  BY CurrentIsNewest DEF AInv
<1>2. /\ UNCHANGED <<job, run, exch, disk, pc, loc, starts, budget>> /\ WorkflowTo("blocked")
      /\ intent[i].status = "waiting-approval" /\ intent' = [intent EXCEPT ![i].status = "rejected"]
      /\ task = "waiting-approval" /\ task' = "blocked"
  BY <1>1 DEF Reject
<1>3. /\ wf' \in WfType /\ wf'.status = "blocked" /\ wf'.agent = wf.agent
      /\ wf'.rev \in Nat /\ wf.rev < wf'.rev /\ wf.rev <= wf'.rev
  BY <1>2, Known, WorkflowMoves
<1>4. /\ intent' \in [Intents -> IntentType] /\ intent'[i].status = "rejected" /\ intent'[i].rev = intent[i].rev
      /\ \A j \in Intents \ {i} : intent'[j] = intent[j]
      /\ \A j \in Intents : Newest(j)' <=> Newest(j)
      /\ \A j \in Intents : intent[j].status \in Passed => intent'[j].status \in Passed
      /\ Line'
  BY <1>1, <1>2, <1>3, DecidedRow
<1>5. Types'
  BY <1>2, <1>3, <1>4, Known DEF Types, TaskStatuses, CancellableTask
<1>6. /\ run[i].status = "none" /\ ~Spent(i)
      /\ \A j \in Intents : run[j].status # "completed"
      /\ budget.renewed = 0 => \A q \in Processes : ~Active(q)
  BY <1>1, <1>2, WaitingIsQuiet
<1>7. \A j \in Intents : intent[j].rev \in Nat /\ wf.rev \in Nat /\ intent'[j].rev = intent[j].rev
  BY <1>4, Known
<1>8. Renewal'
  <2>1. budget.renewed > 0 => wf.agent /\ job.status # "none" /\ intent[1].rev < wf.rev
    BY DEF AInv, Renewal
  <2>2. budget.renewed > 0 => intent'[1].rev < wf'.rev
    BY <1>3, <1>7, <2>1, IntentsAre
  <2> QED BY <1>2, <1>3, <2>1, <2>2 DEF Renewal
<1>9. JobRow'
  <2>1. job.status # "none" => job.intent \in Intents /\ intent[job.intent].status \in Passed
    BY DEF AInv, JobRow
  <2>2. job.status \notin {"queued", "leased"} /\ ~(job.status = "succeeded" /\ ~budget.undone)
    BY <1>2, <1>6, <2>1 DEF AInv, JobRow
  <2>3. job.status # "none" => intent'[job.intent].status \in Passed
    BY <1>4, <2>1
  <2> QED BY <1>2, <1>3, <2>1, <2>2, <2>3 DEF JobRow
<1>10. \A q \in Processes : (Holds(q)' => Holds(q) /\ job'.intent = job.intent) /\ (Active(q)' <=> Active(q))
  BY <1>2 DEF Holds, Active
<1>11. Unspent(i)' <= Unspent(i) + (budget'.renewed - budget.renewed)
  <2>1. Unspent(i)' = 0 /\ Unspent(i) = 1 /\ budget'.renewed = budget.renewed /\ budget.renewed \in Nat
    BY <1>2, <1>4, Known DEF Unspent
  <2> QED BY <2>1
<1>12. \A j \in Intents : Spent(j) /\ Undeliverable(j) => Undeliverable(j)'
  <2> SUFFICES ASSUME NEW j \in Intents, Spent(j), Undeliverable(j) PROVE Undeliverable(j)'
    OBVIOUS
  <2>1. intent[j].status # "completed" /\ (intent[j].rev < wf.rev \/ intent[j].status = "failed") /\ j # i
    BY <1>2, <1>6 DEF Undeliverable
  <2>2. intent'[j] = intent[j] /\ (intent[j].rev < wf.rev => intent'[j].rev < wf'.rev)
    BY <1>3, <1>4, <1>7, <2>1
  <2> QED BY <2>1, <2>2 DEF Undeliverable
<1>13. \A q \in Processes : pc'[q] = pc[q] /\ loc'[q] = loc[q]
  BY <1>2
<1> QED BY <1>2, <1>4, <1>5, <1>6, <1>8, <1>9, <1>10, <1>11, <1>12, <1>13, Known, IntentMoves

\* The failure of the newest intent is shown: a repair is proposed, or the workflow stops.
LEMMA ReportKeeps == ASSUME AInv, NEW p \in Processes, Report(p) PROVE AInv'
<1>0. PICK i \in Intents : i = loc[p].intent /\ (Holds(p) => job.intent = i)
  BY Known DEF Report, ThreadSound, BoundPcs
<1> DEFINE good == /\ Holds(p) /\ WorkflowRuns /\ task = "failed"
                   /\ intent[i].status = "failed" /\ run[i].status = "failed" /\ Readable(i)
<1>1. CASE ~good
  BY <1>0, <1>1, TurnsAway DEF Report, Errors, BoundPcs
<1>2. CASE good
  <2>1. /\ job' = [EndJob("failed") EXCEPT !.error = intent[i].error] /\ Done(p)
        /\ UNCHANGED <<run, exch, disk, starts, budget>>
        /\ IF Repairable(i)
           THEN intent' = [intent EXCEPT ![i + 1] = Proposed(wf.rev)] /\ task' = "waiting-approval" /\ UNCHANGED wf
           ELSE WorkflowTo("blocked") /\ UNCHANGED <<intent, task>>
    BY <1>0, <1>2 DEF Report
  <2>2. job.status = "leased" /\ job.intent = i /\ Newest(i)
    BY <1>0, <1>2, Known
  <2>3. OnlyMoves(p) /\ pc'[p] = "idle"
    BY <2>1, Known, DoneIs
  <2>4. \A q \in Processes : (pc'[q] = pc[q] /\ loc'[q] = loc[q]) \/ (pc'[q] \notin BoundPcs /\ ~Boots(q)')
    BY <2>3 DEF OnlyMoves, BoundPcs, ActivePcs, Boots
  <2>5. job \in JobType /\ job.attempt \in Nat /\ intent[i].error \in Errors
    BY Known DEF JobType, IntentType
  <2>6. job' = [EndJob("failed") EXCEPT !.attempt = job.attempt, !.error = intent[i].error]
    BY <2>1, <2>5 DEF EndJob, JobType
  <2>7. /\ job' \in JobType /\ job'.intent = i /\ job'.status = "failed"
        /\ (job'.holder \in Processes <=> job'.status = "leased") /\ (job'.live => job'.status = "leased")
        /\ \A q \in Processes : ~Holds(q)'
    BY <2>2, <2>5, <2>6, EndedJob
  <2>8. budget' \in [faults : Nat, retries : Nat, renewed : Nat, undone : BOOLEAN]
    BY <2>1, Known DEF Types
  <2>9. CASE ~Repairable(i)
    <3>1. WorkflowTo("blocked") /\ UNCHANGED <<intent, task>>
      BY <2>1, <2>9
    <3>2. /\ wf' \in WfType /\ wf'.status = "blocked" /\ wf'.agent = wf.agent
          /\ wf'.rev \in Nat /\ wf.rev < wf'.rev /\ wf.rev <= wf'.rev
      BY <3>1, Known, WorkflowMoves
    <3>3. task' \in TaskStatuses /\ task' = "failed"
      BY <1>2, <3>1 DEF TaskStatuses, CancellableTask
    <3> QED BY <1>2, <2>1, <2>2, <2>3, <2>4, <2>7, <2>8, <3>1, <3>2, <3>3, RowsMove DEF OnlyMoves
  <2>10. CASE Repairable(i)
    <3>1. PICK k \in Intents : k = i + 1
      <4>1. i \in 1 .. MaxRepairs + 1 /\ i <= MaxRepairs
        BY <2>10, IntentsAre DEF Repairable
      <4> QED BY <4>1, IntentsAre
    <3>2. /\ intent' = [intent EXCEPT ![k] = Proposed(wf.rev)] /\ task' = "waiting-approval" /\ UNCHANGED wf
          /\ ~wf.agent /\ intent[i].error \in {"timeout", "code"}
      BY <2>1, <2>10, <3>1 DEF Repairable
    <3>3. k > i /\ k # i /\ intent[k].status = "none"
      BY <2>2, <3>1, IntentsAre DEF Newest
    <3>4. run[k].status = "none"
      BY <3>3 DEF AInv, Runs, Spent
    <3>5. /\ intent' \in [Intents -> IntentType] /\ intent'[k].status = "waiting-approval" /\ intent'[k].rev = wf.rev
          /\ \A j \in Intents \ {k} : intent'[j] = intent[j]
      <4>1. Proposed(wf.rev) \in IntentType /\ intent \in [Intents -> IntentType]
        BY Known DEF Proposed, IntentType, IntentStatuses, Errors, Types
      <4> HIDE DEF Proposed
      <4>2. intent' \in [Intents -> IntentType] /\ intent'[k] = Proposed(wf.rev)
            /\ \A j \in Intents \ {k} : intent'[j] = intent[j]
        BY <3>2, <4>1
      <4> QED BY <4>2 DEF Proposed
    <3>6. Types'
      BY <2>1, <2>3, <2>7, <3>2, <3>5, Known DEF Types, OnlyMoves, TaskStatuses, CancellableTask
    <3>7. \A j \in Intents : j > k => intent[j].status = "none"
      BY <2>2, <3>1, IntentsAre DEF Newest
    <3>8. \A j \in Intents : j < k => intent[j].status = "failed"
      <4> SUFFICES ASSUME NEW j \in Intents, j < k PROVE intent[j].status = "failed"
        OBVIOUS
      <4>1. j = i \/ j < i
        BY <3>1, IntentsAre
      <4> QED BY <1>2, <4>1 DEF AInv, Line
    <3>9. Line'
      <4>1. intent'[1].status # "none"
        <5>1. intent[1].status # "none"
          BY DEF AInv, Line
        <5> QED BY <3>5, <5>1, IntentsAre
      <4>2. ASSUME NEW a \in Intents, NEW b \in Intents, b < a, intent'[a].status # "none"
            PROVE  intent'[b].status = "failed"
        <5>1. ~(a > k)
          BY <3>5, <3>7, <4>2, IntentsAre
        <5>2. b < k
          BY <4>2, <5>1, IntentsAre
        <5> QED BY <3>5, <3>8, <5>2, IntentsAre
      <4>3. \A j \in Intents : intent'[j].rev <= wf'.rev
        <5>1. wf.rev \in Nat /\ \A j \in Intents : intent[j].rev <= wf.rev
          BY Known DEF AInv, Line
        <5> QED BY <3>2, <3>5, <5>1
      <4> QED BY <3>2, <4>1, <4>2, <4>3 DEF Line
    <3>10. budget.renewed = 0 /\ budget'.renewed = 0
      BY <2>1, <3>2, Known DEF AInv, Renewal
    <3>11. Renewal'
      BY <3>10 DEF Renewal
    <3>12. JobRow'
      <4>1. intent'[i].status \in Passed
        BY <1>2, <3>3, <3>5 DEF Passed
      <4>2. wf'.status = "running"
        BY <1>2, <3>2 DEF WorkflowRuns
      <4> QED BY <2>7, <4>1, <4>2 DEF JobRow
    <3>13. \A j \in Intents : run[j].status # "completed"
      <4> SUFFICES ASSUME NEW j \in Intents, run[j].status = "completed" PROVE FALSE
        OBVIOUS
      <4>1. Newest(j)
        BY DEF AInv, Runs
      <4> QED BY <1>2, <2>2, <4>1, NewestIsOne
    <3>14. \A q \in Processes : ~Active(q)'
      <4>1. ASSUME NEW q \in Processes, Active(q) PROVE FALSE
        <5>1. PICK j \in Intents : j = loc[q].intent
          BY <4>1, ActiveSpends
        <5>2. Newest(j) /\ (intent[j].status = "executing" \/ (intent[j].status = "failed" /\ intent[j].error = "other"))
          BY <3>10, <4>1, <5>1 DEF AInv, Solo
        <5>3. j = i
          BY <2>2, <5>2, NewestIsOne
        <5> QED BY <1>2, <3>2, <5>2, <5>3
      <4> QED BY <2>4, <4>1 DEF Active, BoundPcs
    <3>15. Unspent(k)' <= Unspent(k) + (budget'.renewed - budget.renewed)
      <4>1. Unspent(k)' = 1 /\ Unspent(k) = 1
        BY <3>3, <3>5 DEF Unspent
      <4> QED BY <3>10, <4>1
    <3>16. \A j \in Intents : Spent(j) /\ Undeliverable(j) => Undeliverable(j)'
      <4> SUFFICES ASSUME NEW j \in Intents, Spent(j) PROVE Undeliverable(j)'
        OBVIOUS
      <4>1. intent[j].status # "none"
        BY DEF Spent
      <4>2. ~(j > k) /\ j # k
        BY <3>3, <3>7, <4>1
      <4>3. intent'[j].status = "failed"
        BY <3>1, <3>5, <3>8, <4>2, IntentsAre
      <4> QED BY <4>3 DEF Undeliverable
    <3>17. budget.renewed <= budget'.renewed /\ budget'.renewed \in Nat /\ budget'.undone = budget.undone
      BY <2>1, <3>10
    <3> QED BY <2>1, <2>4, <2>7, <3>2, <3>4, <3>5, <3>6, <3>9, <3>11, <3>12, <3>13, <3>14, <3>15, <3>16, <3>17, IntentMoves
  <2> QED BY <2>9, <2>10
<1> QED BY <1>1, <1>2

LEMMA AgentRetryKeeps == ASSUME AInv, AgentRetry PROVE AInv'
<1>1. /\ wf.agent /\ wf.status \in {"blocked", "failed"} /\ job.status = "failed"
      /\ task = "failed" /\ task' = "queued" /\ WorkflowTo("running")
      /\ intent' = [intent EXCEPT ![job.intent] = Renewed(@)]
      /\ job' = [job EXCEPT !.status = "queued", !.attempt = @ + 1, !.error = "none"]
      /\ budget' = [budget EXCEPT !.retries = @ + 1,
                        !.renewed = @ + (IF intent[job.intent].status = "failed" THEN 1 ELSE 0)]
      /\ UNCHANGED <<run, exch, disk, pc, loc, starts>>
  BY DEF AgentRetry
<1>2. job.intent = 1 /\ Newest(1) /\ intent[1].status \in Passed /\ 1 \in Intents
  <2>1. job.intent \in Intents /\ intent[job.intent].status \in Passed
    BY <1>1 DEF AInv, JobRow
  <2>2. intent[job.intent].status # "none"
    BY <2>1 DEF Passed
  <2> QED BY <1>1, <2>1, <2>2, AgentsIntent DEF AInv
<1>3. /\ wf' \in WfType /\ wf'.status = "running" /\ wf'.agent = wf.agent
      /\ wf'.rev \in Nat /\ wf.rev < wf'.rev /\ wf.rev <= wf'.rev
  <2>1. WorkflowTo("running")
    BY <1>1
  <2> QED BY <2>1, Known, WorkflowMoves
<1>4. job \in JobType /\ (job.holder \in Processes <=> job.status = "leased") /\ (job.live => job.status = "leased")
      /\ budget \in [faults : Nat, retries : Nat, renewed : Nat, undone : BOOLEAN]
  BY Known DEF Types
<1>5. /\ job' \in JobType /\ job'.status = "queued" /\ job'.intent = job.intent /\ job'.holder = job.holder
      /\ job'.live = job.live
  <2>1. job.attempt + 1 \in Nat /\ "none" \in Errors
    BY <1>4 DEF JobType, Errors
  <2>2. job' = [job EXCEPT !.status = "queued", !.attempt = job.attempt + 1, !.error = "none"]
    BY <1>1
  <2> QED BY <1>4, <2>1, <2>2 DEF JobType
<1>6. \A q \in Processes : ~Holds(q)' /\ pc'[q] = pc[q] /\ loc'[q] = loc[q]
  BY <1>1, <1>5 DEF Holds
<1>7. pc' \in [Processes -> PcStates] /\ loc' \in [Processes -> LocType] /\ task' \in TaskStatuses
  BY <1>1, Known DEF Types, TaskStatuses, CancellableTask
<1>8. CASE intent[1].status # "failed"
  <2>1. UNCHANGED intent
    <3>1. Renewed(intent[1]) = intent[1] /\ intent \in [Intents -> IntentType]
      BY <1>8, Known DEF Renewed, Types
    <3> QED BY <1>1, <1>2, <3>1
  <2>2. /\ budget' \in [faults : Nat, retries : Nat, renewed : Nat, undone : BOOLEAN]
        /\ budget'.renewed = budget.renewed /\ budget'.undone = budget.undone
    <3>1. budget' = [budget EXCEPT !.retries = budget.retries + 1, !.renewed = budget.renewed + 0]
      BY <1>1, <1>2, <1>8
    <3>2. budget.retries + 1 \in Nat /\ budget.renewed + 0 = budget.renewed /\ budget.renewed \in Nat
      BY <1>4
    <3> QED BY <1>4, <3>1, <3>2
  <2>3. UNCHANGED <<run, exch, disk, starts>> /\ job.status = "failed" /\ task = "failed" /\ task' = "queued"
    BY <1>1
  <2>4. job.status # "none" /\ Newest(job.intent)
    BY <1>2, <2>3
  <2> QED BY <1>3, <1>4, <1>5, <1>6, <1>7, <2>1, <2>2, <2>3, <2>4, RowsMove
<1>9. CASE intent[1].status = "failed"
  <2>1. /\ budget' \in [faults : Nat, retries : Nat, renewed : Nat, undone : BOOLEAN]
        /\ budget'.renewed = budget.renewed + 1 /\ budget'.undone = budget.undone
    <3>1. budget' = [budget EXCEPT !.retries = budget.retries + 1, !.renewed = budget.renewed + 1]
      BY <1>1, <1>2, <1>9
    <3>2. budget.retries + 1 \in Nat /\ budget.renewed + 1 \in Nat
      BY <1>4
    <3> QED BY <1>4, <3>1, <3>2
  <2>2. budget.renewed \in Nat /\ budget'.renewed > 0 /\ budget.renewed <= budget'.renewed /\ budget'.renewed # 0
    BY <1>4, <2>1
  <2>3. /\ intent' \in [Intents -> IntentType] /\ intent'[1].status = "approved" /\ intent'[1].rev = intent[1].rev
        /\ \A j \in Intents \ {1} : intent'[j] = intent[j]
    <3> DEFINE row == [intent[1] EXCEPT !.status = "approved"]
    <3>1. intent[1] \in IntentType /\ intent \in [Intents -> IntentType]
      BY <1>2, Known DEF Types
    <3>2. row \in IntentType /\ row.status = "approved" /\ row.rev = intent[1].rev
      BY <3>1 DEF IntentType, IntentStatuses
    <3>3. intent' = [intent EXCEPT ![1] = row]
      BY <1>1, <1>2, <1>9 DEF Renewed
    <3> HIDE DEF row
    <3> QED BY <1>2, <3>1, <3>2, <3>3
  <2>4. Types'
    BY <1>1, <1>3, <1>4, <1>5, <1>7, <2>1, <2>3, Known DEF Types
  <2>5. \A j \in Intents : /\ Newest(j)' <=> Newest(j)
                           /\ intent'[j].status = "none" <=> intent[j].status = "none"
                           /\ intent'[j].rev = intent[j].rev
    BY <1>9, <2>3 DEF Newest
  <2>6. \A j \in Intents : intent'[j].rev < wf'.rev
    <3>1. \A j \in Intents : intent[j].rev \in Nat /\ wf.rev \in Nat /\ intent[j].rev <= wf.rev
      BY Known DEF AInv, Line
    <3> QED BY <1>3, <2>5, <3>1
  <2>7. Line'
    <3>1. \A j \in Intents : j > 1 => intent'[j].status = "none"
      BY <1>1, <2>5 DEF AInv, Line
    <3>2. \A a, b \in Intents : b < a /\ intent'[a].status # "none" => intent'[b].status = "failed"
      BY <3>1, IntentsAre
    <3>3. intent'[1].status # "none" /\ \A j \in Intents : intent'[j].rev <= wf'.rev
      <4>1. \A j \in Intents : intent'[j].rev \in Nat
        BY <2>3 DEF IntentType
      <4> QED BY <1>3, <2>3, <2>6, <4>1
    <3> QED BY <3>1, <3>2, <3>3 DEF Line
  <2>8. Renewal'
    BY <1>1, <1>2, <1>3, <1>5, <2>6 DEF Renewal
  <2>9. JobRow'
    <3>1. job'.intent = 1 /\ intent'[1].status \in Passed /\ Newest(1)'
      BY <1>2, <1>5, <2>3, <2>5 DEF Passed
    <3> QED BY <1>1, <1>2, <1>3, <1>5, <3>1 DEF JobRow, Newest
  <2>10. Spent(1)'
    BY <2>2, <2>3 DEF Spent
  <2>11. \A j \in Intents : run[j].status # "completed"
    <3> SUFFICES ASSUME NEW j \in Intents, run[j].status = "completed" PROVE FALSE
      OBVIOUS
    <3>1. Newest(j) /\ intent[j].status = "completed"
      BY DEF AInv, Runs
    <3> QED BY <1>2, <1>9, <3>1, NewestIsOne
  <2>12. Unspent(1)' <= Unspent(1) + (budget'.renewed - budget.renewed)
    <3>1. Unspent(1)' = 1 /\ Unspent(1) = 0
      BY <1>9, <2>3 DEF Unspent
    <3> QED BY <2>1, <2>2, <3>1
  <2>13. \A j \in Intents : Undeliverable(j) => Undeliverable(j)'
    BY <2>3, <2>6 DEF Undeliverable
  <2> QED BY <1>1, <1>2, <1>6, <2>1, <2>2, <2>3, <2>4, <2>7, <2>8, <2>9, <2>10, <2>11, <2>12, <2>13, IntentMoves
<1> QED BY <1>8, <1>9

LEMMA NextKeeps == ASSUME AInv, [Next]_vars PROVE AInv'
<1>1. CASE User
  BY <1>1, AgentRetryKeeps, ApproveKeeps, RejectKeeps, RequestCancelKeeps, RetryKeeps DEF User
<1>2. CASE LeaseRunsOut \/ Stall \/ \E p \in Processes : Heartbeat(p)
  BY <1>2, LeaseKeeps
<1>3. CASE \E data \in {"changed", "gone"} : ChangeFiles(data)
  BY <1>3, ChangeFilesKeeps
<1>4. CASE \E p \in Processes : Crash(p) \/ Age(p)
  BY <1>4, CrashKeeps, AgeKeeps
<1>5. ASSUME NEW p \in Processes, Step(p) PROVE AInv'
  <2>1. CASE BootReads(p) \/ BootClears(p) \/ BootWrites(p) \/ LeaseJob(p) \/ TakeExpired(p) \/ RecoverLease(p)
             \/ Start(p)
    BY <2>1, BootReadsKeeps, BootClearsKeeps, BootWritesKeeps, LeaseJobKeeps, RecoverLeaseKeeps, StartKeeps
  <2>2. CASE Preflight(p) \/ EnterExchange(p) \/ RefuseEntry(p) \/ ClaimIntent(p)
    BY <2>2, PreflightKeeps, EntryKeeps, ClaimIntentKeeps
  <2>3. CASE CopyInputs(p) \/ StartRuntime(p) \/ CollectOutputs(p)
    BY <2>3, CopiesKeep, StartRuntimeKeeps
  <2>4. CASE \/ Interrupt(p) \/ \E error \in {"timeout", "other"} : ExecutionErrs(p, error)
             \/ \E out \in {"completed", "failed"} : RuntimeAnswers(p, out)
    BY <2>4, RuntimeKeeps
  <2>5. CASE Finalize(p) \/ PersistFailure(p) \/ Publish(p) \/ Report(p) \/ Settle(p)
    BY <2>5, FinalizeKeeps, PersistFailureKeeps, PublishKeeps, ReportKeeps, SettleKeeps
  <2> QED BY <1>5, <2>1, <2>2, <2>3, <2>4, <2>5 DEF Step
<1>6. CASE UNCHANGED vars
  <2>1. \A q \in Processes : Holds(q)' => Holds(q)
    BY <1>6 DEF vars, Holds
  <2>2. /\ job.status \in {"queued", "leased"} \/ wf.status = "failed" => job.status # "none" /\ Newest(job.intent)
        /\ task = "waiting-approval" => job.status \notin {"queued", "leased"}
    BY DEF AInv, JobRow
  <2>3. /\ wf' \in WfType /\ task' \in TaskStatuses /\ job' \in JobType /\ wf.rev \in Nat /\ wf.rev <= wf'.rev
        /\ job'.holder \in Processes <=> job'.status = "leased"
        /\ job'.live => job'.status = "leased"
        /\ budget' \in [faults : Nat, retries : Nat, renewed : Nat, undone : BOOLEAN]
        /\ pc' \in [Processes -> PcStates] /\ loc' \in [Processes -> LocType]
    BY <1>6, Known DEF Types, vars
  <2> QED BY <1>6, <2>1, <2>2, <2>3, RowsMove DEF vars
<1> QED BY <1>1, <1>2, <1>3, <1>4, <1>5, <1>6 DEF Next

\* The inductive invariant holds in every state the service reaches.
THEOREM InvariantCorrect == Spec => []AInv
<1>1. Init => AInv
  BY InitHolds
<1>2. AInv /\ [Next]_vars => AInv'
  BY NextKeeps
<1> QED BY <1>1, <1>2, PTL DEF Spec

-----------------------------------------------------------------------------
(* What follows from it. *)

\* The records agree in every reachable state: every row is in a state the code names, and
\* what was settled as succeeded is backed by a completed step, intent and run, and its files.
THEOREM RecordsAgreeCorrect == Spec => []RecordsAgree
<1>1. AInv => RecordsAgree
  <2> SUFFICES ASSUME AInv PROVE RecordsAgree
    OBVIOUS
  <2>1. TypeOK
    BY Known, TypesSuffice
  <2>2. ASSUME ~budget.undone, job.status = "succeeded"
        PROVE  /\ task = "completed" /\ intent[job.intent].status = "completed"
               /\ run[job.intent] = [status |-> "completed", evidence |-> "full"]
    <3>1. job.intent \in Intents /\ run[job.intent].status = "completed"
      BY <2>2 DEF AInv, JobRow
    <3>2. run[job.intent].evidence = "full" /\ task = "completed" /\ intent[job.intent].status = "completed"
      BY <2>2, <3>1 DEF AInv, Runs
    <3> QED BY <3>1, <3>2, Known DEF RunType
  <2>3. ~budget.undone /\ disk.data # "gone" =>
           \A i \in Intents : run[i].status = "completed" => disk.dir[i] = "outputs"
    BY DEF AInv, Runs
  <2> QED BY <2>1, <2>2, <2>3 DEF RecordsAgree, SucceededIsBacked
<1> QED BY <1>1, InvariantCorrect, PTL

\* An approval is executed once, by one process at a time, on the bytes it names, whatever
\* expires, crashes, is taken over or edited: only an agent's retry buys one more.
THEOREM OneExecutionCorrect == Spec => []OneExecution
<1>1. AInv => OneExecution
  <2> SUFFICES ASSUME AInv PROVE OneExecution
    OBVIOUS
  <2>1. ASSUME NEW i \in Intents
        PROVE  /\ starts[i] <= 1 + budget.renewed
               /\ starts[i] = 1 => run[i].status # "none" /\ PhaseOf(i) \in {"executing", "completed", "failed"}
    <3>1. /\ starts[i] \in Nat /\ budget.renewed \in Nat /\ IsFiniteSet(AboutToStart(i)) /\ Unspent(i) \in Nat
          /\ starts[i] + Cardinality(AboutToStart(i)) + Unspent(i) <= 1 + budget.renewed
      BY Known DEF AInv, Counted, Unspent
    <3>2. Cardinality(AboutToStart(i)) \in Nat
      BY <3>1, FS_CardinalityType
    <3>3. starts[i] <= 1 + budget.renewed
      BY <3>1, <3>2
    <3>4. starts[i] = 1 => run[i].status # "none" /\ Spent(i)
      BY DEF AInv, Runs
    <3> QED BY <3>3, <3>4 DEF Spent, PhaseOf
  <2>2. ASSUME NEW p \in Processes, NEW q \in Processes, pc[p] = "running", pc[q] = "running"
        PROVE  p = q \/ budget.renewed > 0
    <3>1. Active(p) /\ Active(q)
      BY <2>2 DEF Active, ActivePcs
    <3>2. budget.renewed = 0 => p = q
      BY <3>1 DEF AInv, Solo
    <3> QED BY <3>2, Known
  <2>3. \A p \in Processes : pc[p] \in {"running", "answered", "ran"} => loc[p].bytes = "approved"
    BY Known DEF ThreadSound
  <2> QED BY <2>1, <2>2, <2>3 DEF OneExecution, OneRunPerApproval, OneRuntimeAtATime
<1> QED BY <1>1, InvariantCorrect, PTL

\* What a step may do to the results.
ResultsMove ==
    /\ \A i \in Intents :
          IF run[i].status = "completed" THEN run'[i] = run[i] \/ Undoes(i)
          ELSE run'[i].status = "completed" =>
                  WorkflowRuns /\ wf.rev = intent[i].rev /\ intent[i].status = "executing"
    /\ task = "completed" => task' = "completed" \/ \E i \in Intents : Undoes(i)

\* Nothing has completed yet, and nothing completes.
LEMMA NothingEnds ==
  ASSUME AInv, NEW i \in Intents, \A j \in Intents : run[j].status # "completed",
         \A j \in Intents \ {i} : run'[j] = run[j], run'[i].status # "completed"
  PROVE  ResultsMove
<1>1. task # "completed"
  BY DEF AInv, Runs
<1>2. \A j \in Intents : run'[j].status # "completed"
  OBVIOUS
<1> QED BY <1>1, <1>2 DEF ResultsMove

LEMMA ResultsKept == ASSUME AInv, [Next]_vars PROVE ResultsMove
<1>1. ASSUME UNCHANGED run, task = "completed" => task' = "completed" PROVE ResultsMove
  BY <1>1 DEF ResultsMove
<1>2. CASE User
  BY <1>1, <1>2 DEF User, AgentRetry, Approve, Reject, RequestCancel, CancelRest, CancelTask, CancellableTask, Retry
<1>3. CASE UNCHANGED vars \/ LeaseRunsOut \/ Stall \/ \E data \in {"changed", "gone"} : ChangeFiles(data)
  BY <1>1, <1>3 DEF vars, LeaseRunsOut, Stall, ChangeFiles
<1>4. CASE \E p \in Processes : Heartbeat(p) \/ Crash(p) \/ Age(p)
  BY <1>1, <1>4 DEF Heartbeat, Crash, Age
<1>5. ASSUME NEW p \in Processes, Step(p) PROVE ResultsMove
  <2>1. CASE BootReads(p) \/ BootClears(p) \/ LeaseJob(p) \/ TakeExpired(p) \/ RecoverLease(p)
    BY <1>1, <2>1 DEF BootReads, BootClears, LeaseJob, TakeExpired, RecoverLease
  <2>2. CASE Start(p) \/ Preflight(p) \/ EnterExchange(p) \/ RefuseEntry(p)
    BY <1>1, <2>2 DEF Start, Preflight, EnterExchange, RefuseEntry
  <2>3. CASE CopyInputs(p) \/ StartRuntime(p) \/ CollectOutputs(p)
    BY <1>1, <2>3 DEF CopyInputs, StartRuntime, CollectOutputs
  <2>4. CASE \/ Interrupt(p) \/ \E error \in {"timeout", "other"} : ExecutionErrs(p, error)
             \/ \E out \in {"completed", "failed"} : RuntimeAnswers(p, out)
    BY <1>1, <2>4 DEF Interrupt, ExecutionErrs, RuntimeAnswers
  <2>5. CASE Publish(p) \/ Report(p)
    BY <1>1, <2>5 DEF Publish, Report
  <2>6. CASE Settle(p)
    BY <1>1, <2>6 DEF Settle, CancelTask, CancellableTask
  <2>7. CASE ClaimIntent(p)
    <3>1. CASE ~Executable(p)
      BY <1>1, <2>7, <3>1 DEF ClaimIntent
    <3>2. CASE Executable(p)
      <4>1. PICK i \in Intents : i = loc[p].intent
        BY <2>7, Known DEF ClaimIntent, ThreadSound, BoundPcs
      <4>2. run' = [run EXCEPT ![i] = Claimed] /\ intent[i].status = "approved"
        BY <2>7, <3>2, <4>1 DEF ClaimIntent, Executable, Decided
      <4>3. run'[i].status # "completed" /\ \A j \in Intents \ {i} : run'[j] = run[j]
        BY <4>2, Known DEF Types, Claimed
      <4> QED BY <4>2, <4>3, ApprovedIsOpen, NothingEnds
    <3> QED BY <3>1, <3>2
  <2>8. CASE Finalize(p)
    <3>1. pc[p] = "ran" /\ Active(p)
      BY <2>8 DEF Finalize, Active, ActivePcs
    <3>2. PICK i \in Intents : i = loc[p].intent
      BY <3>1, ActiveSpends
    <3>3. task # "completed" /\ \A j \in Intents : run[j].status # "completed"
      BY <3>1, ActiveUnfinished
    <3>4. CASE ~Revalidates(p)
      BY <1>1, <2>8, <3>4 DEF Finalize
    <3>5. CASE Revalidates(p)
      <4>1. \A j \in Intents \ {i} : run'[j] = run[j]
        BY <2>8, <3>2, <3>5, Known DEF Finalize, Types
      <4>2. CASE Superseded(p) \/ loc[p].out # "completed"
        <5>1. run'[i].status # "completed"
          BY <2>8, <3>2, <3>5, <4>2, Known DEF Finalize, Types
        <5> QED BY <3>3, <4>1, <5>1, NothingEnds
      <4>3. CASE ~Superseded(p) /\ loc[p].out = "completed"
        <5>1. intent[i].status = "executing" /\ intent[i].rev = wf.rev /\ WorkflowRuns
          BY <3>1, <3>2, <3>5, <4>3, CompletesAlone
        <5> QED BY <3>3, <4>1, <5>1 DEF ResultsMove
      <4> QED BY <4>2, <4>3
    <3> QED BY <3>4, <3>5
  <2>9. CASE PersistFailure(p)
    <3>1. Active(p)
      BY <2>9 DEF PersistFailure, Active, ActivePcs
    <3>2. PICK i \in Intents : i = loc[p].intent
      BY <3>1, ActiveSpends
    <3>3. run' = [run EXCEPT ![i] = [status |-> "failed", evidence |-> "none"]]
      BY <2>9, <3>2 DEF PersistFailure
    <3>4. run'[i].status # "completed" /\ \A j \in Intents \ {i} : run'[j] = run[j]
      BY <3>3, Known DEF Types
    <3> QED BY <3>1, <3>4, ActiveUnfinished, NothingEnds
  <2>10. CASE BootWrites(p)
    <3>1. Boots(p) /\ pc[p] = "cleared"
      BY <2>10 DEF BootWrites, Boots
    <3>2. PICK i \in Intents : i = loc[p].intent
      BY <3>1, BootingSpent
    <3>3. loc[p].next = "running" /\ pc'[p] = "down"
      BY <2>10, <3>1, Known DEF BootWrites, ThreadSound, Types
    <3>4. Undoes(i)
      BY <3>1, <3>2, <3>3 DEF Undoes
    <3>5. \A j \in Intents \ {i} : run'[j] = run[j]
      BY <2>10, <3>2, Known DEF BootWrites, Types
    <3>6. run[i].status = "completed" \/ run'[i].status # "completed"
      BY <2>10, <3>2, Known DEF BootWrites, Types
    <3> QED BY <3>4, <3>5, <3>6 DEF ResultsMove
  <2> QED BY <1>5, <2>1, <2>2, <2>3, <2>4, <2>5, <2>6, <2>7, <2>8, <2>9, <2>10 DEF Step
<1> QED BY <1>2, <1>3, <1>4, <1>5 DEF Next

\* A result is accepted only while the workflow runs at the very revision its approval was given
\* for, and once accepted only a starting process that had read it as running takes it back.
THEOREM ResultsStandCorrect == Spec => ResultsStand
<1>1. AInv /\ [Next]_vars => [ResultsMove]_vars
  BY ResultsKept
<1>2. Spec => [][ResultsMove]_vars
  BY <1>1, InvariantCorrect, PTL DEF Spec
<1> QED BY <1>2, PTL DEF ResultsStand, ResultsMove

-----------------------------------------------------------------------------
(* The rows move as the approvals they record promise. *)

Phases == [i \in Intents |-> PhaseOf(i)]

\* The step moves one phase, or none.
LEMMA PhaseMoves ==
  ASSUME NEW k \in Intents, \A j \in Intents \ {k} : PhaseOf(j)' = PhaseOf(j), NEW to, PhaseOf(k)' = to
  PROVE  /\ Phases[k] = PhaseOf(k) /\ Phases' = [Phases EXCEPT ![k] = to]
         /\ PhaseOf(k) = to => Phases' = Phases
BY DEF Phases

LEMMA PhasesRest ==
  ASSUME UNCHANGED intent, budget'.renewed = budget.renewed
  PROVE  Phases' = Phases
BY DEF Phases, PhaseOf

\* The step writes one intent, and renews nothing.
LEMMA OnePhase ==
  ASSUME AInv, NEW k \in Intents, NEW row, intent' = [intent EXCEPT ![k] = row], budget'.renewed = budget.renewed
  PROVE  /\ intent'[k] = row
         /\ \A j \in Intents \ {k} : PhaseOf(j)' = PhaseOf(j)
<1>1. intent \in [Intents -> IntentType]
  BY Known DEF Types
<1>2. intent'[k] = row /\ \A j \in Intents \ {k} : intent'[j] = intent[j]
  BY <1>1
<1> QED BY <1>2 DEF PhaseOf

LEMMA StatusPhase ==
  ASSUME AInv, NEW k \in Intents, NEW status, intent' = [intent EXCEPT ![k] = [intent[k] EXCEPT !.status = status]],
         budget'.renewed = budget.renewed
  PROVE  /\ intent'[k].status = status
         /\ \A j \in Intents \ {k} : PhaseOf(j)' = PhaseOf(j)
<1> DEFINE row == [intent[k] EXCEPT !.status = status]
<1>1. intent[k] \in IntentType
  BY Known
<1>2. row.status = status
  BY <1>1 DEF IntentType
<1> HIDE DEF row
<1>3. intent'[k] = row /\ \A j \in Intents \ {k} : PhaseOf(j)' = PhaseOf(j)
  BY OnePhase DEF row
<1> QED BY <1>2, <1>3

LEMMA PhasesStart == Init => Phases = [i \in Intents |-> IF i = 1 THEN "waiting-approval" ELSE "none"]
BY DEF Init, Phases, PhaseOf, Proposed

\* A failure is written: the execution ends, is taken back, or had no result to lose.
LEMMA FailurePhase ==
  ASSUME AInv, NEW i \in Intents, Spent(i), NEW e, intent' = [intent EXCEPT ![i] = Failed(@, e)],
         budget'.renewed = budget.renewed, intent[i].status = "completed" => budget.renewed = 0
  PROVE  Promise!PNext \/ Phases' = Phases
<1>1. Failed(intent[i], e).status = "failed" /\ intent[i] \in IntentType
  BY Known DEF Failed, IntentType
<1>2. intent'[i].status = "failed" /\ \A j \in Intents \ {i} : PhaseOf(j)' = PhaseOf(j)
  <2> DEFINE row == Failed(intent[i], e)
  <2>1. intent' = [intent EXCEPT ![i] = row]
    OBVIOUS
  <2> HIDE DEF row
  <2>2. intent'[i] = row /\ \A j \in Intents \ {i} : PhaseOf(j)' = PhaseOf(j)
    BY <2>1, OnePhase
  <2> QED BY <1>1, <2>2 DEF row
<1>3. PhaseOf(i)' = "failed"
  BY <1>2 DEF PhaseOf
<1>4. Phases[i] = PhaseOf(i) /\ Phases' = [Phases EXCEPT ![i] = "failed"] /\ (PhaseOf(i) = "failed" => Phases' = Phases)
  BY <1>2, <1>3, PhaseMoves
<1>5. PhaseOf(i) \in {"executing", "completed", "failed"}
  BY DEF Spent, PhaseOf
<1>6. CASE PhaseOf(i) = "executing"
  BY <1>4, <1>6 DEF Promise!PNext, Promise!Deliver, Promise!Move, Phases
<1>7. CASE PhaseOf(i) = "completed"
  BY <1>4, <1>7 DEF Promise!PNext, Promise!TakeBack, Promise!Move, Phases
<1> QED BY <1>4, <1>5, <1>6, <1>7

LEMMA PhasesMove == ASSUME AInv, [Next]_vars PROVE Promise!PNext \/ Phases' = Phases
<1>1. CASE UNCHANGED vars \/ LeaseRunsOut \/ Stall \/ \E data \in {"changed", "gone"} : ChangeFiles(data)
  <2>1. UNCHANGED intent /\ budget'.renewed = budget.renewed
    BY <1>1, Known DEF Types, vars, LeaseRunsOut, Stall, ChangeFiles
  <2> QED BY <2>1, PhasesRest
<1>2. CASE \E p \in Processes : Heartbeat(p) \/ Crash(p) \/ Age(p)
  <2>1. UNCHANGED intent /\ budget'.renewed = budget.renewed
    BY <1>2, Known DEF Types, Heartbeat, Crash, Age
  <2> QED BY <2>1, PhasesRest
<1>3. CASE RequestCancel \/ Retry
  <2>1. UNCHANGED intent /\ budget'.renewed = budget.renewed
    BY <1>3, Known DEF Types, RequestCancel, CancelRest, Retry
  <2> QED BY <2>1, PhasesRest
<1>4. CASE Approve
  <2>1. PICK i \in Intents : i = Current /\ Newest(i)
    BY CurrentIsNewest DEF AInv
  <2>2. /\ intent[i].status = "waiting-approval" /\ intent' = [intent EXCEPT ![i].status = "approved"]
        /\ UNCHANGED budget
    BY <1>4, <2>1 DEF Approve
  <2>3. budget.renewed = 0
    <3> SUFFICES ASSUME budget.renewed > 0 PROVE FALSE
      BY Known
    <3>1. wf.agent /\ job.intent \in Intents /\ intent[job.intent].status \in Passed
      BY DEF AInv, Renewal, JobRow
    <3>2. job.intent = 1 /\ i = 1
      BY <2>2, <3>1, AgentsIntent DEF AInv, Passed
    <3> QED BY <2>2, <3>1, <3>2 DEF Passed
  <2>4. intent'[i].status = "approved" /\ \A j \in Intents \ {i} : PhaseOf(j)' = PhaseOf(j)
    <3>1. intent' = [intent EXCEPT ![i] = [intent[i] EXCEPT !.status = "approved"]]
      BY <2>2
    <3> QED BY <2>2, <3>1, StatusPhase
  <2>5. PhaseOf(i) = "waiting-approval" /\ PhaseOf(i)' = "approved"
    BY <2>2, <2>3, <2>4 DEF PhaseOf
  <2>6. Phases[i] = "waiting-approval" /\ Phases' = [Phases EXCEPT ![i] = "approved"]
    BY <2>4, <2>5, PhaseMoves
  <2> QED BY <2>6 DEF Promise!PNext, Promise!PDecide, Promise!Move, Phases
<1>5. CASE Reject
  <2>1. PICK i \in Intents : i = Current /\ Newest(i)
    BY CurrentIsNewest DEF AInv
  <2>2. /\ intent[i].status = "waiting-approval" /\ intent' = [intent EXCEPT ![i].status = "rejected"]
        /\ UNCHANGED budget
    BY <1>5, <2>1 DEF Reject
  <2>3. intent'[i].status = "rejected" /\ \A j \in Intents \ {i} : PhaseOf(j)' = PhaseOf(j)
    <3>1. intent' = [intent EXCEPT ![i] = [intent[i] EXCEPT !.status = "rejected"]]
      BY <2>2
    <3> QED BY <2>2, <3>1, StatusPhase
  <2>4. PhaseOf(i) = "waiting-approval" /\ PhaseOf(i)' = "rejected"
    BY <2>2, <2>3 DEF PhaseOf
  <2>5. Phases[i] = "waiting-approval" /\ Phases' = [Phases EXCEPT ![i] = "rejected"]
    BY <2>3, <2>4, PhaseMoves
  <2> QED BY <2>5 DEF Promise!PNext, Promise!PDecide, Promise!Move, Phases
<1>6. CASE AgentRetry
  <2>1. /\ wf.agent /\ job.status = "failed" /\ intent' = [intent EXCEPT ![job.intent] = Renewed(@)]
        /\ budget' = [budget EXCEPT !.retries = @ + 1,
                          !.renewed = @ + (IF intent[job.intent].status = "failed" THEN 1 ELSE 0)]
    BY <1>6 DEF AgentRetry
  <2>2. job.intent = 1 /\ Newest(1) /\ 1 \in Intents
    <3>1. job.intent \in Intents /\ intent[job.intent].status \in Passed
      BY <2>1 DEF AInv, JobRow
    <3>2. intent[job.intent].status # "none"
      BY <3>1 DEF Passed
    <3> QED BY <2>1, <3>1, <3>2, AgentsIntent DEF AInv
  <2>3. intent \in [Intents -> IntentType] /\ budget \in [faults : Nat, retries : Nat, renewed : Nat, undone : BOOLEAN]
    BY Known DEF Types
  <2>4. \A j \in Intents \ {1} : intent[j].status = "none" /\ intent'[j] = intent[j]
    BY <2>1, <2>2, <2>3, IntentsAre DEF Newest
  <2>5. CASE intent[1].status = "failed"
    <3>1. budget' = [budget EXCEPT !.retries = budget.retries + 1, !.renewed = budget.renewed + 1]
      BY <2>1, <2>2, <2>5
    <3>2. budget'.renewed = budget.renewed + 1
      BY <2>3, <3>1
    <3>3. budget'.renewed > 0
      BY <2>3, <3>2
    <3>4. intent'[1].status = "approved"
      BY <2>1, <2>2, <2>3, <2>5 DEF Renewed, IntentType
    <3>5. PhaseOf(1)' = "failed" /\ PhaseOf(1) = "failed" /\ \A j \in Intents \ {1} : PhaseOf(j)' = PhaseOf(j)
      BY <2>4, <2>5, <3>3, <3>4 DEF PhaseOf
    <3> QED BY <2>2, <3>5, PhaseMoves
  <2>6. CASE intent[1].status # "failed"
    <3>1. budget' = [budget EXCEPT !.retries = budget.retries + 1, !.renewed = budget.renewed + 0]
      BY <2>1, <2>2, <2>6
    <3>2. budget'.renewed = budget.renewed + 0 /\ budget.renewed + 0 = budget.renewed
      BY <2>3, <3>1
    <3>3. Renewed(intent[1]) = intent[1]
      BY <2>6 DEF Renewed
    <3>4. UNCHANGED intent
      BY <2>1, <2>2, <2>3, <3>3
    <3> QED BY <3>2, <3>4, PhasesRest
  <2> QED BY <2>5, <2>6
<1>7. ASSUME NEW p \in Processes, Step(p) PROVE Promise!PNext \/ Phases' = Phases
  <2>1. CASE BootReads(p) \/ LeaseJob(p) \/ TakeExpired(p) \/ RecoverLease(p)
    BY <2>1, PhasesRest DEF BootReads, LeaseJob, TakeExpired, RecoverLease
  <2>2. CASE BootClears(p)
    <3>1. UNCHANGED intent /\ budget'.renewed = budget.renewed
      BY <2>2, Known DEF Types, BootClears, Overtaken
    <3> QED BY <3>1, PhasesRest
  <2>3. CASE Start(p) \/ Preflight(p) \/ EnterExchange(p) \/ RefuseEntry(p)
    BY <2>3, PhasesRest DEF Start, Preflight, EnterExchange, RefuseEntry
  <2>4. CASE CopyInputs(p) \/ StartRuntime(p) \/ CollectOutputs(p)
    BY <2>4, PhasesRest DEF CopyInputs, StartRuntime, CollectOutputs
  <2>5. CASE \/ Interrupt(p) \/ \E error \in {"timeout", "other"} : ExecutionErrs(p, error)
             \/ \E out \in {"completed", "failed"} : RuntimeAnswers(p, out)
    BY <2>5, PhasesRest DEF Interrupt, ExecutionErrs, RuntimeAnswers
  <2>6. CASE Publish(p) \/ Settle(p)
    BY <2>6, PhasesRest DEF Publish, Settle
  <2>7. CASE Report(p)
    <3>1. PICK i \in Intents : i = loc[p].intent
      BY <2>7, Known DEF Report, ThreadSound, BoundPcs
    <3>2. CASE UNCHANGED intent
      BY <2>7, <3>2, PhasesRest DEF Report
    <3>3. CASE ~UNCHANGED intent
      <4>1. /\ Holds(p) /\ intent[i].status = "failed" /\ Repairable(i) /\ UNCHANGED budget
            /\ intent' = [intent EXCEPT ![i + 1] = Proposed(wf.rev)]
        BY <2>7, <3>1, <3>3 DEF Report
      <4>2. PICK k \in Intents : k = i + 1 /\ k > 1 /\ k > i
        <5>1. i \in 1 .. MaxRepairs + 1 /\ i <= MaxRepairs
          BY <4>1, IntentsAre DEF Repairable
        <5> QED BY <5>1, IntentsAre
      <4>3. intent[k].status = "none"
        <5>1. job.intent = i
          BY <2>7, <3>1, <4>1, Known DEF Report, ThreadSound, BoundPcs
        <5>2. Newest(i)
          BY <4>1, <5>1, Known
        <5> QED BY <4>2, <5>2 DEF Newest
      <4>4. intent' = [intent EXCEPT ![k] = Proposed(wf.rev)]
        BY <4>1, <4>2
      <4>5. intent'[k] = Proposed(wf.rev) /\ \A j \in Intents \ {k} : PhaseOf(j)' = PhaseOf(j)
        BY <4>1, <4>4, OnePhase
      <4>6. PhaseOf(k) = "none" /\ PhaseOf(k)' = "waiting-approval" /\ PhaseOf(i) = "failed"
        BY <4>1, <4>3, <4>5 DEF PhaseOf, Proposed
      <4>7. Phases[k] = "none" /\ Phases' = [Phases EXCEPT ![k] = "waiting-approval"] /\ Phases[i] = "failed"
        BY <4>5, <4>6, PhaseMoves DEF Phases
      <4>8. k - 1 = i
        BY <4>2, IntentsAre
      <4> QED BY <4>2, <4>7, <4>8 DEF Promise!PNext, Promise!Propose, Promise!Move, Phases
    <3> QED BY <3>2, <3>3
  <2>8. CASE ClaimIntent(p)
    <3>1. CASE ~Executable(p)
      BY <2>8, <3>1, PhasesRest DEF ClaimIntent
    <3>2. CASE Executable(p)
      <4>1. PICK i \in Intents : i = loc[p].intent
        BY <2>8, Known DEF ClaimIntent, ThreadSound, BoundPcs
      <4>2. /\ intent[i].status = "approved" /\ intent' = [intent EXCEPT ![i].status = "executing"]
            /\ UNCHANGED budget
        BY <2>8, <3>2, <4>1 DEF ClaimIntent, Executable, Decided
      <4>3. intent'[i].status = "executing" /\ \A j \in Intents \ {i} : PhaseOf(j)' = PhaseOf(j)
        <5>1. intent' = [intent EXCEPT ![i] = [intent[i] EXCEPT !.status = "executing"]]
          BY <4>2
        <5> QED BY <4>2, <5>1, StatusPhase
      <4>4. CASE budget.renewed > 0
        BY <4>2, <4>3, <4>4, PhaseMoves DEF PhaseOf
      <4>5. CASE ~(budget.renewed > 0)
        <5>1. PhaseOf(i) = "approved" /\ PhaseOf(i)' = "executing"
          BY <4>2, <4>3, <4>5 DEF PhaseOf
        <5>2. Phases[i] = "approved" /\ Phases' = [Phases EXCEPT ![i] = "executing"]
          BY <4>3, <5>1, PhaseMoves
        <5> QED BY <5>2 DEF Promise!PNext, Promise!Spend, Promise!Move, Phases
      <4> QED BY <4>4, <4>5
    <3> QED BY <3>1, <3>2
  <2>9. CASE Finalize(p)
    <3>1. pc[p] = "ran" /\ Active(p) /\ UNCHANGED budget
      BY <2>9 DEF Finalize, Active, ActivePcs
    <3>2. PICK i \in Intents : i = loc[p].intent
      BY <3>1, ActiveSpends
    <3>3. CASE ~Revalidates(p)
      BY <2>9, <3>1, <3>3, PhasesRest DEF Finalize
    <3>4. CASE Revalidates(p) /\ ~Superseded(p) /\ loc[p].out = "completed"
      <4>1. intent' = [intent EXCEPT ![i] = [@ EXCEPT !.status = "completed"]]
        BY <2>9, <3>2, <3>4 DEF Finalize
      <4>2. budget.renewed = 0 /\ intent[i].status = "executing"
        BY <3>1, <3>2, <3>4, CompletesAlone
      <4>3. intent'[i].status = "completed" /\ \A j \in Intents \ {i} : PhaseOf(j)' = PhaseOf(j)
        <5>1. intent' = [intent EXCEPT ![i] = [intent[i] EXCEPT !.status = "completed"]]
          BY <4>1
        <5> QED BY <3>1, <5>1, StatusPhase
      <4>4. PhaseOf(i) = "executing" /\ PhaseOf(i)' = "completed"
        BY <4>2, <4>3 DEF PhaseOf
      <4>5. Phases[i] = "executing" /\ Phases' = [Phases EXCEPT ![i] = "completed"]
        BY <4>3, <4>4, PhaseMoves
      <4> QED BY <4>5 DEF Promise!PNext, Promise!Deliver, Promise!Move, Phases
    <3>5. CASE Revalidates(p) /\ (Superseded(p) \/ loc[p].out # "completed")
      <4>1. loc[p].out \in {"completed", "failed"}
        BY <3>1, Known DEF ThreadSound
      <4>2. PICK e \in Errors : intent' = [intent EXCEPT ![i] = Failed(@, e)]
        BY <2>9, <3>2, <3>5, <4>1 DEF Finalize, Errors
      <4>3. intent[i].status # "completed" /\ Spent(i)
        BY <3>1, <3>2, ActiveUnfinished, ActiveSpends
      <4> QED BY <3>1, <4>2, <4>3, FailurePhase
    <3> QED BY <3>3, <3>4, <3>5
  <2>10. CASE PersistFailure(p)
    <3>1. Active(p)
      BY <2>10 DEF PersistFailure, Active, ActivePcs
    <3>2. PICK i \in Intents : i = loc[p].intent
      BY <3>1, ActiveSpends
    <3>3. intent' = [intent EXCEPT ![i] = Failed(@, loc[p].error)] /\ UNCHANGED budget
      BY <2>10, <3>2 DEF PersistFailure
    <3>4. intent[i].status # "completed" /\ Spent(i)
      BY <3>1, <3>2, ActiveUnfinished, ActiveSpends
    <3> QED BY <3>3, <3>4, FailurePhase
  <2>11. CASE BootWrites(p)
    <3>1. Boots(p)
      BY <2>11 DEF BootWrites, Boots
    <3>2. PICK i \in Intents : i = loc[p].intent /\ Spent(i)
      BY <3>1, BootingSpent
    <3>3. intent' = [intent EXCEPT ![i] = Failed(@, "other")]
      BY <2>11, <3>2 DEF BootWrites, Interrupted
    <3>4. budget'.renewed = budget.renewed
      BY <2>11, Known DEF BootWrites, Overtaken, Types
    <3>5. intent[i].status = "completed" => budget.renewed = 0
      BY DEF AInv, Runs
    <3> QED BY <3>2, <3>3, <3>4, <3>5, FailurePhase
  <2> QED BY <1>7, <2>1, <2>2, <2>3, <2>4, <2>5, <2>6, <2>7, <2>8, <2>9, <2>10, <2>11 DEF Step
<1> QED BY <1>1, <1>2, <1>3, <1>4, <1>5, <1>6, <1>7 DEF Next, User

\* Every step is one an approval allows or leaves all of them alone: decided once, spent on one
\* execution, a repair only after a failure, and what failed is never delivered later.
THEOREM ImplementsApprovalCorrect == Spec => ImplementsApproval
<1>1. Init => Promise!PInit
  BY PhasesStart DEF Promise!PInit, Phases
<1>2. AInv /\ [Next]_vars => [Promise!PNext]_[i \in Intents |-> PhaseOf(i)]
  BY PhasesMove DEF Phases
<1> QED BY <1>1, <1>2, InvariantCorrect, PTL DEF Spec, ImplementsApproval, Promise!PSpec
=============================================================================

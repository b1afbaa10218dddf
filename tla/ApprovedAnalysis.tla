-------------------------- MODULE ApprovedAnalysis --------------------------
(***************************************************************************)
(* What the analysis service promises of approvals, without processes,     *)
(* leases, jobs or crashes: a line of proposals, each decided once, each   *)
(* approval spent on one execution at most, the next proposal made only    *)
(* when the previous execution failed, and a completed one the last.  A    *)
(* process that starts may still record a delivered one as interrupted.    *)
(***************************************************************************)
EXTENDS Naturals

CONSTANT Proposals      \* 1 .. n: the first code and its repairs

VARIABLE phase

Ended == {"rejected", "completed", "failed"}

PInit == phase = [i \in Proposals |-> IF i = 1 THEN "waiting-approval" ELSE "none"]

Move(i, from, to) == phase[i] = from /\ phase' = [phase EXCEPT ![i] = to]

\* A repair replaces an execution that failed, never one that may still end well.
Propose(i) ==
    /\ i > 1 /\ phase[i - 1] = "failed"
    /\ Move(i, "none", "waiting-approval")

PDecide(i) == Move(i, "waiting-approval", "approved") \/ Move(i, "waiting-approval", "rejected")
Spend(i)   == Move(i, "approved", "executing")
Deliver(i) == Move(i, "executing", "completed") \/ Move(i, "executing", "failed")

\* Never the other way round: what failed is not delivered later.
TakeBack(i) == Move(i, "completed", "failed")

PNext == \E i \in Proposals : Propose(i) \/ PDecide(i) \/ Spend(i) \/ Deliver(i) \/ TakeBack(i)

PSpec == PInit /\ [][PNext]_phase
=============================================================================

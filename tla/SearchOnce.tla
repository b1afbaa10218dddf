----------------------------- MODULE SearchOnce -----------------------------
(***************************************************************************)
(* What paper discovery promises about the searches a user approved: one   *)
(* is asked at a time; one the provider executed is not asked again, unless *)
(* it is known to have been refused unexecuted; and after one whose outcome *)
(* is unknown, or which was given up, nothing else is asked.                *)
(***************************************************************************)
CONSTANT Operations

VARIABLES
    phase,   \* "open", "asked", "found", "unknown" or "closed"
    done     \* the operations a provider executed

svars == <<phase, done>>

To(o, to) == phase' = [phase EXCEPT ![o] = to] /\ UNCHANGED done

SInit == phase = [o \in Operations |-> "open"] /\ done = {}

Ask(o) ==
    /\ phase[o] = "open" /\ o \notin done
    /\ \A r \in Operations : phase[r] \in {"open", "found"}
    /\ To(o, "asked")

\* The request may be under way while the asker is given up already.
Execute(o) ==
    /\ phase[o] \in {"asked", "unknown", "closed"} /\ o \notin done
    /\ done' = done \cup {o}
    /\ UNCHANGED phase

Refuse(o) == phase[o] = "asked" /\ o \notin done /\ To(o, "open")
Find(o) == phase[o] = "asked" /\ o \in done /\ To(o, "found")
Lose(o) == phase[o] = "asked" /\ To(o, "unknown")
Close(o) == phase[o] \in {"open", "asked"} /\ To(o, "closed")

SNext == \E o \in Operations :
    Ask(o) \/ Execute(o) \/ Refuse(o) \/ Find(o) \/ Lose(o) \/ Close(o)

SSpec == SInit /\ [][SNext]_svars
=============================================================================

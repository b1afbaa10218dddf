------------------------------ MODULE SkillPack ------------------------------
(***************************************************************************)
(* The bundled skills are copied into the OpenCode profile before every    *)
(* start of the sidecar (runtime.rs:326-735).  One skill is followed: its  *)
(* directory (the target), and beside it the copy that is being made       *)
(* (staging) and what earlier attempts set aside (backups).  The process   *)
(* may die between any two steps, a step of the file system may fail, and  *)
(* the skill may be damaged from outside.                                  *)
(*                                                                         *)
(* A directory holds the skill as some launch brought it, is bad (half     *)
(* copied, without SKILL.md, or with a link in it), or is absent.          *)
(***************************************************************************)
EXTENDS DesktopProcess, Sequences

VARIABLES pack,   \* the directories and the step of the deployment
          bare    \* no complete copy was published yet, or the last one was damaged

packVars == <<pack, bare>>

Installed == MaxLaunches + 1 \* what an earlier version of the application left
Versions == 1 .. Installed
NoCopy == 0
BadCopy == Installed + 1
Contents == Versions \cup {NoCopy, BadCopy}
Steps == {"idle", "recover", "copying", "aside", "promote", "clean", "deployed", "failed"}

Complete(content) == content \in Versions
CompleteBackups(p) == {i \in DOMAIN p.backups : Complete(p.backups[i])}
SomeCopy(p) == Complete(p.target) \/ CompleteBackups(p) # {}
Ambiguous(p) == \E i, j \in CompleteBackups(p) : i # j

\* recover_skill_replacement: staging is never authoritative, a complete target wins, and
\* otherwise the only complete backup does.  Its error is the ambiguous case.
Recoverable(p) == Complete(p.target) \/ ~Ambiguous(p)
RecoveredMut(p) ==
    [p EXCEPT !.staging = NoCopy, !.backups = <<>>,
              !.target = IF Complete(@) THEN @ ELSE NoCopy]
Recovered(p) ==
    IF Complete(p.target) THEN [p EXCEPT !.staging = NoCopy, !.backups = <<>>]
    ELSE IF CompleteBackups(p) = {} THEN [p EXCEPT !.staging = NoCopy, !.target = NoCopy]
    ELSE LET i == CHOOSE i \in CompleteBackups(p) : TRUE
         IN  [p EXCEPT !.staging = NoCopy, !.target = p.backups[i], !.backups = <<>>]

PackInit ==
    /\ \E target \in {NoCopy, Installed} :
          /\ used # "opencode" => target = NoCopy \* nobody deploys it
          /\ pack = [step |-> "idle", target |-> target, backups |-> <<>>, staging |-> NoCopy,
                     had |-> FALSE]
          /\ bare = (target = NoCopy)

Deploys(p) == pack' = p /\ UNCHANGED bare

\* An artifact an earlier process left is dealt with before a new attempt; then a directory
\* is filled beside the target.
RecoverPack ==
    /\ pack.step = "recover" /\ UNCHANGED process
    /\ IF Recoverable(pack) THEN Deploys([Recovered(pack) EXCEPT !.staging = BadCopy, !.step = "copying"])
                            ELSE Deploys([pack EXCEPT !.step = "failed", !.staging = NoCopy])

CopyEnds ==
    /\ pack.step = "copying"
    /\ \E fails \in BOOLEAN :
          /\ Costs(fails)
          /\ IF fails THEN Deploys([pack EXCEPT !.staging = NoCopy, !.step = "failed"])
                      ELSE Deploys([pack EXCEPT !.staging = launch, !.step = "aside"])

\* The first rename.
SetAside ==
    /\ pack.step = "aside"
    /\ \E fails \in BOOLEAN :
          /\ Costs(fails) /\ (fails => pack.target # NoCopy)
          /\ IF fails THEN Deploys([pack EXCEPT !.staging = NoCopy, !.step = "failed"])
             ELSE IF pack.target = NoCopy
                THEN Deploys([pack EXCEPT !.step = "promote", !.had = FALSE])
             ELSE Deploys([pack EXCEPT !.target = NoCopy, !.step = "promote", !.had = TRUE,
                                       !.backups = Append(@, pack.target)])

\* The second rename, and the way back if it fails: this attempt's backup is the last one,
\* and it stays where it is if it cannot be moved back either.
Promote ==
    /\ pack.step = "promote"
    /\ \/ /\ UNCHANGED process
          /\ pack' = [pack EXCEPT !.target = pack.staging, !.staging = NoCopy, !.step = "clean"]
          /\ bare' = FALSE
       \/ /\ Fault
          /\ Deploys([pack EXCEPT !.staging = NoCopy, !.step = "failed"])
       \/ /\ Fault /\ pack.had
          /\ Deploys([pack EXCEPT !.staging = NoCopy, !.step = "failed",
                                  !.target = pack.backups[Len(pack.backups)],
                                  !.backups = SubSeq(@, 1, Len(@) - 1)])

\* What was published is validated again before the backups go.
CleanPack ==
    /\ pack.step = "clean" /\ UNCHANGED process
    /\ IF Recoverable(pack) THEN Deploys([Recovered(pack) EXCEPT !.step = "deployed"])
                            ELSE Deploys([pack EXCEPT !.step = "failed", !.staging = NoCopy])

PackStep == RecoverPack \/ CopyEnds \/ SetAside \/ Promote \/ CleanPack

\* Somebody damages the skill between two deployments.
Damage ==
    /\ Fault /\ pack.step = "idle" /\ Complete(pack.target)
    /\ pack' = [pack EXCEPT !.target = BadCopy]
    /\ bare' = ~SomeCopy(pack')
-----------------------------------------------------------------------------
PackTypeOK ==
    /\ pack.step \in Steps /\ {pack.had, bare} \subseteq BOOLEAN
    /\ {pack.target, pack.staging} \subseteq Contents
    /\ pack.backups \in Seq(Contents \ {NoCopy})

\* Whatever step the process died at or the file system failed at, a complete copy of the
\* skill that was once published is still there, in its place or as the one backup recovery
\* cannot mistake, unless somebody damaged the last one; and OpenCode is started over the
\* copy this version of the application brought.
SkillIsKept ==
    /\ PackTypeOK
    /\ ~bare => SomeCopy(pack)
    /\ ~Ambiguous(pack)
    /\ pack.step = "deployed" => pack.target = launch
=============================================================================

--------------------------- MODULE SkillActivation ---------------------------
(***************************************************************************)
(* Research memory and the skill a project may install from it.            *)
(*                                                                         *)
(* One subject of the research memory is followed: the revisions of a      *)
(* remembered passage ("evidence"), of a question or lesson the agent's    *)
(* observations raise ("observation"), or of the answers to one question   *)
(* ("response"); see workflow/research_memory.py.  A committed passage may *)
(* become a skill candidate, and an approved candidate is written to       *)
(* .opencode/skills/remember-verified-evidence/SKILL.md and taken back     *)
(* later (workflow/skill_activations.py).  File and row cannot be written  *)
(* in one transaction: a row is committed first ("installing",             *)
(* "rollback-pending"), the file is replaced, the row is marked.  Every    *)
(* request of the API first finishes whatever pending row it finds, so     *)
(* several threads may be finishing the same one.                          *)
(*                                                                         *)
(* SQLite's writer lock makes BEGIN IMMEDIATE ... COMMIT one action; the   *)
(* rollback alone touches the file inside its transaction, so it keeps     *)
(* `lock' over several.  The user edits the file at any moment, the        *)
(* process dies at any moment, and a temporary file it was writing stays.  *)
(***************************************************************************)
EXTENDS Naturals, Sequences

CONSTANTS Clients,      \* threads that serve requests
          NoClient,     \* the writer lock is free
          MaxApprovals, \* bounds the approvals; the n-th that is recorded has key n
          MaxRemembered,\* bounds the revisions of a remembered passage
          MaxRevisions, \* bounds the revisions of another subject of the memory
          MaxEdits,     \* bounds the user's edits of SKILL.md
          MaxCrashes    \* bounds the ends of the process

ASSUME SkillAssumption ==
    /\ NoClient \notin Clients
    /\ MaxApprovals \in Nat \ {0} /\ MaxRemembered \in Nat \ {0}
    /\ MaxRevisions \in Nat \ {0} /\ MaxEdits \in Nat /\ MaxCrashes \in Nat

VARIABLES
    kind,    \* what the memory subject is about
    mem,     \* status of each revision of the subject, the head last
    current, \* the remembered passage still matches its source
    cand,    \* the revisions a skill candidate was made from
    act,     \* the rows of skill_activations
    file,    \* the skill's directory, SKILL.md and the temporary files beside it
    lock,    \* who holds SQLite's writer lock across steps
    pc, loc, \* what each thread does, and what it has read
    late,    \* threads the user's last edit came too late for
    author,  \* who wrote SKILL.md last
    overlap, \* two threads have been installing or rolling back at a time
    edits, crashes

memory == <<kind, mem, current, cand>>
vars == <<kind, mem, current, cand, act, file, lock, pc, loc, late, author,
          overlap, edits, crashes>>

Kinds == {"evidence", "observation", "response"}
Keys == 1 .. MaxApprovals
Contents == {"absent", "mine", "template"}
Pending == {"installing", "rollback-pending"}
ActiveLike == Pending \cup {"active"}

NoRow == [st |-> "none", prior |-> "absent", madeDir |-> FALSE, cand |-> 0]
NoWork == [row |-> 0, own |-> FALSE, blind |-> FALSE]

-----------------------------------------------------------------------------
(* Research memory.  A request names the revision, status and head its page *)
(* showed; one that no longer matches is refused and leaves no trace.       *)

Newest == Len(mem)
Replaced(from) == [r \in DOMAIN mem |-> IF mem[r] = from THEN "superseded" ELSE mem[r]]

\* create_evidence_memory_candidate: a passage that is a candidate or committed is
\* already remembered; after a rejection or invalidation it becomes a new revision.
Remember ==
    /\ kind = "evidence" /\ current /\ Newest < MaxRemembered
    /\ Newest > 0 => mem[Newest] \notin {"candidate", "committed"}
    /\ mem' = Append(mem, "candidate")
    /\ UNCHANGED <<kind, current, cand>>

\* _create_observation_candidate: a later observation of the subject takes the place of
\* a candidate nobody reviewed.
Observe ==
    /\ kind = "observation" /\ Newest < MaxRevisions
    /\ mem' = Append(Replaced("candidate"), "candidate")
    /\ UNCHANGED <<kind, current, cand>>

\* commit_user_response_memory: an answer is committed at once, in place of the last.
Respond ==
    /\ kind = "response" /\ Newest < MaxRevisions
    /\ mem' = Append(Replaced("committed"), "committed")
    /\ UNCHANGED <<kind, current, cand>>

\* _assert_memory_mutation_guard for a page that showed revision r with this status
\* when r was the head.
Reviewable(r, status) == mem[r] = status /\ r = Newest

\* Mutant: the revision accepted before stays committed.
AcceptMut(r) ==
    /\ Reviewable(r, "candidate")
    /\ mem' = [mem EXCEPT ![r] = "committed"]
    /\ UNCHANGED <<kind, current, cand>>

\* resolve_memory_candidate: an accepted revision replaces the committed one.
Accept(r) ==
    /\ Reviewable(r, "candidate")
    /\ mem' = [Replaced("committed") EXCEPT ![r] = "committed"]
    /\ UNCHANGED <<kind, current, cand>>

Reject(r) ==
    /\ Reviewable(r, "candidate")
    /\ mem' = [mem EXCEPT ![r] = "rejected"]
    /\ UNCHANGED <<kind, current, cand>>

\* invalidate_memory: of whatever revision is committed, also behind a candidate.
Invalidate(r) ==
    /\ mem[r] = "committed"
    /\ mem' = [mem EXCEPT ![r] = "invalidated"]
    /\ UNCHANGED <<kind, current, cand>>

\* The source or the verified passage changes under the memory.
SourceChanges ==
    /\ kind = "evidence" /\ current
    /\ current' = FALSE
    /\ UNCHANGED <<kind, mem, cand>>

\* assert_skill_candidate_integrity: the episode verifies and the origin is committed.
CandidateOk(r) == current /\ mem[r] = "committed"

\* create_skill_candidate, with its six replays passed.
CreateCandidate(r) ==
    /\ kind = "evidence" /\ CandidateOk(r) /\ r \notin cand
    /\ cand' = cand \cup {r}
    /\ UNCHANGED <<kind, mem, current>>

MemoryStep ==
    /\ lock = NoClient
    /\ \/ Remember \/ Observe \/ Respond \/ SourceChanges
       \/ \E r \in DOMAIN mem :
             Accept(r) \/ Reject(r) \/ Invalidate(r) \/ CreateCandidate(r)
    /\ UNCHANGED <<act, file, lock, pc, loc, late, author, overlap, edits, crashes>>

-----------------------------------------------------------------------------
(* What the requests share. *)

\* _inspect_target refuses a directory with any other file in it.
Unknown == file.tmp # {}

Working(t) == pc[t] \in {"inspect", "replace", "verify", "mark", "drift", "restore", "undo", "restored"}

Goto(t, label) == pc' = [pc EXCEPT ![t] = label]
Mark(k, status) == act' = [act EXCEPT ![k].st = status]

\* The request raises: the transaction is rolled back, a conflict is answered.
Raise(t) ==
    /\ Goto(t, "idle")
    /\ loc' = [loc EXCEPT ![t] = NoWork]
    /\ late' = late \ {t}

\* A row is finished: recovery goes on to the request, the request's own row ends it.
Finish(t) ==
    IF loc[t].own THEN Raise(t)
    ELSE /\ Goto(t, "act")
         /\ loc' = [loc EXCEPT ![t].row = 0, ![t].blind = FALSE]
         /\ late' = late \ {t}

\* _ensure_target_directory and the temporary file of _atomic_write.
BesideTarget(t) == file' = [file EXCEPT !.dir = TRUE, !.tmp = @ \cup {t}]

\* Turns to row k; `blind' when the session keeps the row as it read it, so that the
\* status under the lock is not read again (expire_on_commit is off).
Begin(t, label, k, own, blind) ==
    /\ Goto(t, label)
    /\ loc' = [loc EXCEPT ![t].row = k, ![t].own = own, ![t].blind = blind]
    /\ late' = late \ {t}
    /\ overlap' = (overlap \/ \E c \in Clients \ {t} : Working(c))

\* Mutant: only installations are looked for.
RecoverMut(t) ==
    /\ pc[t] = "idle" /\ lock = NoClient /\ cand # {}
    /\ \/ /\ \A k \in Keys : act[k].st # "installing"
          /\ Goto(t, "act")
          /\ UNCHANGED <<act, loc, late, overlap>>
       \/ \E k \in Keys :
             /\ act[k].st = "installing" /\ CandidateOk(act[k].cand)
             /\ Begin(t, "inspect", k, FALSE, FALSE)
             /\ UNCHANGED act
    /\ UNCHANGED <<memory, file, lock, author, edits, crashes>>

\* A request arrives and begins with recover_project_activations, whatever it asks for:
\* the unique index leaves at most one row pending.
Recover(t) ==
    /\ pc[t] = "idle" /\ lock = NoClient /\ cand # {}
    /\ \/ /\ \A k \in Keys : act[k].st \notin Pending
          /\ Goto(t, "act")
          /\ UNCHANGED <<act, loc, late, overlap>>
       \/ \E k \in Keys :
             \/ /\ act[k].st = "rollback-pending"
                /\ Begin(t, "restore", k, FALSE, TRUE)
                /\ UNCHANGED act
             \/ /\ act[k].st = "installing" /\ CandidateOk(act[k].cand)
                /\ Begin(t, "inspect", k, FALSE, FALSE)
                /\ UNCHANGED act
             \/ /\ act[k].st = "installing" /\ ~CandidateOk(act[k].cand)
                /\ Mark(k, "blocked") /\ Raise(t)
                /\ UNCHANGED overlap
    /\ UNCHANGED <<memory, file, lock, author, edits, crashes>>

-----------------------------------------------------------------------------
(* Installing. *)

\* The request only reads (a preview, the list, one row, the capability invoked for a
\* passage already remembered), or it is refused: another preview, a key or a status that
\* does not fit, an installation that is not what was approved.
Look(t) ==
    /\ pc[t] = "act"
    /\ Raise(t)
    /\ UNCHANGED <<memory, act, file, lock, author, overlap, edits, crashes>>

\* approve_and_activate with a new key: the preview the user approved is of the file as
\* it is, and no other row owns the target.
Approve(t, k, r) ==
    /\ pc[t] = "act" /\ lock = NoClient
    /\ act[k].st = "none" /\ \A j \in Keys : j < k => act[j].st # "none"
    /\ CandidateOk(r) /\ ~Unknown
    /\ \A j \in Keys : act[j].st \notin ActiveLike
    /\ act' = [act EXCEPT ![k] = [st |-> "installing", prior |-> file.md,
                                  madeDir |-> ~file.dir, cand |-> r]]
    /\ Begin(t, "inspect", k, TRUE, FALSE)
    /\ UNCHANGED <<memory, file, lock, author, edits, crashes>>

\* The same key again: an installation another thread has under way is resumed.
ApproveAgain(t, k) ==
    /\ pc[t] = "act" /\ lock = NoClient
    /\ act[k].st = "installing"
    /\ Begin(t, "inspect", k, TRUE, TRUE)
    /\ UNCHANGED <<memory, act, file, lock, author, edits, crashes>>

\* Mutant: a file that is not the template is replaced, whatever it is.
InspectMut(t) ==
    /\ pc[t] = "inspect"
    /\ \/ Unknown /\ Raise(t) /\ UNCHANGED file
       \/ /\ ~Unknown /\ file.md = "template"
          /\ Goto(t, "mark") /\ UNCHANGED <<file, loc, late>>
       \/ /\ ~Unknown /\ file.md # "template"
          /\ Goto(t, "replace") /\ BesideTarget(t) /\ late' = late \ {t} /\ UNCHANGED loc
    /\ UNCHANGED <<memory, act, lock, author, overlap, edits, crashes>>

\* _resume_install looks at the file outside any transaction: the template is there
\* already, or the prior file is and may be replaced, or the user's hand was in it.
Inspect(t) ==
    LET prior == act[loc[t].row].prior IN
    /\ pc[t] = "inspect"
    /\ \/ Unknown /\ Raise(t) /\ UNCHANGED file
       \/ /\ ~Unknown /\ file.md = "template"
          /\ Goto(t, "mark") /\ UNCHANGED <<file, loc, late>>
       \/ /\ ~Unknown /\ file.md # "template" /\ file.md = prior
          /\ Goto(t, "replace") /\ BesideTarget(t) /\ late' = late \ {t} /\ UNCHANGED loc
       \/ /\ ~Unknown /\ file.md \notin {"template", prior}
          /\ Goto(t, "drift") /\ UNCHANGED <<file, loc, late>>
    /\ UNCHANGED <<memory, act, lock, author, overlap, edits, crashes>>

\* _mark_status as "blocked" and the conflict; a row that went on meanwhile is left.
Drift(t) ==
    LET k == loc[t].row IN
    /\ pc[t] = "drift" /\ lock = NoClient
    /\ IF loc[t].blind \/ act[k].st = "installing" THEN Mark(k, "blocked") ELSE UNCHANGED act
    /\ Raise(t)
    /\ UNCHANGED <<memory, file, lock, author, overlap, edits, crashes>>

\* os.replace: the template takes the place of whatever is there now.
Replace(t) ==
    /\ pc[t] = "replace"
    /\ file' = [file EXCEPT !.md = "template", !.tmp = @ \ {t}]
    /\ author' = "core"
    /\ Goto(t, "verify")
    /\ UNCHANGED <<memory, act, lock, loc, late, overlap, edits, crashes>>

Verify(t) ==
    /\ pc[t] = "verify"
    /\ \/ (Unknown \/ file.md # "template") /\ Raise(t)
       \/ ~Unknown /\ file.md = "template" /\ Goto(t, "mark") /\ UNCHANGED <<loc, late>>
    /\ UNCHANGED <<memory, act, file, lock, author, overlap, edits, crashes>>

\* _mark_status compares the status, unless its session still has the row in memory;
\* then only the unique index keeps it from a second active row.
Activated(t, k) ==
    \/ act[k].st = "installing"
    \/ loc[t].blind /\ \A j \in Keys \ {k} : act[j].st \notin ActiveLike

MarkActive(t) ==
    LET k == loc[t].row IN
    /\ pc[t] = "mark" /\ lock = NoClient
    /\ \/ Activated(t, k) /\ Mark(k, "active") /\ Finish(t)
       \/ ~Activated(t, k) /\ act[k].st = "active" /\ Finish(t) /\ UNCHANGED act
       \/ ~Activated(t, k) /\ act[k].st # "active" /\ Raise(t) /\ UNCHANGED act
    /\ UNCHANGED <<memory, file, lock, author, overlap, edits, crashes>>

-----------------------------------------------------------------------------
(* Rolling back. *)

\* rollback_activation: the installation is exactly what was approved.
Rollback(t, k) ==
    /\ pc[t] = "act" /\ lock = NoClient
    /\ act[k].st = "active"
    /\ CandidateOk(act[k].cand) /\ ~Unknown /\ file.md = "template"
    /\ Mark(k, "rollback-pending")
    /\ Begin(t, "restore", k, TRUE, FALSE)
    /\ UNCHANGED <<memory, file, lock, author, edits, crashes>>

\* The same rollback again, while another thread carries it out.
RollbackAgain(t, k) ==
    /\ pc[t] = "act" /\ lock = NoClient
    /\ act[k].st = "rollback-pending"
    /\ Begin(t, "restore", k, TRUE, TRUE)
    /\ UNCHANGED <<memory, act, file, lock, author, edits, crashes>>

\* The row under the lock is not the one this rollback began with.
Stale(t) == ~loc[t].blind /\ act[loc[t].row].st # "rollback-pending"

\* Mutant: a rollback whose scope does not hold any more is called done.
RestoreMut(t) ==
    LET k == loc[t].row IN
    /\ pc[t] = "restore" /\ lock = NoClient
    /\ \/ /\ ~CandidateOk(act[k].cand) \/ file.md = act[k].prior
          /\ Mark(k, "rolled-back") /\ Finish(t) /\ UNCHANGED <<lock, file>>
       \/ /\ CandidateOk(act[k].cand) /\ file.md = "template" /\ ~Unknown
          /\ lock' = t /\ Goto(t, "undo") /\ late' = late \ {t}
          /\ UNCHANGED <<act, loc>>
          /\ IF act[k].prior = "absent" THEN UNCHANGED file ELSE BesideTarget(t)
    /\ UNCHANGED <<memory, author, overlap, edits, crashes>>

\* _resume_rollback, to the point where it leaves the file to write: a scope that does
\* not hold any more blocks the row, a prior file that is back ends it.
Restore(t) ==
    LET k == loc[t].row
        valid == ~Stale(t) /\ CandidateOk(act[k].cand) IN
    /\ pc[t] = "restore" /\ lock = NoClient
    /\ \/ ~valid /\ Mark(k, "blocked") /\ Raise(t) /\ UNCHANGED <<lock, file>>
       \/ valid /\ Unknown /\ Raise(t) /\ UNCHANGED <<act, lock, file>>
       \/ /\ valid /\ ~Unknown /\ file.md = act[k].prior
          /\ Mark(k, "rolled-back") /\ Finish(t) /\ UNCHANGED <<lock, file>>
       \/ /\ valid /\ ~Unknown /\ file.md \notin {act[k].prior, "template"}
          /\ Mark(k, "blocked") /\ Raise(t) /\ UNCHANGED <<lock, file>>
       \/ /\ valid /\ ~Unknown /\ file.md = "template" /\ act[k].prior # "template"
          /\ lock' = t /\ Goto(t, "undo") /\ late' = late \ {t}
          /\ UNCHANGED <<act, loc>>
          /\ IF act[k].prior = "absent" THEN UNCHANGED file ELSE BesideTarget(t)
    /\ UNCHANGED <<memory, author, overlap, edits, crashes>>

\* The prior file replaces the template, or the template is unlinked.
Undo(t) ==
    /\ pc[t] = "undo"
    /\ file' = [file EXCEPT !.md = act[loc[t].row].prior, !.tmp = @ \ {t}]
    /\ author' = "core" /\ Goto(t, "restored")
    /\ UNCHANGED <<memory, act, lock, loc, late, overlap, edits, crashes>>

\* The directory the installation made goes if it is empty; the row is committed when
\* the prior file is there.
Restored(t) ==
    LET k == loc[t].row IN
    /\ pc[t] = "restored"
    /\ lock' = NoClient
    /\ file' = [file EXCEPT !.dir =
                  @ /\ ~(act[k].madeDir /\ act[k].prior = "absent"
                           /\ file.md = "absent" /\ ~Unknown)]
    /\ \/ (Unknown \/ file.md # act[k].prior) /\ Raise(t) /\ UNCHANGED act
       \/ ~Unknown /\ file.md = act[k].prior /\ Mark(k, "rolled-back") /\ Finish(t)
    /\ UNCHANGED <<memory, author, overlap, edits, crashes>>

-----------------------------------------------------------------------------
(* The environment. *)

\* The user writes or removes SKILL.md; who looked at it before does not know.
Edit ==
    /\ edits < MaxEdits /\ edits' = edits + 1
    /\ \E md \in {"absent", "mine"} \ {file.md} : file' = [file EXCEPT !.md = md, !.dir = TRUE]
    /\ author' = "user" /\ late' = {t \in Clients : Working(t)}
    /\ UNCHANGED <<memory, act, lock, pc, loc, overlap, crashes>>

\* The process ends: transactions are undone, temporary files stay.
Crash ==
    /\ crashes < MaxCrashes /\ crashes' = crashes + 1
    /\ pc' = [t \in Clients |-> "idle"] /\ loc' = [t \in Clients |-> NoWork]
    /\ lock' = NoClient /\ late' = {}
    /\ file' = [file EXCEPT !.tmp = IF @ = {} THEN {} ELSE {NoClient}]
    /\ UNCHANGED <<memory, act, author, overlap, edits>>

Init ==
    /\ kind \in Kinds /\ mem = <<>> /\ current = TRUE /\ cand = {}
    /\ act = [k \in Keys |-> NoRow]
    /\ file \in {[dir |-> FALSE, md |-> "absent", tmp |-> {}],
                [dir |-> TRUE, md |-> "mine", tmp |-> {}]}
    /\ lock = NoClient
    /\ pc = [t \in Clients |-> "idle"] /\ loc = [t \in Clients |-> NoWork]
    /\ late = {} /\ author = "user" /\ overlap = FALSE
    /\ edits = 0 /\ crashes = 0

Serve(t) ==
    \/ Recover(t) \/ Look(t)
    \/ \E k \in Keys :
          \/ (\E r \in cand : Approve(t, k, r)) \/ ApproveAgain(t, k)
          \/ Rollback(t, k) \/ RollbackAgain(t, k)
    \/ Inspect(t) \/ Drift(t) \/ Replace(t) \/ Verify(t) \/ MarkActive(t)
    \/ Restore(t) \/ Undo(t) \/ Restored(t)

Next == MemoryStep \/ Edit \/ Crash \/ \E t \in Clients : Serve(t)

\* A request that was taken is served, and somebody looks at the skill again: recovery
\* has no thread of its own.
Fairness == \A t \in Clients : WF_vars(Serve(t))

Spec == Init /\ [][Next]_vars /\ Fairness
-----------------------------------------------------------------------------
(* Properties. *)

TypeOK ==
    /\ kind \in Kinds /\ current \in BOOLEAN /\ cand \subseteq DOMAIN mem
    /\ mem \in Seq({"candidate", "committed", "rejected", "superseded", "invalidated"})
    /\ act \in [Keys -> [st : ActiveLike \cup {"none", "rolled-back", "blocked"},
                         prior : Contents, madeDir : BOOLEAN, cand : Nat]]
    /\ file.md \in Contents /\ (file.md # "absent" \/ Unknown => file.dir)
    /\ lock \in Clients => pc[lock] \in {"undo", "restored"}
    /\ \A t \in Clients : Working(t) => loc[t].row \in Keys

\* As long as no two threads install or roll back at a time, file and record tell the
\* same, across crashes between any two steps, edits, and an origin that is invalidated
\* meanwhile: an active skill is installed unless the user changed it, and the template is never
\* on disk without a row that says so.
FileMatchesRecord ==
    ~overlap =>
        /\ \A k \in Keys : act[k].st = "active" /\ author = "core" => file.md = "template"
        /\ file.md = "template" => \E k \in Keys : act[k].st \in ActiveLike \cup {"blocked"}

\* The records agree: at most one revision of a subject is committed and only the newest
\* waits for review, whoever accepts, observes, answers or invalidates; at most one
\* installation owns the target; every temporary file has a writer or was left by a
\* process that ended; and the file is what the rows say.
RecordsAgree ==
    /\ TypeOK /\ FileMatchesRecord
    /\ \A r, s \in DOMAIN mem : mem[r] = "committed" /\ mem[s] = "committed" => r = s
    /\ \A r \in DOMAIN mem : mem[r] = "candidate" => r = Newest
    /\ \A j, k \in Keys : {act[j].st, act[k].st} \subseteq ActiveLike => j = k
    /\ \A t \in file.tmp : t = NoClient \/ pc[t] \in {"replace", "undo"}

\* No thread, however late, destroys a file of the user's that its row did not keep,
\* unless the user wrote it after the thread looked; and a row says "rolled-back"
\* only of a prior file that is there again.
PriorIsKept ==
    [][/\ file.md = "mine" /\ file'.md # "mine" /\ edits' = edits =>
             \E t \in Clients :
                /\ pc[t] \in {"replace", "undo"} /\ pc'[t] # pc[t]
                /\ act[loc[t].row].prior = "mine" \/ t \in late
       /\ \A k \in Keys : act[k].st # "rolled-back" /\ act'[k].st = "rolled-back"
             => file'.md = act[k].prior]_vars

\* A committed intent is finished or blocked, wherever the process died and whoever
\* edits, as long as requests come, unless a temporary file was left behind, which
\* every later inspection refuses.
PendingSettles ==
    \A k \in Keys :
        act[k].st \in Pending ~> act[k].st \notin Pending \/ NoClient \in file.tmp
=============================================================================

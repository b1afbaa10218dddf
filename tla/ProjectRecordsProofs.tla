------------------------ MODULE ProjectRecordsProofs ------------------------
(***************************************************************************)
(* What a project keeps besides its workflows is kept, for any number of   *)
(* threads, approvals, revisions, windows, keys, titles, writes and        *)
(* crashes: row and file of an installed skill tell the same               *)
(* (RecordsAgree) and no file of the user's is lost (PriorIsKept), the     *)
(* records of an import agree (LibraryAgrees), and no edit of the          *)
(* project's rows is lost (EditsAreKept).                                  *)
(*                                                                         *)
(* Skills.  What keeps two threads from replacing each other's file is     *)
(* neither row nor lock but the temporary file: whoever is about to write  *)
(* has one in the directory, and nobody begins to write where one is.  So  *)
(* between a thread's look and its write only the user's hand, which makes *)
(* the thread `late', can put a file of the user's there.  As long as no   *)
(* two threads work at a time, the one that works is on the row that is    *)
(* pending, or on one that recovery has blocked under it; then no other    *)
(* row is active, and none becomes so.                                     *)
(*                                                                         *)
(* Imports.  The invariant adds to what is claimed only that a parser      *)
(* without a candidate has made a row.                                     *)
(*                                                                         *)
(* Rows.  What keeps a stale window from overwriting is the version, but   *)
(* versions alone are not unique: a cell that was cleared starts again.    *)
(* The invariant therefore follows the write that created a row: a window  *)
(* and a row of one creation agree as soon as their versions do, a window  *)
(* is never ahead, and only the cell has more than one creation.           *)
(*                                                                         *)
(* The project.  A mutation under way that would change the project may    *)
(* still commit only at the version it read, and then nobody has recorded  *)
(* its key: that is all the check of the key before the write is worth.    *)
(***************************************************************************)
EXTENDS ProjectRecords, TLAPS
-----------------------------------------------------------------------------
(* Skills *)

SkillLabels == {"idle", "act", "inspect", "replace", "verify", "mark", "drift",
                "restore", "undo", "restored"}
Installing == {"inspect", "replace", "verify", "mark", "drift"}
RollingBack == {"restore", "undo", "restored"}

SkillFiles == [dir : BOOLEAN, md : Contents, tmp : SUBSET (Clients \cup {NoClient})]
RowStatuses == ActiveLike \cup {"none", "rolled-back", "blocked"}
SkillRows == [st : RowStatuses, prior : Contents, madeDir : BOOLEAN, cand : Nat]
SkillWork == [row : {0} \cup Keys, own : BOOLEAN, blind : BOOLEAN]

StepsTyped ==
    /\ act \in [Keys -> SkillRows]
    /\ file \in SkillFiles /\ (file.md # "absent" \/ Unknown => file.dir)
    /\ lock \in Clients \cup {NoClient}
    /\ pc \in [Clients -> SkillLabels] /\ loc \in [Clients -> SkillWork]
    /\ late \subseteq Clients /\ author \in {"user", "core"} /\ overlap \in BOOLEAN
    /\ \A t \in Clients : Working(t) => loc[t].row \in Keys

\* The memory's own part of RecordsAgree; answers are never candidates.
MemorySound ==
    /\ kind \in Kinds /\ current \in BOOLEAN /\ cand \subseteq DOMAIN mem
    /\ mem \in Seq({"candidate", "committed", "rejected", "superseded", "invalidated"})
    /\ \A r, s \in DOMAIN mem : mem[r] = "committed" /\ mem[s] = "committed" => r = s
    /\ \A r \in DOMAIN mem : mem[r] = "candidate" => r = Newest /\ kind # "response"

OneOwner ==
    \A j, k \in Keys : act[j].st \in ActiveLike /\ act[k].st \in ActiveLike => j = k

\* Who is about to write has the one temporary file there is, or the lock.
OneWriter ==
    /\ \A t \in file.tmp : t = NoClient \/ pc[t] \in {"replace", "undo"}
    /\ \A s, t \in file.tmp : s = t
    /\ \A t \in Clients :
          /\ pc[t] = "replace" => t \in file.tmp
          /\ pc[t] = "undo" /\ act[loc[t].row].prior # "absent" => t \in file.tmp
          /\ pc[t] \in {"undo", "restored"} <=> lock = t

\* What a thread that is about to write may destroy.
WritersSound ==
    \A t \in Clients :
        /\ Working(t) => act[loc[t].row].st # "none"
        /\ pc[t] = "undo" => act[loc[t].row].prior # "template"
        /\ pc[t] \in {"replace", "undo"} /\ file.md = "mine" =>
              act[loc[t].row].prior = "mine" \/ t \in late

\* The only thread at work is on the row that is pending, or that recovery blocked.
WorkerSound ==
    /\ \A s, t \in Clients : Working(s) /\ Working(t) => s = t
    /\ \A t \in Clients :
          /\ pc[t] \in Installing =>
                \/ act[loc[t].row].st = "installing"
                \/ /\ act[loc[t].row].st = "blocked"
                   /\ \A k \in Keys : act[k].st \notin ActiveLike
          /\ pc[t] \in RollingBack => act[loc[t].row].st = "rollback-pending"
          /\ pc[t] = "mark" => file.md = "template" \/ author = "user"

\* A template that was found before an installation belongs to a row that was blocked,
\* and nobody works on it any more.
TemplateAccounted ==
    \A k \in Keys : act[k].st # "none" /\ act[k].prior = "template" =>
        \E j \in Keys \ {k} :
            act[j].st = "blocked" /\ \A t \in Clients : Working(t) => loc[t].row # j

FileFollows ==
    /\ \A k \in Keys : act[k].st = "active" /\ author = "core" => file.md = "template"
    /\ file.md = "template" => \E k \in Keys : act[k].st \in ActiveLike \cup {"blocked"}

AloneSound == ~overlap => WorkerSound /\ TemplateAccounted /\ FileFollows

StepsInv == StepsTyped /\ OneOwner /\ OneWriter /\ WritersSound /\ AloneSound
SkillInv == MemorySound /\ StepsInv /\ edits \in Nat

-----------------------------------------------------------------------------
(* What the requests share. *)

\* The thread t stands at l and its session has read w; the others are where they were.
Moved(t, l, w) ==
    /\ pc' \in [Clients -> SkillLabels] /\ loc' \in [Clients -> SkillWork]
    /\ pc'[t] = l /\ loc'[t] = w
    /\ \A s \in Clients \ {t} : pc'[s] = pc[s] /\ loc'[s] = loc[s]

\* Row k now has this status, and nothing else of any row is different.
Marked(k, status) ==
    /\ act' \in [Keys -> SkillRows]
    /\ act'[k].st = status /\ act'[k].prior = act[k].prior
    /\ act'[k].madeDir = act[k].madeDir /\ act'[k].cand = act[k].cand
    /\ \A j \in Keys \ {k} : act'[j] = act[j]

LEMMA GotoMoves ==
  ASSUME StepsTyped, NEW t \in Clients, NEW l \in SkillLabels, Goto(t, l), UNCHANGED loc
  PROVE  Moved(t, l, loc[t])
  BY DEF StepsTyped, Goto, Moved

LEMMA BeginMoves ==
  ASSUME StepsTyped, NEW t \in Clients, NEW l \in SkillLabels, NEW k \in Keys,
         NEW own \in BOOLEAN, NEW blind \in BOOLEAN, Begin(t, l, k, own, blind)
  PROVE  /\ Moved(t, l, [row |-> k, own |-> own, blind |-> blind])
         /\ late' = late \ {t}
         /\ overlap' \in BOOLEAN
         /\ ~overlap' => ~overlap /\ \A c \in Clients \ {t} : ~Working(c)
<1> DEFINE w == [row |-> k, own |-> own, blind |-> blind]
<1>1. w \in SkillWork
  BY DEF SkillWork
<1>2. loc' \in [Clients -> SkillWork] /\ loc'[t] = w /\ \A s \in Clients \ {t} : loc'[s] = loc[s]
  <2> DEFINE a == [loc EXCEPT ![t].row = k]
             b == [a EXCEPT ![t].own = own]
             c == [b EXCEPT ![t].blind = blind]
  <2>1. loc' = c
    BY DEF Begin
  <2>2. a \in [Clients -> SkillWork] /\ a[t].row = k /\ \A s \in Clients \ {t} : a[s] = loc[s]
    BY DEF StepsTyped, SkillWork
  <2> HIDE DEF a
  <2>3. /\ b \in [Clients -> SkillWork] /\ b[t].row = k /\ b[t].own = own
        /\ \A s \in Clients \ {t} : b[s] = loc[s]
    BY <2>2 DEF SkillWork
  <2> HIDE DEF b
  <2>4. /\ c \in [Clients -> SkillWork] /\ c[t] = w
        /\ \A s \in Clients \ {t} : c[s] = loc[s]
    BY <2>3 DEF SkillWork
  <2> QED BY <2>1, <2>4
<1>3. Moved(t, l, w)
  <2> HIDE DEF w
  <2> QED BY <1>1, <1>2 DEF StepsTyped, Begin, Goto, Moved
<1>4. overlap' = (overlap \/ \E c \in Clients \ {t} : Working(c))
  BY DEF Begin
<1>5. late' = late \ {t}
  BY DEF Begin
<1> QED BY <1>3, <1>4, <1>5 DEF StepsTyped

LEMMA RaiseMoves ==
  ASSUME StepsTyped, NEW t \in Clients, Raise(t)
  PROVE  Moved(t, "idle", NoWork) /\ late' = late \ {t}
<1>1. NoWork \in SkillWork /\ "idle" \in SkillLabels
  BY DEF NoWork, SkillWork, SkillLabels
<1> QED BY <1>1 DEF StepsTyped, Raise, Goto, Moved

\* A row that is finished is left, in one way or the other.
LEMMA FinishMoves ==
  ASSUME StepsTyped, NEW t \in Clients, Finish(t)
  PROVE  late' = late \ {t} /\ \E l \in {"idle", "act"}, w \in SkillWork : Moved(t, l, w)
<1>1. CASE loc[t].own
  <2>1. NoWork \in SkillWork
    BY DEF NoWork, SkillWork
  <2> QED BY <1>1, <2>1, RaiseMoves DEF Finish
<1>2. CASE ~loc[t].own
  <2> DEFINE w == [row |-> 0, own |-> loc[t].own, blind |-> FALSE]
  <2>1. w \in SkillWork /\ loc' = [loc EXCEPT ![t] = w]
    BY <1>2 DEF Finish, StepsTyped, SkillWork
  <2>2. late' = late \ {t} /\ Goto(t, "act")
    BY <1>2 DEF Finish
  <2> HIDE DEF w
  <2>3. Moved(t, "act", w)
    BY <2>1, <2>2 DEF StepsTyped, Goto, Moved, SkillLabels
  <2> QED BY <2>1, <2>2, <2>3
<1> QED BY <1>1, <1>2

LEMMA MarkMarks ==
  ASSUME StepsTyped, NEW k \in Keys, NEW status \in RowStatuses, Mark(k, status)
  PROVE  Marked(k, status)
<1> DEFINE row == [act[k] EXCEPT !.st = status]
<1>1. row \in SkillRows /\ row.st = status /\ row.prior = act[k].prior
      /\ row.madeDir = act[k].madeDir /\ row.cand = act[k].cand
  BY DEF StepsTyped, SkillRows
<1>2. act' = [act EXCEPT ![k] = row]
  BY DEF Mark
<1> HIDE DEF row
<1> QED BY <1>1, <1>2 DEF StepsTyped, Marked

-----------------------------------------------------------------------------
(* Actions. *)

LEMMA InvInit == Init => SkillInv
<1> SUFFICES ASSUME Init PROVE SkillInv
  OBVIOUS
<1>1. MemorySound
  BY DEF Init, MemorySound, Kinds
<1>2. StepsTyped
  <2>1. NoRow \in SkillRows /\ NoWork \in SkillWork /\ "idle" \in SkillLabels
    BY DEF SkillRows, RowStatuses, NoRow, Contents, NoWork, SkillWork, SkillLabels
  <2>2. file \in SkillFiles /\ (file.md # "absent" \/ Unknown => file.dir)
    <3>1. file = [dir |-> FALSE, md |-> "absent", tmp |-> {}] \/ file = [dir |-> TRUE, md |-> "mine", tmp |-> {}]
      BY DEF Init
    <3>2. {} \in SUBSET (Clients \cup {NoClient})
      OBVIOUS
    <3>3. file.dir \in BOOLEAN /\ file.md \in Contents /\ file.tmp = {}
          /\ file = [dir |-> file.dir, md |-> file.md, tmp |-> file.tmp]
      <4>1. CASE file = [dir |-> FALSE, md |-> "absent", tmp |-> {}]
        BY <4>1 DEF Contents
      <4>2. CASE file = [dir |-> TRUE, md |-> "mine", tmp |-> {}]
        BY <4>2 DEF Contents
      <4> QED BY <3>1, <4>1, <4>2
    <3>4. file.md # "absent" \/ Unknown => file.dir
      BY <3>1 DEF Unknown
    <3> QED BY <3>2, <3>3, <3>4 DEF SkillFiles
  <2>3. \A t \in Clients : ~Working(t)
    BY DEF Init, Working
  <2> QED BY <2>1, <2>2, <2>3 DEF Init, StepsTyped
<1>3. OneOwner /\ OneWriter /\ WritersSound
  <2>1. file.tmp = {} /\ lock = NoClient /\ \A t \in Clients : pc[t] = "idle"
    BY DEF Init
  <2>2. OneOwner
    BY DEF Init, OneOwner, ActiveLike, Pending, NoRow
  <2>3. OneWriter
    BY <2>1, SkillAssumption DEF OneWriter
  <2>4. WritersSound
    BY <2>1 DEF WritersSound, Working
  <2> QED BY <2>2, <2>3, <2>4
<1>4. AloneSound
  BY DEF Init, AloneSound, WorkerSound, TemplateAccounted, FileFollows, ActiveLike, Pending, NoRow, Working,
         Installing, RollingBack
<1>5. edits \in Nat
  BY DEF Init
<1> QED BY <1>1, <1>2, <1>3, <1>4, <1>5 DEF SkillInv, StepsInv

\* A thread leaves the file and the rows to the others.
LEMMA LeavingKeeps ==
  ASSUME StepsInv, NEW t \in Clients, NEW l \in {"idle", "act"}, NEW w \in SkillWork,
         Moved(t, l, w), late' \in {late, late \ {t}}, pc[t] \notin {"replace", "undo", "restored"},
         UNCHANGED <<act, file, lock, author, overlap>>
  PROVE  StepsInv'
<1>1. l \notin {"inspect", "replace", "verify", "mark", "drift", "restore", "undo", "restored"}
      /\ l \in SkillLabels
  BY DEF SkillLabels
<1>2. StepsTyped'
  BY <1>1 DEF StepsInv, StepsTyped, Moved, Working, Unknown
<1>3. OneOwner'
  BY DEF StepsInv, OneOwner
<1>4. OneWriter'
  BY <1>1 DEF StepsInv, OneWriter, Moved, StepsTyped, SkillFiles
<1>5. WritersSound'
  BY <1>1 DEF StepsInv, WritersSound, Moved, StepsTyped, Working
<1>6. AloneSound'
  <2> SUFFICES ASSUME ~overlap PROVE (WorkerSound /\ TemplateAccounted /\ FileFollows)'
    BY DEF AloneSound
  <2>1. WorkerSound'
    BY <1>1 DEF StepsInv, AloneSound, WorkerSound, Moved, StepsTyped, Working, Installing, RollingBack
  <2>2. TemplateAccounted'
    BY <1>1 DEF StepsInv, AloneSound, TemplateAccounted, Moved, StepsTyped, Working
  <2>3. FileFollows'
    BY DEF StepsInv, AloneSound, FileFollows
  <2> QED BY <2>1, <2>2, <2>3
<1> QED BY <1>2, <1>3, <1>4, <1>5, <1>6 DEF StepsInv

\* A thread blocks the row it works on, or the one its recovery finds, and leaves it.
LEMMA BlockingKeeps ==
  ASSUME StepsInv, NEW t \in Clients, NEW k \in Keys,
         \/ pc[t] = "idle" /\ act[k].st = "installing"
         \/ pc[t] \in {"drift", "restore"} /\ k = loc[t].row,
         Moved(t, "idle", NoWork), late' = late \ {t}, Marked(k, "blocked"),
         UNCHANGED <<file, lock, author, overlap>>
  PROVE  StepsInv'
<1>2. StepsTyped'
  BY DEF StepsInv, StepsTyped, Moved, Marked, Working, Unknown
<1>3. OneOwner'
  BY DEF StepsInv, OneOwner, Marked, ActiveLike, Pending
<1>4. OneWriter'
  BY DEF StepsInv, OneWriter, Moved, StepsTyped, Marked, Working, SkillFiles, WritersSound
<1>5. WritersSound'
  BY DEF StepsInv, WritersSound, Moved, StepsTyped, Working, Marked
<1>6. AloneSound'
  <2> SUFFICES ASSUME ~overlap PROVE (WorkerSound /\ TemplateAccounted /\ FileFollows)'
    BY DEF AloneSound
  <2>1. WorkerSound'
    BY DEF StepsInv, AloneSound, WorkerSound, OneOwner, Moved, Marked, StepsTyped, Working, Installing,
           RollingBack, ActiveLike, Pending
  <2>2. TemplateAccounted'
    BY DEF StepsInv, AloneSound, TemplateAccounted, WritersSound, Moved, Marked, StepsTyped, Working
  <2>3. FileFollows'
    BY DEF StepsInv, AloneSound, FileFollows, Marked
  <2> QED BY <2>1, <2>2, <2>3
<1> QED BY <1>2, <1>3, <1>4, <1>5, <1>6 DEF StepsInv

\* A thread takes up a row that is pending.
LEMMA BeginsKeeps ==
  ASSUME StepsInv, NEW t \in Clients, NEW k \in Keys, NEW l \in {"restore", "inspect"},
         NEW own \in BOOLEAN, NEW blind \in BOOLEAN, Begin(t, l, k, own, blind), UNCHANGED act,
         act[k].st = IF l = "restore" THEN "rollback-pending" ELSE "installing",
         pc[t] \in {"idle", "act"}, UNCHANGED <<file, lock, author>>
  PROVE  StepsInv'
<1> DEFINE w == [row |-> k, own |-> own, blind |-> blind]
<1>0. l \in SkillLabels
  BY DEF SkillLabels
<1>1. /\ Moved(t, l, w) /\ late' = late \ {t} /\ overlap' \in BOOLEAN
      /\ ~overlap' => ~overlap /\ \A c \in Clients \ {t} : ~Working(c)
  BY <1>0, BeginMoves DEF StepsInv
<1>w. w.row = k
  OBVIOUS
<1> HIDE DEF w
<1>2. StepsTyped'
  BY <1>0, <1>1, <1>w DEF StepsInv, StepsTyped, Moved, Working, Unknown
<1>3. OneOwner'
  BY DEF StepsInv, OneOwner
<1>4. OneWriter'
  BY <1>1, <1>w DEF StepsInv, OneWriter, Moved, StepsTyped, SkillFiles
<1>5. WritersSound'
  BY <1>1, <1>w DEF StepsInv, WritersSound, Moved, StepsTyped, Working
<1>6. AloneSound'
  <2> SUFFICES ASSUME ~overlap' PROVE (WorkerSound /\ TemplateAccounted /\ FileFollows)'
    BY DEF AloneSound
  <2>0. ~overlap /\ \A c \in Clients \ {t} : ~Working(c)
    BY <1>1
  <2>1. WorkerSound'
    BY <1>1, <1>w, <2>0 DEF StepsInv, AloneSound, WorkerSound, OneOwner, Moved, StepsTyped, Working, Installing,
           RollingBack, ActiveLike, Pending
  <2>2. TemplateAccounted'
    BY <1>1, <1>w, <2>0 DEF StepsInv, AloneSound, TemplateAccounted, Moved, StepsTyped, Working
  <2>3. FileFollows'
    BY <2>0 DEF StepsInv, AloneSound, FileFollows
  <2> QED BY <2>1, <2>2, <2>3
<1> QED BY <1>2, <1>3, <1>4, <1>5, <1>6 DEF StepsInv

LEMMA RecoverKeeps ==
  ASSUME StepsInv, NEW t \in Clients, Recover(t) PROVE StepsInv'
<1>0. UNCHANGED <<file, lock, author>> /\ pc[t] = "idle"
  BY DEF Recover
<1>1. CASE Goto(t, "act") /\ UNCHANGED <<act, loc, late, overlap>>
  <2>1. Moved(t, "act", loc[t]) /\ loc[t] \in SkillWork
    BY <1>1, GotoMoves DEF SkillLabels, StepsTyped, StepsInv
  <2> QED BY <1>0, <1>1, <2>1, LeavingKeeps
<1>2. ASSUME NEW k \in Keys, act[k].st = "rollback-pending", Begin(t, "restore", k, FALSE, TRUE), UNCHANGED act
      PROVE  StepsInv'
  BY <1>0, <1>2, BeginsKeeps
<1>4. ASSUME NEW k \in Keys, act[k].st = "installing", Begin(t, "inspect", k, FALSE, FALSE), UNCHANGED act
      PROVE  StepsInv'
  BY <1>0, <1>4, BeginsKeeps
<1>3. ASSUME NEW k \in Keys, act[k].st = "installing", Mark(k, "blocked"), Raise(t), UNCHANGED overlap
      PROVE  StepsInv'
  <2>1. Marked(k, "blocked") /\ Moved(t, "idle", NoWork) /\ late' = late \ {t}
    BY <1>3, MarkMarks, RaiseMoves DEF RowStatuses, StepsInv
  <2> QED BY <1>0, <1>3, <2>1, BlockingKeeps
<1>5. ASSUME NEW k \in Keys,
             \/ act[k].st = "rollback-pending" /\ Begin(t, "restore", k, FALSE, TRUE) /\ UNCHANGED act
             \/ act[k].st = "installing" /\ Begin(t, "inspect", k, FALSE, FALSE) /\ UNCHANGED act
             \/ act[k].st = "installing" /\ Mark(k, "blocked") /\ Raise(t) /\ UNCHANGED overlap
      PROVE  StepsInv'
  BY <1>2, <1>3, <1>4, <1>5
<1> QED BY <1>1, <1>5, Zenon DEF Recover

LEMMA LookKeeps ==
  ASSUME StepsInv, NEW t \in Clients, Look(t) PROVE StepsInv'
<1>1. Moved(t, "idle", NoWork) /\ late' = late \ {t}
  BY RaiseMoves DEF Look, StepsInv
<1> QED BY <1>1, LeavingKeeps DEF Look, NoWork, SkillWork

LEMMA ApproveKeeps ==
  ASSUME StepsInv, cand \subseteq Nat, NEW t \in Clients, NEW k \in Keys, NEW r \in cand, Approve(t, k, r)
  PROVE  StepsInv'
<1> DEFINE w == [row |-> k, own |-> TRUE, blind |-> FALSE]
           row == [st |-> "installing", prior |-> file.md, madeDir |-> ~file.dir, cand |-> r]
<1>0. /\ UNCHANGED <<file, lock, author>> /\ pc[t] = "act" /\ act[k].st = "none" /\ file.tmp = {}
      /\ \A j \in Keys : act[j].st \notin ActiveLike
  BY DEF Approve, Unknown
<1>1. /\ Moved(t, "inspect", w) /\ late' = late \ {t} /\ overlap' \in BOOLEAN
      /\ ~overlap' => ~overlap /\ \A c \in Clients \ {t} : ~Working(c)
  BY BeginMoves DEF StepsInv, Approve, SkillLabels
<1>w. w.row = k
  OBVIOUS
<1>r. row \in SkillRows /\ row.st = "installing" /\ row.prior = file.md
  BY DEF StepsInv, StepsTyped, SkillFiles, SkillRows, RowStatuses, ActiveLike, Pending
<1>a. act' = [act EXCEPT ![k] = row]
  BY DEF Approve
<1> HIDE DEF w, row
<1>b. act' \in [Keys -> SkillRows] /\ act'[k] = row /\ \A j \in Keys \ {k} : act'[j] = act[j]
  BY <1>a, <1>r DEF StepsInv, StepsTyped
<1>2. StepsTyped'
  BY <1>0, <1>1, <1>w, <1>b DEF StepsInv, StepsTyped, Moved, Working, Unknown
<1>3. OneOwner'
  BY <1>0, <1>b DEF OneOwner
<1>n. \A s \in Clients \ {t} : Working(s) => loc[s].row \in Keys \ {k}
  BY <1>0 DEF StepsInv, StepsTyped, WritersSound
<1>4. OneWriter'
  BY <1>0, <1>1, <1>w, <1>b, <1>n DEF StepsInv, OneWriter, Moved, StepsTyped, SkillFiles, Working
<1>5. WritersSound'
  BY <1>0, <1>1, <1>w, <1>b, <1>r, <1>n DEF StepsInv, WritersSound, Moved, StepsTyped, Working
<1>6. AloneSound'
  <2> SUFFICES ASSUME ~overlap' PROVE (WorkerSound /\ TemplateAccounted /\ FileFollows)'
    BY DEF AloneSound
  <2>0. ~overlap /\ \A c \in Clients \ {t} : ~Working(c)
    BY <1>1
  <2>1. WorkerSound'
    BY <1>0, <1>1, <1>w, <1>b, <1>r, <2>0
    DEF StepsInv, AloneSound, WorkerSound, Moved, StepsTyped, Working, Installing, RollingBack
  <2>2. TemplateAccounted'
    <3>1. ASSUME NEW j \in Keys, act[j].st = "blocked"
          PROVE  j # k /\ act'[j].st = "blocked" /\ \A s \in Clients : Working(s)' => loc'[s].row # j
      BY <1>0, <1>1, <1>w, <1>b, <2>0, <3>1 DEF StepsInv, Moved, StepsTyped, Working
    <3>2. file.md = "template" => \E j \in Keys : act[j].st = "blocked"
      BY <1>0, <2>0 DEF StepsInv, AloneSound, FileFollows
    <3>3. \A j \in Keys \ {k} : act[j].st # "none" /\ act[j].prior = "template"
              => \E i \in Keys \ {j} : act[i].st = "blocked"
      BY <2>0 DEF StepsInv, AloneSound, TemplateAccounted
    <3> QED BY <3>1, <3>2, <3>3, <1>b, <1>r DEF TemplateAccounted
  <2>3. FileFollows'
    BY <1>0, <1>b, <1>r, <2>0 DEF StepsInv, AloneSound, FileFollows, ActiveLike, Pending
  <2> QED BY <2>1, <2>2, <2>3
<1> QED BY <1>2, <1>3, <1>4, <1>5, <1>6 DEF StepsInv

LEMMA ApproveAgainKeeps ==
  ASSUME StepsInv, NEW t \in Clients, NEW k \in Keys, ApproveAgain(t, k) PROVE StepsInv'
  BY BeginsKeeps DEF ApproveAgain

LEMMA RollbackAgainKeeps ==
  ASSUME StepsInv, NEW t \in Clients, NEW k \in Keys, RollbackAgain(t, k) PROVE StepsInv'
  BY BeginsKeeps DEF RollbackAgain

\* A thread that installs goes on to look, to mark or to say that the file drifted.
LEMMA InstallingGoesOn ==
  ASSUME StepsInv, NEW t \in Clients, NEW l \in {"verify", "mark", "drift"}, Goto(t, l),
         pc[t] \in {"inspect", "verify"}, l = "mark" => file.md = "template",
         UNCHANGED <<act, file, lock, loc, late, author, overlap>>
  PROVE  StepsInv'
<1>1. Moved(t, l, loc[t]) /\ l \in SkillLabels
  BY GotoMoves DEF StepsInv, SkillLabels
<1>2. StepsTyped'
  BY <1>1 DEF StepsInv, StepsTyped, Moved, Working, Unknown
<1>3. OneOwner'
  BY DEF StepsInv, OneOwner
<1>4. OneWriter'
  BY <1>1 DEF StepsInv, OneWriter, Moved, StepsTyped, SkillFiles
<1>5. WritersSound'
  BY <1>1 DEF StepsInv, WritersSound, Moved, StepsTyped, Working
<1>6. AloneSound'
  <2> SUFFICES ASSUME ~overlap PROVE (WorkerSound /\ TemplateAccounted /\ FileFollows)'
    BY DEF AloneSound
  <2>1. WorkerSound'
    BY <1>1 DEF StepsInv, AloneSound, WorkerSound, Moved, StepsTyped, Working, Installing, RollingBack
  <2>2. TemplateAccounted'
    BY <1>1 DEF StepsInv, AloneSound, TemplateAccounted, Moved, StepsTyped, Working
  <2>3. FileFollows'
    BY DEF StepsInv, AloneSound, FileFollows
  <2> QED BY <2>1, <2>2, <2>3
<1> QED BY <1>2, <1>3, <1>4, <1>5, <1>6 DEF StepsInv

\* A thread makes its temporary file, or takes the lock, where no such file is.
LEMMA WritingBegins ==
  ASSUME StepsInv, NEW t \in Clients, NEW l \in {"replace", "undo"}, Goto(t, l), ~Unknown,
         late' = late \ {t}, UNCHANGED <<act, loc, author, overlap>>,
         \/ l = "replace" /\ pc[t] = "inspect" /\ BesideTarget(t) /\ UNCHANGED lock
            /\ file.md = act[loc[t].row].prior
         \/ l = "undo" /\ pc[t] = "restore" /\ lock = NoClient /\ lock' = t
            /\ file.md = "template" /\ act[loc[t].row].prior # "template"
            /\ IF act[loc[t].row].prior = "absent" THEN UNCHANGED file ELSE BesideTarget(t)
  PROVE  StepsInv'
<1>1. Moved(t, l, loc[t]) /\ l \in SkillLabels
  BY GotoMoves DEF StepsInv, SkillLabels
<1>f. /\ file' \in SkillFiles /\ file'.md = file.md /\ file.tmp = {} /\ file'.tmp \subseteq {t}
      /\ file' = file \/ (file'.dir /\ file'.tmp = {t})
      /\ l = "replace" \/ act[loc[t].row].prior # "absent" => file'.tmp = {t}
  <2>1. file \in SkillFiles /\ file.tmp = {}
    BY DEF StepsInv, StepsTyped, Unknown
  <2>2. CASE UNCHANGED file /\ l = "undo" /\ act[loc[t].row].prior = "absent"
    BY <2>1, <2>2
  <2>3. CASE BesideTarget(t)
    <3>1. file' = [[file EXCEPT !.dir = TRUE] EXCEPT !.tmp = {t}]
      BY <2>1, <2>3 DEF BesideTarget
    <3> QED BY <2>1, <3>1 DEF SkillFiles
  <2> QED BY <2>2, <2>3
<1>2. StepsTyped'
  BY <1>1, <1>f DEF StepsInv, StepsTyped, Moved, Working, Unknown
<1>3. OneOwner'
  BY DEF StepsInv, OneOwner
<1>4. OneWriter'
  BY <1>1, <1>f, SkillAssumption DEF StepsInv, OneWriter, Moved, StepsTyped
<1>5. WritersSound'
  BY <1>1, <1>f DEF StepsInv, WritersSound, Moved, StepsTyped, Working
<1>6. AloneSound'
  <2> SUFFICES ASSUME ~overlap PROVE (WorkerSound /\ TemplateAccounted /\ FileFollows)'
    BY DEF AloneSound
  <2>1. WorkerSound'
    BY <1>1, <1>f DEF StepsInv, AloneSound, WorkerSound, Moved, StepsTyped, Working, Installing, RollingBack
  <2>2. TemplateAccounted'
    BY <1>1 DEF StepsInv, AloneSound, TemplateAccounted, Moved, StepsTyped, Working
  <2>3. FileFollows'
    BY <1>f DEF StepsInv, AloneSound, FileFollows
  <2> QED BY <2>1, <2>2, <2>3
<1> QED BY <1>2, <1>3, <1>4, <1>5, <1>6 DEF StepsInv

LEMMA InspectKeeps ==
  ASSUME StepsInv, NEW t \in Clients, Inspect(t) PROVE StepsInv'
<1>0. pc[t] = "inspect" /\ UNCHANGED <<act, lock, author, overlap>>
  BY DEF Inspect
<1>1. CASE Raise(t) /\ UNCHANGED file
  <2>1. Moved(t, "idle", NoWork) /\ late' = late \ {t} /\ NoWork \in SkillWork
    BY <1>1, RaiseMoves DEF StepsInv, NoWork, SkillWork
  <2> QED BY <1>0, <1>1, <2>1, LeavingKeeps
<1>2. CASE file.md = "template" /\ Goto(t, "mark") /\ UNCHANGED <<file, loc, late>>
  BY <1>0, <1>2, InstallingGoesOn
<1>3. CASE /\ ~Unknown /\ file.md = act[loc[t].row].prior
           /\ Goto(t, "replace") /\ BesideTarget(t) /\ late' = late \ {t} /\ UNCHANGED loc
  BY <1>0, <1>3, WritingBegins
<1>4. CASE Goto(t, "drift") /\ UNCHANGED <<file, loc, late>>
  BY <1>0, <1>4, InstallingGoesOn
<1> QED BY <1>1, <1>2, <1>3, <1>4 DEF Inspect

LEMMA DriftKeeps ==
  ASSUME StepsInv, NEW t \in Clients, Drift(t) PROVE StepsInv'
<1> DEFINE k == loc[t].row
<1>0. pc[t] = "drift" /\ UNCHANGED <<file, lock, author, overlap>> /\ Raise(t) /\ k \in Keys
  BY DEF Drift, StepsInv, StepsTyped, Working
<1>1. Moved(t, "idle", NoWork) /\ late' = late \ {t} /\ NoWork \in SkillWork
  BY <1>0, RaiseMoves DEF StepsInv, NoWork, SkillWork
<1>2. CASE Mark(k, "blocked")
  <2>1. Marked(k, "blocked")
    BY <1>0, <1>2, MarkMarks DEF RowStatuses, StepsInv
  <2> QED BY <1>0, <1>1, <2>1, BlockingKeeps
<1>3. CASE UNCHANGED act
  BY <1>0, <1>1, <1>3, LeavingKeeps
<1> QED BY <1>2, <1>3 DEF Drift

LEMMA ReplaceKeeps ==
  ASSUME StepsInv, NEW t \in Clients, Replace(t) PROVE StepsInv'
<1>0. pc[t] = "replace" /\ UNCHANGED <<act, lock, loc, late, overlap>> /\ author' = "core"
  BY DEF Replace
<1>1. Moved(t, "verify", loc[t])
  BY GotoMoves DEF StepsInv, SkillLabels, Replace
<1>f. /\ file' \in SkillFiles /\ file'.md = "template" /\ file'.tmp = file.tmp \ {t}
      /\ file'.dir = file.dir /\ file.dir
  <2>1. file' = [file EXCEPT !.md = "template", !.tmp = @ \ {t}]
    BY DEF Replace
  <2>2. file \in SkillFiles /\ file.dir
    BY <1>0 DEF StepsInv, StepsTyped, OneWriter, Unknown
  <2> QED BY <2>1, <2>2 DEF SkillFiles, Contents
<1>2. StepsTyped'
  BY <1>0, <1>1, <1>f DEF StepsInv, StepsTyped, Moved, Working, Unknown
<1>3. OneOwner'
  BY <1>0 DEF StepsInv, OneOwner
<1>4. OneWriter'
  BY <1>0, <1>1, <1>f DEF StepsInv, OneWriter, Moved, StepsTyped, SkillFiles
<1>5. WritersSound'
  BY <1>0, <1>1, <1>f DEF StepsInv, WritersSound, Moved, StepsTyped, Working
<1>6. AloneSound'
  <2> SUFFICES ASSUME ~overlap PROVE (WorkerSound /\ TemplateAccounted /\ FileFollows)'
    BY <1>0 DEF AloneSound
  <2>1. WorkerSound'
    BY <1>0, <1>1, <1>f DEF StepsInv, AloneSound, WorkerSound, Moved, StepsTyped, Working, Installing, RollingBack
  <2>2. TemplateAccounted'
    BY <1>0, <1>1 DEF StepsInv, AloneSound, TemplateAccounted, Moved, StepsTyped, Working
  <2>3. FileFollows'
    BY <1>0, <1>f DEF StepsInv, AloneSound, FileFollows, WorkerSound, StepsTyped, Working, Installing, ActiveLike, Pending
  <2> QED BY <2>1, <2>2, <2>3
<1> QED BY <1>2, <1>3, <1>4, <1>5, <1>6 DEF StepsInv

LEMMA VerifyKeeps ==
  ASSUME StepsInv, NEW t \in Clients, Verify(t) PROVE StepsInv'
<1>0. pc[t] = "verify" /\ UNCHANGED <<act, file, lock, author, overlap>>
  BY DEF Verify
<1>1. CASE Raise(t)
  <2>1. Moved(t, "idle", NoWork) /\ late' = late \ {t} /\ NoWork \in SkillWork
    BY <1>1, RaiseMoves DEF StepsInv, NoWork, SkillWork
  <2> QED BY <1>0, <2>1, LeavingKeeps
<1>2. CASE file.md = "template" /\ Goto(t, "mark") /\ UNCHANGED <<loc, late>>
  BY <1>0, <1>2, InstallingGoesOn
<1> QED BY <1>1, <1>2 DEF Verify

LEMMA MarkActiveKeeps ==
  ASSUME StepsInv, NEW t \in Clients, MarkActive(t) PROVE StepsInv'
<1> DEFINE k == loc[t].row
<1>0. pc[t] = "mark" /\ UNCHANGED <<file, lock, author, overlap>> /\ k \in Keys
  BY DEF MarkActive, StepsInv, StepsTyped, Working
<1>1. PICK l \in {"idle", "act"}, w \in SkillWork : Moved(t, l, w) /\ late' = late \ {t}
  <2>1. Finish(t) \/ Raise(t)
    BY DEF MarkActive
  <2>2. NoWork \in SkillWork
    BY DEF NoWork, SkillWork
  <2> QED BY <2>1, <2>2, FinishMoves, RaiseMoves DEF StepsInv
<1>2. CASE UNCHANGED act
  BY <1>0, <1>1, <1>2, LeavingKeeps
<1>3. CASE Activated(t, k) /\ Mark(k, "active")
  <2>a. Marked(k, "active")
    BY <1>0, <1>3, MarkMarks DEF RowStatuses, ActiveLike, StepsInv
  <2>0. act[k].st = "installing" \/ \A j \in Keys \ {k} : act[j].st \notin ActiveLike
    BY <1>3 DEF Activated
  <2>l. l \notin {"inspect", "replace", "verify", "mark", "drift", "restore", "undo", "restored"}
        /\ l \in SkillLabels
    BY DEF SkillLabels
  <2>2. StepsTyped'
    BY <1>0, <1>1, <2>a, <2>l DEF StepsInv, StepsTyped, Moved, Marked, Working, Unknown
  <2>3. OneOwner'
    BY <2>0, <2>a DEF StepsInv, OneOwner, Marked, ActiveLike, Pending
  <2>4. OneWriter'
    BY <1>0, <1>1, <2>a, <2>l
    DEF StepsInv, OneWriter, Moved, StepsTyped, Marked, Working, SkillFiles, WritersSound
  <2>5. WritersSound'
    BY <1>0, <1>1, <2>a, <2>l DEF StepsInv, WritersSound, Moved, StepsTyped, Working, Marked
  <2>6. AloneSound'
    <3> SUFFICES ASSUME ~overlap PROVE (WorkerSound /\ TemplateAccounted /\ FileFollows)'
      BY <1>0 DEF AloneSound
    <3>0. \A s \in Clients : Working(s) => s = t
      BY <1>0 DEF StepsInv, AloneSound, WorkerSound, Working
    <3>1. WorkerSound'
      BY <3>0, <1>1, <2>l DEF WorkerSound, Moved, Working, Installing, RollingBack
    <3>2. TemplateAccounted'
      BY <1>0, <1>1, <2>a, <2>l, <3>0
      DEF StepsInv, AloneSound, TemplateAccounted, WritersSound, Moved, Marked, StepsTyped, Working
    <3>3. FileFollows'
      BY <1>0, <2>0, <2>a
      DEF StepsInv, AloneSound, FileFollows, Marked, WorkerSound, OneOwner, ActiveLike, Pending, StepsTyped
    <3> QED BY <3>1, <3>2, <3>3
  <2> QED BY <2>2, <2>3, <2>4, <2>5, <2>6 DEF StepsInv
<1> QED BY <1>2, <1>3 DEF MarkActive

LEMMA RollbackKeeps ==
  ASSUME StepsInv, NEW t \in Clients, NEW k \in Keys, Rollback(t, k) PROVE StepsInv'
<1> DEFINE w == [row |-> k, own |-> TRUE, blind |-> FALSE]
<1>0. UNCHANGED <<file, lock, author>> /\ pc[t] = "act" /\ act[k].st = "active"
  BY DEF Rollback
<1>1. /\ Moved(t, "restore", w) /\ late' = late \ {t} /\ overlap' \in BOOLEAN
      /\ ~overlap' => ~overlap /\ \A c \in Clients \ {t} : ~Working(c)
  BY BeginMoves DEF StepsInv, Rollback, SkillLabels
<1>w. w.row = k
  OBVIOUS
<1> HIDE DEF w
<1>a. Marked(k, "rollback-pending")
  BY MarkMarks DEF Rollback, RowStatuses, ActiveLike, Pending, StepsInv
<1>2. StepsTyped'
  BY <1>0, <1>1, <1>w, <1>a DEF StepsInv, StepsTyped, Moved, Marked, Working, Unknown
<1>3. OneOwner'
  BY <1>0, <1>a DEF StepsInv, OneOwner, Marked, ActiveLike, Pending
<1>4. OneWriter'
  BY <1>0, <1>1, <1>w, <1>a
  DEF StepsInv, OneWriter, Moved, StepsTyped, Marked, Working, SkillFiles, WritersSound
<1>5. WritersSound'
  BY <1>0, <1>1, <1>w, <1>a DEF StepsInv, WritersSound, Moved, StepsTyped, Working, Marked
<1>6. AloneSound'
  <2> SUFFICES ASSUME ~overlap' PROVE (WorkerSound /\ TemplateAccounted /\ FileFollows)'
    BY DEF AloneSound
  <2>0. ~overlap /\ \A c \in Clients \ {t} : ~Working(c)
    BY <1>1
  <2>1. WorkerSound'
    BY <1>0, <1>1, <1>w, <1>a, <2>0 DEF WorkerSound, Moved, Marked, Working, Installing, RollingBack
  <2>2. TemplateAccounted'
    BY <1>0, <1>1, <1>w, <1>a, <2>0
    DEF StepsInv, AloneSound, TemplateAccounted, Moved, Marked, StepsTyped, Working
  <2>3. FileFollows'
    BY <1>0, <1>a, <2>0 DEF StepsInv, AloneSound, FileFollows, Marked, ActiveLike, Pending
  <2> QED BY <2>1, <2>2, <2>3
<1> QED BY <1>2, <1>3, <1>4, <1>5, <1>6 DEF StepsInv

\* A thread that finds the prior file there says so in its row and leaves it.
LEMMA RollingBackEnds ==
  ASSUME StepsInv, NEW t \in Clients, NEW k \in Keys, k = loc[t].row, pc[t] \in {"restore", "restored"},
         NEW l \in {"idle", "act"}, NEW w \in SkillWork, Moved(t, l, w), late' = late \ {t},
         Marked(k, "rolled-back"), file.md = act[k].prior, UNCHANGED <<author, overlap>>,
         file' \in SkillFiles, file'.md = file.md, file'.tmp = file.tmp,
         file.md # "absent" \/ file.tmp # {} => file'.dir,
         IF pc[t] = "restored" THEN lock' = NoClient ELSE lock' = lock
  PROVE  StepsInv'
<1>l. l \notin {"inspect", "replace", "verify", "mark", "drift", "restore", "undo", "restored"}
      /\ l \in SkillLabels
  BY DEF SkillLabels
<1>2. StepsTyped'
  BY <1>l DEF StepsInv, StepsTyped, Moved, Marked, Working, Unknown
<1>3. OneOwner'
  BY DEF StepsInv, OneOwner, Marked, ActiveLike, Pending
<1>4. OneWriter'
  BY <1>l, SkillAssumption
  DEF StepsInv, OneWriter, Moved, StepsTyped, Marked, Working, SkillFiles, WritersSound
<1>5. WritersSound'
  BY <1>l DEF StepsInv, WritersSound, Moved, StepsTyped, Working, Marked
<1>6. AloneSound'
  <2> SUFFICES ASSUME ~overlap PROVE (WorkerSound /\ TemplateAccounted /\ FileFollows)'
    BY DEF AloneSound
  <2>0. (\A s \in Clients : Working(s) => s = t) /\ act[k].st = "rollback-pending"
    BY DEF StepsInv, AloneSound, WorkerSound, Working, RollingBack
  <2>1. WorkerSound'
    BY <1>l, <2>0 DEF WorkerSound, Moved, Working, Installing, RollingBack
  <2>2. TemplateAccounted'
    BY <1>l, <2>0
    DEF StepsInv, AloneSound, TemplateAccounted, Moved, Marked, StepsTyped, Working
  <2>3. FileFollows'
    <3>1. \A j \in Keys \ {k} : act[j].st \notin ActiveLike
      BY <2>0 DEF StepsInv, OneOwner, ActiveLike, Pending
    <3>2. file.md = "template" => \E j \in Keys \ {k} : act[j].st = "blocked"
      BY <2>0 DEF StepsInv, AloneSound, TemplateAccounted
    <3> QED BY <3>1, <3>2 DEF FileFollows, Marked, ActiveLike
  <2> QED BY <2>1, <2>2, <2>3
<1> QED BY <1>2, <1>3, <1>4, <1>5, <1>6 DEF StepsInv

LEMMA RestoreKeeps ==
  ASSUME StepsInv, NEW t \in Clients, Restore(t) PROVE StepsInv'
<1> DEFINE k == loc[t].row
<1>0. pc[t] = "restore" /\ UNCHANGED <<author, overlap>> /\ lock = NoClient /\ k \in Keys
  BY DEF Restore, StepsInv, StepsTyped, Working
<1>i. NoWork \in SkillWork
  BY DEF NoWork, SkillWork
<1>1. CASE Mark(k, "blocked") /\ Raise(t) /\ UNCHANGED <<lock, file>>
  <2>1. Marked(k, "blocked") /\ Moved(t, "idle", NoWork) /\ late' = late \ {t}
    BY <1>0, <1>1, MarkMarks, RaiseMoves DEF RowStatuses, StepsInv
  <2> QED BY <1>0, <1>1, <2>1, BlockingKeeps
<1>2. CASE Raise(t) /\ UNCHANGED <<act, lock, file>>
  <2>1. Moved(t, "idle", NoWork) /\ late' = late \ {t}
    BY <1>2, RaiseMoves DEF StepsInv
  <2> QED BY <1>0, <1>2, <1>i, <2>1, LeavingKeeps
<1>3. CASE file.md = act[k].prior /\ Mark(k, "rolled-back") /\ Finish(t) /\ UNCHANGED <<lock, file>>
  <2>1. PICK l \in {"idle", "act"}, w \in SkillWork : Moved(t, l, w) /\ late' = late \ {t}
    BY <1>3, FinishMoves DEF StepsInv
  <2>2. Marked(k, "rolled-back")
    BY <1>0, <1>3, MarkMarks DEF RowStatuses, StepsInv
  <2>3. file' \in SkillFiles /\ (file.md # "absent" \/ file.tmp # {} => file'.dir)
    BY <1>3 DEF StepsInv, StepsTyped, Unknown
  <2> QED BY <1>0, <1>3, <2>1, <2>2, <2>3, RollingBackEnds
<1>4. CASE /\ ~Unknown /\ file.md = "template" /\ act[k].prior # "template"
           /\ lock' = t /\ Goto(t, "undo") /\ late' = late \ {t} /\ UNCHANGED <<act, loc>>
           /\ IF act[k].prior = "absent" THEN UNCHANGED file ELSE BesideTarget(t)
  BY <1>0, <1>4, WritingBegins
<1> QED BY <1>1, <1>2, <1>3, <1>4 DEF Restore

LEMMA UndoKeeps ==
  ASSUME StepsInv, NEW t \in Clients, Undo(t) PROVE StepsInv'
<1> DEFINE k == loc[t].row
<1>0. pc[t] = "undo" /\ UNCHANGED <<act, lock, loc, late, overlap>> /\ author' = "core" /\ k \in Keys
  BY DEF Undo, StepsInv, StepsTyped, Working
<1>1. Moved(t, "restored", loc[t])
  BY GotoMoves DEF StepsInv, SkillLabels, Undo
<1>p. act[k].prior \in Contents \ {"template"} /\ lock = t
  BY <1>0 DEF StepsInv, StepsTyped, SkillRows, WritersSound, OneWriter
<1>f. /\ file' \in SkillFiles /\ file'.md = act[k].prior /\ file'.tmp = file.tmp \ {t}
      /\ file'.dir = file.dir
  <2>1. file' = [file EXCEPT !.md = act[k].prior, !.tmp = @ \ {t}]
    BY DEF Undo
  <2>2. file \in SkillFiles
    BY DEF StepsInv, StepsTyped
  <2> QED BY <2>1, <2>2, <1>p DEF SkillFiles
<1>d. file'.md # "absent" \/ file'.tmp # {} => file.dir
  BY <1>0, <1>f DEF StepsInv, StepsTyped, OneWriter, Unknown
<1>2. StepsTyped'
  BY <1>0, <1>1, <1>f, <1>d DEF StepsInv, StepsTyped, Moved, Working, Unknown
<1>3. OneOwner'
  BY <1>0 DEF StepsInv, OneOwner
<1>4. OneWriter'
  BY <1>0, <1>1, <1>f, <1>p DEF StepsInv, OneWriter, Moved, StepsTyped, SkillFiles
<1>5. WritersSound'
  <2>1. ASSUME NEW s \in Clients, s # t, pc[s] \in {"replace", "undo"} PROVE act[k].prior # "mine"
    <3>1. pc[s] # "undo"
      BY <1>p, <2>1 DEF StepsInv, OneWriter
    <3>2. s \in file.tmp
      BY <2>1, <3>1 DEF StepsInv, OneWriter
    <3> QED BY <1>0, <2>1, <3>2 DEF StepsInv, OneWriter
  <2> QED BY <1>0, <1>1, <1>f, <2>1 DEF StepsInv, WritersSound, Moved, StepsTyped, Working
<1>6. AloneSound'
  <2> SUFFICES ASSUME ~overlap PROVE (WorkerSound /\ TemplateAccounted /\ FileFollows)'
    BY <1>0 DEF AloneSound
  <2>0. (\A s \in Clients : Working(s) => s = t) /\ act[k].st = "rollback-pending"
    BY <1>0 DEF StepsInv, AloneSound, WorkerSound, Working, RollingBack
  <2>1. WorkerSound'
    BY <1>0, <1>1, <1>f, <2>0 DEF WorkerSound, Moved, Working, Installing, RollingBack
  <2>2. TemplateAccounted'
    BY <1>0, <1>1 DEF StepsInv, AloneSound, TemplateAccounted, Moved, StepsTyped, Working
  <2>3. FileFollows'
    BY <1>0, <1>f, <1>p, <2>0 DEF StepsInv, FileFollows, OneOwner, ActiveLike, Pending
  <2> QED BY <2>1, <2>2, <2>3
<1> QED BY <1>2, <1>3, <1>4, <1>5, <1>6 DEF StepsInv

LEMMA RestoredKeeps ==
  ASSUME StepsInv, NEW t \in Clients, Restored(t) PROVE StepsInv'
<1> DEFINE k == loc[t].row
<1>0. pc[t] = "restored" /\ UNCHANGED <<author, overlap>> /\ lock' = NoClient /\ k \in Keys /\ lock = t
  BY DEF Restored, StepsInv, StepsTyped, Working, OneWriter
<1>f. /\ file' \in SkillFiles /\ file'.md = file.md /\ file'.tmp = file.tmp
      /\ file.md # "absent" \/ file.tmp # {} => file'.dir
  <2> DEFINE gone == act[k].madeDir /\ act[k].prior = "absent" /\ file.md = "absent" /\ ~Unknown
  <2>1. file' = [file EXCEPT !.dir = @ /\ ~gone]
    BY DEF Restored
  <2>2. file.md # "absent" \/ file.tmp # {} => ~gone
    BY DEF Unknown
  <2> HIDE DEF gone
  <2> QED BY <2>1, <2>2 DEF StepsInv, StepsTyped, SkillFiles, Unknown
<1>1. CASE Raise(t) /\ UNCHANGED act
  <2>1. Moved(t, "idle", NoWork) /\ late' = late \ {t}
    BY <1>1, RaiseMoves DEF StepsInv
  <2>2. StepsTyped'
    BY <1>0, <1>1, <1>f, <2>1 DEF StepsInv, StepsTyped, Moved, Working, Unknown
  <2>3. OneOwner'
    BY <1>1 DEF StepsInv, OneOwner
  <2>4. OneWriter'
    BY <1>0, <1>1, <1>f, <2>1, SkillAssumption DEF StepsInv, OneWriter, Moved, StepsTyped, SkillFiles
  <2>5. WritersSound'
    BY <1>0, <1>1, <1>f, <2>1 DEF StepsInv, WritersSound, Moved, StepsTyped, Working
  <2>6. AloneSound'
    <3> SUFFICES ASSUME ~overlap PROVE (WorkerSound /\ TemplateAccounted /\ FileFollows)'
      BY <1>0 DEF AloneSound
    <3>1. WorkerSound'
      BY <1>0, <1>1, <1>f, <2>1
      DEF StepsInv, AloneSound, WorkerSound, Moved, StepsTyped, Working, Installing, RollingBack
    <3>2. TemplateAccounted'
      BY <1>0, <1>1, <2>1 DEF StepsInv, AloneSound, TemplateAccounted, Moved, StepsTyped, Working
    <3>3. FileFollows'
      BY <1>0, <1>1, <1>f DEF StepsInv, AloneSound, FileFollows
    <3> QED BY <3>1, <3>2, <3>3
  <2> QED BY <2>2, <2>3, <2>4, <2>5, <2>6 DEF StepsInv
<1>2. CASE file.md = act[k].prior /\ Mark(k, "rolled-back") /\ Finish(t)
  <2>1. PICK l \in {"idle", "act"}, w \in SkillWork : Moved(t, l, w) /\ late' = late \ {t}
    BY <1>2, FinishMoves DEF StepsInv
  <2>2. Marked(k, "rolled-back")
    BY <1>0, <1>2, MarkMarks DEF RowStatuses, StepsInv
  <2> QED BY <1>0, <1>2, <1>f, <2>1, <2>2, RollingBackEnds
<1> QED BY <1>1, <1>2 DEF Restored

LEMMA EditKeeps == ASSUME StepsInv, Edit PROVE StepsInv'
<1>0. /\ UNCHANGED <<act, lock, pc, loc, overlap>> /\ author' = "user"
      /\ late' = {t \in Clients : Working(t)}
  BY DEF Edit
<1>f. /\ file' \in SkillFiles /\ file'.md # "template" /\ file'.tmp = file.tmp /\ file'.dir
  <2>1. PICK md \in {"absent", "mine"} : file' = [file EXCEPT !.md = md, !.dir = TRUE]
    BY DEF Edit
  <2> QED BY <2>1 DEF StepsInv, StepsTyped, SkillFiles, Contents
<1>2. StepsTyped'
  BY <1>0, <1>f DEF StepsInv, StepsTyped, Working, Unknown
<1>3. OneOwner'
  BY <1>0 DEF StepsInv, OneOwner
<1>4. OneWriter'
  BY <1>0, <1>f DEF StepsInv, OneWriter
<1>5. WritersSound'
  BY <1>0, <1>f DEF StepsInv, WritersSound, Working
<1>6. AloneSound'
  BY <1>0, <1>f DEF StepsInv, AloneSound, WorkerSound, TemplateAccounted, FileFollows, Working
<1> QED BY <1>2, <1>3, <1>4, <1>5, <1>6 DEF StepsInv

LEMMA CrashKeeps == ASSUME StepsInv, Crash PROVE StepsInv'
<1>0. /\ UNCHANGED <<act, author, overlap>> /\ lock' = NoClient /\ late' = {}
      /\ pc' = [t \in Clients |-> "idle"] /\ loc' = [t \in Clients |-> NoWork]
  BY DEF Crash
<1>f. /\ file' \in SkillFiles /\ file'.md = file.md /\ file'.tmp \subseteq {NoClient}
      /\ file'.dir = file.dir /\ (file'.tmp # {} => file.tmp # {})
  BY DEF Crash, StepsInv, StepsTyped, SkillFiles
<1>i. \A t \in Clients : pc'[t] = "idle" /\ ~Working(t)'
  BY <1>0 DEF Working
<1>w. NoWork \in SkillWork /\ "idle" \in SkillLabels
  BY DEF NoWork, SkillWork, SkillLabels
<1>2. StepsTyped'
  BY <1>0, <1>f, <1>i, <1>w DEF StepsInv, StepsTyped, Unknown
<1>3. OneOwner'
  BY <1>0 DEF StepsInv, OneOwner
<1>4. OneWriter'
  BY <1>0, <1>f, <1>i, SkillAssumption DEF OneWriter
<1>5. WritersSound'
  BY <1>i DEF WritersSound
<1>6. AloneSound'
  <2> SUFFICES ASSUME ~overlap PROVE (WorkerSound /\ TemplateAccounted /\ FileFollows)'
    BY <1>0 DEF AloneSound
  <2>1. WorkerSound'
    BY <1>i DEF WorkerSound, Installing, RollingBack
  <2>2. TemplateAccounted'
    BY <1>0, <1>i DEF StepsInv, AloneSound, TemplateAccounted
  <2>3. FileFollows'
    BY <1>0, <1>f DEF StepsInv, AloneSound, FileFollows
  <2> QED BY <2>1, <2>2, <2>3
<1> QED BY <1>2, <1>3, <1>4, <1>5, <1>6 DEF StepsInv

-----------------------------------------------------------------------------
(* The memory. *)

MemoryStatuses == {"candidate", "committed", "rejected", "superseded", "invalidated"}

\* A revision that is appended takes the place of those it replaces.
LEMMA Appends ==
  ASSUME MemorySound, NEW status \in {"candidate", "committed"}, NEW base,
         base \in Seq(MemoryStatuses), Len(base) = Len(mem),
         \A r \in DOMAIN mem : base[r] = mem[r] \/ base[r] = "superseded",
         \A r \in DOMAIN mem : base[r] # "candidate",
         status = "committed" => \A r \in DOMAIN mem : base[r] # "committed",
         status = "candidate" => kind # "response",
         mem' = Append(base, status), UNCHANGED <<kind, current, cand>>
  PROVE  MemorySound'
<1>1. /\ mem' \in Seq(MemoryStatuses) /\ Len(mem') = Len(mem) + 1 /\ mem'[Len(mem) + 1] = status
      /\ \A r \in DOMAIN mem : mem'[r] = base[r]
      /\ DOMAIN mem' = DOMAIN mem \cup {Len(mem) + 1} /\ DOMAIN mem = 1 .. Len(mem)
  BY DEF MemorySound, MemoryStatuses
<1> DEFINE n == Len(mem) + 1
<1>2. n \notin DOMAIN mem /\ Len(mem') = n
  BY <1>1 DEF MemorySound
<1> HIDE DEF n
<1>3. \A r, s \in DOMAIN mem' : mem'[r] = "committed" /\ mem'[s] = "committed" => r = s
  BY <1>1, <1>2 DEF MemorySound, n
<1>4. \A r \in DOMAIN mem' : mem'[r] = "candidate" => r = Len(mem') /\ kind # "response"
  BY <1>1, <1>2 DEF n
<1>5. cand \subseteq DOMAIN mem'
  BY <1>1 DEF MemorySound
<1> QED BY <1>1, <1>3, <1>4, <1>5 DEF MemorySound, MemoryStatuses, Newest

\* A revision takes another status and is no candidate any more.
LEMMA Rewrites ==
  ASSUME MemorySound, NEW r \in DOMAIN mem, NEW status \in MemoryStatuses \ {"candidate"}, NEW base,
         base \in Seq(MemoryStatuses), Len(base) = Len(mem),
         \A s \in DOMAIN mem : base[s] = mem[s] \/ base[s] = "superseded",
         status = "committed" => \A s \in DOMAIN mem : base[s] # "committed",
         mem' = [base EXCEPT ![r] = status], UNCHANGED <<kind, current, cand>>
  PROVE  MemorySound'
<1>1. /\ mem' \in Seq(MemoryStatuses) /\ Len(mem') = Len(mem) /\ mem'[r] = status
      /\ \A s \in DOMAIN mem \ {r} : mem'[s] = base[s]
      /\ DOMAIN mem' = DOMAIN mem
  BY DEF MemorySound, MemoryStatuses
<1> QED BY <1>1 DEF MemorySound, MemoryStatuses, Newest

LEMMA ReplacedIs ==
  ASSUME MemorySound, NEW from
  PROVE  /\ Replaced(from) \in Seq(MemoryStatuses) /\ Len(Replaced(from)) = Len(mem)
         /\ \A r \in DOMAIN mem : Replaced(from)[r] = IF mem[r] = from THEN "superseded" ELSE mem[r]
  BY DEF MemorySound, MemoryStatuses, Replaced

LEMMA MemoryKeeps == ASSUME MemorySound, MemoryStep PROVE MemorySound'
<1>0. mem \in Seq(MemoryStatuses)
  BY DEF MemorySound, MemoryStatuses
<1>1. CASE Remember
  <2>1. \A r \in DOMAIN mem : mem[r] # "candidate"
    BY <1>0, <1>1 DEF Remember, MemorySound, Newest
  <2> QED BY <1>0, <1>1, <2>1, Appends DEF Remember
<1>2. CASE Observe
  BY <1>2, ReplacedIs, Appends DEF Observe
<1>3. CASE Respond
  <2>1. \A r \in DOMAIN mem : mem[r] # "candidate"
    BY <1>3 DEF MemorySound, Respond
  <2> QED BY <1>3, <2>1, ReplacedIs, Appends DEF Respond
<1>4. CASE SourceChanges
  BY <1>4 DEF SourceChanges, MemorySound, Newest
<1>5. ASSUME NEW r \in DOMAIN mem, Accept(r) PROVE MemorySound'
  BY <1>5, ReplacedIs, Rewrites DEF Accept, MemoryStatuses
<1>6. ASSUME NEW r \in DOMAIN mem, Reject(r) PROVE MemorySound'
  BY <1>0, <1>6, Rewrites DEF Reject, MemoryStatuses
<1>7. ASSUME NEW r \in DOMAIN mem, Invalidate(r) PROVE MemorySound'
  BY <1>0, <1>7, Rewrites DEF Invalidate, MemoryStatuses
<1>8. ASSUME NEW r \in DOMAIN mem, CreateCandidate(r) PROVE MemorySound'
  BY <1>8 DEF CreateCandidate, MemorySound, Newest
<1> QED BY <1>1, <1>2, <1>3, <1>4, <1>5, <1>6, <1>7, <1>8 DEF MemoryStep

-----------------------------------------------------------------------------
\* A request leaves the memory to the memory's own handlers.
LEMMA ServeFrame ==
  ASSUME NEW t \in Clients, Serve(t) PROVE UNCHANGED <<memory, edits, crashes>>
<1>1. ASSUME NEW k \in Keys
      PROVE  /\ \A r \in cand : Approve(t, k, r) => UNCHANGED <<memory, edits, crashes>>
             /\ ApproveAgain(t, k) \/ Rollback(t, k) \/ RollbackAgain(t, k)
                  => UNCHANGED <<memory, edits, crashes>>
  BY DEF Approve, ApproveAgain, Rollback, RollbackAgain
<1>2. Recover(t) \/ Look(t) \/ Inspect(t) \/ Drift(t) => UNCHANGED <<memory, edits, crashes>>
  BY DEF Recover, Look, Inspect, Drift
<1>3. Replace(t) \/ Verify(t) \/ MarkActive(t) => UNCHANGED <<memory, edits, crashes>>
  BY DEF Replace, Verify, MarkActive
<1>4. Restore(t) \/ Undo(t) \/ Restored(t) => UNCHANGED <<memory, edits, crashes>>
  BY DEF Restore, Undo, Restored
<1> QED BY <1>1, <1>2, <1>3, <1>4 DEF Serve

LEMMA SkillStep == SkillInv /\ [Next]_vars => SkillInv'
<1> SUFFICES ASSUME SkillInv, [Next]_vars PROVE SkillInv'
  OBVIOUS
<1> USE DEF SkillInv
<1>e. edits' \in Nat
  <2>1. edits' = edits + 1 \/ UNCHANGED edits
    BY ServeFrame DEF Next, vars, MemoryStep, Edit, Crash
  <2> QED BY <2>1
<1>1. CASE MemoryStep
  <2>1. UNCHANGED <<act, file, lock, pc, loc, late, author, overlap>>
    BY <1>1 DEF MemoryStep
  <2>2. StepsInv'
    BY <2>1 DEF StepsInv, StepsTyped, OneOwner, OneWriter, WritersSound, AloneSound, WorkerSound,
                TemplateAccounted, FileFollows, Working, Unknown
  <2> QED BY <1>1, <1>e, <2>2, MemoryKeeps
<1>2. CASE UNCHANGED vars
  BY <1>e, <1>2 DEF vars, MemorySound, Newest, StepsInv, StepsTyped, OneOwner, OneWriter, WritersSound, AloneSound,
              WorkerSound, TemplateAccounted, FileFollows, Working, Unknown
<1>3. CASE UNCHANGED memory /\ (Edit \/ Crash \/ \E t \in Clients : Serve(t))
  <2>1. MemorySound'
    BY <1>3 DEF memory, MemorySound, Newest
  <2>2. StepsInv'
    <3>1. CASE Edit
      BY <3>1, EditKeeps
    <3>2. CASE Crash
      BY <3>2, CrashKeeps
    <3>3. ASSUME NEW t \in Clients, Serve(t) PROVE StepsInv'
      <4>1. cand \subseteq Nat
        BY DEF MemorySound
      <4> QED
        BY <3>3, <4>1, RecoverKeeps, LookKeeps, ApproveKeeps, ApproveAgainKeeps, RollbackKeeps,
           RollbackAgainKeeps, InspectKeeps, DriftKeeps, ReplaceKeeps, VerifyKeeps, MarkActiveKeeps,
           RestoreKeeps, UndoKeeps, RestoredKeeps
        DEF Serve
    <3> QED BY <1>3, <3>1, <3>2, <3>3
  <2> QED BY <1>e, <2>1, <2>2
<1> QED
  BY <1>1, <1>2, <1>3, ServeFrame DEF Next, Edit, Crash

LEMMA SkillInvSuffices == SkillInv => RecordsAgree
<1> SUFFICES ASSUME SkillInv PROVE RecordsAgree
  OBVIOUS
<1>1. TypeOK
  <2>1. lock \in Clients => pc[lock] \in {"undo", "restored"}
    BY DEF SkillInv, StepsInv, OneWriter
  <2> QED BY <2>1 DEF SkillInv, MemorySound, StepsInv, StepsTyped, TypeOK, SkillRows, RowStatuses, SkillFiles
<1>2. FileMatchesRecord
  BY DEF SkillInv, StepsInv, AloneSound, FileFollows, FileMatchesRecord
<1>3. \A j, k \in Keys : {act[j].st, act[k].st} \subseteq ActiveLike => j = k
  BY DEF SkillInv, StepsInv, OneOwner
<1>4. \A t \in file.tmp : t = NoClient \/ pc[t] \in {"replace", "undo"}
  BY DEF SkillInv, StepsInv, OneWriter
<1> QED BY <1>1, <1>2, <1>3, <1>4 DEF SkillInv, MemorySound, RecordsAgree

\* Who destroys a file of the user's is about to write, and looked before.
LEMMA FileOfTheUser ==
  ASSUME SkillInv, Next, file.md = "mine", file'.md # "mine", edits' = edits
  PROVE  \E t \in Clients :
            /\ pc[t] \in {"replace", "undo"} /\ pc'[t] # pc[t]
            /\ act[loc[t].row].prior = "mine" \/ t \in late
<1>1. ~MemoryStep /\ ~Edit
  <2>1. edits + 1 # edits
    BY DEF SkillInv
  <2>2. ~Edit
    BY <2>1 DEF Edit
  <2>3. ~MemoryStep
    BY DEF MemoryStep
  <2> QED BY <2>2, <2>3
<1>2. ~Crash
  <2>1. Crash => file'.md = file.md
    BY DEF Crash, SkillInv, StepsInv, StepsTyped, SkillFiles
  <2> QED BY <2>1
<1>3. PICK t \in Clients : Serve(t)
  BY <1>1, <1>2 DEF Next
<1>4. file \in SkillFiles /\ pc \in [Clients -> SkillLabels]
  BY DEF SkillInv, StepsInv, StepsTyped
<1>5. Replace(t) \/ Undo(t)
  <2>1. BesideTarget(t) => file'.md = file.md
    BY <1>4 DEF BesideTarget, SkillFiles
  <2>2. Restored(t) => file'.md = file.md
    BY <1>4 DEF Restored, SkillFiles
  <2>3. ~Inspect(t)
    BY <2>1 DEF Inspect
  <2>4. ~Restore(t)
    BY <2>1 DEF Restore
  <2>5. /\ ~Recover(t) /\ ~Look(t) /\ ~Drift(t) /\ ~Verify(t) /\ ~MarkActive(t)
        /\ \A k \in Keys : /\ \A r \in cand : ~Approve(t, k, r)
                          /\ ~ApproveAgain(t, k) /\ ~Rollback(t, k) /\ ~RollbackAgain(t, k)
    BY DEF Recover, Look, Drift, Verify, MarkActive, Approve, ApproveAgain, Rollback, RollbackAgain
  <2> QED BY <1>3, <2>2, <2>3, <2>4, <2>5 DEF Serve
<1>6. pc[t] \in {"replace", "undo"} /\ pc'[t] # pc[t]
  BY <1>4, <1>5 DEF Replace, Undo, Goto
<1> QED BY <1>6 DEF SkillInv, StepsInv, WritersSound

\* A row that says so has its prior file back.
LEMMA RolledBack ==
  ASSUME SkillInv, Next, NEW k \in Keys, act[k].st # "rolled-back", act'[k].st = "rolled-back"
  PROVE  file'.md = act[k].prior
<1>1. act' # act
  OBVIOUS
<1>2. ~MemoryStep /\ ~Edit /\ ~Crash
  BY <1>1 DEF MemoryStep, Edit, Crash
<1>3. PICK t \in Clients : Serve(t)
  BY <1>2 DEF Next
<1>4. StepsTyped
  BY DEF SkillInv, StepsInv
<1>5. ASSUME NEW j \in Keys, NEW status \in RowStatuses, Mark(j, status) PROVE status = "rolled-back" /\ j = k
  BY <1>4, <1>5, MarkMarks DEF Marked
<1>6. Restore(t) \/ Restored(t)
  <2>0. {"blocked", "active", "rollback-pending"} \subseteq RowStatuses
    BY DEF RowStatuses, ActiveLike, Pending
  <2>1. ~Recover(t)
    BY <1>1, <1>5, <2>0 DEF Recover
  <2>2. ~Drift(t) /\ ~MarkActive(t)
    BY <1>1, <1>4, <1>5, <2>0 DEF Drift, MarkActive, StepsTyped, Working
  <2>3. ASSUME NEW j \in Keys PROVE ~Rollback(t, j)
    BY <1>5, <2>0 DEF Rollback
  <2>4. ASSUME NEW j \in Keys, NEW r \in cand PROVE ~Approve(t, j, r)
    <3>1. ASSUME Approve(t, j, r) PROVE act'[k].st \in {act[k].st, "installing"}
      BY <1>4, <3>1 DEF Approve, StepsTyped
    <3> QED BY <3>1
  <2>5. /\ ~Look(t) /\ ~Inspect(t) /\ ~Replace(t) /\ ~Verify(t) /\ ~Undo(t)
        /\ \A j \in Keys : ~ApproveAgain(t, j) /\ ~RollbackAgain(t, j)
    BY <1>1 DEF Look, Inspect, Replace, Verify, Undo, ApproveAgain, RollbackAgain
  <2> QED BY <1>3, <2>1, <2>2, <2>3, <2>4, <2>5 DEF Serve
<1>7. CASE Restore(t)
  <2>1. loc[t].row \in Keys /\ "blocked" \in RowStatuses /\ "rolled-back" \in RowStatuses
    BY <1>4, <1>7 DEF Restore, StepsTyped, Working, RowStatuses
  <2> QED BY <1>1, <1>5, <1>7, <2>1 DEF Restore
<1>8. CASE Restored(t)
  <2>1. loc[t].row \in Keys /\ "rolled-back" \in RowStatuses
    BY <1>4, <1>8 DEF Restored, StepsTyped, Working, RowStatuses
  <2>2. file'.md = file.md
    BY <1>4, <1>8 DEF Restored, StepsTyped, SkillFiles
  <2> QED BY <1>1, <1>5, <1>8, <2>1, <2>2 DEF Restored
<1> QED BY <1>6, <1>7, <1>8
-----------------------------------------------------------------------------
(* Imports *)

ParserHasRow ==
    /\ \A u \in Uploads : At(u, "parsing") /\ ~Attaches(u) => up[u].row # 0
    /\ source.st = "processing" => source.id # 0

ImportInv == ImportTypeOK /\ ReadyHasItsFile /\ NothingIsLeft /\ OneRowEach /\ ParserHasRow

LEMMA ImportInvInit == ImportInit => ImportInv
  BY ImportAssumption DEF ImportInit, ImportInv, ImportTypeOK, ReadyHasItsFile, NothingIsLeft, OneRowEach,
     ParserHasRow, NoUpload, At

\* Only a row that is being parsed has somebody who made it.
LEMMA NoMaker == ASSUME ImportInv, source.st # "processing" PROVE \A v \in Uploads : up[v].row = 0
<1> SUFFICES ASSUME NEW v \in Uploads, up[v].row # 0 PROVE FALSE
  OBVIOUS
<1>1. source = [st |-> "processing", id |-> up[v].row]
  BY DEF ImportInv, OneRowEach
<1>2. source.st = "processing"
  BY <1>1
<1> QED BY <1>2

\* The actions that leave row, file and attachments alone.
LEMMA UploadMoves ==
  ASSUME ImportInv, NEW u \in Uploads, UNCHANGED <<format, source, stored, attached, early, spoilt, left>>,
         uploads' \in Nat, interruptions' \in Nat, kept' \subseteq Candidates,
         NEW x \in [pc : {"idle", "receiving"}, cand : Candidates \cup {NoCandidate}, row : {0}],
         up' = [up EXCEPT ![u] = x], ~At(u, "parsing")
  PROVE  ImportInv'
<1>1. /\ up \in [Uploads -> [pc : {"idle", "receiving", "parsing"},
                             cand : Candidates \cup {NoCandidate}, row : Nat]]
      /\ x.pc # "parsing" /\ x.row = 0
  BY DEF ImportInv, ImportTypeOK
<1>2. ImportTypeOK'
  BY <1>1 DEF ImportInv, ImportTypeOK
<1>3. Parsers' = Parsers
  BY <1>1 DEF Parsers, At
<1>4. \A v \in Parsers : up'[v] = up[v]
  BY <1>1 DEF Parsers
<1>5. NothingIsLeft'
  BY <1>3, <1>4 DEF ImportInv, NothingIsLeft, Attaches
<1>6. OneRowEach' /\ ParserHasRow'
  BY <1>1 DEF ImportInv, OneRowEach, ParserHasRow, At, Attaches
<1> QED BY <1>2, <1>5, <1>6 DEF ImportInv, ReadyHasItsFile

\* An upload is over: what its row, the file and its attachment have become is sound.
LEMMA UploadEnds ==
  ASSUME ImportInv, NEW u \in Uploads, up' = [up EXCEPT ![u] = NoUpload],
         ImportTypeOK', ReadyHasItsFile', attached' = attached, early' = early,
         source'.st = "processing" => source' = source /\ left'.row \in {left.row, source.id}
                                      /\ (up[u].row = source.id => left'.row = source.id),
         source'.id = source.id, source.st = "ready" => source' = source,
         \A v \in Uploads \ {u} : up[v].row # 0 => source' = source,
         source'.st = "none" /\ stored' # "absent" => left'.file
            \/ (source.st = "none" /\ stored # "absent" /\ left'.file = left.file /\ ~(At(u, "parsing") /\ Attaches(u))),
         source'.st = "none" /\ stored' = "sealed" => left'.file
            \/ (source.st = "none" /\ stored = "sealed" /\ left'.file = left.file)
  PROVE  ImportInv'
<1>1. /\ up \in [Uploads -> [pc : {"idle", "receiving", "parsing"},
                             cand : Candidates \cup {NoCandidate}, row : Nat]]
  BY DEF ImportInv, ImportTypeOK
<1>2. /\ up'[u] = NoUpload /\ \A v \in Uploads \ {u} : up'[v] = up[v]
      /\ NoUpload.pc = "idle" /\ NoUpload.row = 0
  BY <1>1 DEF NoUpload
<1>3. NothingIsLeft'
  BY <1>1, <1>2 DEF ImportInv, NothingIsLeft, Parsers, At, Attaches
<1>4. OneRowEach' /\ ParserHasRow'
  BY <1>1, <1>2 DEF ImportInv, OneRowEach, ParserHasRow, At, Attaches
<1> QED BY <1>3, <1>4 DEF ImportInv

LEMMA StorePdfKeeps == ASSUME ImportInv, NEW u \in Uploads, StorePdf(u) PROVE ImportInv'
<1>1. /\ up \in [Uploads -> [pc : {"idle", "receiving", "parsing"},
                             cand : Candidates \cup {NoCandidate}, row : Nat]]
      /\ source \in [st : {"none", "processing", "failed", "ready"}, id : Nat]
      /\ stored \in {"absent", "writable", "sealed"}
  BY DEF ImportInv, ImportTypeOK
<1>2. /\ At(u, "receiving") /\ source.st \notin {"processing", "ready"}
      /\ source' = IF Attaches(u) THEN [source EXCEPT !.st = "none"] ELSE [st |-> "processing", id |-> source.id + 1]
      /\ stored' = IF stored = "sealed" THEN "sealed" ELSE "writable"
      /\ up' = [up EXCEPT ![u].pc = "parsing", ![u].row = IF Attaches(u) THEN 0 ELSE source.id + 1]
      /\ UNCHANGED <<format, kept, attached, early, spoilt, left, uploads, interruptions>>
  BY DEF StorePdf, Exists, Written, NoSource, NewSource
<1>0. \A v \in Uploads : up[v].row = 0
  BY <1>2, NoMaker
<1>3. /\ \A v \in Uploads \ {u} : up'[v] = up[v]
      /\ up'[u] = [pc |-> "parsing", cand |-> up[u].cand, row |-> IF Attaches(u) THEN 0 ELSE source.id + 1]
      /\ \A v \in Uploads : up[v].row = 0
      /\ source'.st \in {"none", "processing"} /\ source'.id \in Nat
  <2>1. up'[u] = [up[u] EXCEPT !.pc = "parsing", !.row = IF Attaches(u) THEN 0 ELSE source.id + 1]
    BY <1>1, <1>2
  <2>2. up[u] = [pc |-> up[u].pc, cand |-> up[u].cand, row |-> up[u].row]
    BY <1>1
  <2>3. source'.st \in {"none", "processing"} /\ source'.id \in Nat
    BY <1>1, <1>2
  <2> QED BY <1>0, <1>1, <1>2, <2>1, <2>2, <2>3
<1>4. ImportTypeOK'
  BY <1>1, <1>2, <1>3 DEF ImportInv, ImportTypeOK
<1>5. ReadyHasItsFile'
  BY <1>3 DEF ReadyHasItsFile
<1>6. NothingIsLeft'
  <2>1. source'.st = "processing" => \E v \in Parsers' : up'[v].row = source'.id
    BY <1>1, <1>2, <1>3 DEF Parsers, At
  <2>2. source'.st = "none" => \E v \in Parsers' : Attaches(v)'
    BY <1>1, <1>2, <1>3 DEF Parsers, At, Attaches
  <2>3. source'.st = "none" /\ stored' = "sealed" => left'.file
    BY <1>1, <1>2, <1>3 DEF ImportInv, NothingIsLeft, ReadyHasItsFile
  <2> QED BY <2>1, <2>2, <2>3 DEF NothingIsLeft
<1>7. OneRowEach'
  <2>1. attached' \ early' = {}
    BY <1>2, <1>1 DEF ImportInv, OneRowEach
  <2>2. \A v \in Uploads : up'[v].row # 0 =>
          v = u /\ source' = [st |-> "processing", id |-> up'[v].row] /\ At(v, "parsing")' /\ ~Attaches(v)'
    BY <1>1, <1>2, <1>3 DEF At, Attaches
  <2> QED BY <1>2, <2>1, <2>2 DEF ImportInv, OneRowEach
<1>8. ParserHasRow'
  <2>1. ~Attaches(u)' => up'[u].row # 0
    BY <1>1, <1>2, <1>3 DEF Attaches
  <2>2. source'.st = "processing" => source'.id # 0
    BY <1>1, <1>2
  <2> QED BY <1>3, <2>1, <2>2 DEF ImportInv, ParserHasRow, At, Attaches
<1> QED BY <1>4, <1>5, <1>6, <1>7, <1>8 DEF ImportInv

LEMMA ParsedAndAttachedKeeps == ASSUME ImportInv, NEW u \in Uploads, ParsedAndAttached(u) PROVE ImportInv'
<1> DEFINE p == <<up[u].cand, source.id + 1>>
<1>1. /\ up \in [Uploads -> [pc : {"idle", "receiving", "parsing"},
                             cand : Candidates \cup {NoCandidate}, row : Nat]]
      /\ source \in [st : {"none", "processing", "failed", "ready"}, id : Nat]
      /\ up[u].cand \in Candidates /\ left \in [row : Nat, file : BOOLEAN]
  BY DEF ParsedAndAttached, Attaches, ImportInv, ImportTypeOK
<1>2. /\ source.st = "none" /\ source' = [st |-> "ready", id |-> source.id + 1] /\ stored' = "sealed"
      /\ attached' = attached \cup {p} /\ \A q \in attached : q[1] = p[1] <=> q[2] = p[2]
      /\ left' = [left EXCEPT !.file = FALSE] /\ up' = [up EXCEPT ![u] = NoUpload]
      /\ UNCHANGED <<format, kept, early, spoilt, uploads, interruptions>>
  BY DEF ParsedAndAttached, NewSource, Fits, Finished
<1>3. /\ up'[u] = NoUpload /\ \A v \in Uploads \ {u} : up'[v] = up[v]
      /\ \A v \in Uploads : up[v].row = 0
  BY <1>1, <1>2, NoMaker
<1>4. ImportTypeOK'
  <2>1. p \in Candidates \X Nat
    BY <1>1
  <2>2. attached' \subseteq Candidates \X Nat /\ early' \subseteq attached'
    BY <1>2, <2>1 DEF ImportInv, ImportTypeOK
  <2>3. /\ source' \in [st : {"none", "processing", "failed", "ready"}, id : Nat]
        /\ left' \in [row : Nat, file : BOOLEAN]
    <3>1. source.id + 1 \in Nat
      BY <1>1
    <3>2. source' \in [st : {"none", "processing", "failed", "ready"}, id : Nat]
      BY <1>2, <3>1
    <3>3. left' \in [row : Nat, file : BOOLEAN]
      BY <1>1, <1>2
    <3> QED BY <3>2, <3>3
  <2>4. up' \in [Uploads -> [pc : {"idle", "receiving", "parsing"},
                             cand : Candidates \cup {NoCandidate}, row : Nat]]
    BY <1>1, <1>2 DEF NoUpload
  <2> QED BY <1>2, <2>2, <2>3, <2>4 DEF ImportInv, ImportTypeOK
<1>5. OneRowEach'
  <2>1. \A v \in Uploads : up'[v].row = 0
    BY <1>3 DEF NoUpload
  <2>2. attached \ early = {}
    BY <1>2 DEF ImportInv, OneRowEach
  <2>3. \A q, r \in attached' : q[1] = r[1] <=> q[2] = r[2]
    BY <1>2 DEF ImportInv, OneRowEach
  <2>4. \A q \in attached' \ early' : q[2] = source'.id /\ source'.st = "ready"
    BY <1>2, <2>2
  <2> QED BY <2>1, <2>3, <2>4 DEF OneRowEach
<1>6. ParserHasRow'
  BY <1>2, <1>3 DEF ImportInv, ParserHasRow, At, Attaches, NoUpload
<1> QED BY <1>2, <1>4, <1>5, <1>6 DEF ImportInv, ReadyHasItsFile, NothingIsLeft

LEMMA AttachExistingKeeps == ASSUME ImportInv, NEW u \in Uploads, AttachExisting(u) PROVE ImportInv'
<1> DEFINE p == <<up[u].cand, source.id>>
<1>1. /\ up \in [Uploads -> [pc : {"idle", "receiving", "parsing"},
                             cand : Candidates \cup {NoCandidate}, row : Nat]]
      /\ source \in [st : {"none", "processing", "failed", "ready"}, id : Nat]
      /\ up[u].cand \in Candidates /\ early \subseteq attached
  BY DEF AttachExisting, Attaches, ImportInv, ImportTypeOK
<1>2. /\ At(u, "receiving") /\ source.st \in {"processing", "ready"}
      /\ attached' = attached \cup {p} /\ \A q \in attached : q[1] = p[1] <=> q[2] = p[2]
      /\ early' = IF source.st = "processing" THEN early \cup {p} ELSE early
      /\ up' = [up EXCEPT ![u] = NoUpload]
      /\ UNCHANGED <<format, source, stored, kept, spoilt, left, uploads, interruptions>>
  BY DEF AttachExisting, Exists, Fits, Finished
<1>3. /\ up'[u] = NoUpload /\ \A v \in Uploads \ {u} : up'[v] = up[v]
      /\ NoUpload.row = 0 /\ NoUpload.pc = "idle" /\ up[u].pc # "parsing"
  BY <1>1, <1>2 DEF NoUpload, At
<1>4. ImportTypeOK'
  BY <1>1, <1>2 DEF ImportInv, ImportTypeOK, NoUpload
<1>5. OneRowEach' /\ ParserHasRow'
  <2>1. \A q, r \in attached' : q[1] = r[1] <=> q[2] = r[2]
    BY <1>2 DEF ImportInv, OneRowEach
  <2>2. \A q \in attached' \ early' : q[2] = source'.id /\ source'.st = "ready"
    BY <1>2, <1>1 DEF ImportInv, OneRowEach
  <2> QED BY <2>1, <2>2, <1>1, <1>2, <1>3 DEF ImportInv, OneRowEach, ParserHasRow, At, Attaches
<1>6. NothingIsLeft'
  BY <1>1, <1>2, <1>3 DEF ImportInv, NothingIsLeft, Parsers, At, Attaches
<1> QED BY <1>2, <1>4, <1>5, <1>6 DEF ImportInv, ReadyHasItsFile

LEMMA DiesKeeps == ASSUME ImportInv, ProcessDies PROVE ImportInv'
<1>1. /\ up' = [v \in Uploads |-> NoUpload] /\ left' = [row |-> source'.id, file |-> TRUE]
      /\ interruptions' = interruptions + 1
      /\ UNCHANGED <<format, kept, attached, early, spoilt, uploads>> /\ Dies
  BY DEF ProcessDies
<1>2. /\ source \in [st : {"none", "processing", "failed", "ready"}, id : Nat]
      /\ stored \in {"absent", "writable", "sealed"}
  BY DEF ImportInv, ImportTypeOK
<1>3. /\ source' \in [st : {"none", "processing", "failed", "ready"}, id : Nat]
      /\ stored' \in {"absent", "writable", "sealed"}
      /\ source.st = "ready" => source' = source /\ (stored = "sealed" => stored' = "sealed")
      /\ source'.st \in {"ready", "processing"} => source' = source
  <2>1. ASSUME NEW v \in Parsers, ~Attaches(v) PROVE source.st = "processing"
    BY <2>1 DEF Parsers, ImportInv, ParserHasRow, OneRowEach
  <2> QED BY <1>1, <1>2, <2>1 DEF Dies, NoSource, Written, Exists
<1>4. ImportTypeOK'
  BY <1>1, <1>2, <1>3 DEF ImportInv, ImportTypeOK, NoUpload
<1>5. ReadyHasItsFile' /\ NothingIsLeft'
  BY <1>1, <1>3 DEF ImportInv, ReadyHasItsFile, NothingIsLeft
<1>6. OneRowEach' /\ ParserHasRow'
  BY <1>1, <1>3 DEF ImportInv, OneRowEach, ParserHasRow, NoUpload, At
<1> QED BY <1>4, <1>5, <1>6 DEF ImportInv
LEMMA ReturnUploadKeeps == ASSUME ImportInv, NEW u \in Uploads, ReturnUpload(u) PROVE ImportInv'
<1>1. NoUpload \in [pc : {"idle", "receiving"}, cand : Candidates \cup {NoCandidate}, row : {0}]
  BY DEF NoUpload
<1>2. uploads \in Nat /\ interruptions \in Nat /\ kept \subseteq Candidates
  BY DEF ImportInv, ImportTypeOK
<1> QED BY <1>1, <1>2, UploadMoves DEF ReturnUpload, Finished, At

LEMMA BeginUploadKeeps ==
  ASSUME ImportInv, NEW u \in Uploads, NEW c \in Candidates \cup {NoCandidate}, BeginUpload(u, c)
  PROVE  ImportInv'
<1> DEFINE x == [pc |-> "receiving", cand |-> c, row |-> 0]
<1>1. x \in [pc : {"idle", "receiving"}, cand : Candidates \cup {NoCandidate}, row : {0}]
  OBVIOUS
<1>2. uploads \in Nat /\ interruptions \in Nat /\ kept \subseteq Candidates
  BY DEF ImportInv, ImportTypeOK
<1>3. /\ UNCHANGED <<format, source, stored, attached, early, spoilt, left>>
      /\ uploads' \in Nat /\ interruptions' \in Nat /\ kept' \subseteq Candidates
      /\ up' = [up EXCEPT ![u] = x] /\ ~At(u, "parsing")
  BY <1>2 DEF BeginUpload, At
<1> HIDE DEF x
<1> QED BY <1>1, <1>3, UploadMoves

LEMMA TriageKeeps == ASSUME ImportInv, NEW c \in Candidates, Triage(c) PROVE ImportInv'
  BY DEF Triage, ImportInv, ImportTypeOK, ReadyHasItsFile, NothingIsLeft, OneRowEach, ParserHasRow, Parsers,
     At, Attaches

LEMMA RefuseWriteKeeps == ASSUME ImportInv, NEW u \in Uploads, RefuseWrite(u) PROVE ImportInv'
<1>1. /\ source \in [st : {"none", "processing", "failed", "ready"}, id : Nat]
      /\ source.st \notin {"processing", "ready"} /\ source' = [source EXCEPT !.st = "none"]
      /\ stored = "sealed" /\ At(u, "receiving") /\ up' = [up EXCEPT ![u] = NoUpload]
      /\ UNCHANGED <<format, stored, kept, attached, early, spoilt, left, uploads, interruptions>>
  BY DEF RefuseWrite, Exists, Writable, NoSource, Finished, ImportInv, ImportTypeOK
<1>2. source'.st = "none" /\ source'.id = source.id /\ \A v \in Uploads : up[v].row = 0
  BY <1>1, NoMaker
<1>3. ImportTypeOK' /\ ReadyHasItsFile'
  BY <1>1, <1>2 DEF ImportInv, ImportTypeOK, NoUpload, ReadyHasItsFile
<1>4. left.file
  BY <1>1 DEF ImportInv, NothingIsLeft, ReadyHasItsFile
<1> QED BY <1>1, <1>2, <1>3, <1>4, UploadEnds

LEMMA StoreDatasetKeeps == ASSUME ImportInv, NEW u \in Uploads, StoreDataset(u) PROVE ImportInv'
<1>1. /\ source \in [st : {"none", "processing", "failed", "ready"}, id : Nat]
      /\ left \in [row : Nat, file : BOOLEAN]
      /\ source.st \notin {"processing", "ready"} /\ source' = [st |-> "ready", id |-> source.id + 1]
      /\ stored' = "sealed" /\ left' = [left EXCEPT !.file = FALSE] /\ up' = [up EXCEPT ![u] = NoUpload]
      /\ UNCHANGED <<format, kept, attached, early, spoilt, uploads, interruptions>>
  BY DEF StoreDataset, Exists, NewSource, Finished, ImportInv, ImportTypeOK
<1>2. /\ \A v \in Uploads : up[v].row = 0
      /\ \A v \in Uploads : up'[v] = IF v = u THEN NoUpload ELSE up[v]
      /\ NoUpload.row = 0 /\ NoUpload.pc = "idle"
  <2>1. \A v \in Uploads : up[v].row = 0
    BY <1>1, NoMaker
  <2> QED BY <1>1, <2>1 DEF ImportInv, ImportTypeOK, NoUpload
<1>3. ImportTypeOK'
  <2>1. source.id + 1 \in Nat
    BY <1>1
  <2>2. source' \in [st : {"none", "processing", "failed", "ready"}, id : Nat]
    BY <1>1, <2>1
  <2>3. left' \in [row : Nat, file : BOOLEAN]
    BY <1>1
  <2>4. up' \in [Uploads -> [pc : {"idle", "receiving", "parsing"},
                             cand : Candidates \cup {NoCandidate}, row : Nat]]
    BY <1>1 DEF ImportInv, ImportTypeOK, NoUpload
  <2> QED BY <1>1, <2>2, <2>3, <2>4 DEF ImportInv, ImportTypeOK
<1>4. OneRowEach' /\ ParserHasRow'
  <2>1. attached \ early = {}
    BY <1>1 DEF ImportInv, OneRowEach
  <2>2. \A v \in Uploads : up'[v].row = 0
    BY <1>2
  <2>3. \A v \in Uploads : At(v, "parsing") => Attaches(v)
    BY <1>2 DEF ImportInv, ParserHasRow
  <2> QED BY <1>1, <1>2, <2>1, <2>2, <2>3 DEF ImportInv, OneRowEach, ParserHasRow, At, Attaches
<1> QED BY <1>1, <1>3, <1>4 DEF ImportInv, ReadyHasItsFile, NothingIsLeft

\* The row of an upload without a candidate has become what its parser found.
LEMMA RowSettles ==
  ASSUME ImportInv, NEW u \in Uploads, At(u, "parsing"), ~Attaches(u),
         NEW st \in {"ready", "failed"}, source' = [source EXCEPT !.st = st],
         stored' \in {"absent", "sealed"}, st = "ready" <=> stored' = "sealed",
         left' = [left EXCEPT !.file = FALSE], up' = [up EXCEPT ![u] = NoUpload],
         UNCHANGED <<format, kept, attached, early, spoilt, uploads, interruptions>>
  PROVE  ImportInv'
<1>1. /\ source \in [st : {"none", "processing", "failed", "ready"}, id : Nat]
      /\ left \in [row : Nat, file : BOOLEAN]
      /\ up \in [Uploads -> [pc : {"idle", "receiving", "parsing"},
                             cand : Candidates \cup {NoCandidate}, row : Nat]]
  BY DEF ImportInv, ImportTypeOK
<1>2. up[u].row # 0 /\ source = [st |-> "processing", id |-> up[u].row]
  BY DEF ImportInv, ParserHasRow, OneRowEach
<1>3. source.id = up[u].row /\ source.st = "processing"
  BY <1>2
<1>4. \A v \in Uploads \ {u} : up[v].row = 0
  <2> SUFFICES ASSUME NEW v \in Uploads \ {u}, up[v].row # 0 PROVE FALSE
    OBVIOUS
  <2>1. source = [st |-> "processing", id |-> up[v].row]
    BY DEF ImportInv, OneRowEach
  <2>2. source.id = up[v].row
    BY <2>1
  <2> QED BY <1>3, <2>2 DEF ImportInv, OneRowEach
<1>5. /\ \A v \in Uploads : up'[v] = IF v = u THEN NoUpload ELSE up[v]
      /\ NoUpload.row = 0 /\ NoUpload.pc = "idle"
  BY <1>1 DEF NoUpload
<1>6. source'.st = st /\ source'.id = source.id
  BY <1>1
<1>7. ImportTypeOK'
  BY <1>1, <1>6 DEF ImportInv, ImportTypeOK, NoUpload
<1>8. OneRowEach' /\ ParserHasRow'
  <2>1. attached \ early = {}
    BY <1>3 DEF ImportInv, OneRowEach
  <2>2. \A v \in Uploads : up'[v].row = 0
    BY <1>4, <1>5
  <2>3. \A v \in Uploads \ {u} : At(v, "parsing") => Attaches(v)
    BY <1>4 DEF ImportInv, ParserHasRow
  <2> QED BY <1>5, <2>1, <2>2, <2>3 DEF ImportInv, OneRowEach, ParserHasRow, At, Attaches
<1> QED BY <1>6, <1>7, <1>8 DEF ImportInv, ReadyHasItsFile, NothingIsLeft

LEMMA ParsedKeeps == ASSUME ImportInv, NEW u \in Uploads, Parsed(u) PROVE ImportInv'
  BY RowSettles DEF Parsed, Finished

LEMMA ParseFailsKeeps == ASSUME ImportInv, NEW u \in Uploads, ParseFails(u) PROVE ImportInv'
  BY RowSettles DEF ParseFails, Finished

LEMMA AttachingFailsKeeps == ASSUME ImportInv, NEW u \in Uploads, AttachingFails(u) PROVE ImportInv'
<1>1. /\ source \in [st : {"none", "processing", "failed", "ready"}, id : Nat]
      /\ left \in [row : Nat, file : BOOLEAN] /\ spoilt \in Nat
      /\ up[u].row = 0
  <2>1. up[u].row = 0
    BY DEF ImportInv, OneRowEach, AttachingFails
  <2> QED BY <2>1 DEF ImportInv, ImportTypeOK
<1>2. /\ source' = source /\ stored' = "absent" /\ left' = [left EXCEPT !.file = FALSE]
      /\ spoilt' = (IF source.st = "ready" THEN source.id ELSE spoilt) /\ up' = [up EXCEPT ![u] = NoUpload]
      /\ left'.row = left.row
      /\ UNCHANGED <<format, kept, attached, early, uploads, interruptions>>
  BY <1>1 DEF AttachingFails, Finished
<1>3. ImportTypeOK'
  BY <1>1, <1>2 DEF ImportInv, ImportTypeOK, NoUpload
<1>4. ReadyHasItsFile'
  BY <1>2 DEF ReadyHasItsFile
<1>5. source.st = "processing" => up[u].row # source.id
  BY <1>1 DEF ImportInv, ParserHasRow
<1>6. /\ attached' = attached /\ early' = early /\ source'.id = source.id
      /\ up[u].row = source.id => source.st # "processing"
      /\ source'.st = "processing" =>
            source' = source /\ left'.row \in {left.row, source.id} /\ (up[u].row = source.id => left'.row = source.id)
      /\ source.st = "ready" => source' = source
      /\ \A v \in Uploads \ {u} : up[v].row # 0 => source' = source
  BY <1>2, <1>5
<1> QED BY <1>2, <1>3, <1>4, <1>6, UploadEnds
LEMMA CommitFailsKeeps == ASSUME ImportInv, NEW u \in Uploads, CommitFails(u) PROVE ImportInv'
<1>1. /\ source \in [st : {"none", "processing", "failed", "ready"}, id : Nat]
      /\ left \in [row : Nat, file : BOOLEAN] /\ stored \in {"absent", "writable", "sealed"}
      /\ up \in [Uploads -> [pc : {"idle", "receiving", "parsing"},
                             cand : Candidates \cup {NoCandidate}, row : Nat]]
      /\ interruptions \in Nat
  BY DEF ImportInv, ImportTypeOK
<1>2. /\ up' = [up EXCEPT ![u] = NoUpload] /\ interruptions' = interruptions + 1
      /\ UNCHANGED <<format, kept, attached, early, spoilt, uploads>>
  BY DEF CommitFails, Finished
<1>3. up' \in [Uploads -> [pc : {"idle", "receiving", "parsing"},
                             cand : Candidates \cup {NoCandidate}, row : Nat]]
  BY <1>1, <1>2 DEF NoUpload
<1>a. CASE At(u, "receiving") /\ ~Exists /\ source' = NoSource /\ stored' \in {"sealed", Written}
           /\ left' = [left EXCEPT !.file = TRUE]
  <2>1. /\ source' \in [st : {"none", "processing", "failed", "ready"}, id : Nat]
        /\ source'.st = "none" /\ source'.id = source.id /\ source.st \notin {"processing", "ready"}
    BY <1>1, <1>a DEF NoSource, Exists
  <2>2. stored' \in {"writable", "sealed"}
    BY <1>a DEF Written
  <2>3. left' \in [row : Nat, file : BOOLEAN] /\ left'.file /\ left'.row = left.row
    BY <1>1, <1>a
  <2>4. ImportTypeOK' /\ ReadyHasItsFile'
    BY <1>1, <1>2, <1>3, <2>1, <2>2, <2>3 DEF ImportInv, ImportTypeOK, ReadyHasItsFile
  <2>5. \A v \in Uploads : up[v].row = 0
    BY <2>1, NoMaker
  <2>6. /\ attached' = attached /\ early' = early
        /\ source'.st # "processing" /\ source.st # "ready"
        /\ \A v \in Uploads \ {u} : up[v].row # 0 => source' = source
    BY <1>2, <2>1, <2>5
  <2> QED BY <1>2, <2>1, <2>3, <2>4, <2>6, UploadEnds
<1>b. CASE At(u, "parsing") /\ ~Attaches(u) /\ source' = source
           /\ stored' \in {stored} \cup (IF stored = "absent" THEN {} ELSE {"sealed"})
           /\ left' = [row |-> source.id, file |-> TRUE]
  <2>1. source.st = "processing"
    <3>1. source = [st |-> "processing", id |-> up[u].row]
      BY <1>b DEF ImportInv, ParserHasRow, OneRowEach
    <3> QED BY <3>1
  <2>2. stored' \in {"absent", "writable", "sealed"}
    BY <1>1, <1>b
  <2>3. left' \in [row : Nat, file : BOOLEAN] /\ left'.file /\ left'.row = source.id
    BY <1>1, <1>b
  <2>4. ImportTypeOK' /\ ReadyHasItsFile'
    BY <1>1, <1>2, <1>3, <1>b, <2>1, <2>2, <2>3 DEF ImportInv, ImportTypeOK, ReadyHasItsFile
  <2>5. attached' = attached /\ early' = early /\ source' = source /\ source'.st = "processing"
    BY <1>2, <1>b, <2>1
  <2> QED BY <1>2, <2>3, <2>4, <2>5, UploadEnds
<1> QED BY <1>a, <1>b DEF CommitFails

LEMMA ImportStep == ImportInv /\ [ImportNext]_importVars => ImportInv'
<1> SUFFICES ASSUME ImportInv, [ImportNext]_importVars PROVE ImportInv'
  OBVIOUS
<1>1. CASE UNCHANGED importVars
  BY <1>1 DEF importVars, ImportInv, ImportTypeOK, ReadyHasItsFile, NothingIsLeft, OneRowEach, ParserHasRow,
     Parsers, At, Attaches
<1>2. ASSUME NEW c \in Candidates, Triage(c) PROVE ImportInv'
  BY <1>2, TriageKeeps
<1>3. ASSUME NEW u \in Uploads, NEW c \in Candidates \cup {NoCandidate}, BeginUpload(u, c) PROVE ImportInv'
  BY <1>3, BeginUploadKeeps
<1>4. ASSUME NEW u \in Uploads,
             \/ ReturnUpload(u) \/ AttachExisting(u) \/ RefuseWrite(u) \/ StorePdf(u) \/ StoreDataset(u)
             \/ Parsed(u) \/ ParseFails(u) \/ ParsedAndAttached(u) \/ AttachingFails(u) \/ CommitFails(u)
      PROVE  ImportInv'
  BY <1>4, ReturnUploadKeeps, AttachExistingKeeps, RefuseWriteKeeps, StorePdfKeeps, StoreDatasetKeeps,
     ParsedKeeps, ParseFailsKeeps, ParsedAndAttachedKeeps, AttachingFailsKeeps, CommitFailsKeeps
<1>5. CASE ProcessDies
  BY <1>5, DiesKeeps
<1> QED BY <1>1, <1>2, <1>3, <1>4, <1>5 DEF ImportNext
-----------------------------------------------------------------------------
(* Rows *)

\* A row that was written, by the clock.
Dated(r, n) == r.id \in 1 .. n /\ r.ver \in 1 .. n /\ r.by \in r.id .. n
\* What was seen of a row is not ahead of it, and is the row if the version is.
Follows(s, r) == s.id = r.id => s.ver <= r.ver /\ (s.ver = r.ver => s = r)

RowsSound ==
    /\ \A k \in Rows : record[k] = Absent \/ Dated(record[k], writes)
    /\ \A t \in Windows, k \in Rows :
          /\ shown[t][k] = Absent \/ (Dated(shown[t][k], writes) /\ Follows(shown[t][k], record[k]))
          /\ k \in Judgments /\ shown[t][k] # Absent => shown[t][k].id = record[k].id
    /\ \A b \in briefs : Dated(b, writes) /\ Follows(b, record["cell"])

RowsInv == RowsTypeOK /\ RowsSound /\ NoEditIsLost /\ ExclusionHolds

MutationSound ==
    \A t \in Windows :
       mutation[t] # NoMutation =>
          /\ mutation[t].op # "none" /\ mutation[t].key \in MutationKeys
          /\ mutation[t].op = "rename" => mutation[t].title \in Titles
          /\ mutation[t].ver \in 1 .. project.ver
          /\ mutation[t].changes /\ mutation[t].ver = project.ver =>
                \A e \in events : e.changes => ~(e.op = mutation[t].op /\ e.key = mutation[t].key)

ProjectInv == ProjectTypeOK /\ MutationSound /\ ChangesAreRecorded

-----------------------------------------------------------------------------
LEMMA RowsInit == SharedInit => RowsInv
  BY SharedAssumption DEF SharedInit, RowsInv, RowsTypeOK, RowsSound, NoEditIsLost, ExclusionHolds,
     RowsOf, ContentOf, Absent, Rows

\* Of a row r and what was seen of it, s: with r's version s is r, or was made by
\* another write.
LEMMA SeenOrRemade ==
  ASSUME NEW n \in Nat, NEW r, NEW s, r = Absent \/ Dated(r, n),
         s = Absent \/ (Dated(s, n) /\ Follows(s, r)), s.ver = r.ver
  PROVE  s = r \/ s.id # r.id
  BY DEF Dated, Absent, Follows

\* Replacing or creating a row at the version the window shows.
LEMMA UpsertKeeps ==
  ASSUME RowsInv, NEW t \in Windows, NEW k \in Rows, NEW v \in Values[k],
         Upsert(t, k, v), briefs' = briefs
  PROVE  RowsTypeOK' /\ RowsSound' /\ NoEditIsLost'
<1> DEFINE new == [id |-> IF record[k] = Absent THEN writes + 1 ELSE record[k].id,
                   ver |-> record[k].ver + 1, by |-> writes + 1, val |-> v]
<1>1. /\ writes' = writes + 1 /\ writes \in Nat
      /\ record[k].ver = shown[t][k].ver
      /\ unseen' = IF shown[t][k] = record[k] THEN unseen
                   ELSE unseen \cup {[row |-> k, shown |-> shown[t][k], was |-> record[k]]}
      /\ record' = [record EXCEPT ![k] = new]
      /\ shown' = [shown EXCEPT ![t][k] = new]
  BY DEF Upsert, Current, Replaces, RowsInv, RowsTypeOK
<1>2. /\ record[k] \in RowsOf(k) /\ shown[t][k] \in RowsOf(k)
      /\ record[k] = Absent \/ Dated(record[k], writes)
  BY DEF RowsInv, RowsTypeOK, RowsSound
<1>3. new \in RowsOf(k) /\ Dated(new, writes') /\ new.ver # 0 /\ new # Absent
  <2>1. writes + 1 \in Nat /\ new.id \in Nat /\ new.ver \in Nat /\ new.by \in Nat /\ new.val \in ContentOf(k)
    BY <1>1, <1>2 DEF RowsOf, ContentOf, Absent
  <2>2. new \in RowsOf(k)
    BY <2>1 DEF RowsOf
  <2>3. Dated(new, writes')
    <3>1. CASE record[k] = Absent
      BY <3>1, <1>1, <1>2 DEF Dated, Absent, RowsOf
    <3>2. CASE record[k] # Absent
      BY <3>2, <1>1, <1>2 DEF Dated, Absent, RowsOf
    <3> QED BY <3>1, <3>2
  <2>4. new.ver # 0 /\ new # Absent
    BY <2>3, <1>1 DEF Dated, Absent
  <2> QED BY <2>2, <2>3, <2>4
<1> HIDE DEF new
<1>4. RowsTypeOK'
  <2>1. /\ DOMAIN record' = Rows /\ \A j \in Rows : record'[j] \in RowsOf(j)
        /\ DOMAIN shown' = Windows
    BY <1>1, <1>3 DEF RowsInv, RowsTypeOK
  <2>2. \A c \in Windows : DOMAIN shown'[c] = Rows /\ \A j \in Rows : shown'[c][j] \in RowsOf(j)
    BY <1>1, <1>3 DEF RowsInv, RowsTypeOK
  <2>3. \A u \in unseen' : u.row \in Rows /\ u \in [row : Rows, shown : RowsOf(u.row), was : RowsOf(u.row)]
    BY <1>1, <1>2 DEF RowsInv, RowsTypeOK
  <2> QED BY <1>1, <2>1, <2>2, <2>3 DEF RowsInv, RowsTypeOK
<1>5. ASSUME NEW j \in Rows PROVE record'[j] = Absent \/ Dated(record'[j], writes')
  BY <1>1, <1>3 DEF RowsInv, RowsTypeOK, RowsSound, Dated
<1>6. ASSUME NEW s, Dated(s, writes), Follows(s, record[k])
      PROVE  Follows(s, new)
  BY <1>1, <1>2, <1>6 DEF new, Dated, Follows, RowsOf
<1>7. ASSUME NEW c \in Windows, NEW j \in Rows
      PROVE  /\ shown'[c][j] = Absent \/ (Dated(shown'[c][j], writes') /\ Follows(shown'[c][j], record'[j]))
             /\ j \in Judgments /\ shown'[c][j] # Absent => shown'[c][j].id = record'[j].id
  <2>1. CASE c = t /\ j = k
    <3>1. shown'[c][j] = new /\ record'[j] = new
      BY <2>1, <1>1 DEF RowsInv, RowsTypeOK
    <3>2. Follows(new, new)
      BY <1>1, <1>3 DEF Follows, Dated
    <3> QED BY <3>1, <3>2, <1>3
  <2>2. CASE j # k
    BY <2>2, <1>1 DEF RowsInv, RowsTypeOK, RowsSound, Dated
  <2>3. CASE c # t /\ j = k
    <3>1. shown'[c][j] = shown[c][k] /\ record'[k] = new
      BY <2>3, <1>1 DEF RowsInv, RowsTypeOK
    <3>2. shown[c][k] = Absent \/ (Dated(shown[c][k], writes') /\ Follows(shown[c][k], new))
      BY <1>1, <1>6 DEF RowsInv, RowsSound, Dated
    <3>3. k \in Judgments /\ shown[c][k] # Absent => shown[c][k].id = new.id
      BY <1>1, <1>2 DEF RowsInv, RowsSound, new, Dated, Absent
    <3> QED BY <3>1, <3>2, <3>3, <2>3
  <2> QED BY <2>1, <2>2, <2>3
<1>8. ASSUME NEW b \in briefs PROVE Dated(b, writes') /\ Follows(b, record'["cell"])
  <2>1. Dated(b, writes) /\ Follows(b, record["cell"])
    BY DEF RowsInv, RowsSound
  <2>2. CASE k = "cell"
    BY <2>1, <2>2, <1>1, <1>6 DEF RowsInv, RowsTypeOK, Dated
  <2>3. CASE k # "cell"
    <3>1. record'["cell"] = record["cell"]
      BY <2>3, <1>1 DEF RowsInv, RowsTypeOK, Rows
    <3> QED BY <2>1, <3>1, <1>1 DEF Dated
  <2> QED BY <2>2, <2>3
<1>9. RowsSound'
  BY <1>5, <1>7, <1>8 DEF RowsSound
<1>10. NoEditIsLost'
  <2>1. \A c \in Windows, j \in Rows :
          shown'[c][j].ver = record'[j].ver =>
              shown'[c][j] = record'[j] \/ (j = "cell" /\ shown'[c][j].id # record'[j].id)
    <3> SUFFICES ASSUME NEW c \in Windows, NEW j \in Rows, shown'[c][j].ver = record'[j].ver
                 PROVE  shown'[c][j] = record'[j] \/ (j = "cell" /\ shown'[c][j].id # record'[j].id)
      OBVIOUS
    <3>1. shown'[c][j] = record'[j] \/ shown'[c][j].id # record'[j].id
      <4> DEFINE r == record'[j]  s == shown'[c][j]
      <4>1. writes' \in Nat /\ (r = Absent \/ Dated(r, writes'))
            /\ (s = Absent \/ (Dated(s, writes') /\ Follows(s, r)))
        BY <1>1, <1>5, <1>7
      <4> HIDE DEF r, s
      <4>2. s.ver = r.ver => s = r \/ s.id # r.id
        BY <4>1, SeenOrRemade
      <4> QED BY <4>2 DEF r, s
    <3>2. shown'[c][j] = Absent => record'[j] = Absent
      BY <1>5 DEF Dated, Absent
    <3> QED BY <3>1, <3>2, <1>7 DEF Rows
  <2>2. \A u \in unseen' : u.row = "cell" /\ u.shown.id # u.was.id
    BY <1>1 DEF RowsInv, NoEditIsLost
  <2> QED BY <2>1, <2>2 DEF NoEditIsLost
<1> QED BY <1>4, <1>9, <1>10

LEMMA DecideKeeps ==
  ASSUME RowsInv, NEW t \in Windows, NEW k \in Judgments, NEW v \in Values[k], Decide(t, k, v)
  PROVE  RowsInv'
<1>1. RowsTypeOK' /\ RowsSound' /\ NoEditIsLost'
  BY UpsertKeeps DEF Decide, Rows
<1>2. /\ record' = [record EXCEPT ![k] = [id |-> IF record[k] = Absent THEN writes + 1 ELSE record[k].id,
                                          ver |-> record[k].ver + 1, by |-> writes + 1, val |-> v]]
      /\ briefs' = briefs /\ writes \in Nat /\ k # "cell" /\ DOMAIN record = Rows
  BY SharedAssumption DEF Decide, Upsert, RowsInv, RowsTypeOK
<1>3. record'["cell"] = record["cell"] /\ record["cell"].by <= writes /\ record["cell"].by \in Nat
  <2>1. record["cell"] = Absent \/ Dated(record["cell"], writes)
    BY DEF RowsInv, RowsSound, Rows
  <2> QED BY <1>2, <2>1 DEF Rows, Absent, Dated
<1>4. record'["screening"].val = "exclude" => record'["cell"].by < record'["screening"].by
  BY <1>2, <1>3 DEF RowsInv, ExclusionHolds, Rows
<1> QED BY <1>1, <1>2, <1>3, <1>4 DEF RowsInv, ExclusionHolds

LEMMA FillCellKeeps ==
  ASSUME RowsInv, NEW t \in Windows, NEW v \in Values["cell"], FillCell(t, v)
  PROVE  RowsInv'
<1>1. RowsTypeOK' /\ RowsSound' /\ NoEditIsLost'
  BY UpsertKeeps DEF FillCell, Rows
<1>2. briefs' = briefs /\ DOMAIN record = Rows /\ record["screening"].val # "exclude"
      /\ \E new : record' = [record EXCEPT !["cell"] = new]
  BY DEF FillCell, Upsert, RowsInv, RowsTypeOK
<1>3. record'["screening"] = record["screening"]
  BY <1>2, SharedAssumption DEF Rows
<1>4. \A b \in briefs' : b.id = record'["cell"].id /\ b.ver = record'["cell"].ver => b = record'["cell"]
  BY <1>1 DEF RowsSound, Follows
<1> QED BY <1>1, <1>2, <1>3, <1>4 DEF RowsInv, ExclusionHolds

LEMMA ClearCellKeeps ==
  ASSUME RowsInv, NEW t \in Windows, ClearCell(t)
  PROVE  RowsInv'
<1>1. /\ record["cell"] # Absent /\ record["cell"].ver = shown[t]["cell"].ver
      /\ unseen' = IF shown[t]["cell"] = record["cell"] THEN unseen
                   ELSE unseen \cup {[row |-> "cell", shown |-> shown[t]["cell"], was |-> record["cell"]]}
      /\ record' = [record EXCEPT !["cell"] = Absent]
      /\ shown' = [shown EXCEPT ![t]["cell"] = Absent]
      /\ briefs' = briefs /\ writes' = writes
  BY DEF ClearCell, Current, Replaces
<1>2. DOMAIN record = Rows /\ DOMAIN shown = Windows /\ "cell" \in Rows /\ writes \in Nat
      /\ \A c \in Windows : DOMAIN shown[c] = Rows
  BY DEF RowsInv, RowsTypeOK, Rows
<1>3. Absent \in RowsOf("cell")
  BY DEF Absent, RowsOf, ContentOf
<1>4. RowsTypeOK'
  <2>1. DOMAIN record' = Rows /\ DOMAIN shown' = Windows /\ \A j \in Rows : record'[j] \in RowsOf(j)
    BY <1>1, <1>2, <1>3 DEF RowsInv, RowsTypeOK
  <2>2. \A c \in Windows : DOMAIN shown'[c] = Rows /\ \A j \in Rows : shown'[c][j] \in RowsOf(j)
    BY <1>1, <1>2, <1>3 DEF RowsInv, RowsTypeOK
  <2>3. shown[t]["cell"] \in RowsOf("cell") /\ record["cell"] \in RowsOf("cell")
    BY <1>2 DEF RowsInv, RowsTypeOK
  <2>4. \A u \in unseen' : u.row \in Rows /\ u \in [row : Rows, shown : RowsOf(u.row), was : RowsOf(u.row)]
    BY <1>1, <1>2, <2>3 DEF RowsInv, RowsTypeOK
  <2> QED BY <1>1, <2>1, <2>2, <2>4 DEF RowsInv, RowsTypeOK
<1>5. RowsSound'
  <2>1. \A j \in Rows : record'[j] = Absent \/ Dated(record'[j], writes')
    BY <1>1, <1>2 DEF RowsInv, RowsSound
  <2>2. ASSUME NEW s, Dated(s, writes) PROVE Follows(s, Absent)
    BY <2>2, <1>2 DEF Dated, Follows, Absent
  <2>3. ASSUME NEW c \in Windows, NEW j \in Rows
        PROVE  /\ shown'[c][j] = Absent \/ (Dated(shown'[c][j], writes') /\ Follows(shown'[c][j], record'[j]))
               /\ j \in Judgments /\ shown'[c][j] # Absent => shown'[c][j].id = record'[j].id
    <3>1. CASE j = "cell"
      <4>1. record'["cell"] = Absent /\ (shown'[c]["cell"] = Absent \/ shown'[c]["cell"] = shown[c]["cell"])
        BY <1>1, <1>2
      <4>2. shown[c]["cell"] = Absent \/ Dated(shown[c]["cell"], writes)
        BY <1>2 DEF RowsInv, RowsSound
      <4>3. "cell" \notin Judgments
        BY SharedAssumption
      <4> QED BY <3>1, <4>1, <4>2, <4>3, <2>2, <1>1
    <3>2. CASE j # "cell"
      BY <3>2, <1>1, <1>2 DEF RowsInv, RowsSound
    <3> QED BY <3>1, <3>2
  <2>4. \A b \in briefs' : Dated(b, writes') /\ Follows(b, record'["cell"])
    BY <1>1, <1>2, <2>2 DEF RowsInv, RowsSound
  <2> QED BY <2>1, <2>3, <2>4 DEF RowsSound
<1>6. NoEditIsLost'
  <2>1. ASSUME NEW c \in Windows, NEW j \in Rows, shown'[c][j].ver = record'[j].ver
        PROVE  shown'[c][j] = record'[j] \/ (j = "cell" /\ shown'[c][j].id # record'[j].id)
    <3>1. CASE j # "cell"
      BY <2>1, <3>1, <1>1, <1>2 DEF RowsInv, NoEditIsLost
    <3>2. CASE j = "cell"
      BY <2>1, <3>2, <1>1, <1>2, <1>5 DEF RowsSound, Dated, Absent
    <3> QED BY <3>1, <3>2
  <2>2. \A u \in unseen' : u.row = "cell" /\ u.shown.id # u.was.id
    BY <1>1, <1>2 DEF RowsInv, NoEditIsLost
  <2> QED BY <2>1, <2>2 DEF NoEditIsLost
<1>7. ExclusionHolds'
  <2>1. record'["screening"] = record["screening"] /\ record'["cell"] = Absent
    BY <1>1, <1>2, SharedAssumption DEF Rows
  <2>2. record["cell"] # Absent => Dated(record["cell"], writes)
    BY <1>2 DEF RowsInv, RowsSound
  <2>3. record'["screening"].val = "exclude" => 0 < record["screening"].by
    <3>1. record["cell"].by \in Nat /\ record["cell"].by > 0
      BY <2>2, <1>1, <1>2 DEF Dated
    <3>2. record["screening"].by \in Nat
      BY SharedAssumption DEF RowsInv, RowsTypeOK, RowsOf, Rows
    <3> QED BY <2>1, <3>1, <3>2 DEF RowsInv, ExclusionHolds
  <2>4. \A b \in briefs' : b.id # 0
    BY <1>5, <1>1, <1>2 DEF RowsSound, Dated
  <2> QED BY <2>1, <2>3, <2>4 DEF ExclusionHolds, Absent
<1> QED BY <1>4, <1>5, <1>6, <1>7 DEF RowsInv

LEMMA RowsStep == RowsInv /\ [SharedNext]_sharedVars => RowsInv'
<1> SUFFICES ASSUME RowsInv, [SharedNext]_sharedVars PROVE RowsInv'
  OBVIOUS
<1>1. CASE UNCHANGED <<record, shown, briefs, unseen, writes>>
  BY <1>1 DEF RowsInv, RowsTypeOK, RowsSound, NoEditIsLost, ExclusionHolds
<1>2. ASSUME NEW t \in Windows, NEW k \in Rows, Show(t, k) PROVE RowsInv'
  <2>1. /\ shown' = [shown EXCEPT ![t][k] = record[k]]
        /\ UNCHANGED <<record, briefs, unseen, writes>>
    BY <1>2 DEF Show
  <2>2. RowsTypeOK'
    <3>1. DOMAIN shown' = Windows
      BY <2>1 DEF RowsInv, RowsTypeOK
    <3>2. \A c \in Windows : DOMAIN shown'[c] = Rows /\ \A j \in Rows : shown'[c][j] \in RowsOf(j)
      BY <2>1 DEF RowsInv, RowsTypeOK
    <3> QED BY <2>1, <3>1, <3>2 DEF RowsInv, RowsTypeOK
  <2>3. Follows(record[k], record[k]) /\ (record[k] = Absent \/ Dated(record[k], writes))
    BY DEF RowsInv, RowsTypeOK, RowsOf, RowsSound, Follows
  <2>4. \A c \in Windows, j \in Rows : shown'[c][j] = IF c = t /\ j = k THEN record[k] ELSE shown[c][j]
    BY <2>1 DEF RowsInv, RowsTypeOK
  <2>5. RowsSound'
    BY <2>1, <2>3, <2>4 DEF RowsInv, RowsSound
  <2>6. NoEditIsLost'
    BY <2>1, <2>4 DEF RowsInv, NoEditIsLost
  <2> QED BY <2>1, <2>2, <2>5, <2>6 DEF RowsInv, ExclusionHolds
<1>3. ASSUME NEW t \in Windows, ApplyMutation(t) PROVE RowsInv'
  <2>1. UNCHANGED <<record, shown, briefs, unseen>> /\ writes' = writes + 1 /\ writes \in Nat
    BY <1>3 DEF ApplyMutation, RowsInv, RowsTypeOK
  <2>2. \A r : Dated(r, writes) => Dated(r, writes')
    BY <2>1 DEF Dated
  <2> QED BY <2>1, <2>2 DEF RowsInv, RowsTypeOK, RowsSound, NoEditIsLost, ExclusionHolds
<1>4. ASSUME WriteBrief PROVE RowsInv'
  <2>1. UNCHANGED <<record, shown, unseen, writes>> /\ briefs' = briefs \cup {record["cell"]}
        /\ record["cell"].val = "cited"
    BY <1>4 DEF WriteBrief, Citable
  <2>2. record["cell"] \in RowsOf("cell") /\ Dated(record["cell"], writes)
    BY <2>1 DEF RowsInv, RowsTypeOK, RowsSound, Rows, Absent
  <2>3. Follows(record["cell"], record["cell"])
    BY <2>2 DEF Follows, RowsOf
  <2> QED BY <2>1, <2>2, <2>3 DEF RowsInv, RowsTypeOK, RowsSound, NoEditIsLost, ExclusionHolds
<1> QED
  BY <1>1, <1>2, <1>3, <1>4, DecideKeeps, FillCellKeeps, ClearCellKeeps
  DEF SharedNext, RowsNext, ProjectNext, sharedVars, ShowProject, AskMutation, RefuseMutation

-----------------------------------------------------------------------------
LEMMA ProjectInvInit == SharedInit => ProjectInv
<1> SUFFICES ASSUME SharedInit PROVE ProjectInv
  OBVIOUS
<1>1. project \in Projects /\ project.ver = 1
  BY SharedAssumption DEF SharedInit, Projects
<1>2. page \in [Windows -> Projects] /\ events = {} /\ writes \in Nat
  BY <1>1 DEF SharedInit
<1>3. mutation \in [Windows -> [op : {"none", "rename", "archive", "restore"},
                               key : MutationKeys \cup {"none"}, ver : Nat,
                               title : Titles \cup {"none"}, changes : BOOLEAN]]
  BY DEF SharedInit, NoMutation
<1>4. MutationSound
  BY DEF SharedInit, MutationSound
<1>5. ChangesAreRecorded
  BY <1>1, <1>2 DEF ChangesAreRecorded
<1> QED
  BY <1>1, <1>2, <1>3, <1>4, <1>5 DEF ProjectInv, ProjectTypeOK

LEMMA ApplyKeeps ==
  ASSUME ProjectInv, NEW t \in Windows, ApplyMutation(t)
  PROVE  ProjectInv'
<1> DEFINE m == mutation[t]
           event == [op |-> m.op, key |-> m.key, n |-> writes + 1, from |-> m.ver,
                     title |-> m.title, changes |-> m.changes]
<1>1. /\ m # NoMutation /\ (m.changes => project.ver = m.ver) /\ writes' = writes + 1
      /\ project' = IF ~m.changes THEN project
                    ELSE [ver |-> project.ver + 1,
                          title |-> IF m.op = "rename" THEN m.title ELSE project.title,
                          archived |-> IF m.op = "rename" THEN project.archived ELSE m.op = "archive"]
      /\ events' = events \cup {event}
      /\ page' = [page EXCEPT ![t] = project']
      /\ mutation' = [mutation EXCEPT ![t] = NoMutation]
  BY DEF ApplyMutation, UnchangedSince
<1>2. /\ m \in [op : {"none", "rename", "archive", "restore"}, key : MutationKeys \cup {"none"},
                ver : Nat, title : Titles \cup {"none"}, changes : BOOLEAN]
      /\ m.op # "none" /\ m.key \in MutationKeys /\ (m.op = "rename" => m.title \in Titles)
      /\ m.ver \in 1 .. project.ver
      /\ m.changes => \A e \in events : e.changes => ~(e.op = m.op /\ e.key = m.key)
  BY <1>1 DEF ProjectInv, ProjectTypeOK, MutationSound
<1>3. /\ event \in [op : {"rename", "archive", "restore"}, key : MutationKeys, n : Nat,
                    from : Nat, title : Titles \cup {"none"}, changes : BOOLEAN]
      /\ event.op = m.op /\ event.key = m.key /\ event.from = m.ver /\ event.changes = m.changes
  BY <1>2 DEF ProjectInv, ProjectTypeOK
<1>4. /\ project \in Projects /\ project' \in Projects
      /\ project'.ver = IF m.changes THEN project.ver + 1 ELSE project.ver
  <2>1. project \in Projects
    BY DEF ProjectInv, ProjectTypeOK
  <2>2. CASE ~m.changes
    BY <1>1, <2>1, <2>2
  <2>3. CASE m.changes
    <3> DEFINE title == IF m.op = "rename" THEN m.title ELSE project.title
               archived == IF m.op = "rename" THEN project.archived ELSE m.op = "archive"
    <3>1. project' = [ver |-> project.ver + 1, title |-> title, archived |-> archived]
      BY <1>1, <2>3
    <3>2. title \in Titles
      BY <1>2, <2>1 DEF Projects
    <3>3. archived \in BOOLEAN
      BY <2>1 DEF Projects
    <3> HIDE DEF title, archived
    <3> QED BY <2>1, <2>3, <3>1, <3>2, <3>3 DEF Projects
  <2> QED BY <2>1, <2>2, <2>3
<1> HIDE DEF event
<1>5. ProjectTypeOK'
  <2>1. page' \in [Windows -> Projects] /\ writes' \in Nat
    BY <1>1, <1>4 DEF ProjectInv, ProjectTypeOK
  <2>2. mutation' \in [Windows -> [op : {"none", "rename", "archive", "restore"},
                                   key : MutationKeys \cup {"none"}, ver : Nat,
                                   title : Titles \cup {"none"}, changes : BOOLEAN]]
    BY <1>1 DEF ProjectInv, ProjectTypeOK, NoMutation
  <2> QED BY <1>1, <1>3, <1>4, <2>1, <2>2 DEF ProjectInv, ProjectTypeOK
<1>6. MutationSound'
  <2> SUFFICES ASSUME NEW c \in Windows, mutation'[c] # NoMutation
               PROVE  /\ mutation'[c].op # "none" /\ mutation'[c].key \in MutationKeys
                      /\ mutation'[c].op = "rename" => mutation'[c].title \in Titles
                      /\ mutation'[c].ver \in 1 .. project'.ver
                      /\ mutation'[c].changes /\ mutation'[c].ver = project'.ver =>
                            \A e \in events' : e.changes => ~(e.op = mutation'[c].op /\ e.key = mutation'[c].key)
    BY DEF MutationSound
  <2>1. c # t /\ mutation'[c] = mutation[c] /\ mutation[c] # NoMutation
    BY <1>1 DEF ProjectInv, ProjectTypeOK
  <2>2. /\ mutation[c].op # "none" /\ mutation[c].key \in MutationKeys
        /\ mutation[c].op = "rename" => mutation[c].title \in Titles
        /\ mutation[c].ver \in 1 .. project.ver
        /\ mutation[c].changes /\ mutation[c].ver = project.ver =>
              \A e \in events : e.changes => ~(e.op = mutation[c].op /\ e.key = mutation[c].key)
    BY <2>1 DEF ProjectInv, MutationSound
  <2>3. CASE m.changes
    BY <1>4, <2>1, <2>2, <2>3 DEF Projects
  <2>4. CASE ~m.changes
    BY <1>1, <1>3, <1>4, <2>1, <2>2, <2>4
  <2> QED BY <2>3, <2>4
<1>7. ChangesAreRecorded'
  <2>1. CASE ~m.changes
    <3>1. project' = project /\ \A e \in events' : e \in events \/ (e = event /\ ~e.changes)
      BY <1>1, <1>3, <2>1
    <3> QED BY <1>1, <3>1 DEF ProjectInv, ChangesAreRecorded
  <2>2. CASE m.changes
    <3>1. /\ project.ver \in Nat \ {0} /\ project'.ver = project.ver + 1
          /\ event.changes /\ event.from = project.ver
      BY <1>1, <1>3, <1>4, <2>2 DEF Projects
    <3>2. \A e \in events : e.changes => e.from \in 1 .. project.ver - 1
      BY DEF ProjectInv, ChangesAreRecorded
    <3>3. \A e \in events' : e.changes => e.from \in 1 .. project'.ver - 1
      BY <1>1, <3>1, <3>2
    <3>4. \A v \in 1 .. project'.ver - 1 : \E e \in events' : e.changes /\ e.from = v
      <4> SUFFICES ASSUME NEW v \in 1 .. project'.ver - 1
                   PROVE  \E e \in events' : e.changes /\ e.from = v
        OBVIOUS
      <4>1. CASE v = project.ver
        BY <4>1, <1>1, <3>1
      <4>2. CASE v # project.ver
        <5>1. v \in 1 .. project.ver - 1
          BY <4>2, <3>1
        <5> QED BY <5>1, <1>1 DEF ProjectInv, ChangesAreRecorded
      <4> QED BY <4>1, <4>2
    <3>5. \A e, f \in events' : e.changes /\ f.changes /\ (e.from = f.from \/ (e.op = f.op /\ e.key = f.key))
                                    => e = f
      <4>1. \A e \in events : e.changes => e.from # event.from /\ ~(e.op = event.op /\ e.key = event.key)
        BY <1>2, <1>3, <2>2, <3>1, <3>2
      <4> QED BY <4>1, <1>1 DEF ProjectInv, ChangesAreRecorded
    <3> QED BY <3>3, <3>4, <3>5 DEF ChangesAreRecorded
  <2> QED BY <2>1, <2>2, <1>2
<1> QED BY <1>5, <1>6, <1>7 DEF ProjectInv

LEMMA ProjectStep == ProjectInv /\ [SharedNext]_sharedVars => ProjectInv'
<1> SUFFICES ASSUME ProjectInv, [SharedNext]_sharedVars PROVE ProjectInv'
  OBVIOUS
<1>1. CASE UNCHANGED <<project, page, mutation, events>> /\ writes' \in Nat
  BY <1>1 DEF ProjectInv, ProjectTypeOK, MutationSound, ChangesAreRecorded
<1>2. ASSUME NEW t \in Windows, ShowProject(t) PROVE ProjectInv'
  BY <1>2 DEF ShowProject, ProjectInv, ProjectTypeOK, MutationSound, ChangesAreRecorded
<1>3. ASSUME NEW t \in Windows, RefuseMutation(t) PROVE ProjectInv'
  BY <1>3 DEF RefuseMutation, ProjectInv, ProjectTypeOK, MutationSound, ChangesAreRecorded, NoMutation
<1>4. ASSUME NEW t \in Windows, NEW m \in Mutations, NEW key \in MutationKeys,
             AskMutation(t, m[1], key, m[2])
      PROVE  ProjectInv'
  <2> DEFINE new == [op |-> m[1], key |-> key, ver |-> project.ver, title |-> m[2],
                     changes |-> CASE m[1] = "rename" -> project.title # m[2]
                                   [] m[1] = "archive" -> ~project.archived
                                   [] m[1] = "restore" -> project.archived]
  <2>1. /\ mutation' = [mutation EXCEPT ![t] = new] /\ ~Recorded(m[1], key)
        /\ UNCHANGED <<project, page, events, writes>>
    BY <1>4 DEF AskMutation
  <2>2. /\ m[1] \in {"rename", "archive", "restore"} /\ m[2] \in Titles \cup {"none"}
        /\ m[1] = "rename" => m[2] \in Titles
    BY DEF Mutations
  <2>3. new.changes \in BOOLEAN /\ project.ver \in Nat \ {0}
    BY <2>2 DEF ProjectInv, ProjectTypeOK, Projects
  <2> HIDE DEF new
  <2>4. new.op = m[1] /\ new.key = key /\ new.ver = project.ver /\ new.title = m[2]
        /\ new \in [op : {"none", "rename", "archive", "restore"}, key : MutationKeys \cup {"none"},
                    ver : Nat, title : Titles \cup {"none"}, changes : BOOLEAN]
    BY <2>2, <2>3 DEF new
  <2>5. ProjectTypeOK'
    BY <2>1, <2>4 DEF ProjectInv, ProjectTypeOK
  <2>6. MutationSound'
    BY <2>1, <2>2, <2>3, <2>4 DEF ProjectInv, ProjectTypeOK, MutationSound, Recorded
  <2> QED BY <2>1, <2>5, <2>6 DEF ProjectInv, ChangesAreRecorded
<1>5. ASSUME NEW t \in Windows, ApplyMutation(t) PROVE ProjectInv'
  BY <1>5, ApplyKeeps
<1> QED
  BY <1>1, <1>2, <1>3, <1>4, <1>5
  DEF SharedNext, RowsNext, ProjectNext, sharedVars, WriteBrief, Show, Decide, FillCell, ClearCell, Upsert,
      ProjectInv, ProjectTypeOK

-----------------------------------------------------------------------------
LEMMA EditsInvariant == ProjectSpec => [](RowsInv /\ ProjectInv)
<1>1. ProjectInit => RowsInv /\ ProjectInv
  BY RowsInit, ProjectInvInit DEF ProjectInit
<1>2. RowsInv /\ ProjectInv /\ [ProjectRecordsNext]_projectVars => (RowsInv /\ ProjectInv)'
  <2>1. [ProjectRecordsNext]_projectVars => [SharedNext]_sharedVars
    BY DEF ProjectRecordsNext, projectVars, SharedNext
  <2> QED BY <2>1, RowsStep, ProjectStep
<1> QED BY <1>1, <1>2, PTL DEF ProjectSpec

\* No edit of the project's rows is lost, nothing is filled in after an exclusion, a brief
\* stays what its cell said, and the project changes once for each recorded mutation: for any
\* number of windows, keys and titles (api/, app.py:268-550).
THEOREM EditsAreKeptCorrect == ProjectSpec => []EditsAreKept
<1>1. RowsInv /\ ProjectInv => EditsAreKept
  BY DEF RowsInv, ProjectInv, EditsAreKept
<1> QED BY <1>1, EditsInvariant, PTL

\* A ready source has its sealed file unless another upload removed it, a row that waits has its
\* parser, a file without a row somebody who will claim or remove it, unless the process was
\* interrupted, and candidate and row belong to each other: for any number of uploads,
\* candidates and interruptions (app.py:769-1032).
THEOREM LibraryAgreesCorrect == ProjectSpec => []LibraryAgrees
<1>1. ProjectInit => ImportInv
  BY ImportInvInit DEF ProjectInit
<1>2. ImportInv /\ [ProjectRecordsNext]_projectVars => ImportInv'
  <2>1. [ProjectRecordsNext]_projectVars => [ImportNext]_importVars
    BY DEF ProjectRecordsNext, projectVars, sharedVars, importVars
  <2> QED BY <2>1, ImportStep
<1>3. ImportInv => LibraryAgrees
  BY DEF ImportInv, LibraryAgrees
<1> QED BY <1>1, <1>2, <1>3, PTL DEF ProjectSpec

LEMMA SkillInvariant == ProjectSpec => []SkillInv
<1>1. ProjectInit => SkillInv
  BY InvInit DEF ProjectInit
<1>2. SkillInv /\ [ProjectRecordsNext]_projectVars => SkillInv'
  <2>1. [ProjectRecordsNext]_projectVars => [Next]_vars
    BY DEF ProjectRecordsNext, projectVars
  <2> QED BY <2>1, SkillStep
<1> QED BY <1>1, <1>2, PTL DEF ProjectSpec

\* One revision of a memory is committed and only the newest waits for review; one
\* installation owns the target, every temporary file has a writer or was left by a process
\* that ended, and as long as no two threads install or roll back at a time the file is what the
\* rows say: for any number of threads, approvals, revisions, edits and crashes
\* (workflow/research_memory.py, workflow/skill_activations.py).
THEOREM RecordsAgreeCorrect == ProjectSpec => []RecordsAgree
<1> QED BY SkillInvariant, SkillInvSuffices, PTL

\* No thread, however late and whatever others do meanwhile, destroys a file of the user's that
\* its row did not keep, unless the user wrote it after the thread looked; and a row says
\* "rolled-back" only when its prior file is there (workflow/skill_activations.py:830).
THEOREM PriorIsKeptCorrect == ProjectSpec => PriorIsKept
<1> DEFINE Kept ==
      /\ file.md = "mine" /\ file'.md # "mine" /\ edits' = edits =>
             \E t \in Clients :
                /\ pc[t] \in {"replace", "undo"} /\ pc'[t] # pc[t]
                /\ act[loc[t].row].prior = "mine" \/ t \in late
      /\ \A k \in Keys : act[k].st # "rolled-back" /\ act'[k].st = "rolled-back"
             => file'.md = act[k].prior
<1>1. SkillInv /\ [ProjectRecordsNext]_projectVars => [Kept]_vars
  <2>1. [ProjectRecordsNext]_projectVars => [Next]_vars
    BY DEF ProjectRecordsNext, projectVars
  <2>2. SkillInv /\ Next => Kept
    BY FileOfTheUser, RolledBack
  <2> QED BY <2>1, <2>2
<1> HIDE DEF Kept
<1>2. ProjectSpec => [][Kept]_vars
  BY <1>1, SkillInvariant, PTL DEF ProjectSpec
<1> QED BY <1>2 DEF Kept, PriorIsKept
=============================================================================

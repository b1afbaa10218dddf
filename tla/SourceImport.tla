----------------------------- MODULE SourceImport -----------------------------
(***************************************************************************)
(* The import of one file, known by its content hash, into a project       *)
(* (app.py): its row, the managed file beside it, and the discovery        *)
(* candidate an upload may attach it to.                                   *)
(*                                                                         *)
(* The handlers are coroutines of one event loop: they give way to each    *)
(* other only while an upload is received and while a PDF is parsed, and   *)
(* everything between those two points is one action.  The process may     *)
(* die, and a commit may fail, inside of them.                             *)
(***************************************************************************)
EXTENDS Naturals

CONSTANTS Uploads,          \* requests that import the file
          Candidates,       \* discovery candidates it may be attached to
          NoCandidate,      \* an upload without a candidate
          Privileged,       \* the process may write a read-only file
          MaxUploads,       \* bounds the uploads
          MaxInterruptions  \* bounds crashes and failed commits

ASSUME ImportAssumption ==
    /\ NoCandidate \notin Candidates /\ Privileged \in BOOLEAN
    /\ MaxUploads \in Nat /\ MaxInterruptions \in Nat

VARIABLES
    format,   \* the file is a PDF or a CSV file
    source,   \* the row of this content hash, the n-th that was made
    stored,   \* the managed file
    up,       \* where each upload is, its candidate, and the row it made
    kept,     \* candidates triaged "keep"
    attached, \* source.discovery-attached: which candidate has which row
    early,    \* history: those attached before the row was ready
    spoilt,   \* history: the ready row whose file another upload removed
    left,     \* history: the row, and whether the file, an interruption left behind
    uploads, interruptions

importVars == <<format, source, stored, up, kept, attached, early, spoilt, left, uploads,
                interruptions>>

NoUpload == [pc |-> "idle", cand |-> NoCandidate, row |-> 0]
NoSource == [source EXCEPT !.st = "none"]
NewSource(st) == [st |-> st, id |-> source.id + 1]

At(u, pc) == up[u].pc = pc
Attaches(u) == up[u].cand # NoCandidate
Finished(u) == up' = [up EXCEPT ![u] = NoUpload]
Parsers == {u \in Uploads : At(u, "parsing")}

\* A row that is not "failed" keeps its place; a failed one is only a tombstone.
ExistsMut == source.st \in {"processing", "ready", "failed"}
Exists == source.st \in {"processing", "ready"}

\* Writing does not change the mode of a file that is there.
Writable == stored # "sealed" \/ Privileged
Written == IF stored = "sealed" THEN "sealed" ELSE "writable"

\* One candidate has one row and one row one candidate.
FitsMut(c, id) == TRUE
Fits(c, id) == \A p \in attached : p[1] = c <=> p[2] = id

ImportInit ==
    /\ format \in {"pdf", "csv"} /\ source = [st |-> "none", id |-> 0] /\ stored = "absent"
    /\ up = [u \in Uploads |-> NoUpload] /\ kept = {} /\ attached = {} /\ early = {}
    /\ spoilt = 0 /\ left = [row |-> 0, file |-> FALSE]
    /\ uploads = 0 /\ interruptions = 0

Triage(c) ==
    /\ format = "pdf"
    /\ kept' = IF c \in kept THEN kept \ {c} ELSE kept \cup {c}
    /\ UNCHANGED <<format, source, stored, up, attached, early, spoilt, left, uploads, interruptions>>

BeginUpload(u, c) ==
    /\ At(u, "idle") /\ uploads < MaxUploads
    /\ c \in kept \cup {NoCandidate} /\ (c \in Candidates => format = "pdf")
    /\ up' = [up EXCEPT ![u] = [pc |-> "receiving", cand |-> c, row |-> 0]]
    /\ uploads' = uploads + 1
    /\ UNCHANGED <<format, source, stored, kept, attached, early, spoilt, left, interruptions>>

\* Refused before anything was written, or answered with the row that is there.
ReturnUpload(u) ==
    /\ At(u, "receiving") /\ Finished(u)
    /\ UNCHANGED <<format, source, stored, kept, attached, early, spoilt, left, uploads, interruptions>>

AttachExisting(u) ==
    /\ At(u, "receiving") /\ Attaches(u) /\ Exists /\ Fits(up[u].cand, source.id)
    /\ attached' = attached \cup {<<up[u].cand, source.id>>}
    /\ early' = IF source.st = "processing" THEN early \cup {<<up[u].cand, source.id>>} ELSE early
    /\ Finished(u)
    /\ UNCHANGED <<format, source, stored, kept, spoilt, left, uploads, interruptions>>

\* The tombstone is gone, but the file cannot be written.
RefuseWrite(u) ==
    /\ At(u, "receiving") /\ ~Exists /\ ~Writable
    /\ source' = NoSource /\ Finished(u)
    /\ UNCHANGED <<format, stored, kept, attached, early, spoilt, left, uploads, interruptions>>

\* Only an upload without a candidate makes its row before it parses.
StorePdf(u) ==
    /\ At(u, "receiving") /\ format = "pdf" /\ ~Exists /\ Writable
    /\ source' = IF Attaches(u) THEN NoSource ELSE NewSource("processing")
    /\ stored' = Written
    /\ up' = [up EXCEPT ![u].pc = "parsing", ![u].row = IF Attaches(u) THEN 0 ELSE source.id + 1]
    /\ UNCHANGED <<format, kept, attached, early, spoilt, left, uploads, interruptions>>

StoreDataset(u) ==
    /\ At(u, "receiving") /\ format = "csv" /\ ~Exists /\ Writable
    /\ source' = NewSource("ready") /\ stored' = "sealed"
    /\ left' = [left EXCEPT !.file = FALSE] /\ Finished(u)
    /\ UNCHANGED <<format, kept, attached, early, spoilt, uploads, interruptions>>

\* Mutant: the row is made ready although its file is gone.
ParsedMut(u) ==
    /\ At(u, "parsing") /\ ~Attaches(u)
    /\ source' = [source EXCEPT !.st = "ready"] /\ stored' = IF stored = "absent" THEN stored ELSE "sealed"
    /\ left' = [left EXCEPT !.file = FALSE] /\ Finished(u)
    /\ UNCHANGED <<format, kept, attached, early, spoilt, uploads, interruptions>>

Parsed(u) ==
    /\ At(u, "parsing") /\ ~Attaches(u) /\ stored # "absent"
    /\ source' = [source EXCEPT !.st = "ready"] /\ stored' = "sealed"
    /\ left' = [left EXCEPT !.file = FALSE] /\ Finished(u)
    /\ UNCHANGED <<format, kept, attached, early, spoilt, uploads, interruptions>>

\* The PDF cannot be parsed, or its file cannot be sealed because it is gone.
ParseFails(u) ==
    /\ At(u, "parsing") /\ ~Attaches(u)
    /\ source' = [source EXCEPT !.st = "failed"] /\ stored' = "absent"
    /\ left' = [left EXCEPT !.file = FALSE] /\ Finished(u)
    /\ UNCHANGED <<format, kept, attached, early, spoilt, uploads, interruptions>>

\* The row is inserted with its attachment, unless somebody else's row has the hash by now.
ParsedAndAttached(u) ==
    /\ At(u, "parsing") /\ Attaches(u) /\ source.st = "none" /\ stored # "absent"
    /\ Fits(up[u].cand, source.id + 1)
    /\ source' = NewSource("ready") /\ stored' = "sealed"
    /\ attached' = attached \cup {<<up[u].cand, source.id + 1>>}
    /\ left' = [left EXCEPT !.file = FALSE] /\ Finished(u)
    /\ UNCHANGED <<format, kept, early, spoilt, uploads, interruptions>>

\* Whatever goes wrong, also the unique index or a failed commit, the file is removed,
\* whosever it is by now.
AttachingFails(u) ==
    /\ At(u, "parsing") /\ Attaches(u)
    /\ stored' = "absent" /\ left' = [left EXCEPT !.file = FALSE]
    /\ spoilt' = IF source.st = "ready" THEN source.id ELSE spoilt
    /\ Finished(u)
    /\ UNCHANGED <<format, source, kept, attached, early, uploads, interruptions>>

\* A commit fails with the file in its place: that of the first row, that of a data set, or
\* that of the outcome, which cannot be followed by a commit of "failed" in that session.
CommitFails(u) ==
    /\ interruptions < MaxInterruptions /\ interruptions' = interruptions + 1
    /\ \/ /\ At(u, "receiving") /\ ~Exists /\ Writable /\ (format = "pdf" => ~Attaches(u))
          /\ source' = NoSource /\ stored' = IF format = "csv" THEN "sealed" ELSE Written
          /\ left' = [left EXCEPT !.file = TRUE]
       \/ /\ At(u, "parsing") /\ ~Attaches(u)
          /\ source' = source /\ stored' \in {stored} \cup (IF stored = "absent" THEN {} ELSE {"sealed"})
          /\ left' = [row |-> source.id, file |-> TRUE]
    /\ Finished(u)
    /\ UNCHANGED <<format, kept, attached, early, spoilt, uploads>>

\* The process dies, at rest or inside an action: the tombstone deleted, the file written,
\* the file sealed before its row says so, or the row failed before its file is removed.
Dies ==
    \/ source' = source /\ stored' = stored
    \/ /\ ~Exists /\ (\E u \in Uploads : At(u, "receiving"))
       /\ source' = NoSource
       /\ stored' \in {stored} \cup (IF Writable THEN {Written} ELSE {})
    \/ /\ ~Exists /\ Writable /\ format = "csv" /\ (\E u \in Uploads : At(u, "receiving"))
       /\ source' = NoSource /\ stored' = "sealed"
    \/ Parsers # {} /\ stored # "absent" /\ source' = source /\ stored' = "sealed"
    \/ /\ \E u \in Parsers : ~Attaches(u)
       /\ source' = [source EXCEPT !.st = "failed"] /\ stored' \in {stored} \cup (IF stored = "absent" THEN {} ELSE {"sealed"})

ProcessDies ==
    /\ interruptions < MaxInterruptions /\ interruptions' = interruptions + 1
    /\ Dies /\ up' = [u \in Uploads |-> NoUpload]
    /\ left' = [row |-> source'.id, file |-> TRUE]
    /\ UNCHANGED <<format, kept, attached, early, spoilt, uploads>>

ImportNext ==
    \/ \E c \in Candidates : Triage(c)
    \/ \E u \in Uploads :
          \/ \E c \in Candidates \cup {NoCandidate} : BeginUpload(u, c)
          \/ ReturnUpload(u) \/ AttachExisting(u) \/ RefuseWrite(u) \/ StorePdf(u) \/ StoreDataset(u)
          \/ Parsed(u) \/ ParseFails(u) \/ ParsedAndAttached(u) \/ AttachingFails(u) \/ CommitFails(u)
    \/ ProcessDies
-----------------------------------------------------------------------------
ImportTypeOK ==
    /\ format \in {"pdf", "csv"}
    /\ source \in [st : {"none", "processing", "failed", "ready"}, id : Nat]
    /\ stored \in {"absent", "writable", "sealed"}
    /\ up \in [Uploads -> [pc : {"idle", "receiving", "parsing"},
                           cand : Candidates \cup {NoCandidate}, row : Nat]]
    /\ kept \subseteq Candidates
    /\ attached \subseteq Candidates \X Nat /\ early \subseteq attached
    /\ spoilt \in Nat /\ left \in [row : Nat, file : BOOLEAN]
    /\ uploads \in Nat /\ interruptions \in Nat

\* A ready source has its read-only file, unless an upload that was to attach it to a
\* candidate lost the race and removed it afterwards; and a failed one has none.
ReadyHasItsFile ==
    /\ source.st = "ready" => stored = "sealed" \/ spoilt = source.id
    /\ source.st = "failed" => stored = "absent" \/ left.file

\* A row that waits for its parser has one, and a file without a row somebody who will
\* remove or claim it, unless the process died or could not commit.
NothingIsLeft ==
    /\ source.st = "processing" =>
          left.row = source.id \/ \E u \in Parsers : up[u].row = source.id
    /\ source.st = "none" /\ stored # "absent" => left.file \/ \E u \in Parsers : Attaches(u)
    /\ source.st = "none" /\ stored = "sealed" => left.file

\* A row is finished by the upload that made it; a candidate has one row and a row one
\* candidate; the row it has is there and not failed, unless it was attached before the
\* row was ready.
OneRowEach ==
    /\ \A u, v \in Uploads : up[u].row = up[v].row => u = v \/ up[u].row = 0
    /\ \A u \in Uploads : up[u].row # 0 =>
          source = [st |-> "processing", id |-> up[u].row] /\ At(u, "parsing") /\ ~Attaches(u)
    /\ \A p, q \in attached : p[1] = q[1] <=> p[2] = q[2]
    /\ \A p \in attached \ early : p[2] = source.id /\ source.st = "ready"
=============================================================================

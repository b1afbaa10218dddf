------------------------- MODULE ScienceCoreLifecycle -------------------------
(***************************************************************************)
(* The desktop shell starts Science Core in a container and stops it       *)
(* (science_core_runtime.rs).  A start runs on a thread of its own: it     *)
(* prepares the session directory, loads the images, brings the project of *)
(* an earlier run down, its own up, waits until it answers and publishes   *)
(* the descriptor of the skill bridge; a failure takes the same path as a  *)
(* stop.  The state behind the mutex (`core') is read and written between  *)
(* those steps, by them and by stop, retry and exit.                       *)
(*                                                                         *)
(* A start is known by its number, which stands for its session token.     *)
(* Docker knows the project by a fixed name: bringing it down works        *)
(* whoever brought it up, and needs the files of a session directory.      *)
(***************************************************************************)
EXTENDS DesktopProcess, FiniteSets

CONSTANT MaxStarts \* bounds the starts of a launch

\* The start at launch, and one after each command.
ASSUME CoreAssumption == MaxStarts \in Nat /\ MaxStarts > MaxCommands

VARIABLES
    core,      \* LifecycleState: status, active, generation, start_cancel, start_worker
    session,   \* what is in the session directory, and whose bridge descriptor
    container, \* the start whose container runs; Foreign when another launch started it
    start,     \* the start threads
    cleaner    \* what each thread does to stop what is active

coreVars == <<core, session, container, start, cleaner>>

Starts == 1 .. MaxStarts
None == 0
Foreign == MaxStarts + 1

Files == {"compose", "session.env"}
NoSession == [files |-> {}, bridge |-> None]

StartThread(n) == NoThread + n
Cleaners == Threads \cup {StartThread(n) : n \in Starts}

Unused == [pc |-> "unused", gen |-> 0, cancelled |-> FALSE, holds |-> FALSE, ok |-> FALSE,
           late |-> FALSE]
NoWork == [pc |-> "none", gen |-> 0, retry |-> FALSE, ok |-> FALSE]

StartAt(n, pc) == Alive /\ start[n].pc = pc
CleanerAt(c, pc) == Alive /\ cleaner[c].pc = pc

NextStart(n) == start[n] = Unused /\ \A m \in Starts : m < n => start[m] # Unused
Cleans(t, gen, retry) ==
    cleaner' = [cleaner EXCEPT ![t] = [pc |-> "revoke", gen |-> gen, retry |-> retry, ok |-> FALSE]]

CoreInit ==
    /\ core = [status |-> "unavailable", active |-> None, gen |-> 0, cancel |-> None,
                worker |-> None]
    /\ session = NoSession /\ container = None
    /\ start = [n \in Starts |-> Unused]
    /\ cleaner = [c \in Cleaners |-> NoWork]
-----------------------------------------------------------------------------
(* Requests (schedule_start, schedule_stop, stop_for_exit). *)

\* begin_start refuses while something is active or under way.
Startable == core.active = None /\ core.status \notin {"starting", "ready", "stopping"}

\* begin_retry_cleanup
RetryCleans == core.active # None /\ core.status \in {"failed", "ready"}

\* schedule_start: what is active is stopped first, by thread t; or a start begins.  (A
\* build without the packaged resources never starts it; here that is one whose user uses
\* another part.)
ScheduleStart(t) ==
    /\ UNCHANGED <<session, container>>
    /\ \/ /\ RetryCleans /\ UNCHANGED start
          /\ Cleans(t, core.gen + 1, TRUE)
          /\ core' = [core EXCEPT !.gen = @ + 1, !.status = "stopping"]
       \/ /\ ~RetryCleans
          /\ cleaner' = [cleaner EXCEPT ![t] = NoWork]
          /\ \/ ~Startable /\ UNCHANGED <<core, start>>
             \/ /\ Startable
                /\ \E n \in Starts :
                      /\ NextStart(n)
                      /\ start' = [start EXCEPT ![n].pc = "prepare", ![n].gen = core.gen + 1,
                                              ![n].late = app \notin {"setup", "running"}]
                      /\ core' = [core EXCEPT !.gen = @ + 1, !.status = "starting",
                                              !.cancel = n, !.worker = n]

\* bootstrap at launch; science_core_retry; what follows a retry's cleanup.
Bootstrap ==
    /\ GoesOn("setup", "running")
    /\ IF used = "core" THEN ScheduleStart(Main) ELSE UNCHANGED coreVars
AskRetry(t) == MainCommand(t, "core") /\ ScheduleStart(t)
Reschedule(t) == CleanerAt(t, "schedule") /\ UNCHANGED process /\ ScheduleStart(t)

\* begin_stop: a start under way is told, and stops itself.
AskStop(t) ==
    /\ MainCommand(t, "core") /\ UNCHANGED <<session, container>>
    /\ \/ /\ core.status = "starting" /\ UNCHANGED cleaner
          /\ core' = [core EXCEPT !.status = "stopping"]
          /\ start' = [start EXCEPT ![core.cancel].cancelled = TRUE]
       \/ /\ core.status \notin {"starting", "stopping"} /\ core.active # None
          /\ Cleans(t, core.gen + 1, FALSE)
          /\ core' = [core EXCEPT !.gen = @ + 1, !.status = "stopping"]
          /\ UNCHANGED start
       \/ /\ core.status = "stopping" \/ (core.status # "starting" /\ core.active = None)
          /\ UNCHANGED <<core, start, cleaner>>

CancelStart ==
    start' = IF core.cancel = None THEN start
             ELSE [start EXCEPT ![core.cancel].cancelled = TRUE]

\* begin_exit_wait
ExitCore ==
    /\ GoesOn("core", "waiting")
    /\ CancelStart
    /\ core' = [core EXCEPT !.status = "stopping"]
    /\ UNCHANGED <<session, container, cleaner>>

WorkerEndedMut == TRUE
WorkerEnded == core.worker # None => start[core.worker].pc = "done"

\* stop_for_exit: begin_exit_cleanup once the worker ended; it keeps the generation.  The
\* loading of an image is not cancellable, and may take longer than the exit waits.
ExitWaited ==
    /\ app = "waiting" /\ UNCHANGED <<session, container>>
    /\ \/ /\ core.worker # None /\ start[core.worker].pc = "load"
          /\ faults < FaultsOf[used] /\ faults' = faults + 1
          /\ app' = "gone" /\ UNCHANGED <<launch, asked, used, core, start, cleaner>>
       \/ /\ WorkerEnded
          /\ CancelStart
          /\ IF core.active = None
                THEN GoesOn("waiting", "gone") /\ UNCHANGED <<core, cleaner>>
                ELSE /\ GoesOn("waiting", "cleanup")
                     /\ core' = [core EXCEPT !.status = "stopping"]
                     /\ Cleans(Main, core.gen, FALSE)

ExitCleaned ==
    /\ GoesOn("cleanup", "gone") /\ cleaner[Main] = NoWork
    /\ UNCHANGED coreVars
-----------------------------------------------------------------------------
(* A start (start_lifecycle_cancellable_with). *)

\* Every way out after the environment was written first stops what may be up.
StartGoes(n, pc) ==
    /\ start' = [start EXCEPT ![n].pc = pc]
    /\ IF pc = "cleanup" THEN Cleans(StartThread(n), start[n].gen, FALSE) ELSE UNCHANGED cleaner

\* What one step leads to when it succeeds; a failure costs a fault, and a cancellation
\* is noticed after the step.
Outcome(n, next) ==
    \E fails \in BOOLEAN :
        /\ Costs(fails)
        /\ StartGoes(n, IF fails \/ start[n].cancelled THEN "cleanup" ELSE next)

Prepare(n) ==
    /\ StartAt(n, "prepare") /\ UNCHANGED <<core, container>>
    /\ \E fails \in BOOLEAN :
          /\ Costs(fails) /\ session' \in IF fails THEN {session, NoSession} ELSE {NoSession}
          /\ StartGoes(n, IF fails THEN "finish" ELSE "files")

\* The verified compose file and the model credential; the images are loaded next.
WriteFiles(n) ==
    /\ StartAt(n, "files") /\ UNCHANGED <<core, container>>
    /\ \E fails \in BOOLEAN :
          /\ Costs(fails)
          /\ session' = IF fails THEN NoSession ELSE [session EXCEPT !.files = {"compose"}]
          /\ StartGoes(n, IF fails THEN "finish" ELSE "load")

\* The images are loaded and the environment is written: from here on the start has
\* something to clean up.
Load(n) ==
    /\ StartAt(n, "load") /\ UNCHANGED <<core, container, cleaner>>
    /\ \E fails \in BOOLEAN :
          /\ Costs(fails)
          /\ IF fails \/ start[n].cancelled
                THEN session' = NoSession /\ start' = [start EXCEPT ![n].pc = "finish"]
                ELSE /\ session' = [session EXCEPT !.files = @ \cup {"session.env"}]
                     /\ start' = [start EXCEPT ![n].pc = "register", ![n].holds = TRUE]

\* register_start_context
Registers(n) == core.gen = start[n].gen /\ core.status \in {"starting", "stopping"}

Register(n) ==
    /\ StartAt(n, "register") /\ UNCHANGED <<process, session, container>>
    /\ core' = IF Registers(n) THEN [core EXCEPT !.active = n] ELSE core
    /\ StartGoes(n, IF start[n].cancelled THEN "cleanup" ELSE "clear")

\* `docker compose' needs the files it is given.
Composes == Files \subseteq session.files

Clear(n) ==
    /\ StartAt(n, "clear") /\ UNCHANGED <<core, session>>
    /\ \/ Composes /\ container' = None /\ Outcome(n, "up")
       \/ Costs(Composes) /\ UNCHANGED container /\ StartGoes(n, "cleanup")

\* A start that fails, or is killed because it was cancelled, may leave a container up.
ComposeUp(n) ==
    /\ StartAt(n, "up") /\ UNCHANGED <<core, session>>
    /\ \/ Composes /\ container' = n /\ Outcome(n, "probe")
       \/ /\ UNCHANGED container /\ Costs(Composes /\ ~start[n].cancelled)
          /\ StartGoes(n, "cleanup")

WaitReady(n) ==
    /\ StartAt(n, "probe") /\ UNCHANGED <<core, session, container>>
    /\ Outcome(n, "publish")

\* The cancellation is not looked at any more.
PublishBridge(n) ==
    /\ StartAt(n, "publish") /\ UNCHANGED <<core, container>>
    /\ \/ /\ session.files # {} /\ UNCHANGED <<process, cleaner>>
          /\ session' = [session EXCEPT !.bridge = n]
          /\ start' = [start EXCEPT ![n].pc = "finish", ![n].ok = TRUE]
       \/ Costs(session.files # {}) /\ UNCHANGED session /\ StartGoes(n, "cleanup")

\* finish_start.  What it returns is stopped by this thread.
FinishStart(n) ==
    /\ StartAt(n, "finish") /\ UNCHANGED <<process, session, container>>
    /\ LET made == start[n].holds \* a container, or a cleanup that failed
           current == core.gen = start[n].gen
           cancelled == core.status = "stopping"
       IN  /\ IF made /\ (cancelled \/ ~current)
                 THEN Cleans(StartThread(n), start[n].gen, FALSE) ELSE UNCHANGED cleaner
           /\ start' = [start EXCEPT ![n].holds = FALSE, ![n].ok = FALSE,
                               ![n].pc = IF made /\ (cancelled \/ ~current)
                                                  THEN "stop" ELSE "leave"]
           /\ core' = IF ~current THEN core
                      ELSE [core EXCEPT !.cancel = None, !.active = IF made THEN n ELSE None,
                               !.status = IF cancelled THEN IF made THEN @ ELSE "stopped"
                                          ELSE IF start[n].ok THEN "ready" ELSE "failed"]

\* finish_start_worker
LeaveStart(n) ==
    /\ StartAt(n, "leave")
    /\ start' = [start EXCEPT ![n] = [Unused EXCEPT !.pc = "done", !.late = start[n].late]]
    /\ core' = IF core.worker = n THEN [core EXCEPT !.worker = None] ELSE core
    /\ UNCHANGED <<process, session, container, cleaner>>
-----------------------------------------------------------------------------
(* Stopping (stop_active_with): the bridge is revoked whatever happens next, and the files *)
(* stay until the project is down. *)

RevokedMut == session
Revoked == [session EXCEPT !.bridge = None]

CleanerGoes(c, pc, ok) == cleaner' = [cleaner EXCEPT ![c].pc = pc, ![c].ok = ok]

Revoke(c) ==
    /\ CleanerAt(c, "revoke") /\ CleanerGoes(c, "down", FALSE)
    /\ session' = Revoked
    /\ UNCHANGED <<process, core, container, start>>

Down(c) ==
    /\ CleanerAt(c, "down") /\ UNCHANGED <<core, session, start>>
    /\ \/ Composes /\ container' = None /\ UNCHANGED process /\ CleanerGoes(c, "wipe", TRUE)
       \/ Costs(Composes) /\ UNCHANGED container /\ CleanerGoes(c, "ended", FALSE)

Wipe(c) ==
    /\ CleanerAt(c, "wipe") /\ CleanerGoes(c, "ended", TRUE)
    /\ session' = NoSession
    /\ UNCHANGED <<process, core, container, start>>

\* finish_stop
StopEnds(gen, ok) ==
    core' = IF core.gen # gen \/ core.status # "stopping" THEN core
            ELSE IF ok THEN [core EXCEPT !.active = None, !.cancel = None, !.status = "stopped"]
            ELSE [core EXCEPT !.status = "failed"]

\* After its cleanup a retry schedules a start, whatever the status is by then.
EndStop(t) ==
    /\ t \in Threads /\ CleanerAt(t, "ended")
    /\ StopEnds(cleaner[t].gen, cleaner[t].ok)
    /\ cleaner' = [cleaner EXCEPT ![t] =
                      IF cleaner[t].retry /\ cleaner[t].ok
                         THEN [NoWork EXCEPT !.pc = "schedule"] ELSE NoWork]
    /\ UNCHANGED <<process, session, container, start>>

EndStartCleanup(n) ==
    /\ CleanerAt(StartThread(n), "ended")
    /\ cleaner' = [cleaner EXCEPT ![StartThread(n)] = NoWork]
    /\ UNCHANGED <<process, session, container>>
    /\ \/ /\ StartAt(n, "cleanup") /\ UNCHANGED core
          /\ start' = [start EXCEPT ![n].pc = "finish",
                                    ![n].holds = ~cleaner[StartThread(n)].ok]
       \/ /\ StartAt(n, "stop") /\ start' = [start EXCEPT ![n].pc = "leave"]
          /\ StopEnds(start[n].gen, cleaner[StartThread(n)].ok)

StartStep(n) ==
    \/ Prepare(n) \/ WriteFiles(n) \/ Load(n) \/ Register(n) \/ Clear(n) \/ ComposeUp(n)
    \/ WaitReady(n) \/ PublishBridge(n) \/ FinishStart(n) \/ LeaveStart(n)
    \/ EndStartCleanup(n)

CoreGoesOn ==
    \/ \E n \in Starts : StartStep(n)
    \/ \E c \in Cleaners : Revoke(c) \/ Down(c) \/ Wipe(c)
    \/ \E t \in Threads : EndStop(t) \/ Reschedule(t)

CoreStep ==
    \/ Bootstrap \/ ExitCore \/ ExitWaited \/ ExitCleaned
    \/ \E t \in Commands : AskRetry(t) \/ AskStop(t)
    \/ CoreGoesOn

\* A new process knows nothing of the container and the files the last one left.
CoreRelaunch ==
    /\ core' = [status |-> "unavailable", active |-> None, gen |-> 0, cancel |-> None,
                worker |-> None]
    /\ start' = [n \in Starts |-> Unused] /\ cleaner' = [c \in Cleaners |-> NoWork]
    /\ container' = IF container = None THEN None ELSE Foreign
    /\ session' = [session EXCEPT !.bridge = IF @ = None THEN None ELSE Foreign]
-----------------------------------------------------------------------------
Statuses == {"unavailable", "starting", "ready", "failed", "stopping", "stopped"}

CoreTypeOK ==
    /\ core.status \in Statuses /\ core.gen \in Nat
    /\ {core.active, core.cancel, core.worker} \subseteq Starts \cup {None}
    /\ session.files \subseteq Files
    /\ {session.bridge, container} \subseteq Starts \cup {None, Foreign}
    /\ \A n \in Starts : start[n].ok => start[n].holds

StillHeld(n) == start[n].holds \/ start[n].pc = "stop"

\* However starts, stops, retries and the exit overlap, and whichever of their steps fail,
\* the shell knows of a container it brought up until it is down; what it calls ready is
\* that container, with the files needed to stop it and the bridge to it; and a bridge
\* credential exists only while its container is in use or about to lose it.
CoreIsKnown ==
    /\ CoreTypeOK
    /\ container \in Starts /\ Alive => core.active # None \/ \E n \in Starts : StillHeld(n)
    /\ core.status = "ready" /\ Running =>
          container = core.active /\ session = [files |-> Files, bridge |-> core.active]
    /\ session.bridge \in Starts /\ Running =>
          \/ core.status = "ready"
          \/ \E n \in Starts : start[n].pc = "finish"
          \/ \E c \in Cleaners : cleaner[c].pc = "revoke"
=============================================================================

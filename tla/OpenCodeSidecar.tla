--------------------------- MODULE OpenCodeSidecar ---------------------------
(***************************************************************************)
(* The OpenCode sidecar of the desktop shell (runtime.rs).  Commands start *)
(* it, stop it, or change its configuration, which pauses and restarts it. *)
(* A command holds the lifecycle mutex from beginning to end; a watcher    *)
(* thread per process reports that it exited, signals that without the     *)
(* mutex, and clears what the shell published of it with the mutex.        *)
(*                                                                         *)
(* Killing consumes the only handle.  When the exit is not confirmed in    *)
(* time, a record without a handle (a tombstone) stays in `child', so that *)
(* nothing is started next to a process that may still be alive.           *)
(*                                                                         *)
(* A process is known by the number of its spawn, which stands for the     *)
(* pair of pid and generation.  The bundled skills are deployed before     *)
(* each spawn: pack is what became of one of them.                         *)
(***************************************************************************)
EXTENDS SkillPack, FiniteSets

CONSTANTS MaxSpawns,  \* bounds the processes spawned in a launch
          MaxTries    \* SIDECAR_PORT_ATTEMPTS

\* Every command spawns one, and one more after each early exit.
ASSUME SidecarAssumption ==
    MaxSpawns \in Nat /\ MaxSpawns >= MaxCommands + MaxFaults /\ MaxTries \in Nat \ {0}

VARIABLES
    lock,     \* who holds the lifecycle mutex
    sidecar,  \* RuntimeState: url, port, child and shutting_down
    proc,     \* each process: is it alive, was it killed, its watcher
    cmd       \* what each thread is doing

sidecarVars == <<lock, sidecar, proc, cmd>>

Pids == 1 .. MaxSpawns
NoPid == 0

Unborn == [state |-> "unborn", killed |-> FALSE, watcher |-> "none", port |-> 0]
NoChild == [pid |-> NoPid, handle |-> FALSE]
Idle == [kind |-> "none", pc |-> "idle", child |-> NoChild, then |-> "leave",
         restart |-> FALSE, early |-> FALSE, try |-> 0, port |-> 0]

LivePids == {p \in Pids : proc[p].state = "alive"}
ExitSignalled(p) == proc[p].watcher \in {"signalled", "cleared"}

At(t, pc) == Alive /\ cmd[t].pc = pc
Goto(t, pc) == cmd' = [cmd EXCEPT ![t].pc = pc]
Leave(t) == lock' = NoThread /\ cmd' = [cmd EXCEPT ![t] = Idle]

SidecarInit ==
    /\ lock = NoThread
    /\ sidecar = [url |-> 0, port |-> 0, child |-> NoChild, shutting |-> FALSE]
    /\ proc = [p \in Pids |-> Unborn]
    /\ cmd = [t \in Threads |-> Idle]
-----------------------------------------------------------------------------
(* Taking the mutex. *)

\* start_once looks at the flag before it queues for the mutex.
AskSidecar(t, kind) ==
    /\ Command(t, "opencode")
    /\ kind = "start" => ~sidecar.shutting
    /\ cmd' = [cmd EXCEPT ![t].kind = kind, ![t].pc = "queued"]
    /\ UNCHANGED <<lock, sidecar, proc, packVars>>

\* kill_child publishes the shutdown before it waits for the mutex.
ExitSidecar ==
    /\ app = "sidecar" /\ ~sidecar.shutting
    /\ sidecar' = [sidecar EXCEPT !.shutting = TRUE]
    /\ cmd' = [cmd EXCEPT ![Main].kind = "stop", ![Main].pc = "queued"]
    /\ UNCHANGED <<process, lock, proc, packVars>>

SidecarStopped ==
    /\ GoesOn("sidecar", "kernels") /\ sidecar.shutting /\ cmd[Main] = Idle
    /\ UNCHANGED <<sidecarVars, packVars>>

\* The thread takes the child out of the shared state, to end it and go on at `then'.
TakeChild(t, then, s, restart) ==
    /\ sidecar' = [s EXCEPT !.child = NoChild]
    /\ cmd' = [cmd EXCEPT ![t].child = s.child, ![t].then = then, ![t].restart = restart,
                          ![t].pc = IF s.child = NoChild THEN then ELSE "kill"]

\* Nothing is started or changed once the shell is shutting down, and a start finds
\* what another start published.
Refused(t) ==
    /\ cmd[t].kind # "stop"
    /\ sidecar.shutting \/ (cmd[t].kind = "start" /\ sidecar.url # 0)

\* Only a sidecar that runs, or may run, is paused and restarted around a change.
Enter(t) ==
    /\ At(t, "queued") /\ lock = NoThread
    /\ UNCHANGED <<process, proc, packVars>>
    /\ \/ /\ Refused(t)
          /\ cmd' = [cmd EXCEPT ![t] = Idle]
          /\ UNCHANGED <<lock, sidecar>>
       \/ /\ ~Refused(t) /\ cmd[t].kind = "start"
          /\ lock' = t
          /\ TakeChild(t, "start", sidecar, FALSE)
       \/ /\ ~Refused(t) /\ cmd[t].kind = "config"
          /\ lock' = t
          /\ TakeChild(t, "change", [sidecar EXCEPT !.url = 0],
                       sidecar.url # 0 \/ sidecar.child # NoChild)
       \/ /\ cmd[t].kind = "stop"
          /\ lock' = t
          /\ TakeChild(t, "leave", [sidecar EXCEPT !.url = 0, !.port = 0], FALSE)
-----------------------------------------------------------------------------
(* Ending a process (terminate_managed). *)

\* An exit that was signalled is enough.  Otherwise the handle, if there still is one, is
\* consumed by the request, which may fail.
ConfirmedMut(t) == cmd[t].child.handle
Confirmed(t) == ExitSignalled(cmd[t].child.pid)

Kill(t) ==
    /\ At(t, "kill")
    /\ UNCHANGED <<lock, sidecar, packVars>>
    /\ \/ /\ Confirmed(t) /\ UNCHANGED <<process, proc>> /\ Goto(t, cmd[t].then)
       \/ /\ ~Confirmed(t)
          /\ cmd' = [cmd EXCEPT ![t].pc = "confirm", ![t].child.handle = FALSE]
          /\ \/ /\ cmd[t].child.handle /\ UNCHANGED process
                /\ proc' = [proc EXCEPT ![cmd[t].child.pid].killed = TRUE]
             \/ /\ Costs(cmd[t].child.handle) /\ UNCHANGED proc

\* A process that was killed exits within SIDECAR_STOP_TIMEOUT, unless something is wrong.
\* An unconfirmed one stays behind as a tombstone, and its command fails.
Confirm(t) ==
    /\ At(t, "confirm")
    /\ UNCHANGED <<proc, packVars>>
    /\ \/ /\ ExitSignalled(cmd[t].child.pid) /\ UNCHANGED <<process, lock, sidecar>>
          /\ Goto(t, cmd[t].then)
       \/ /\ ~ExitSignalled(cmd[t].child.pid)
          /\ Costs(proc[cmd[t].child.pid].killed)
          /\ sidecar' = [sidecar EXCEPT !.child = cmd[t].child,
                            !.port = IF cmd[t].then \in {"change", "again"} THEN 0 ELSE @]
          /\ Leave(t)
-----------------------------------------------------------------------------
(* The change of the configuration, and the start of a process. *)

\* The file is replaced or the change fails; either way a paused sidecar is restored.
Change(t) ==
    /\ At(t, "change") /\ UNCHANGED <<process, proc, packVars>>
    /\ IF cmd[t].restart
          THEN /\ cmd' = [cmd EXCEPT ![t].pc = "start", ![t].child = NoChild]
               /\ UNCHANGED <<lock, sidecar>>
          ELSE Leave(t) /\ UNCHANGED sidecar

\* restart_sidecar_locked refuses during the shutdown; a start passed that check in Enter.
\* The first attempt prefers the port that is known.
Start(t) ==
    /\ At(t, "start") /\ UNCHANGED <<process, proc, packVars>>
    /\ \/ /\ cmd[t].restart /\ sidecar.shutting
          /\ \E port \in {0, sidecar.port} : sidecar' = [sidecar EXCEPT !.port = port]
          /\ Leave(t)
       \/ /\ cmd[t].restart => ~sidecar.shutting
          /\ cmd' = [cmd EXCEPT ![t].pc = "attempt", ![t].child = NoChild,
                                ![t].port = sidecar.port, ![t].try = 1]
          /\ UNCHANGED <<lock, sidecar>>

Attempt(t) ==
    /\ At(t, "attempt") /\ pack.step = "idle"
    /\ Goto(t, "deploy")
    /\ pack' = [pack EXCEPT !.step = "recover"]
    /\ UNCHANGED <<process, lock, sidecar, proc, bare>>

\* The skills are deployed and the profile is seeded under the config mutex; then the
\* process is spawned, on the preferred port or on one that is free.
Spawn(t) ==
    /\ At(t, "deploy") /\ pack.step \in {"deployed", "failed"}
    /\ Deploys([pack EXCEPT !.step = "idle"])
    /\ \/ /\ pack.step = "failed" /\ UNCHANGED <<process, proc>>
          /\ sidecar' = [sidecar EXCEPT !.port = 0]
          /\ Leave(t)
       \/ /\ pack.step = "deployed" /\ UNCHANGED <<process, lock, sidecar>>
          /\ \E p \in Pids :
                /\ proc[p] = Unborn /\ \A q \in Pids : q < p => proc[q] # Unborn
                /\ proc' = [proc EXCEPT ![p].state = "alive",
                               ![p].port = IF cmd[t].port # 0 THEN cmd[t].port ELSE p]
                /\ cmd' = [cmd EXCEPT ![t].pc = "probe",
                              ![t].child = [pid |-> p, handle |-> TRUE]]

\* Publishing attaches the watcher; an unpublished process that has to go is published
\* and taken at once, so that an unconfirmed end is remembered like any other.
Discard(t, then, early) ==
    /\ proc' = [proc EXCEPT ![cmd[t].child.pid].watcher = "watching"]
    /\ cmd' = [cmd EXCEPT ![t].pc = "kill", ![t].then = then, ![t].early = early]

\* wait_until_ready: two authenticated answers, or the shutdown, an exit, the deadline.
Probe(t) ==
    /\ At(t, "probe") /\ UNCHANGED <<lock, sidecar, packVars>>
    /\ \/ /\ proc[cmd[t].child.pid].state = "alive" /\ UNCHANGED <<process, proc>>
          /\ Goto(t, "publish")
       \/ sidecar.shutting /\ UNCHANGED process /\ Discard(t, "again", FALSE)
       \/ /\ proc[cmd[t].child.pid].state = "exited" /\ UNCHANGED process
          /\ Discard(t, "again", TRUE)
       \/ Fault /\ Discard(t, "again", FALSE)

\* Only a process that exited while it was probed is tried again, on a new port.
Again(t) ==
    /\ At(t, "again") /\ UNCHANGED <<process, proc, packVars>>
    /\ IF cmd[t].early /\ ~sidecar.shutting /\ cmd[t].try < MaxTries
          THEN /\ cmd' = [cmd EXCEPT ![t].pc = "attempt", ![t].child = NoChild,
                                     ![t].port = 0, ![t].try = @ + 1, ![t].early = FALSE]
               /\ UNCHANGED <<lock, sidecar>>
          ELSE sidecar' = [sidecar EXCEPT !.port = 0] /\ Leave(t)

Publishable(t) == ~sidecar.shutting

Publish(t) ==
    /\ At(t, "publish") /\ UNCHANGED <<process, packVars>>
    /\ \/ /\ ~Publishable(t) /\ UNCHANGED lock
          /\ sidecar' = [sidecar EXCEPT !.port = 0]
          /\ Discard(t, "leave", FALSE)
       \/ /\ Publishable(t)
          /\ proc' = [proc EXCEPT ![cmd[t].child.pid].watcher = "watching"]
          /\ LET port == proc[cmd[t].child.pid].port
             IN  sidecar' = [sidecar EXCEPT !.url = port, !.port = port,
                                            !.child = cmd[t].child]
          /\ Leave(t)

\* The command is over.
Finish(t) ==
    /\ At(t, "leave") /\ Leave(t)
    /\ UNCHANGED <<process, sidecar, proc, packVars>>
-----------------------------------------------------------------------------
(* The processes and their watchers. *)

Exits(p) ==
    /\ Alive /\ proc[p].state = "alive"
    /\ Costs(~proc[p].killed)
    /\ proc' = [proc EXCEPT ![p].state = "exited"]
    /\ UNCHANGED <<lock, sidecar, cmd, packVars>>

\* The exit is signalled before the mutex is asked for: its holder may be waiting for it.
WatcherSignals(p) ==
    /\ Alive /\ proc[p].state = "exited" /\ proc[p].watcher = "watching"
    /\ proc' = [proc EXCEPT ![p].watcher = "signalled"]
    /\ UNCHANGED <<process, lock, sidecar, cmd, packVars>>

SameProcessMut(p) == sidecar.child.pid # NoPid
SameProcess(p) == sidecar.child.pid = p

WatcherClears(p) ==
    /\ Alive /\ proc[p].watcher = "signalled" /\ lock = NoThread
    /\ proc' = [proc EXCEPT ![p].watcher = "cleared"]
    /\ sidecar' = IF SameProcess(p)
                     THEN [sidecar EXCEPT !.child = NoChild, !.url = 0, !.port = 0]
                     ELSE sidecar
    /\ UNCHANGED <<process, lock, cmd, packVars>>

SidecarThread(t) ==
    \/ Enter(t) \/ Kill(t) \/ Confirm(t) \/ Change(t) \/ Start(t) \/ Attempt(t)
    \/ Spawn(t) \/ Probe(t) \/ Again(t) \/ Publish(t) \/ Finish(t)

SidecarGoesOn ==
    \/ \E t \in Threads : SidecarThread(t)
    \/ Alive /\ PackStep /\ UNCHANGED sidecarVars
    \/ \E p \in Pids : WatcherSignals(p) \/ WatcherClears(p)
    \/ \E p \in Pids : proc[p].killed /\ Exits(p)

SidecarStep ==
    \/ \E t \in Commands, kind \in {"start", "config", "stop"} : AskSidecar(t, kind)
    \/ ExitSidecar \/ SidecarStopped
    \/ SidecarGoesOn
    \/ \E p \in Pids : Exits(p)
    \/ Damage /\ UNCHANGED sidecarVars

\* What a new process begins with; an OpenCode that outlived the last one is not followed.
SidecarRelaunch ==
    /\ lock' = NoThread
    /\ sidecar' = [url |-> 0, port |-> 0, child |-> NoChild, shutting |-> FALSE]
    /\ proc' = [p \in Pids |-> Unborn]
    /\ cmd' = [t \in Threads |-> Idle]
    /\ pack' = [pack EXCEPT !.step = "idle"] /\ UNCHANGED bare
-----------------------------------------------------------------------------
SidecarTypeOK ==
    /\ lock \in 0 .. NoThread
    /\ {sidecar.url, sidecar.port} \subseteq 0 .. MaxSpawns
    /\ sidecar.child \in [pid : 0 .. MaxSpawns, handle : BOOLEAN]
    /\ proc \in [Pids -> [state : {"unborn", "alive", "exited"}, killed : BOOLEAN,
                          watcher : {"none", "watching", "signalled", "cleared"},
                          port : 0 .. MaxSpawns]]
    /\ \A t \in Threads : cmd[t].pc \notin {"idle", "queued"} => lock = t

\* Two OpenCode processes on one profile deadlock its database.  However starts, changes
\* and stops of several threads meet exits, failed kills and late watchers, at most one is
\* alive, and none while the configuration is replaced under it; and a URL that is visible
\* names the process the shell owns and can stop: a tombstone has none, and no command is
\* ending it.
SidecarIsKnown ==
    /\ SidecarTypeOK
    /\ Cardinality(LivePids) <= 1
    /\ \A t \in Threads : cmd[t].pc = "change" => LivePids = {}
    /\ sidecar.url # 0 =>
          /\ sidecar.child.handle /\ proc[sidecar.child.pid].port = sidecar.url
          /\ \A t \in Threads : cmd[t].child.pid # sidecar.child.pid
=============================================================================

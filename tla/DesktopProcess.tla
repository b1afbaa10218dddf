---------------------------- MODULE DesktopProcess ----------------------------
(***************************************************************************)
(* The process of the desktop shell (apps/desktop/src-tauri): it is        *)
(* launched, takes commands of the interface on a pool of threads and on   *)
(* its main thread, and ends in the order of lib.rs:130-147 or is killed.  *)
(* The programs it manages (the OpenCode sidecar, notebook kernels,        *)
(* jupyter-lab, the Science Core container) have modules of their own,     *)
(* which share these variables.                                            *)
(*                                                                         *)
(* A thread that serves a command has the number of that command; the      *)
(* main thread is 0.                                                       *)
(***************************************************************************)
EXTENDS Naturals

CONSTANTS MaxLaunches, \* bounds how often the application is opened
          MaxCommands, \* bounds what the user asks of it
          MaxFaults,   \* bounds what goes wrong
          LaunchesOf,  \* the bounds where the commands are about one part
          CommandsOf,
          FaultsOf

Parts == {"opencode", "kernels", "lab", "core"}

ASSUME DesktopAssumption ==
    /\ MaxLaunches \in Nat \ {0} /\ MaxCommands \in Nat /\ MaxFaults \in Nat
    /\ LaunchesOf \in [Parts -> 1 .. MaxLaunches]
    /\ CommandsOf \in [Parts -> 0 .. MaxCommands] /\ FaultsOf \in [Parts -> 0 .. MaxFaults]

VARIABLES
    app,    \* "setup", "running", what the main thread is stopping at exit, "gone" or "killed"
    launch, \* the number of this launch
    asked,  \* commands so far
    faults, \* faults so far
    used    \* the part the commands of this behaviour are about, which bounds their mix

process == <<app, launch, asked, faults, used>>

Phases == {"setup", "running", "sidecar", "kernels", "lab", "core", "waiting", "cleanup", "gone",
           "killed"}

Main == 0
Commands == 1 .. MaxCommands
Threads == {Main} \cup Commands
NoThread == MaxCommands + 1

Alive == app \notin {"gone", "killed"}
Running == app = "running"

\* A command of the interface: asynchronous ones run on the pool, also while the main
\* thread is stopping things.
Command(thread, part) ==
    /\ Alive /\ app # "setup" /\ used = part /\ asked < CommandsOf[part]
    /\ thread = asked + 1 /\ asked' = thread
    /\ UNCHANGED <<app, launch, faults, used>>

\* A synchronous command runs on the main thread, which may leave work to a thread.
MainCommand(thread, part) == Running /\ Command(thread, part)

\* Something outside fails, dies or takes too long.
Fault == faults < FaultsOf[used] /\ faults' = faults + 1 /\ UNCHANGED <<app, launch, asked, used>>

\* The step that just happens, and the step that costs a fault.
Costs(isFault) == IF isFault THEN Fault ELSE UNCHANGED process

GoesOn(from, to) == app = from /\ app' = to /\ UNCHANGED <<launch, asked, faults, used>>

ProcessTypeOK ==
    /\ app \in Phases /\ launch \in 1 .. MaxLaunches
    /\ asked \in 0 .. MaxCommands /\ faults \in 0 .. MaxFaults /\ used \in Parts
=============================================================================

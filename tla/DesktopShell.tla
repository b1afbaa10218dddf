----------------------------- MODULE DesktopShell -----------------------------
(***************************************************************************)
(* The desktop shell with the programs it manages: what the commands of    *)
(* the interface do side by side, the order of the exit (lib.rs:130-147),  *)
(* the death of the shell between any two steps, and its next launch.      *)
(***************************************************************************)
EXTENDS OpenCodeSidecar, NotebookKernels, JupyterLab, ScienceCoreLifecycle

opencodeVars == <<sidecarVars, packVars>>
vars == <<process, opencodeVars, kernelVars, labVars, coreVars>>

Init ==
    /\ app = "setup" /\ launch = 1 /\ asked = 0 /\ faults = 0 /\ used \in Parts
    /\ PackInit /\ SidecarInit /\ KernelsInit /\ LabInit /\ CoreInit

\* The window is closed: the main thread serves no more commands.
BeginExit == GoesOn("running", "sidecar") /\ UNCHANGED <<opencodeVars, kernelVars, labVars, coreVars>>

\* The shell is killed.
Crash ==
    /\ Alive /\ faults < FaultsOf[used]
    /\ app' = "killed" /\ faults' = faults + 1
    /\ UNCHANGED <<launch, asked, used, opencodeVars, kernelVars, labVars, coreVars>>

Relaunch ==
    /\ ~Alive /\ launch < LaunchesOf[used]
    /\ app' = "setup" /\ launch' = launch + 1
    /\ UNCHANGED <<asked, faults, used>>
    /\ SidecarRelaunch /\ KernelsRelaunch /\ LabRelaunch /\ CoreRelaunch

Next ==
    \/ SidecarStep /\ UNCHANGED <<kernelVars, labVars, coreVars>>
    \/ KernelsStep /\ UNCHANGED <<opencodeVars, labVars, coreVars>>
    \/ LabStep /\ UNCHANGED <<opencodeVars, kernelVars, coreVars>>
    \/ CoreStep /\ UNCHANGED <<opencodeVars, kernelVars, labVars>>
    \/ BeginExit \/ Crash \/ Relaunch

\* Threads that are not blocked go on, and what was killed exits.  Nothing makes a cell end,
\* the user ask for something, or the shell exit.
Fairness ==
    /\ WF_vars(SidecarGoesOn /\ UNCHANGED <<kernelVars, labVars, coreVars>>)
    /\ WF_vars(KernelsGoOn /\ UNCHANGED <<opencodeVars, labVars, coreVars>>)
    /\ WF_vars(LabGoesOn /\ UNCHANGED <<opencodeVars, kernelVars, coreVars>>)
    /\ WF_vars(CoreGoesOn /\ UNCHANGED <<opencodeVars, kernelVars, labVars>>)
    /\ WF_vars((ExitSidecar \/ SidecarStopped) /\ UNCHANGED <<kernelVars, labVars, coreVars>>)
    /\ WF_vars((ExitKernels \/ KernelsKilled) /\ UNCHANGED <<opencodeVars, labVars, coreVars>>)
    /\ WF_vars(ExitLab /\ UNCHANGED <<opencodeVars, kernelVars, coreVars>>)
    /\ WF_vars((Bootstrap \/ ExitCore \/ ExitWaited \/ ExitCleaned)
               /\ UNCHANGED <<opencodeVars, kernelVars, labVars>>)

Spec == Init /\ [][Next]_vars /\ Fairness
-----------------------------------------------------------------------------
\* However the commands, the watchers, the exit and the faults overlap: at most one OpenCode
\* runs, none while its configuration is replaced, and the visible URL names the one the shell
\* can stop; the kernels and the jupyter-lab that run are those the shell can still find; and
\* a container that was brought up is known until it is down.
ProcessesAreKnown == SidecarIsKnown /\ KernelsAreKnown /\ LabIsKnown /\ CoreIsKnown

\* When the shell has exited in its order, nothing it started is left running, whatever was
\* under way when the window was closed, except: an OpenCode whose end nobody confirmed,
\* remembered as such; a container whose cleanup failed or is being repeated; a jupyter-lab
\* that was being started while the exit killed the one before it; a container that a retry
\* brought up after the exit had begun.  (Kernels end with their pipe.)
ExitLeavesNothing ==
    /\ ProcessTypeOK
    /\ app = "gone" =>
          /\ \A p \in LivePids :
                [pid |-> p, handle |-> FALSE] \in {sidecar.child} \cup {cmd[t].child : t \in Threads}
          /\ \A s \in Servers :
                server[s].launch = launch => server[s].late \/ labJob[s].pc = "record"
          /\ container \in Starts =>
                \/ core.status = "failed" \/ \E t \in Commands : cleaner[t] # NoWork
                \/ start[container].late

\* Nobody works on anything: every command was answered, but for cells that run on.
Settled ==
    /\ \A t \in Threads : cmd[t] = Idle /\ cleaner[t] = NoWork /\ labJob[t] = NoJob
    /\ core.status \notin {"starting", "stopping"}
    /\ \A t \in Threads :
          \/ cell[t] = NoCell
          \/ cell[t].pc = "run" /\ kernel[cell[t].kernel].state = "alive"
          \/ cell[t].pc = "wait" /\ kernel[cell[t].kernel].io # NoThread

\* Commands are answered and the exit ends: starts, changes, stops and resets always come to
\* an end, also behind a cell that runs for ever, a process that will not die, and a start
\* that has to be cancelled.
DesktopSettles == []<>(~Alive \/ (Running /\ Settled))
=============================================================================

------------------------------- MODULE JupyterLab -------------------------------
(***************************************************************************)
(* The managed jupyter-lab of the desktop shell (jupyter.rs).  It keeps    *)
(* the root directory it was started with, so a switch of the workspace    *)
(* (runtime.rs set_workspace) restarts it in the background.  Start and    *)
(* restart hold the lifecycle lock; the kill at exit does not.             *)
(*                                                                         *)
(* A jupyter-lab has the number of the command that started it, and so has *)
(* the workspace a command made active.                                    *)
(***************************************************************************)
EXTENDS DesktopProcess, FiniteSets

VARIABLES
    lab,       \* JupyterState: the lifecycle lock, child and running
    server,    \* each jupyter-lab: unborn, alive or dead, its root, its launch,
               \* and whether it was recorded after the kill at exit
    workspace, \* the active workspace
    labJob     \* what each thread is doing, and the workspace it read

labVars == <<lab, server, workspace, labJob>>

NoLab == 0
NoJob == [pc |-> "none", root |-> 0]
Servers == {s \in Commands : server[s].state = "alive"}

LabAt(t, pc) == Alive /\ labJob[t].pc = pc
LabGoes(t, pc) == labJob' = [labJob EXCEPT ![t].pc = pc]
LabDone(t) == labJob' = [labJob EXCEPT ![t] = NoJob]

LabInit ==
    /\ lab = [lock |-> NoThread, child |-> NoLab, running |-> FALSE]
    /\ server = [s \in Commands |-> [state |-> "unborn", root |-> 0, launch |-> 1,
                                 late |-> FALSE]]
    /\ workspace = 0
    /\ labJob = [t \in Threads |-> NoJob]

Killed(servers) ==
    [s \in Commands |-> IF s \in servers THEN [server[s] EXCEPT !.state = "dead"] ELSE server[s]]

\* start_jupyter
AskLab(t) == Command(t, "lab") /\ LabGoes(t, "start") /\ UNCHANGED <<lab, server, workspace>>

\* set_workspace
AskWorkspace(t) ==
    /\ Command(t, "lab") /\ workspace' = t /\ LabGoes(t, "reroot")
    /\ UNCHANGED <<lab, server>>

LabFreeMut == TRUE
LabFree == lab.lock = NoThread

BeginStart(t) ==
    /\ LabAt(t, "start") /\ LabFree /\ UNCHANGED <<process, server, workspace>>
    /\ IF lab.running THEN LabDone(t) /\ UNCHANGED lab
       ELSE lab' = [lab EXCEPT !.lock = t] /\ LabGoes(t, "look")

\* kill_jupyter
KillLab(lock) ==
    /\ server' = Killed({lab.child} \ {NoLab})
    /\ lab' = [lab EXCEPT !.lock = lock, !.child = NoLab, !.running = FALSE]

BeginReroot(t) ==
    /\ LabAt(t, "reroot") /\ LabFree /\ UNCHANGED <<process, workspace>>
    /\ IF ~lab.running THEN LabDone(t) /\ UNCHANGED <<lab, server>>
       ELSE KillLab(t) /\ LabGoes(t, "look")

ExitLab ==
    /\ GoesOn("lab", "core") /\ KillLab(lab.lock)
    /\ UNCHANGED <<workspace, labJob>>

\* spawn_lab, which fails when jupyter-lab is not there.
Look(t) ==
    /\ LabAt(t, "look") /\ UNCHANGED <<server, workspace>>
    /\ \/ /\ UNCHANGED <<process, lab>>
          /\ labJob' = [labJob EXCEPT ![t] = [pc |-> "orphans", root |-> workspace]]
       \/ Fault /\ LabDone(t) /\ lab' = [lab EXCEPT !.lock = NoThread]

OrphansMut == {}
Orphans == Servers

KillOrphans(t) ==
    /\ LabAt(t, "orphans") /\ LabGoes(t, "spawn")
    /\ server' = Killed(Orphans)
    /\ UNCHANGED <<process, lab, workspace>>

SpawnLab(t) ==
    /\ LabAt(t, "spawn") /\ UNCHANGED workspace
    /\ \/ /\ UNCHANGED <<process, lab>> /\ LabGoes(t, "record")
          /\ server' = [server EXCEPT ![t] = [state |-> "alive", root |-> labJob[t].root,
                                              launch |-> launch, late |-> FALSE]]
       \/ /\ Fault /\ UNCHANGED server
          /\ LabDone(t) /\ lab' = [lab EXCEPT !.lock = NoThread]

RecordLab(t) ==
    /\ LabAt(t, "record") /\ LabDone(t)
    /\ lab' = [lock |-> NoThread, child |-> t, running |-> TRUE]
    /\ server' = [server EXCEPT ![t].late = app \in {"core", "waiting", "cleanup"}]
    /\ UNCHANGED <<process, workspace>>

\* Nobody notices: `running' stays.
LabDies(s) ==
    /\ Alive /\ s \in Servers /\ Fault
    /\ server' = Killed({s})
    /\ UNCHANGED <<lab, workspace, labJob>>

LabGoesOn ==
    \E t \in Commands : BeginStart(t) \/ BeginReroot(t) \/ Look(t) \/ KillOrphans(t)
                        \/ SpawnLab(t) \/ RecordLab(t)

LabStep ==
    \/ \E t \in Commands : AskLab(t) \/ AskWorkspace(t)
    \/ ExitLab \/ LabGoesOn
    \/ \E s \in Commands : LabDies(s)

\* A jupyter-lab outlives the shell that was killed.
LabRelaunch ==
    /\ lab' = [lock |-> NoThread, child |-> NoLab, running |-> FALSE]
    /\ labJob' = [t \in Threads |-> NoJob]
    /\ UNCHANGED <<server, workspace>>
-----------------------------------------------------------------------------
LabTypeOK ==
    /\ lab.lock \in 0 .. NoThread /\ lab.child \in 0 .. MaxCommands /\ lab.running \in BOOLEAN
    /\ \A t \in Commands : labJob[t].pc \in {"look", "orphans", "spawn", "record"} => lab.lock = t

\* However starts and switches of the workspace overlap, and whatever an earlier launch left
\* behind, there is one jupyter-lab on the fixed port; the shell holds the handle of its own;
\* and once nothing is pending a running one serves the active workspace.
LabIsKnown ==
    /\ LabTypeOK
    /\ Cardinality(Servers) <= 1
    /\ Alive => \A s \in Servers :
          server[s].launch = launch => lab.child = s \/ labJob[s].pc = "record"
    /\ (lab.running /\ Running /\ \A t \in Commands : labJob[t] = NoJob) =>
          server[lab.child].root = workspace
=============================================================================

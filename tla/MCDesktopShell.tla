---------------------------- MODULE MCDesktopShell ----------------------------
EXTENDS DesktopShell

MCLaunchesOf == [opencode |-> 2, kernels |-> 1, lab |-> 2, core |-> 2]
MCCommandsOf == [opencode |-> 2, kernels |-> 3, lab |-> 2, core |-> 2]
MCFaultsOf == [part \in Parts |-> 1]
=============================================================================

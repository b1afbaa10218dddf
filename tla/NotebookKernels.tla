---------------------------- MODULE NotebookKernels ----------------------------
(***************************************************************************)
(* The notebook kernels of the desktop shell (kernel.rs).  A cell gets or  *)
(* spawns the kernel of its notebook under the lock of the map, and keeps  *)
(* that kernel's io lock while it runs, for ever if the cell never ends.   *)
(* A reset takes the kernel out of the map and kills it without that lock. *)
(*                                                                         *)
(* A kernel has the number of the command whose cell spawned it.           *)
(***************************************************************************)
EXTENDS DesktopProcess

CONSTANT Notebooks

VARIABLES
    kernels, \* KernelState: the kernel of each notebook
    kernel,  \* each kernel: unborn, alive or dead, and who holds its io lock
    cell     \* what each thread is doing: a cell, a reset, or the kill at exit

kernelVars == <<kernels, kernel, cell>>

NoKernel == 0
NoCell == [pc |-> "none", notebook |-> {}, kernel |-> NoKernel, victims |-> {}]

CellAt(t, pc) == Alive /\ cell[t].pc = pc
CellGoes(t, pc) == cell' = [cell EXCEPT ![t].pc = pc]

KernelsInit ==
    /\ kernels = [b \in Notebooks |-> NoKernel]
    /\ kernel = [k \in Commands |-> [state |-> "unborn", io |-> NoThread]]
    /\ cell = [t \in Threads |-> NoCell]

KernelOf(t) == LET b == CHOOSE b \in cell[t].notebook : TRUE IN kernels[b]

\* kernel_execute, and kernel_reset of one notebook or of all of them.
AskCell(t, b) ==
    /\ Command(t, "kernels")
    /\ cell' = [cell EXCEPT ![t].pc = "lookup", ![t].notebook = {b}]
    /\ UNCHANGED <<kernels, kernel>>

AskReset(t, books) ==
    /\ Command(t, "kernels")
    /\ cell' = [cell EXCEPT ![t].pc = "remove", ![t].notebook = books]
    /\ UNCHANGED <<kernels, kernel>>

\* kill_kernel
ExitKernels ==
    /\ app = "kernels" /\ cell[Main] = NoCell
    /\ cell' = [cell EXCEPT ![Main].pc = "remove", ![Main].notebook = Notebooks]
    /\ UNCHANGED <<process, kernels, kernel>>

KernelsKilled ==
    /\ GoesOn("kernels", "lab") /\ cell[Main].pc = "removed"
    /\ cell' = [cell EXCEPT ![Main] = NoCell]
    /\ UNCHANGED <<kernels, kernel>>
-----------------------------------------------------------------------------
(* A cell (exec_in). *)

\* The kernel is spawned under the lock of the map.
LookUp(t) ==
    /\ CellAt(t, "lookup")
    /\ \/ /\ KernelOf(t) # NoKernel /\ UNCHANGED <<process, kernels, kernel>>
          /\ cell' = [cell EXCEPT ![t].pc = "wait", ![t].kernel = KernelOf(t)]
       \/ /\ KernelOf(t) = NoKernel /\ UNCHANGED process
          /\ \E b \in cell[t].notebook : kernels' = [kernels EXCEPT ![b] = t]
          /\ kernel' = [kernel EXCEPT ![t].state = "alive"]
          /\ cell' = [cell EXCEPT ![t].pc = "wait", ![t].kernel = t]
       \/ /\ KernelOf(t) = NoKernel /\ Fault
          /\ cell' = [cell EXCEPT ![t] = NoCell]
          /\ UNCHANGED <<kernels, kernel>>

TakeIo(t) ==
    /\ CellAt(t, "wait") /\ kernel[cell[t].kernel].io = NoThread
    /\ kernel' = [kernel EXCEPT ![cell[t].kernel].io = t]
    /\ CellGoes(t, "run")
    /\ UNCHANGED <<process, kernels>>

\* The cell ends, in its own time if ever.
CellEnds(t) ==
    /\ CellAt(t, "run") /\ kernel[cell[t].kernel].state = "alive"
    /\ kernel' = [kernel EXCEPT ![cell[t].kernel].io = NoThread]
    /\ cell' = [cell EXCEPT ![t] = NoCell]
    /\ UNCHANGED <<process, kernels>>

\* Its kernel died: the end of the stream fails the cell.  It may also fail otherwise.
CellFails(t) ==
    /\ CellAt(t, "run")
    /\ Costs(kernel[cell[t].kernel].state = "alive")
    /\ kernel' = [kernel EXCEPT ![cell[t].kernel].state = "dead"]
    /\ CellGoes(t, "drop")
    /\ UNCHANGED kernels

\* Only this kernel's own entry is dropped: a reset may have removed or replaced it.
OwnEntryMut(t, b) == b \in cell[t].notebook
OwnEntry(t, b) == kernels[b] = cell[t].kernel

Drop(t) ==
    /\ CellAt(t, "drop") /\ UNCHANGED process
    /\ kernels' = [b \in Notebooks |-> IF OwnEntry(t, b) THEN NoKernel ELSE kernels[b]]
    /\ kernel' = [kernel EXCEPT ![cell[t].kernel].io = NoThread]
    /\ cell' = [cell EXCEPT ![t] = NoCell]
-----------------------------------------------------------------------------
(* A reset (remove_kernels, reap). *)

Remove(t) ==
    /\ CellAt(t, "remove") /\ UNCHANGED <<process, kernel>>
    /\ cell' = [cell EXCEPT ![t].pc = "reap",
                            ![t].victims = {kernels[b] : b \in cell[t].notebook} \ {NoKernel}]
    /\ kernels' = [b \in Notebooks |-> IF b \in cell[t].notebook THEN NoKernel ELSE kernels[b]]

\* The child's lock is not the lock a running cell holds.
ReapableMut(k) == kernel[k].io = NoThread
Reapable(k) == TRUE

Reap(t) ==
    /\ CellAt(t, "reap") /\ UNCHANGED <<process, kernels>>
    /\ \/ \E k \in cell[t].victims :
             /\ Reapable(k)
             /\ kernel' = [kernel EXCEPT ![k].state = "dead"]
             /\ cell' = [cell EXCEPT ![t].victims = @ \ {k}]
       \/ /\ cell[t].victims = {} /\ UNCHANGED kernel
          /\ cell' = [cell EXCEPT ![t] = IF t = Main THEN [NoCell EXCEPT !.pc = "removed"]
                                                     ELSE NoCell]

KernelDies(k) ==
    /\ Alive /\ kernel[k].state = "alive" /\ Fault
    /\ kernel' = [kernel EXCEPT ![k].state = "dead"]
    /\ UNCHANGED <<kernels, cell>>

\* A cell that runs for ever is not forced to end.
KernelsGoOn ==
    \E t \in Threads :
        \/ LookUp(t) \/ TakeIo(t) \/ Drop(t) \/ Remove(t) \/ Reap(t)
        \/ CellAt(t, "run") /\ kernel[cell[t].kernel].state = "dead" /\ CellFails(t)

KernelsStep ==
    \/ \E t \in Commands, b \in Notebooks : AskCell(t, b)
    \/ \E t \in Commands, books \in {{b} : b \in Notebooks} \cup {Notebooks} : AskReset(t, books)
    \/ ExitKernels \/ KernelsKilled
    \/ \E t \in Threads : LookUp(t) \/ TakeIo(t) \/ CellEnds(t) \/ CellFails(t) \/ Drop(t)
                          \/ Remove(t) \/ Reap(t)
    \/ \E k \in Commands : KernelDies(k)

\* Kernels end with the process whose pipe they read.
KernelsRelaunch ==
    /\ kernels' = [b \in Notebooks |-> NoKernel]
    /\ kernel' = [k \in Commands |-> [state |-> IF kernel[k].state = "unborn" THEN "unborn"
                                                ELSE "dead", io |-> NoThread]]
    /\ cell' = [t \in Threads |-> NoCell]
-----------------------------------------------------------------------------
KernelsTypeOK ==
    /\ kernels \in [Notebooks -> Commands \cup {NoKernel}]
    /\ kernel \in [Commands -> [state : {"unborn", "alive", "dead"}, io : 0 .. NoThread]]
    /\ \A t \in Threads :
          /\ cell[t].pc \in {"none", "lookup", "wait", "run", "drop", "remove", "reap", "removed"}
          /\ cell[t].notebook \subseteq Notebooks /\ cell[t].victims \subseteq Commands
          /\ cell[t].pc \in {"run", "drop"} => kernel[cell[t].kernel].io = t

\* However cells, resets and crashes of kernels overlap, a kernel that is alive is the one
\* its notebook's cells and resets find, or a reset is about to kill it: none is lost, and no
\* notebook has two.
KernelsAreKnown ==
    /\ KernelsTypeOK
    /\ Alive => \A k \in Commands :
          kernel[k].state = "alive" =>
              \/ \E b \in Notebooks : kernels[b] = k
              \/ \E t \in Threads : k \in cell[t].victims
=============================================================================

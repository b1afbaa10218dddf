------------------------- MODULE DesktopShellProofs -------------------------
(***************************************************************************)
(* What the desktop shell says of the programs it manages is so, for any   *)
(* number of launches, commands, faults, processes, notebooks and starts:  *)
(* the bundled skill is kept (SkillIsKept), every program that runs is     *)
(* known (ProcessesAreKnown), and an exit in order leaves nothing behind   *)
(* but what it names (ExitLeavesNothing).                                  *)
(*                                                                         *)
(* The programs meet only in the process of the shell: its phase, the      *)
(* number of the next command and the launch.  So each has an invariant of *)
(* its own, kept by its own steps, by a relaunch, and by whatever the      *)
(* others do to the process (Moves).                                       *)
(*                                                                         *)
(* OpenCode.  Only the holder of the mutex has a process in its hands; who *)
(* has none finds none alive but the one in `child' (Owned).  Once the     *)
(* main thread has been through, nothing is alive but what a record        *)
(* without a handle remembers (Stopped).                                   *)
(*                                                                         *)
(* Kernels.  A thread makes a kernel at most once, so a kernel that is not *)
(* unborn stays out of the map for good when it has left it.               *)
(*                                                                         *)
(* JupyterLab.  Nothing is alive when the holder of the lock is about to   *)
(* spawn; whoever made the root that is served stale is still to come.     *)
(*                                                                         *)
(* Science Core.  A start under way is the current one, and nobody else    *)
(* stops under its number; so a container that runs is the active one, and *)
(* who has brought it down under the current number has no start behind    *)
(* him.  Before the exit a stop is alone, which keeps the files and the    *)
(* bridge of what is called ready.                                         *)
(***************************************************************************)
EXTENDS DesktopShell, FiniteSetTheorems, TLAPS
-----------------------------------------------------------------------------
(* The process *)

BeforeExit == {"setup", "running"}
AfterSidecar == {"kernels", "lab", "core", "waiting", "cleanup", "gone"}
AfterLab == {"core", "waiting", "cleanup", "gone"}

\* What a step of anybody does to the process, but for a relaunch.
Moves ==
    /\ ProcessTypeOK' /\ UNCHANGED <<launch, used>> /\ asked <= asked'
    /\ app' \in BeforeExit => app \in BeforeExit

\* The same, where neither the phase nor the number of the commands changes.
Still == Moves /\ app' = app /\ asked' = asked

LEMMA Bounds ==
  ASSUME ProcessTypeOK
  PROVE  /\ asked \in Nat /\ faults \in Nat /\ launch \in Nat /\ MaxCommands \in Nat
         /\ CommandsOf[used] \in 0 .. MaxCommands /\ FaultsOf[used] \in 0 .. MaxFaults
         /\ LaunchesOf[used] \in 1 .. MaxLaunches
         /\ \A part \in Parts : CommandsOf[part] \in 0 .. MaxCommands
         /\ NoThread \notin Threads /\ Threads \subseteq Nat /\ Main \in Threads
         /\ Commands \subseteq Threads /\ Threads = 0 .. MaxCommands /\ NoThread \in Nat
  BY DesktopAssumption DEF ProcessTypeOK, NoThread, Threads, Commands, Main

LEMMA NothingMoves == ASSUME ProcessTypeOK, UNCHANGED process PROVE Still
  BY DEF ProcessTypeOK, process, Still, Moves

LEMMA FaultMoves == ASSUME ProcessTypeOK, Fault PROVE Still
<1>1. faults + 1 \in 0 .. MaxFaults
  BY Bounds, DesktopAssumption DEF Fault
<1> QED BY <1>1, Bounds DEF ProcessTypeOK, Fault, Still, Moves

LEMMA CostMoves == ASSUME ProcessTypeOK, NEW b, Costs(b) PROVE Still
  BY NothingMoves, FaultMoves DEF Costs

LEMMA CommandMoves ==
  ASSUME ProcessTypeOK, NEW t, NEW part \in Parts, Command(t, part)
  PROVE  Moves /\ app' = app /\ t = asked + 1 /\ asked' = t /\ t \in Commands /\ Alive
<1>1. asked + 1 \in 1 .. MaxCommands
  BY Bounds, DesktopAssumption DEF Command
<1> QED BY <1>1, Bounds DEF Command, ProcessTypeOK, Moves, Commands

LEMMA PhaseMoves ==
  ASSUME ProcessTypeOK, NEW from, NEW to \in Phases, GoesOn(from, to), to \in BeforeExit => from \in BeforeExit
  PROVE  Moves /\ app = from /\ app' = to /\ asked' = asked
  BY Bounds DEF GoesOn, ProcessTypeOK, Moves
-----------------------------------------------------------------------------
(* The bundled skill *)

Backups == {<<>>} \cup {<<c>> : c \in Versions}
Packs == [step : Steps, target : Contents, backups : Backups, staging : Contents, had : BOOLEAN]

\* How far the deployment is: only a complete copy is ever set aside.
DeployedSoFar ==
    /\ pack.step \in {"copying", "aside", "deployed"} => pack.backups = <<>>
    /\ pack.step \in {"copying", "aside"} => pack.target = NoCopy \/ Complete(pack.target)
    /\ pack.step \in {"aside", "promote"} => pack.staging = launch
    /\ pack.step = "promote" => pack.target = NoCopy /\ (pack.had => pack.backups # <<>>)
    /\ pack.step \in {"clean", "deployed"} => pack.target = launch

\* A complete copy, in its place or as the one backup.
Kept(p) == Complete(p.target) \/ p.backups # <<>>

PackInv == pack \in Packs /\ bare \in BOOLEAN /\ DeployedSoFar /\ (~bare => Kept(pack))

LEMMA LaunchIsAVersion ==
  ASSUME ProcessTypeOK
  PROVE  /\ launch \in Versions /\ Complete(launch) /\ ~Complete(NoCopy) /\ ~Complete(BadCopy)
         /\ Installed \in Versions /\ {NoCopy, BadCopy} \subseteq Contents /\ Versions \subseteq Contents
         /\ NoCopy \notin Versions /\ <<>> \in Backups /\ (\A c \in Versions : <<c>> \in Backups)
  BY DesktopAssumption DEF ProcessTypeOK, Versions, Contents, Installed, Complete, NoCopy, BadCopy, Backups

\* What there is to choose from.
LEMMA BackupsOfPack ==
  ASSUME NEW p \in Packs
  PROVE  /\ p.backups = <<>> => CompleteBackups(p) = {}
         /\ p.backups # <<>> => /\ CompleteBackups(p) = {1}
                                /\ p.backups[1] \in Versions /\ p.backups = <<p.backups[1]>>
         /\ ~Ambiguous(p) /\ Recoverable(p) /\ (SomeCopy(p) <=> Kept(p))
<1>1. p.backups = <<>> => CompleteBackups(p) = {}
  BY DEF CompleteBackups
<1>2. ASSUME p.backups # <<>>
      PROVE  CompleteBackups(p) = {1} /\ p.backups[1] \in Versions /\ p.backups = <<p.backups[1]>>
  <2>1. PICK c \in Versions : p.backups = <<c>>
    BY <1>2 DEF Packs, Backups
  <2>2. DOMAIN p.backups = {1} /\ p.backups[1] = c
    BY <2>1
  <2> QED BY <2>1, <2>2 DEF CompleteBackups, Complete
<1>3. ~Ambiguous(p)
  BY <1>1, <1>2 DEF Ambiguous
<1>4. SomeCopy(p) <=> Kept(p)
  BY <1>1, <1>2 DEF SomeCopy, Kept
<1> QED BY <1>1, <1>2, <1>3, <1>4 DEF Recoverable

LEMMA RecoveredPack ==
  ASSUME PackInv, ProcessTypeOK
  PROVE  /\ Recovered(pack) \in Packs /\ Recovered(pack).backups = <<>> /\ Recovered(pack).step = pack.step
         /\ Recovered(pack).target = NoCopy \/ Complete(Recovered(pack).target)
         /\ Kept(pack) => Complete(Recovered(pack).target)
         /\ Complete(pack.target) => Recovered(pack).target = pack.target
<1>1. pack \in Packs
  BY DEF PackInv
<1>2. CASE Complete(pack.target)
  BY <1>1, <1>2, LaunchIsAVersion DEF Recovered, Packs
<1>3. CASE ~Complete(pack.target) /\ pack.backups = <<>>
  <2>1. CompleteBackups(pack) = {}
    BY <1>1, <1>3, BackupsOfPack
  <2> QED BY <1>1, <1>3, <2>1, LaunchIsAVersion DEF Recovered, Packs, Kept
<1>4. CASE ~Complete(pack.target) /\ pack.backups # <<>>
  <2>1. CompleteBackups(pack) = {1} /\ pack.backups[1] \in Versions
    BY <1>1, <1>4, BackupsOfPack
  <2>2. Recovered(pack) = [pack EXCEPT !.staging = NoCopy, !.target = pack.backups[1], !.backups = <<>>]
    BY <1>4, <2>1 DEF Recovered
  <2> QED BY <1>1, <1>4, <2>1, <2>2, LaunchIsAVersion DEF Packs, Complete
<1> QED BY <1>2, <1>3, <1>4

\* While the deployment goes on the launch is the same.
LEMMA PackUndisturbed == ASSUME PackInv, UNCHANGED packVars, launch' = launch PROVE PackInv'
  BY DEF PackInv, DeployedSoFar, packVars, Kept, Packs, Complete, Versions, Contents, Installed

LEMMA PackStarts == ASSUME ProcessTypeOK, PackInit PROVE PackInv
<1>1. PICK target \in {NoCopy, Installed} :
         /\ pack = [step |-> "idle", target |-> target, backups |-> <<>>, staging |-> NoCopy, had |-> FALSE]
         /\ bare = (target = NoCopy)
  BY DEF PackInit
<1>2. target \in Contents /\ (target # NoCopy => Complete(target))
  BY LaunchIsAVersion DEF Complete
<1>3. pack \in Packs
  BY <1>1, <1>2, LaunchIsAVersion DEF Packs, Steps
<1> QED BY <1>1, <1>2, <1>3 DEF PackInv, DeployedSoFar, Kept

LEMMA PackRelaunches ==
  ASSUME PackInv, pack' = [pack EXCEPT !.step = "idle"], UNCHANGED bare
  PROVE  PackInv'
<1>1. pack \in Packs /\ pack' \in Packs
  BY DEF PackInv, Packs, Steps
<1>2. pack'.step = "idle" /\ Kept(pack') = Kept(pack)
  BY <1>1 DEF Packs, Kept
<1> QED BY <1>1, <1>2 DEF PackInv, DeployedSoFar

\* One step of the deployment.
LEMMA PackSteps == ASSUME ProcessTypeOK, PackInv, PackStep PROVE PackInv' /\ Still
<1> USE LaunchIsAVersion DEF Deploys
<1>0. pack \in Packs /\ Packs' = Packs /\ (\A c : Complete(c)' = Complete(c))
  BY DEF PackInv, Packs, Versions, Contents, Installed, Complete
<1>1. CASE RecoverPack
  <2>1. Recoverable(pack) /\ Still
    BY <1>0, <1>1, BackupsOfPack, NothingMoves DEF RecoverPack
  <2>2. pack' = [Recovered(pack) EXCEPT !.staging = BadCopy, !.step = "copying"] /\ UNCHANGED bare
    BY <1>1, <2>1 DEF RecoverPack
  <2>3. pack' \in Packs /\ pack'.step = "copying" /\ pack'.backups = <<>>
        /\ pack'.target = Recovered(pack).target
    BY <2>2, RecoveredPack DEF Packs, Steps
  <2> QED BY <2>1, <2>2, <2>3, <1>0, RecoveredPack DEF PackInv, DeployedSoFar, Kept
<1>2. CASE CopyEnds
  <2>1. Still
    BY <1>2, CostMoves DEF CopyEnds
  <2>2. PackInv'
    <3>1. PICK fails \in BOOLEAN :
             IF fails THEN pack' = [pack EXCEPT !.staging = NoCopy, !.step = "failed"] /\ UNCHANGED bare
                      ELSE pack' = [pack EXCEPT !.staging = launch, !.step = "aside"] /\ UNCHANGED bare
      BY <1>2 DEF CopyEnds
    <3>2. pack.step = "copying" /\ pack.backups = <<>> /\ launch' = launch
      BY <1>2, <2>1 DEF CopyEnds, PackInv, DeployedSoFar, Still, Moves
    <3>3. CASE fails
      BY <1>0, <3>1, <3>2, <3>3, ZenonT(30) DEF PackInv, Packs, Steps, DeployedSoFar, Kept
    <3>4. CASE ~fails
      BY <1>0, <3>1, <3>2, <3>4, ZenonT(30) DEF PackInv, Packs, Steps, DeployedSoFar, Kept
    <3> QED BY <3>3, <3>4
  <2> QED BY <2>1, <2>2
<1>3. CASE SetAside
  <2>1. Still
    BY <1>3, CostMoves DEF SetAside
  <2>2. CASE pack' = [pack EXCEPT !.staging = NoCopy, !.step = "failed"] /\ UNCHANGED bare
    BY <1>0, <2>1, <2>2 DEF PackInv, Packs, Steps, DeployedSoFar, Kept
  <2>3. CASE /\ pack.target = NoCopy /\ UNCHANGED bare
             /\ pack' = [pack EXCEPT !.step = "promote", !.had = FALSE]
    BY <1>0, <1>3, <2>1, <2>3 DEF SetAside, PackInv, Packs, Steps, DeployedSoFar, Kept, Still, Moves
  <2>4. CASE /\ pack.target # NoCopy /\ UNCHANGED bare
             /\ pack' = [pack EXCEPT !.target = NoCopy, !.step = "promote", !.had = TRUE,
                                     !.backups = Append(@, pack.target)]
    <3>1. pack.backups = <<>> /\ pack.target \in Versions /\ pack.staging = launch
      BY <1>3, <2>4 DEF SetAside, PackInv, DeployedSoFar, Complete
    <3>2. Append(pack.backups, pack.target) = <<pack.target>>
      BY <3>1
    <3>3. pack' \in Packs /\ pack'.backups # <<>> /\ pack'.target = NoCopy /\ pack'.staging = launch
          /\ pack'.step = "promote"
      <4>1. <<pack.target>> \in Backups /\ <<pack.target>> # <<>>
        BY <3>1
      <4>2. pack' = [pack EXCEPT !.target = NoCopy, !.step = "promote", !.had = TRUE, !.backups = <<pack.target>>]
        BY <2>4, <3>2
      <4> QED BY <1>0, <3>1, <4>1, <4>2 DEF Packs, Steps
    <3> QED BY <2>1, <2>4, <3>3, <1>0 DEF PackInv, DeployedSoFar, Kept, Still, Moves
  <2> QED BY <1>3, <2>1, <2>2, <2>3, <2>4 DEF SetAside
<1>4. CASE Promote
  <2>1. Still
    BY <1>4, NothingMoves, FaultMoves DEF Promote
  <2>2. pack.step = "promote" /\ pack.staging = launch /\ pack.target = NoCopy
    BY <1>4 DEF Promote, PackInv, DeployedSoFar
  <2>3. CASE /\ pack' = [pack EXCEPT !.target = pack.staging, !.staging = NoCopy, !.step = "clean"]
             /\ bare' = FALSE
    BY <1>0, <2>1, <2>2, <2>3 DEF PackInv, Packs, Steps, DeployedSoFar, Kept, Still, Moves
  <2>4. CASE pack' = [pack EXCEPT !.staging = NoCopy, !.step = "failed"] /\ UNCHANGED bare
    BY <1>0, <2>1, <2>4 DEF PackInv, Packs, Steps, DeployedSoFar, Kept
  <2>5. CASE /\ pack.had /\ UNCHANGED bare
             /\ pack' = [pack EXCEPT !.staging = NoCopy, !.step = "failed",
                                     !.target = pack.backups[Len(pack.backups)],
                                     !.backups = SubSeq(@, 1, Len(@) - 1)]
    <3>1. PICK c \in Versions : pack.backups = <<c>>
      BY <1>0, <2>2, <2>5 DEF PackInv, DeployedSoFar, Packs, Backups
    <3>2. pack.backups[Len(pack.backups)] = c /\ SubSeq(pack.backups, 1, Len(pack.backups) - 1) = <<>>
      BY <3>1
    <3>3. pack' \in Packs /\ pack'.target = c /\ pack'.step = "failed"
      BY <1>0, <2>5, <3>1, <3>2 DEF Packs, Steps
    <3> QED BY <2>1, <2>5, <3>1, <3>3, <1>0 DEF PackInv, DeployedSoFar, Kept, Complete
  <2> QED BY <1>4, <2>1, <2>3, <2>4, <2>5 DEF Promote
<1>5. CASE CleanPack
  <2>1. Recoverable(pack) /\ Still /\ pack.target = launch
    BY <1>0, <1>5, BackupsOfPack, NothingMoves DEF CleanPack, PackInv, DeployedSoFar
  <2>2. pack' = [Recovered(pack) EXCEPT !.step = "deployed"] /\ UNCHANGED bare
    BY <1>5, <2>1 DEF CleanPack
  <2>3. Recovered(pack).target = launch /\ Recovered(pack).backups = <<>> /\ Recovered(pack) \in Packs
    BY <2>1, RecoveredPack
  <2>4. pack' \in Packs /\ pack'.step = "deployed" /\ pack'.backups = <<>> /\ pack'.target = launch
    BY <2>2, <2>3 DEF Packs, Steps
  <2> QED BY <2>1, <2>2, <2>4, <1>0 DEF PackInv, DeployedSoFar, Kept, Still, Moves
<1> QED BY <1>1, <1>2, <1>3, <1>4, <1>5 DEF PackStep

LEMMA DamageIsNoted == ASSUME ProcessTypeOK, PackInv, Damage PROVE PackInv' /\ Still
<1>1. Still /\ pack.step = "idle" /\ pack' = [pack EXCEPT !.target = BadCopy] /\ bare' = ~SomeCopy(pack')
  BY FaultMoves DEF Damage
<1>2. pack' \in Packs /\ pack'.step = "idle" /\ bare' \in BOOLEAN
  BY <1>1, LaunchIsAVersion DEF PackInv, Packs
<1>3. SomeCopy(pack') <=> Kept(pack')
  BY <1>2, BackupsOfPack
<1> QED BY <1>1, <1>2, <1>3 DEF PackInv, DeployedSoFar, Packs, Kept, Complete, Versions, Contents, Installed

LEMMA PackCorrect == ASSUME ProcessTypeOK, PackInv PROVE SkillIsKept
<1>1. pack \in Packs
  BY DEF PackInv
<1>2. pack.backups \in Seq(Contents \ {NoCopy})
  <2>1. CASE pack.backups = <<>>
    BY <2>1
  <2>2. CASE pack.backups # <<>>
    <3>1. PICK c \in Versions : pack.backups = <<c>>
      BY <1>1, <2>2 DEF Packs, Backups
    <3>2. c \in Contents \ {NoCopy}
      BY LaunchIsAVersion
    <3> QED BY <3>1, <3>2
  <2> QED BY <2>1, <2>2
<1>3. PackTypeOK
  BY <1>1, <1>2 DEF PackInv, Packs, PackTypeOK
<1>4. (~bare => SomeCopy(pack)) /\ ~Ambiguous(pack)
  BY <1>1, BackupsOfPack DEF PackInv
<1> QED BY <1>3, <1>4 DEF SkillIsKept, PackInv, DeployedSoFar
-----------------------------------------------------------------------------
(* Notebook kernels *)

Cells == [pc : {"none", "lookup", "wait", "run", "drop", "remove", "reap", "removed"},
          notebook : SUBSET Notebooks, kernel : Commands \cup {NoKernel}, victims : SUBSET Commands]

\* What a cell names.
OneBook == {{b} : b \in Notebooks}

KernelsTyped ==
    /\ kernels \in [Notebooks -> Commands \cup {NoKernel}]
    /\ kernel \in [Commands -> [state : {"unborn", "alive", "dead"}, io : 0 .. NoThread]]
    /\ cell \in [Threads -> Cells]

Born(k) == k \in Commands /\ kernel[k].state # "unborn"

\* What a thread has in its hands.
CellSound(t) ==
    /\ t > asked => cell[t] = NoCell
    /\ t > asked /\ t \in Commands => kernel[t].state = "unborn"
    /\ cell[t].pc = "lookup" => kernel[t].state = "unborn" /\ cell[t].notebook \in OneBook
    /\ cell[t].pc \in {"lookup", "wait", "run", "drop"} => t \in Commands
    /\ cell[t].pc \in {"wait", "run", "drop"} => Born(cell[t].kernel)
    /\ cell[t].pc \in {"run", "drop"} => kernel[cell[t].kernel].io = t
    /\ cell[t].pc = "drop" => kernel[cell[t].kernel].state = "dead"
    /\ \A k \in cell[t].victims : Born(k)
    /\ cell[t].pc # "reap" => cell[t].victims = {}

CellsSound == \A t \in Threads : CellSound(t)

KernelsFound ==
    \A k \in Commands : kernel[k].state = "alive" =>
        \/ \E b \in Notebooks : kernels[b] = k
        \/ \E t \in Threads : k \in cell[t].victims

MapSound == \A b \in Notebooks : kernels[b] # NoKernel => Born(kernels[b])

KernelsInv == KernelsTyped /\ CellsSound /\ KernelsFound /\ MapSound

LEMMA KernelsStart == ASSUME ProcessTypeOK, KernelsInit PROVE KernelsInv
<1> USE Bounds DEF KernelsInit, NoCell
<1>1. KernelsTyped
  BY DEF KernelsTyped, Cells, NoKernel
<1>2. CellsSound
  BY DEF CellsSound, CellSound
<1> QED BY <1>1, <1>2 DEF KernelsInv, KernelsFound, MapSound, NoKernel

LEMMA KernelsUndisturbed ==
  ASSUME ProcessTypeOK, KernelsInv, Moves, UNCHANGED kernelVars
  PROVE  KernelsInv'
<1>0. kernels' = kernels /\ kernel' = kernel /\ cell' = cell
  BY DEF kernelVars
<1>1. KernelsTyped'
  BY <1>0 DEF KernelsInv, KernelsTyped
<1>2. CellsSound'
  <2> SUFFICES ASSUME NEW t \in Threads PROVE CellSound(t)'
    BY DEF CellsSound
  <2>1. t > asked' => t > asked
    BY Bounds DEF Moves, ProcessTypeOK
  <2>2. CellSound(t)
    BY DEF KernelsInv, CellsSound
  <2> QED BY <1>0, <2>1, <2>2 DEF CellSound, Born
<1>3. KernelsFound' /\ MapSound'
  BY <1>0 DEF KernelsInv, KernelsFound, MapSound, Born
<1> QED BY <1>1, <1>2, <1>3 DEF KernelsInv

\* Nothing is alive in a new process, and its threads are those of new commands.
LEMMA KernelsRelaunched ==
  ASSUME ProcessTypeOK, KernelsInv, KernelsRelaunch, UNCHANGED asked
  PROVE  KernelsInv'
<1> USE Bounds DEF KernelsRelaunch, NoCell
<1>1. KernelsTyped'
  <2>1. kernels' \in [Notebooks -> Commands \cup {NoKernel}] /\ cell' \in [Threads -> Cells]
    BY DEF Cells
  <2>2. kernel' \in [Commands -> [state : {"unborn", "alive", "dead"}, io : 0 .. NoThread]]
    BY DEF KernelsInv, KernelsTyped
  <2> QED BY <2>1, <2>2 DEF KernelsTyped
<1>2. CellsSound'
  BY DEF KernelsInv, CellsSound, CellSound, KernelsTyped
<1> QED BY <1>1, <1>2 DEF KernelsInv, KernelsFound, MapSound, NoKernel

\* A thread that has no kernel in its hands takes up a cell or a reset.
LEMMA KernelsAsked ==
  ASSUME ProcessTypeOK, KernelsInv, NEW t \in Threads, cell[t] = NoCell, Moves,
         NEW pc \in {"lookup", "remove"}, NEW books \in SUBSET Notebooks,
         pc = "lookup" => t \in Commands /\ kernel[t].state = "unborn" /\ books \in OneBook,
         t <= asked',
         cell' = [cell EXCEPT ![t].pc = pc, ![t].notebook = books], UNCHANGED <<kernels, kernel>>
  PROVE  KernelsInv'
<1>1. /\ cell' \in [Threads -> Cells] /\ \A u \in Threads \ {t} : cell'[u] = cell[u]
      /\ cell'[t].pc = pc /\ cell'[t].notebook = books /\ cell'[t].victims = {}
  <2>1. cell \in [Threads -> Cells]
    BY DEF KernelsInv, KernelsTyped
  <2>2. cell[t].victims = {}
    BY DEF NoCell
  <2> QED BY <2>1, <2>2 DEF Cells
<1>2. CellsSound'
  <2> SUFFICES ASSUME NEW u \in Threads PROVE CellSound(u)'
    BY DEF CellsSound
  <2>1. u > asked' => u > asked /\ u # t
    BY Bounds DEF Moves, ProcessTypeOK
  <2>2. CASE u # t
    <3>1. CellSound(u) /\ cell'[u] = cell[u]
      BY <1>1, <2>2 DEF KernelsInv, CellsSound
    <3> QED BY <2>1, <3>1 DEF CellSound, Born
  <2>3. CASE u = t
    BY <1>1, <2>1, <2>3 DEF CellSound, Born
  <2> QED BY <2>2, <2>3
<1>3. KernelsFound' /\ MapSound'
  <2>1. \A u \in Threads : cell'[u].victims = cell[u].victims
    BY <1>1 DEF NoCell
  <2> QED BY <2>1 DEF KernelsInv, KernelsFound, MapSound, Born
<1> QED BY <1>1, <1>2, <1>3 DEF KernelsInv, KernelsTyped

\* Where the kernels stay born and the dead dead, the others' hands hold what they held.
LEMMA OthersCells ==
  ASSUME KernelsInv, NEW t \in Threads, NEW u \in Threads \ {t}, asked' = asked,
         cell'[u] = cell[u],
         \A k \in Commands : kernel[k].state # "unborn" => kernel'[k].state # "unborn",
         \A k \in Commands : kernel[k].state = "dead" => kernel'[k].state = "dead",
         \A k \in Commands : k # t /\ kernel[k].state = "unborn" => kernel'[k].state = "unborn",
         \A k \in Commands : kernel[k].io \in Threads \ {t} => kernel'[k].io = kernel[k].io
  PROVE  CellSound(u)'
<1>1. CellSound(u)
  BY DEF KernelsInv, CellsSound
<1>2. cell[u] \in Cells
  BY DEF KernelsInv, KernelsTyped
<1>3. \A k \in Commands : Born(k) => Born(k)'
  BY DEF Born
<1>4. \A k \in cell[u].victims : Born(k)'
  BY <1>1, <1>2, <1>3 DEF CellSound, Cells
<1>5. cell[u].pc \in {"wait", "run", "drop"} => Born(cell[u].kernel)'
  BY <1>1, <1>3 DEF CellSound, Born
<1>6. cell[u].pc \in {"run", "drop"} => kernel'[cell[u].kernel].io = u
  BY <1>1 DEF CellSound, Born
<1>7. cell[u].pc = "drop" => kernel'[cell[u].kernel].state = "dead"
  BY <1>1 DEF CellSound, Born
<1>8. /\ u > asked /\ u \in Commands => kernel'[u].state = "unborn"
      /\ cell[u].pc = "lookup" => kernel'[u].state = "unborn" /\ cell[u].notebook \in OneBook
      /\ cell[u].pc \in {"lookup", "wait", "run", "drop"} => u \in Commands
      /\ u > asked => cell[u] = NoCell
      /\ cell[u].pc # "reap" => cell[u].victims = {}
  BY <1>1 DEF CellSound
<1> QED BY <1>4, <1>5, <1>6, <1>7, <1>8 DEF CellSound

\* A kernel is made for the notebook's cells to find.
LEMMA LookUpKeeps ==
  ASSUME ProcessTypeOK, KernelsInv, NEW t \in Threads, LookUp(t)
  PROVE  KernelsInv' /\ Still
<1>0. /\ cell[t] \in Cells /\ cell \in [Threads -> Cells] /\ cell[t].pc = "lookup" /\ t \in Commands
      /\ CellSound(t) /\ kernel[t].state = "unborn" /\ t <= asked
      /\ \A k \in Commands : kernel[k] \in [state : {"unborn", "alive", "dead"}, io : 0 .. NoThread]
  <2>1. CellSound(t) /\ cell[t] \in Cells /\ cell[t].pc = "lookup"
    BY DEF KernelsInv, CellsSound, KernelsTyped, LookUp, CellAt
  <2>2. cell[t] # NoCell
    BY <2>1 DEF NoCell
  <2> QED BY <2>1, <2>2, Bounds DEF CellSound, KernelsInv, KernelsTyped
<1>1. PICK b \in Notebooks : cell[t].notebook = {b}
  BY <1>0 DEF CellSound, OneBook
<1>2. KernelOf(t) = kernels[b]
  BY <1>1 DEF KernelOf
<1>3. Still
  BY NothingMoves, FaultMoves DEF LookUp
<1>4. asked' = asked /\ (\A u \in Threads \ {t} : cell'[u] = cell[u])
  BY <1>0, <1>3 DEF Still, LookUp
<1>5. CASE /\ kernels[b] # NoKernel /\ UNCHANGED <<kernels, kernel>>
           /\ cell' = [cell EXCEPT ![t].pc = "wait", ![t].kernel = kernels[b]]
  <2>1. Born(kernels[b])
    BY <1>5 DEF KernelsInv, MapSound
  <2>2. /\ cell' \in [Threads -> Cells] /\ cell'[t].pc = "wait" /\ cell'[t].kernel = kernels[b]
        /\ cell'[t].victims = cell[t].victims
    BY <1>0, <1>5, <2>1 DEF Cells, Born
  <2>3. CellSound(t)'
    BY <1>0, <1>4, <1>5, <2>1, <2>2, Bounds DEF CellSound, Born
  <2>4. CellsSound'
    BY <1>4, <1>5, <2>3, OthersCells DEF CellsSound
  <2>5. \A u \in Threads : cell'[u].victims = cell[u].victims
    BY <1>4, <2>2
  <2> QED BY <1>3, <1>5, <2>2, <2>4, <2>5 DEF KernelsInv, KernelsTyped, KernelsFound, MapSound, Born
<1>6. CASE /\ kernels[b] = NoKernel /\ kernels' = [kernels EXCEPT ![b] = t]
           /\ kernel' = [kernel EXCEPT ![t].state = "alive"]
           /\ cell' = [cell EXCEPT ![t].pc = "wait", ![t].kernel = t]
  <2>1. /\ cell' \in [Threads -> Cells] /\ cell'[t].pc = "wait" /\ cell'[t].kernel = t
        /\ cell'[t].victims = cell[t].victims
    BY <1>0, <1>6 DEF Cells
  <2>2. /\ kernel' \in [Commands -> [state : {"unborn", "alive", "dead"}, io : 0 .. NoThread]]
        /\ kernel'[t].state = "alive" /\ (\A k \in Commands : kernel'[k].io = kernel[k].io)
        /\ (\A k \in Commands \ {t} : kernel'[k] = kernel[k])
    BY <1>0, <1>6 DEF KernelsInv, KernelsTyped
  <2>3. \A k \in Commands : Born(k) => Born(k)'
    BY <2>2 DEF Born
  <2>4. CellSound(t)'
    <3>1. \A k \in cell'[t].victims : Born(k)'
      BY <1>0, <2>1, <2>3 DEF CellSound, Cells
    <3> QED BY <1>0, <1>4, <2>1, <2>2, <3>1, Bounds DEF CellSound, Born
  <2>5. CellsSound'
    BY <1>0, <1>4, <2>2, <2>4, OthersCells DEF CellsSound
  <2>6. kernels' \in [Notebooks -> Commands \cup {NoKernel}] /\ kernels'[b] = t
        /\ (\A c \in Notebooks \ {b} : kernels'[c] = kernels[c])
    BY <1>0, <1>6 DEF KernelsInv, KernelsTyped
  <2>7. MapSound'
    BY <1>0, <2>2, <2>3, <2>6 DEF KernelsInv, MapSound, Born
  <2>8. KernelsFound'
    <3> SUFFICES ASSUME NEW k \in Commands, kernel'[k].state = "alive", k # t
                 PROVE  (\E c \in Notebooks : kernels'[c] = k) \/ (\E u \in Threads : k \in cell'[u].victims)
      BY <2>6 DEF KernelsFound
    <3>1. (\E c \in Notebooks : kernels[c] = k) \/ (\E u \in Threads : k \in cell[u].victims)
      BY <2>2 DEF KernelsInv, KernelsFound
    <3>2. \A u \in Threads : cell'[u].victims = cell[u].victims
      BY <1>4, <2>1
    <3>3. ASSUME NEW c \in Notebooks, kernels[c] = k PROVE kernels'[c] = k
      BY <1>6, <2>6, <3>3 DEF NoKernel, Commands
    <3> QED BY <3>1, <3>2, <3>3
  <2> QED BY <1>3, <2>1, <2>2, <2>5, <2>6, <2>7, <2>8 DEF KernelsInv, KernelsTyped
<1>7. CASE cell' = [cell EXCEPT ![t] = NoCell] /\ UNCHANGED <<kernels, kernel>>
  <2>1. cell' \in [Threads -> Cells] /\ cell'[t] = NoCell /\ NoCell.pc = "none" /\ NoCell.victims = {}
    BY <1>0, <1>7 DEF Cells, NoCell
  <2>2. CellSound(t)'
    BY <1>0, <1>4, <2>1, Bounds DEF CellSound
  <2>3. CellsSound'
    BY <1>4, <1>7, <2>2, OthersCells DEF CellsSound
  <2>4. cell[t].victims = {}
    BY <1>0 DEF CellSound
  <2> QED BY <1>3, <1>4, <1>7, <2>1, <2>3, <2>4 DEF KernelsInv, KernelsTyped, KernelsFound, MapSound, Born
<1>8. \A c \in cell[t].notebook : c = b
  BY <1>1
<1> QED BY <1>2, <1>5, <1>6, <1>7, <1>8 DEF LookUp

\* A thread that has a kernel in its hands gives it back, dead or alive.
LEMMA KernelLeft ==
  ASSUME ProcessTypeOK, KernelsInv, NEW t \in Threads, cell[t].pc \in {"run", "drop"}, Still,
         NEW k \in Commands, k = cell[t].kernel, kernel' = [kernel EXCEPT ![k].io = NoThread],
         kernels' \in [Notebooks -> Commands \cup {NoKernel}],
         \A b \in Notebooks : kernels'[b] = kernels[b] \/ (kernels[b] = k /\ kernels'[b] = NoKernel
                                                         /\ kernel[k].state = "dead"),
         cell' = [cell EXCEPT ![t] = NoCell]
  PROVE  KernelsInv'
<1>0. /\ cell[t] \in Cells /\ cell \in [Threads -> Cells] /\ CellSound(t) /\ kernel[k].io = t
      /\ kernel \in [Commands -> [state : {"unborn", "alive", "dead"}, io : 0 .. NoThread]]
  BY DEF KernelsInv, CellsSound, CellSound, KernelsTyped
<1>1. /\ kernel' \in [Commands -> [state : {"unborn", "alive", "dead"}, io : 0 .. NoThread]]
      /\ \A j \in Commands : kernel'[j].state = kernel[j].state
      /\ \A j \in Commands \ {k} : kernel'[j] = kernel[j]
  BY <1>0, Bounds
<1>2. /\ cell' \in [Threads -> Cells] /\ cell'[t] = NoCell /\ NoCell.pc = "none" /\ NoCell.victims = {}
      /\ (\A u \in Threads \ {t} : cell'[u] = cell[u]) /\ asked' = asked
  BY <1>0 DEF Cells, NoCell, Still
<1>3. cell[t].victims = {} /\ t \in Commands /\ t <= asked
  BY <1>0, Bounds DEF CellSound, NoCell
<1>4. CellSound(t)'
  BY <1>2, <1>3, Bounds DEF CellSound
<1>5. CellsSound'
  <2>1. \A j \in Commands : kernel[j].io \in Threads \ {t} => kernel'[j].io = kernel[j].io
    BY <1>0, <1>1
  <2> QED BY <1>1, <1>2, <1>4, <2>1, OthersCells DEF CellsSound
<1>6. MapSound'
  BY <1>1 DEF KernelsInv, MapSound, Born
<1>7. KernelsFound'
  BY <1>1, <1>2, <1>3 DEF KernelsInv, KernelsFound
<1> QED BY <1>1, <1>2, <1>5, <1>6, <1>7 DEF KernelsInv, KernelsTyped

LEMMA CellEndsKeeps ==
  ASSUME ProcessTypeOK, KernelsInv, NEW t \in Threads, CellEnds(t)
  PROVE  KernelsInv' /\ Still
<1>1. cell[t].pc = "run" /\ CellSound(t) /\ Still
  BY NothingMoves DEF CellEnds, CellAt, KernelsInv, CellsSound
<1>2. cell[t].kernel \in Commands
  BY <1>1 DEF CellSound, Born
<1> QED BY <1>1, <1>2, KernelLeft DEF CellEnds, KernelsInv, KernelsTyped

LEMMA DropKeeps ==
  ASSUME ProcessTypeOK, KernelsInv, NEW t \in Threads, Drop(t)
  PROVE  KernelsInv' /\ Still
<1>1. cell[t].pc = "drop" /\ CellSound(t) /\ Still
  BY NothingMoves DEF Drop, CellAt, KernelsInv, CellsSound
<1>2. cell[t].kernel \in Commands /\ kernel[cell[t].kernel].state = "dead"
  BY <1>1 DEF CellSound, Born
<1>3. /\ kernels' \in [Notebooks -> Commands \cup {NoKernel}]
      /\ \A b \in Notebooks : kernels'[b] = kernels[b] \/ (kernels[b] = cell[t].kernel /\ kernels'[b] = NoKernel)
  BY DEF Drop, OwnEntry, KernelsInv, KernelsTyped
<1> QED BY <1>1, <1>2, <1>3, KernelLeft DEF Drop

LEMMA TakeIoKeeps ==
  ASSUME ProcessTypeOK, KernelsInv, NEW t \in Threads, TakeIo(t)
  PROVE  KernelsInv' /\ Still
<1> DEFINE k == cell[t].kernel
<1>0. /\ cell[t] \in Cells /\ cell \in [Threads -> Cells] /\ CellSound(t) /\ cell[t].pc = "wait"
      /\ kernel \in [Commands -> [state : {"unborn", "alive", "dead"}, io : 0 .. NoThread]]
      /\ kernel[k].io = NoThread /\ Still
  BY NothingMoves DEF KernelsInv, CellsSound, KernelsTyped, TakeIo, CellAt
<1>1. k \in Commands /\ Born(k) /\ t \in Commands /\ t <= asked /\ cell[t].victims = {}
  <2>1. cell[t] # NoCell
    BY <1>0 DEF NoCell
  <2> QED BY <1>0, <2>1, Bounds DEF CellSound, Born
<1>2. /\ kernel' \in [Commands -> [state : {"unborn", "alive", "dead"}, io : 0 .. NoThread]]
      /\ \A j \in Commands : kernel'[j].state = kernel[j].state
      /\ (\A j \in Commands \ {k} : kernel'[j] = kernel[j]) /\ kernel'[k].io = t
  <2>1. kernel' = [kernel EXCEPT ![k].io = t] /\ t \in 0 .. NoThread
    BY <1>1, Bounds DEF TakeIo, NoThread, Commands
  <2> QED BY <1>0, <1>1, <2>1
<1>3. /\ cell' \in [Threads -> Cells] /\ cell'[t].pc = "run" /\ cell'[t].kernel = k /\ cell'[t].victims = {}
      /\ (\A u \in Threads \ {t} : cell'[u] = cell[u]) /\ asked' = asked /\ kernels' = kernels
  BY <1>0, <1>1 DEF TakeIo, CellGoes, Cells, Still
<1>4. CellSound(t)'
  BY <1>1, <1>2, <1>3, Bounds DEF CellSound, Born
<1>5. CellsSound'
  <2>1. \A j \in Commands : kernel[j].io \in Threads => kernel'[j].io = kernel[j].io
    BY <1>0, <1>2, Bounds
  <2> QED BY <1>1, <1>2, <1>3, <1>4, <2>1, OthersCells DEF CellsSound
<1>6. MapSound'
  BY <1>2, <1>3 DEF KernelsInv, MapSound, Born
<1>7. KernelsFound'
  BY <1>1, <1>2, <1>3 DEF KernelsInv, KernelsFound
<1> QED BY <1>0, <1>2, <1>3, <1>5, <1>6, <1>7 DEF KernelsInv, KernelsTyped

\* A kernel that was born dies; t, if it had it in its hands, is about to drop it.
LEMMA KernelKilled ==
  ASSUME ProcessTypeOK, KernelsInv, NEW t \in Threads, Still, NEW k \in Commands, Born(k),
         kernel' = [kernel EXCEPT ![k].state = "dead"], UNCHANGED kernels,
         cell' \in [Threads -> Cells], \A u \in Threads \ {t} : cell'[u] = cell[u],
         CellSound(t)', \A j \in cell[t].victims \ {k} : j \in cell'[t].victims
  PROVE  KernelsInv'
<1>0. kernel \in [Commands -> [state : {"unborn", "alive", "dead"}, io : 0 .. NoThread]] /\ asked' = asked
  BY DEF KernelsInv, KernelsTyped, Still
<1>1. /\ kernel' \in [Commands -> [state : {"unborn", "alive", "dead"}, io : 0 .. NoThread]]
      /\ (\A j \in Commands \ {k} : kernel'[j] = kernel[j]) /\ kernel'[k].io = kernel[k].io
      /\ kernel'[k].state = "dead"
  BY <1>0
<1>2. kernel[k].state # "unborn"
  BY DEF Born
<1>3. CellsSound'
  BY <1>0, <1>1, <1>2, OthersCells DEF CellsSound
<1>4. MapSound'
  BY <1>1, <1>2 DEF KernelsInv, MapSound, Born
<1>5. KernelsFound'
  <2> SUFFICES ASSUME NEW j \in Commands, kernel'[j].state = "alive"
               PROVE  (\E c \in Notebooks : kernels'[c] = j) \/ (\E u \in Threads : j \in cell'[u].victims)
    BY DEF KernelsFound
  <2>1. j # k /\ kernel[j].state = "alive"
    BY <1>1
  <2>2. (\E c \in Notebooks : kernels[c] = j) \/ (\E u \in Threads : j \in cell[u].victims)
    BY <2>1 DEF KernelsInv, KernelsFound
  <2>3. ASSUME NEW u \in Threads, j \in cell[u].victims PROVE j \in cell'[u].victims
    BY <2>1, <2>3
  <2> QED BY <2>2, <2>3
<1> QED BY <1>1, <1>3, <1>4, <1>5 DEF KernelsInv, KernelsTyped

LEMMA CellFailsKeeps ==
  ASSUME ProcessTypeOK, KernelsInv, NEW t \in Threads, CellFails(t)
  PROVE  KernelsInv' /\ Still
<1> DEFINE k == cell[t].kernel
<1>0. /\ cell[t] \in Cells /\ cell \in [Threads -> Cells] /\ CellSound(t) /\ cell[t].pc = "run" /\ Still
      /\ kernel \in [Commands -> [state : {"unborn", "alive", "dead"}, io : 0 .. NoThread]]
  BY CostMoves DEF KernelsInv, CellsSound, KernelsTyped, CellFails, CellAt
<1>1. k \in Commands /\ Born(k) /\ t \in Commands /\ t <= asked /\ cell[t].victims = {} /\ kernel[k].io = t
      /\ asked' = asked
  <2>1. cell[t] # NoCell
    BY <1>0 DEF NoCell
  <2> QED BY <1>0, <2>1, Bounds DEF CellSound, Born, Still
<1>2. /\ cell' \in [Threads -> Cells] /\ cell'[t].pc = "drop" /\ cell'[t].kernel = k /\ cell'[t].victims = {}
      /\ (\A u \in Threads \ {t} : cell'[u] = cell[u])
  BY <1>0, <1>1 DEF CellFails, CellGoes, Cells
<1>3. kernel'[k].state = "dead" /\ kernel'[k].io = t /\ kernel' = [kernel EXCEPT ![k].state = "dead"]
  BY <1>0, <1>1 DEF CellFails
<1>4. CellSound(t)'
  BY <1>1, <1>2, <1>3, Bounds DEF CellSound, Born
<1> QED BY <1>0, <1>1, <1>2, <1>3, <1>4, KernelKilled DEF CellFails

LEMMA KernelDiesKeeps ==
  ASSUME ProcessTypeOK, KernelsInv, NEW k \in Commands, KernelDies(k)
  PROVE  KernelsInv' /\ Still
<1>1. Still /\ Born(k) /\ asked' = asked /\ UNCHANGED <<kernels, cell>>
  BY FaultMoves DEF KernelDies, Born, Still
<1>2. kernel' = [kernel EXCEPT ![k].state = "dead"]
  BY DEF KernelDies
<1>3. CellSound(Main) /\ cell \in [Threads -> Cells] /\ Main \in Threads
  BY Bounds DEF KernelsInv, CellsSound, KernelsTyped
<1>4. cell[Main] \in Cells /\ Main \notin Commands
  BY <1>3, Bounds DEF Main, Commands
<1>5. \A j \in Commands : Born(j) => Born(j)'
  BY <1>2 DEF Born, KernelsInv, KernelsTyped
<1>6. CellSound(Main)'
  <2>1. \A j \in cell[Main].victims : Born(j)'
    BY <1>3, <1>4, <1>5 DEF CellSound, Cells
  <2> QED BY <1>1, <1>3, <1>4, <2>1 DEF CellSound
<1> QED BY <1>1, <1>2, <1>3, <1>6, KernelKilled

LEMMA RemoveKeeps ==
  ASSUME ProcessTypeOK, KernelsInv, NEW t \in Threads, Remove(t)
  PROVE  KernelsInv' /\ Still
<1> DEFINE victims == {kernels[b] : b \in cell[t].notebook} \ {NoKernel}
<1>0. /\ cell[t] \in Cells /\ cell \in [Threads -> Cells] /\ CellSound(t) /\ cell[t].pc = "remove" /\ Still
      /\ kernel' = kernel /\ kernels \in [Notebooks -> Commands \cup {NoKernel}]
  BY NothingMoves DEF KernelsInv, CellsSound, KernelsTyped, Remove, CellAt
<1>1. cell[t].notebook \subseteq Notebooks /\ cell[t].victims = {} /\ t <= asked /\ asked' = asked
  <2>1. cell[t] # NoCell
    BY <1>0 DEF NoCell
  <2> QED BY <1>0, <2>1, Bounds DEF CellSound, Cells, Still
<1>2. \A k \in victims : Born(k) /\ k \in Commands
  BY <1>0, <1>1 DEF KernelsInv, MapSound, Born
<1>3. victims \in SUBSET Commands
  BY <1>2
<1>4. cell' = [cell EXCEPT ![t].pc = "reap", ![t].victims = victims]
  BY DEF Remove
<1> HIDE DEF victims
<1>5. /\ cell' \in [Threads -> Cells] /\ cell'[t].pc = "reap" /\ cell'[t].victims = victims
      /\ \A u \in Threads \ {t} : cell'[u] = cell[u]
  BY <1>0, <1>3, <1>4 DEF Cells
<1>6. /\ kernels' \in [Notebooks -> Commands \cup {NoKernel}]
      /\ \A b \in Notebooks : kernels'[b] = IF b \in cell[t].notebook THEN NoKernel ELSE kernels[b]
  BY <1>0 DEF Remove
<1>7. CellSound(t)'
  BY <1>0, <1>1, <1>2, <1>5, Bounds DEF CellSound, Born
<1>8. CellsSound'
  BY <1>0, <1>1, <1>5, <1>7, OthersCells DEF CellsSound
<1>9. MapSound'
  BY <1>0, <1>6 DEF KernelsInv, MapSound, Born
<1>10. KernelsFound'
  <2> SUFFICES ASSUME NEW j \in Commands, kernel[j].state = "alive"
               PROVE  (\E c \in Notebooks : kernels'[c] = j) \/ (\E u \in Threads : j \in cell'[u].victims)
    BY <1>0 DEF KernelsFound
  <2>1. CASE \E c \in Notebooks : kernels[c] = j
    <3>1. PICK c \in Notebooks : kernels[c] = j
      BY <2>1
    <3>2. CASE c \in cell[t].notebook
      <4>1. j \in victims
        BY <3>1, <3>2 DEF victims, NoKernel, Commands
      <4> QED BY <1>5, <4>1
    <3>3. CASE c \notin cell[t].notebook
      BY <1>6, <3>1, <3>3
    <3> QED BY <3>2, <3>3
  <2>2. CASE \E u \in Threads : j \in cell[u].victims
    BY <1>1, <1>5, <2>2
  <2> QED BY <2>1, <2>2 DEF KernelsInv, KernelsFound
<1> QED BY <1>0, <1>5, <1>6, <1>8, <1>9, <1>10 DEF KernelsInv, KernelsTyped

LEMMA ReapKeeps ==
  ASSUME ProcessTypeOK, KernelsInv, NEW t \in Threads, Reap(t)
  PROVE  KernelsInv' /\ Still
<1>0. /\ cell[t] \in Cells /\ cell \in [Threads -> Cells] /\ CellSound(t) /\ cell[t].pc = "reap" /\ Still
      /\ kernels' = kernels /\ t <= asked /\ asked' = asked
  <2>1. cell[t].pc = "reap" /\ Still /\ kernels' = kernels
    BY NothingMoves DEF Reap, CellAt
  <2>2. cell[t] # NoCell
    BY <2>1 DEF NoCell
  <2> QED BY <2>1, <2>2, Bounds DEF KernelsInv, CellsSound, CellSound, KernelsTyped, Still
<1>1. ASSUME NEW k \in cell[t].victims, kernel' = [kernel EXCEPT ![k].state = "dead"],
             cell' = [cell EXCEPT ![t].victims = @ \ {k}]
      PROVE  KernelsInv'
  <2>1. Born(k) /\ k \in Commands /\ cell[t].victims \subseteq Commands
    BY <1>0 DEF CellSound, Born, Cells
  <2>2. /\ cell' \in [Threads -> Cells] /\ cell'[t].pc = "reap" /\ cell'[t].victims = cell[t].victims \ {k}
        /\ \A u \in Threads \ {t} : cell'[u] = cell[u]
    BY <1>0, <1>1, <2>1 DEF Cells
  <2>3. \A j \in Commands : Born(j) => Born(j)'
    BY <1>1 DEF Born, KernelsInv, KernelsTyped
  <2>4. CellSound(t)'
    BY <1>0, <2>1, <2>2, <2>3, Bounds DEF CellSound
  <2> QED BY <1>0, <1>1, <2>1, <2>2, <2>4, KernelKilled
<1>2. ASSUME cell[t].victims = {}, UNCHANGED kernel,
             cell' = [cell EXCEPT ![t] = IF t = Main THEN [NoCell EXCEPT !.pc = "removed"] ELSE NoCell]
      PROVE  KernelsInv'
  <2>1. /\ cell' \in [Threads -> Cells] /\ cell'[t].pc \in {"none", "removed"} /\ cell'[t].victims = {}
        /\ \A u \in Threads \ {t} : cell'[u] = cell[u]
    BY <1>0, <1>2 DEF Cells, NoCell
  <2>2. CellSound(t)'
    BY <1>0, <1>2, <2>1, Bounds DEF CellSound
  <2>3. CellsSound'
    BY <1>0, <1>2, <2>1, <2>2, OthersCells DEF CellsSound
  <2>4. KernelsFound' /\ MapSound'
    BY <1>0, <1>2, <2>1 DEF KernelsInv, KernelsFound, MapSound, Born
  <2> QED BY <1>0, <1>2, <2>1, <2>3, <2>4 DEF KernelsInv, KernelsTyped
<1> QED BY <1>0, <1>1, <1>2 DEF Reap

LEMMA ExitKernelsKeeps ==
  ASSUME ProcessTypeOK, KernelsInv, ExitKernels \/ KernelsKilled
  PROVE  KernelsInv' /\ Moves /\ asked' = asked /\ (app' = app \/ (app = "kernels" /\ app' = "lab"))
<1>1. CASE ExitKernels
  <2>1. Still
    BY <1>1, NothingMoves DEF ExitKernels
  <2>2. /\ Main \in Threads /\ Main <= asked' /\ cell[Main] = NoCell /\ UNCHANGED <<kernels, kernel>>
        /\ Notebooks \in SUBSET Notebooks
        /\ cell' = [cell EXCEPT ![Main].pc = "remove", ![Main].notebook = Notebooks]
    BY <1>1, <2>1, Bounds DEF ExitKernels, Still, Main
  <2>3. KernelsInv'
    BY <2>1, <2>2, KernelsAsked DEF Still
  <2> QED BY <2>1, <2>3 DEF Still
<1>2. CASE KernelsKilled
  <2>1. Moves /\ asked' = asked /\ app = "kernels" /\ app' = "lab"
    BY <1>2, PhaseMoves DEF KernelsKilled, Phases, BeforeExit
  <2>2. /\ cell \in [Threads -> Cells] /\ cell[Main].pc = "removed" /\ UNCHANGED <<kernels, kernel>>
        /\ cell' = [cell EXCEPT ![Main] = NoCell] /\ Main \in Threads /\ CellSound(Main)
    BY <1>2, Bounds DEF KernelsKilled, KernelsInv, KernelsTyped, CellsSound
  <2>3. /\ cell' \in [Threads -> Cells] /\ cell'[Main] = NoCell /\ NoCell.pc = "none" /\ NoCell.victims = {}
        /\ \A u \in Threads \ {Main} : cell'[u] = cell[u]
    BY <2>2 DEF Cells, NoCell
  <2>4. cell[Main].victims = {}
    BY <2>2 DEF CellSound
  <2>5. CellSound(Main)'
    BY <2>1, <2>2, <2>3, Bounds DEF CellSound
  <2>6. CellsSound'
    BY <2>1, <2>2, <2>3, <2>5, OthersCells DEF CellsSound
  <2>7. KernelsFound' /\ MapSound'
    BY <2>2, <2>3, <2>4 DEF KernelsInv, KernelsFound, MapSound, Born
  <2> QED BY <2>1, <2>2, <2>3, <2>6, <2>7 DEF KernelsInv, KernelsTyped
<1> QED BY <1>1, <1>2

LEMMA KernelsStepKeeps ==
  ASSUME ProcessTypeOK, KernelsInv, KernelsStep
  PROVE  KernelsInv' /\ Moves /\ (app' = app \/ (app = "kernels" /\ app' = "lab"))
<1>1. ASSUME NEW t \in Commands, NEW pc \in {"lookup", "remove"}, NEW books \in SUBSET Notebooks,
             pc = "lookup" => books \in OneBook,
             Command(t, "kernels"), UNCHANGED <<kernels, kernel>>,
             cell' = [cell EXCEPT ![t].pc = pc, ![t].notebook = books]
      PROVE  KernelsInv' /\ Moves /\ app' = app
  <2>1. Moves /\ app' = app /\ t = asked + 1 /\ asked' = t /\ t \in Threads
    BY <1>1, CommandMoves, Bounds DEF Parts
  <2>2. cell[t] = NoCell /\ kernel[t].state = "unborn"
    BY <2>1, Bounds DEF KernelsInv, CellsSound, CellSound
  <2>3. t <= asked' /\ t \in Threads
    BY <2>1, Bounds
  <2>4. KernelsInv'
    BY <1>1, <2>1, <2>2, <2>3, KernelsAsked
  <2> QED BY <2>1, <2>4
<1>2. ASSUME NEW t \in Commands, NEW b \in Notebooks, AskCell(t, b)
      PROVE  KernelsInv' /\ Moves /\ app' = app
  <2>1. {b} \in OneBook /\ {b} \in SUBSET Notebooks
    BY DEF OneBook
  <2> QED BY <1>1, <1>2, <2>1 DEF AskCell
<1>3. ASSUME NEW t \in Commands, NEW books \in {{b} : b \in Notebooks} \cup {Notebooks}, AskReset(t, books)
      PROVE  KernelsInv' /\ Moves /\ app' = app
  <2>1. books \in SUBSET Notebooks
    OBVIOUS
  <2> QED BY <1>1, <1>3, <2>1 DEF AskReset
<1> QED BY <1>2, <1>3, ExitKernelsKeeps, LookUpKeeps, TakeIoKeeps, CellEndsKeeps, CellFailsKeeps, DropKeeps,
           RemoveKeeps, ReapKeeps, KernelDiesKeeps DEF KernelsStep, Still

LEMMA KernelsCorrect == ASSUME ProcessTypeOK, KernelsInv PROVE KernelsAreKnown
<1>1. \A t \in Threads : cell[t] \in Cells /\ CellSound(t)
  BY DEF KernelsInv, KernelsTyped, CellsSound
<1>2. KernelsTypeOK
  BY <1>1 DEF KernelsTypeOK, KernelsInv, KernelsTyped, CellSound, Cells
<1> QED BY <1>2 DEF KernelsAreKnown, KernelsInv, KernelsFound
-----------------------------------------------------------------------------
(* JupyterLab *)

LabTyped ==
    /\ lab \in [lock : 0 .. NoThread, child : Commands \cup {NoLab}, running : BOOLEAN]
    /\ server \in [Commands -> [state : {"unborn", "alive", "dead"}, root : 0 .. MaxCommands,
                                launch : 1 .. MaxLaunches, late : BOOLEAN]]
    /\ workspace \in 0 .. MaxCommands
    /\ labJob \in [Threads -> [pc : {"none", "start", "reroot", "look", "orphans", "spawn", "record"},
                               root : 0 .. MaxCommands]]
    /\ lab.running <=> lab.child # NoLab

InLab(t) == labJob[t].pc \in {"look", "orphans", "spawn", "record"}

\* A switch of the workspace is still to come.
Rerooting == \E u \in Commands : labJob[u].pc = "reroot"

\* Who holds the lock finds no jupyter-lab recorded, and none alive when it spawns.
JobSound(t) ==
    /\ t > asked => labJob[t] = NoJob
    /\ InLab(t) => t \in Commands /\ lab.lock = t /\ lab.child = NoLab
    /\ labJob[t].pc = "spawn" => Servers = {}
    /\ labJob[t].pc = "record" => Servers \subseteq {t} /\ server[t].root = labJob[t].root
    /\ labJob[t].pc \in {"orphans", "spawn", "record"} => labJob[t].root = workspace \/ Rerooting

JobsSound == \A t \in Threads : JobSound(t)

ServerSound(s) ==
    /\ server[s].launch <= launch
    /\ server[s].launch = launch => lab.child = s \/ labJob[s].pc = "record"
    /\ server[s].launch = launch /\ app \in AfterLab => server[s].late \/ labJob[s].pc = "record"

ServersSound ==
    /\ \A r, s \in Servers : r = s
    /\ \A s \in Servers : ServerSound(s)

ServesWorkspace == lab.running => server[lab.child].root = workspace \/ Rerooting

LabInv == LabTyped /\ JobsSound /\ ServersSound /\ ServesWorkspace

LEMMA LabStarts == ASSUME ProcessTypeOK, LabInit PROVE LabInv
<1> USE Bounds DEF LabInit, NoJob
<1>1. LabTyped /\ Servers = {}
  <2>1. 1 \in 1 .. MaxLaunches /\ 0 \in 0 .. MaxCommands
    BY DesktopAssumption
  <2>2. /\ server \in [Commands -> [state : {"unborn", "alive", "dead"}, root : 0 .. MaxCommands,
                                    launch : 1 .. MaxLaunches, late : BOOLEAN]]
        /\ Servers = {}
    BY <2>1 DEF Servers
  <2>3. lab \in [lock : 0 .. NoThread, child : Commands \cup {NoLab}, running : BOOLEAN]
        /\ lab.running = FALSE /\ lab.child = NoLab
    OBVIOUS
  <2>4. labJob \in [Threads -> [pc : {"none", "start", "reroot", "look", "orphans", "spawn", "record"},
                                root : 0 .. MaxCommands]]
    BY <2>1
  <2> QED BY <2>1, <2>2, <2>3, <2>4 DEF LabTyped
<1>2. \A t \in Threads : JobSound(t)
  BY DEF JobSound, InLab
<1> QED BY <1>1, <1>2 DEF LabInv, JobsSound, ServersSound, ServesWorkspace

LEMMA LabUndisturbed ==
  ASSUME ProcessTypeOK, LabInv, Moves, UNCHANGED labVars, app' \in AfterLab => app \in AfterLab
  PROVE  LabInv'
<1>0. lab' = lab /\ server' = server /\ workspace' = workspace /\ labJob' = labJob /\ launch' = launch
      /\ Servers' = Servers /\ (Rerooting' <=> Rerooting)
  BY DEF labVars, Moves, Servers, Rerooting
<1>1. JobsSound'
  <2> SUFFICES ASSUME NEW t \in Threads PROVE JobSound(t)'
    BY DEF JobsSound
  <2>1. (t > asked' => t > asked) /\ JobSound(t)
    BY Bounds DEF Moves, ProcessTypeOK, LabInv, JobsSound
  <2> QED BY <1>0, <2>1 DEF JobSound, InLab
<1> QED BY <1>0, <1>1 DEF LabInv, LabTyped, ServersSound, ServerSound, ServesWorkspace

LEMMA LabRelaunched ==
  ASSUME ProcessTypeOK, LabInv, LabRelaunch, launch' = launch + 1, app' \notin AfterLab, UNCHANGED asked
  PROVE  LabInv'
<1> USE Bounds DEF LabRelaunch, NoJob
<1>1. /\ lab' \in [lock : 0 .. NoThread, child : Commands \cup {NoLab}, running : BOOLEAN]
      /\ lab'.running = FALSE /\ lab'.child = NoLab /\ Servers' = Servers
      /\ \A t \in Threads : labJob'[t] = NoJob
  BY DEF Servers
<1>2. LabTyped'
  <2>1. labJob' \in [Threads -> [pc : {"none", "start", "reroot", "look", "orphans", "spawn", "record"},
                                 root : 0 .. MaxCommands]]
    BY DesktopAssumption
  <2> QED BY <1>1, <2>1 DEF LabInv, LabTyped
<1>3. \A t \in Threads : JobSound(t)'
  BY <1>1 DEF JobSound, InLab
<1>4. \A s \in Servers : server[s].launch < launch'
  <2> SUFFICES ASSUME NEW s \in Servers PROVE server[s].launch < launch'
    OBVIOUS
  <2>1. server[s].launch <= launch /\ server[s].launch \in 1 .. MaxLaunches
    BY DEF LabInv, LabTyped, ServersSound, ServerSound, Servers
  <2> QED BY <2>1, DesktopAssumption
<1>5. \A s \in Servers : server[s].launch \in Nat
  BY DesktopAssumption DEF LabInv, LabTyped, Servers
<1>6. \A s \in Servers' : ServerSound(s)'
  BY <1>1, <1>4, <1>5 DEF ServerSound
<1> QED BY <1>1, <1>2, <1>3, <1>6 DEF LabInv, JobsSound, ServersSound, ServesWorkspace

\* Somebody asks for something.
LEMMA LabAsked ==
  ASSUME ProcessTypeOK, LabInv, NEW t \in Commands, AskLab(t) \/ AskWorkspace(t)
  PROVE  LabInv' /\ Moves /\ app' = app
<1>0. Moves /\ app' = app /\ t = asked + 1 /\ asked' = t /\ t \in Threads /\ t \in 0 .. MaxCommands
      /\ launch' = launch
  BY CommandMoves, Bounds DEF AskLab, AskWorkspace, Parts, Moves
<1>1. PICK pc \in {"start", "reroot"} :
         /\ labJob' = [labJob EXCEPT ![t].pc = pc] /\ UNCHANGED <<lab, server>>
         /\ workspace' = workspace \/ (pc = "reroot" /\ workspace' = t)
  BY DEF AskLab, AskWorkspace, LabGoes
<1>2. labJob[t] = NoJob /\ labJob[t].pc = "none"
  BY <1>0, Bounds DEF LabInv, JobsSound, JobSound, NoJob
<1>3. /\ labJob' \in [Threads -> [pc : {"none", "start", "reroot", "look", "orphans", "spawn", "record"},
                                  root : 0 .. MaxCommands]]
      /\ labJob'[t].pc = pc /\ \A u \in Threads \ {t} : labJob'[u] = labJob[u]
  BY <1>0, <1>1 DEF LabInv, LabTyped
<1>4. LabTyped'
  BY <1>0, <1>1, <1>3 DEF LabInv, LabTyped
<1>5. Servers' = Servers /\ (Rerooting \/ pc = "reroot" => Rerooting') /\ (workspace' = workspace \/ Rerooting')
  BY <1>0, <1>1, <1>2, <1>3, Bounds DEF Servers, Rerooting
<1>6. JobsSound'
  <2> SUFFICES ASSUME NEW u \in Threads PROVE JobSound(u)'
    BY DEF JobsSound
  <2>1. CASE u = t
    <3>1. ~(t > asked') /\ labJob'[t].pc \in {"start", "reroot"}
      BY <1>0, <1>3, Bounds
    <3> QED BY <2>1, <3>1 DEF JobSound, InLab
  <2>2. CASE u # t
    <3>1. JobSound(u) /\ (u > asked' => u > asked) /\ labJob'[u] = labJob[u]
      BY <1>0, <1>3, <2>2, Bounds DEF LabInv, JobsSound
    <3> QED BY <1>1, <1>5, <3>1 DEF JobSound, InLab
  <2> QED BY <2>1, <2>2
<1>7. ServersSound'
  <2>1. \A s \in Servers : labJob[s].pc = "record" => labJob'[s].pc = "record"
    BY <1>2, <1>3, Bounds DEF Servers
  <2> QED BY <1>0, <1>1, <1>5, <2>1 DEF LabInv, ServersSound, ServerSound
<1>8. ServesWorkspace'
  BY <1>1, <1>5 DEF LabInv, ServesWorkspace
<1> QED BY <1>0, <1>4, <1>6, <1>7, <1>8 DEF LabInv

\* Killing leaves nothing but the state behind.
LEMMA LabKilled ==
  ASSUME LabInv, NEW servers, server' = Killed(servers)
  PROVE  /\ server' \in [Commands -> [state : {"unborn", "alive", "dead"}, root : 0 .. MaxCommands,
                                      launch : 1 .. MaxLaunches, late : BOOLEAN]]
         /\ Servers' = Servers \ servers
         /\ \A s \in Commands : /\ server'[s].root = server[s].root /\ server'[s].launch = server[s].launch
                                /\ server'[s].late = server[s].late
<1>1. server \in [Commands -> [state : {"unborn", "alive", "dead"}, root : 0 .. MaxCommands,
                               launch : 1 .. MaxLaunches, late : BOOLEAN]]
  BY DEF LabInv, LabTyped
<1>2. \A s \in Commands : server'[s] = IF s \in servers THEN [server[s] EXCEPT !.state = "dead"] ELSE server[s]
  BY DEF Killed
<1>3. server' \in [Commands -> [state : {"unborn", "alive", "dead"}, root : 0 .. MaxCommands,
                                launch : 1 .. MaxLaunches, late : BOOLEAN]]
  BY <1>1 DEF Killed
<1> QED BY <1>1, <1>2, <1>3 DEF Servers

\* The holder of the lock, or who takes it, goes on; nobody else is between taking and giving it back.
LEMMA HolderGoes ==
  ASSUME ProcessTypeOK, LabInv, NEW t \in Commands, Still, InLab(t) \/ lab.lock = NoThread,
         labJob' \in [Threads -> [pc : {"none", "start", "reroot", "look", "orphans", "spawn", "record"},
                                  root : 0 .. MaxCommands]],
         \A u \in Threads \ {t} : labJob'[u] = labJob[u],
         labJob[t] # NoJob
  PROVE  /\ \A u \in Threads \ {t} : ~InLab(u) /\ JobSound(u)'
         /\ t \in Threads /\ t <= asked /\ asked' = asked /\ launch' = launch /\ app' = app
         /\ labJob[t].pc # "reroot" => (Rerooting => Rerooting')
         /\ JobSound(t)
<1>1. t \in Threads /\ asked' = asked /\ launch' = launch /\ app' = app /\ JobSound(t)
  BY Bounds DEF Still, Moves, LabInv, JobsSound
<1>2. t <= asked
  BY <1>1, Bounds DEF JobSound
<1>3. ASSUME NEW u \in Threads \ {t} PROVE ~InLab(u) /\ JobSound(u)'
  <2>1. JobSound(u) /\ JobSound(t) /\ labJob'[u] = labJob[u]
    BY <1>1, <1>3 DEF LabInv, JobsSound
  <2>2. ~InLab(u)
    BY <2>1, Bounds DEF JobSound
  <2> QED BY <1>1, <2>1, <2>2 DEF JobSound, InLab
<1>4. labJob[t].pc # "reroot" => (Rerooting => Rerooting')
  BY Bounds DEF Rerooting
<1> QED BY <1>1, <1>2, <1>3, <1>4

LEMMA BeginStartKeeps ==
  ASSUME ProcessTypeOK, LabInv, NEW t \in Commands, BeginStart(t)
  PROVE  LabInv' /\ Still
<1>0. /\ Still /\ labJob[t].pc = "start" /\ lab.lock = NoThread /\ UNCHANGED <<server, workspace>>
      /\ labJob[t] # NoJob /\ t \in Threads /\ t \in 0 .. NoThread
  BY NothingMoves, Bounds DEF BeginStart, LabAt, LabFree, NoJob, NoThread, Commands
<1>1. \E x \in [pc : {"none", "look"}, root : 0 .. MaxCommands] :
         /\ labJob' = [labJob EXCEPT ![t] = x]
         /\ IF lab.running THEN x.pc = "none" /\ lab' = lab
                           ELSE x.pc = "look" /\ lab' = [lab EXCEPT !.lock = t]
  <2>1. CASE lab.running
    <3>1. labJob' = [labJob EXCEPT ![t] = NoJob] /\ lab' = lab
      BY <2>1 DEF BeginStart, LabDone
    <3>2. NoJob \in [pc : {"none", "look"}, root : 0 .. MaxCommands] /\ NoJob.pc = "none"
      BY Bounds, DesktopAssumption DEF NoJob
    <3> QED BY <2>1, <3>1, <3>2
  <2>2. CASE ~lab.running
    <3>1. labJob' = [labJob EXCEPT ![t] = [labJob[t] EXCEPT !.pc = "look"]] /\ lab' = [lab EXCEPT !.lock = t]
      BY <2>2 DEF BeginStart, LabGoes
    <3>2. [labJob[t] EXCEPT !.pc = "look"] \in [pc : {"none", "look"}, root : 0 .. MaxCommands]
      BY <1>0 DEF LabInv, LabTyped
    <3>3. [labJob[t] EXCEPT !.pc = "look"].pc = "look"
      BY <1>0 DEF LabInv, LabTyped
    <3> QED BY <2>2, <3>1, <3>2, <3>3
  <2> QED BY <2>1, <2>2
<1>2. /\ labJob' \in [Threads -> [pc : {"none", "start", "reroot", "look", "orphans", "spawn", "record"},
                                  root : 0 .. MaxCommands]]
      /\ \A u \in Threads \ {t} : labJob'[u] = labJob[u]
      /\ IF lab.running THEN labJob'[t].pc = "none" /\ lab' = lab
                        ELSE labJob'[t].pc = "look" /\ lab' = [lab EXCEPT !.lock = t]
  BY <1>0, <1>1 DEF LabInv, LabTyped
<1>3. /\ \A u \in Threads \ {t} : ~InLab(u) /\ JobSound(u)'
      /\ t <= asked /\ asked' = asked /\ launch' = launch /\ app' = app /\ (Rerooting => Rerooting')
  BY <1>0, <1>2, HolderGoes
<1>4. /\ lab' \in [lock : 0 .. NoThread, child : Commands \cup {NoLab}, running : BOOLEAN]
      /\ lab'.child = lab.child /\ lab'.running = lab.running /\ (~lab.running => lab'.lock = t)
      /\ (lab.running <=> lab.child # NoLab)
  BY <1>0, <1>2 DEF LabInv, LabTyped
<1>5. LabTyped'
  BY <1>0, <1>2, <1>4 DEF LabInv, LabTyped
<1>6. JobSound(t)'
  BY <1>2, <1>3, <1>4, Bounds DEF JobSound, InLab
<1>7. Servers' = Servers /\ \A s \in Servers : labJob[s].pc = "record" => labJob'[s].pc = "record"
  BY <1>0, <1>2, Bounds DEF Servers
<1>8. ServersSound' /\ ServesWorkspace'
  BY <1>0, <1>3, <1>4, <1>7 DEF LabInv, ServersSound, ServerSound, ServesWorkspace
<1> QED BY <1>0, <1>3, <1>5, <1>6, <1>8 DEF LabInv, JobsSound

LEMMA BeginRerootKeeps ==
  ASSUME ProcessTypeOK, LabInv, NEW t \in Commands, BeginReroot(t)
  PROVE  LabInv' /\ Still
<1>0. /\ Still /\ labJob[t].pc = "reroot" /\ lab.lock = NoThread /\ UNCHANGED workspace
      /\ labJob[t] # NoJob /\ t \in Threads /\ t \in 0 .. NoThread
  BY NothingMoves, Bounds DEF BeginReroot, LabAt, LabFree, NoJob, NoThread, Commands
<1>1. CASE ~lab.running
  <2>1. labJob' = [labJob EXCEPT ![t] = NoJob] /\ lab' = lab /\ server' = server /\ NoJob.pc = "none"
    BY <1>1 DEF BeginReroot, LabDone, NoJob
  <2>2. /\ labJob' \in [Threads -> [pc : {"none", "start", "reroot", "look", "orphans", "spawn", "record"},
                                    root : 0 .. MaxCommands]]
        /\ \A u \in Threads \ {t} : labJob'[u] = labJob[u]
        /\ labJob'[t].pc = "none"
    BY <1>0, <2>1, Bounds DEF LabInv, LabTyped, NoJob
  <2>3. /\ \A u \in Threads \ {t} : ~InLab(u) /\ JobSound(u)'
        /\ t <= asked /\ asked' = asked /\ launch' = launch /\ app' = app
    BY <1>0, <2>2, HolderGoes
  <2>4. LabTyped'
    BY <1>0, <2>1, <2>2 DEF LabInv, LabTyped
  <2>5. JobSound(t)'
    BY <2>2, <2>3, Bounds DEF JobSound, InLab
  <2>6. Servers' = Servers /\ \A s \in Servers : labJob[s].pc = "record" => labJob'[s].pc = "record"
    BY <1>0, <2>1, <2>2, Bounds DEF Servers
  <2>7. ServersSound' /\ ServesWorkspace'
    BY <1>0, <1>1, <2>1, <2>3, <2>6 DEF LabInv, ServersSound, ServerSound, ServesWorkspace
  <2> QED BY <1>0, <2>3, <2>4, <2>5, <2>7 DEF LabInv, JobsSound
<1>2. CASE lab.running
  <2>1. /\ labJob' = [labJob EXCEPT ![t].pc = "look"] /\ server' = Killed({lab.child} \ {NoLab})
        /\ lab' = [lab EXCEPT !.lock = t, !.child = NoLab, !.running = FALSE]
    BY <1>2 DEF BeginReroot, LabGoes, KillLab
  <2>2. /\ labJob' \in [Threads -> [pc : {"none", "start", "reroot", "look", "orphans", "spawn", "record"},
                                    root : 0 .. MaxCommands]]
        /\ \A u \in Threads \ {t} : labJob'[u] = labJob[u]
        /\ labJob'[t].pc = "look"
    BY <1>0, <2>1 DEF LabInv, LabTyped
  <2>3. /\ \A u \in Threads \ {t} : ~InLab(u) /\ JobSound(u)'
        /\ t <= asked /\ asked' = asked /\ launch' = launch /\ app' = app
    BY <1>0, <2>2, HolderGoes
  <2>4. /\ lab' \in [lock : 0 .. NoThread, child : Commands \cup {NoLab}, running : BOOLEAN]
        /\ lab'.child = NoLab /\ ~lab'.running /\ lab'.lock = t
    BY <1>0, <2>1 DEF LabInv, LabTyped
  <2>5. LabTyped'
    BY <1>0, <2>1, <2>2, <2>4, LabKilled DEF LabInv, LabTyped
  <2>6. JobSound(t)'
    BY <2>2, <2>3, <2>4, Bounds DEF JobSound, InLab
  <2>7. Servers' = Servers \ ({lab.child} \ {NoLab})
    BY <2>1, LabKilled
  <2>8. NoLab \notin Commands /\ Servers \subseteq Commands
    BY DEF NoLab, Commands, Servers
  <2>9. ASSUME NEW s \in Servers' PROVE s \in Servers /\ ServerSound(s)'
    <3>1. s \in Servers /\ s # lab.child /\ s \in Commands /\ s \in Threads
      BY <2>7, <2>8, <2>9, Bounds
    <3>2. server'[s].launch = server[s].launch /\ server'[s].late = server[s].late
      BY <2>1, <3>1, LabKilled
    <3>3. labJob[s].pc = "record" => labJob'[s].pc = "record"
      BY <1>0, <2>2, <3>1
    <3>4. ServerSound(s)
      BY <3>1 DEF LabInv, ServersSound
    <3> QED BY <2>3, <3>1, <3>2, <3>3, <3>4 DEF ServerSound
  <2>10. ServersSound' /\ ServesWorkspace'
    BY <2>4, <2>9 DEF LabInv, ServersSound, ServesWorkspace
  <2> QED BY <1>0, <2>3, <2>5, <2>6, <2>10 DEF LabInv, JobsSound
<1> QED BY <1>1, <1>2

\* The kill at exit does not wait for the lock: what is spawned and not recorded escapes it.
LEMMA ExitLabKeeps ==
  ASSUME ProcessTypeOK, LabInv, ExitLab
  PROVE  LabInv' /\ Moves /\ app = "lab" /\ app' = "core"
<1>0. /\ Moves /\ app = "lab" /\ app' = "core" /\ asked' = asked /\ launch' = launch
      /\ UNCHANGED <<workspace, labJob>> /\ (Rerooting' <=> Rerooting)
  BY PhaseMoves DEF ExitLab, Phases, BeforeExit, Moves, Rerooting
<1>1. /\ server' = Killed({lab.child} \ {NoLab})
      /\ lab' = [lab EXCEPT !.lock = lab.lock, !.child = NoLab, !.running = FALSE]
  BY DEF ExitLab, KillLab
<1>2. /\ lab' \in [lock : 0 .. NoThread, child : Commands \cup {NoLab}, running : BOOLEAN]
      /\ lab'.child = NoLab /\ ~lab'.running /\ lab'.lock = lab.lock
  BY <1>1 DEF LabInv, LabTyped
<1>3. Servers' = Servers \ ({lab.child} \ {NoLab})
  BY <1>1, LabKilled
<1>4. LabTyped'
  BY <1>0, <1>1, <1>2, LabKilled DEF LabInv, LabTyped
<1>5. JobsSound'
  <2> SUFFICES ASSUME NEW t \in Threads PROVE JobSound(t)'
    BY DEF JobsSound
  <2>1. JobSound(t) /\ Servers' \subseteq Servers
    BY <1>3 DEF LabInv, JobsSound
  <2>2. labJob[t].pc = "record" => server'[t].root = server[t].root
    BY <1>1, <2>1, LabKilled DEF JobSound, InLab
  <2> QED BY <1>0, <1>2, <2>1, <2>2 DEF JobSound, InLab
<1>6. NoLab \notin Commands /\ Servers \subseteq Commands
  BY DEF NoLab, Commands, Servers
<1>7. ASSUME NEW s \in Servers' PROVE s \in Servers /\ ServerSound(s)'
  <2>1. s \in Servers /\ s # lab.child /\ s \in Commands
    BY <1>3, <1>6, <1>7
  <2>2. server'[s].launch = server[s].launch /\ server'[s].late = server[s].late
    BY <1>1, <2>1, LabKilled
  <2>3. ServerSound(s)
    BY <2>1 DEF LabInv, ServersSound
  <2> QED BY <1>0, <2>1, <2>2, <2>3 DEF ServerSound
<1>8. ServersSound' /\ ServesWorkspace'
  BY <1>2, <1>7 DEF LabInv, ServersSound, ServesWorkspace
<1> QED BY <1>0, <1>4, <1>5, <1>8 DEF LabInv

\* The holder gives the lock back with nothing in its hands.
LEMMA HolderGivesUp ==
  ASSUME ProcessTypeOK, LabInv, NEW t \in Commands, Still, InLab(t), labJob[t].pc # "record",
         LabDone(t), lab' = [lab EXCEPT !.lock = NoThread], UNCHANGED <<server, workspace>>
  PROVE  LabInv'
<1>0. labJob[t] # NoJob /\ t \in Threads /\ NoThread \in 0 .. NoThread
  BY Bounds DEF InLab, NoJob
<1>1. labJob' = [labJob EXCEPT ![t] = NoJob] /\ NoJob.pc = "none"
  BY DEF LabDone, NoJob
<1>2. /\ labJob' \in [Threads -> [pc : {"none", "start", "reroot", "look", "orphans", "spawn", "record"},
                                  root : 0 .. MaxCommands]]
      /\ (\A u \in Threads \ {t} : labJob'[u] = labJob[u]) /\ labJob'[t].pc = "none"
  <2>1. 0 \in 0 .. MaxCommands
    BY DesktopAssumption
  <2> QED BY <1>0, <1>1, <2>1 DEF LabInv, LabTyped, NoJob
<1>3. /\ \A u \in Threads \ {t} : ~InLab(u) /\ JobSound(u)'
      /\ t <= asked /\ asked' = asked /\ launch' = launch /\ app' = app
      /\ (labJob[t].pc # "reroot" => (Rerooting => Rerooting'))
  BY <1>0, <1>2, HolderGoes
<1>4. Rerooting => Rerooting'
  BY <1>3 DEF InLab
<1>5. /\ lab' \in [lock : 0 .. NoThread, child : Commands \cup {NoLab}, running : BOOLEAN]
      /\ lab'.child = lab.child /\ lab'.running = lab.running
  BY <1>0 DEF LabInv, LabTyped
<1>6. LabTyped'
  BY <1>2, <1>5 DEF LabInv, LabTyped
<1>7. JobSound(t)'
  BY <1>2, <1>3, Bounds DEF JobSound, InLab
<1>8. Servers' = Servers /\ \A s \in Servers : labJob[s].pc = "record" => labJob'[s].pc = "record"
  BY <1>2, Bounds DEF Servers
<1>9. ServersSound' /\ ServesWorkspace'
  BY <1>3, <1>4, <1>5, <1>8 DEF LabInv, ServersSound, ServerSound, ServesWorkspace
<1> QED BY <1>3, <1>6, <1>7, <1>9 DEF LabInv, JobsSound

\* The holder goes on with the lock in its hands.
LEMMA HolderGoesOn ==
  ASSUME ProcessTypeOK, LabInv, NEW t \in Commands, Still, InLab(t), labJob[t].pc # "record",
         NEW pc \in {"orphans", "spawn"}, labJob'[t].pc = pc,
         labJob' \in [Threads -> [pc : {"none", "start", "reroot", "look", "orphans", "spawn", "record"},
                                  root : 0 .. MaxCommands]],
         \A u \in Threads \ {t} : labJob'[u] = labJob[u],
         labJob'[t].root = workspace \/ Rerooting,
         UNCHANGED <<lab, workspace>>,
         NEW servers \in SUBSET Servers, server' = Killed(servers), pc = "spawn" => servers = Servers
  PROVE  LabInv'
<1>0. labJob[t] # NoJob /\ t \in Threads
  BY Bounds DEF InLab, NoJob
<1>1. /\ \A u \in Threads \ {t} : ~InLab(u) /\ JobSound(u)'
      /\ t <= asked /\ asked' = asked /\ launch' = launch /\ app' = app /\ JobSound(t)
      /\ (labJob[t].pc # "reroot" => (Rerooting => Rerooting'))
  BY <1>0, HolderGoes
<1>2. Rerooting => Rerooting'
  BY <1>1 DEF InLab
<1>3. Servers' = Servers \ servers
  BY LabKilled
<1>4. LabTyped'
  BY LabKilled DEF LabInv, LabTyped
<1>5. lab.lock = t /\ lab.child = NoLab
  BY <1>1 DEF JobSound
<1>6. JobSound(t)'
  BY <1>1, <1>2, <1>3, <1>5, Bounds DEF JobSound, InLab
<1>7. ASSUME NEW s \in Servers' PROVE s \in Servers /\ ServerSound(s)'
  <2>1. s \in Servers /\ s \in Commands /\ s \in Threads
    BY <1>3, <1>7, Bounds DEF Servers
  <2>2. server'[s].launch = server[s].launch /\ server'[s].late = server[s].late
    BY <2>1, LabKilled
  <2>3. ServerSound(s)
    BY <2>1 DEF LabInv, ServersSound
  <2>4. labJob[s].pc = "record" => labJob'[s].pc = "record"
    BY <2>1
  <2> QED BY <1>1, <2>1, <2>2, <2>3, <2>4 DEF ServerSound
<1>8. ServersSound'
  BY <1>7 DEF LabInv, ServersSound
<1>9. ServesWorkspace'
  BY <1>5 DEF LabInv, LabTyped, ServesWorkspace
<1> QED BY <1>1, <1>4, <1>6, <1>8, <1>9 DEF LabInv, JobsSound

LEMMA NobodyKilled == ASSUME LabInv, UNCHANGED server PROVE server' = Killed({}) /\ {} \in SUBSET Servers
  BY DEF Killed, LabInv, LabTyped

LEMMA LookKeeps ==
  ASSUME ProcessTypeOK, LabInv, NEW t \in Commands, Look(t)
  PROVE  LabInv' /\ Still
<1>0. labJob[t].pc = "look" /\ InLab(t) /\ UNCHANGED <<server, workspace>> /\ t \in Threads
  BY Bounds DEF Look, LabAt, InLab
<1>1. CASE Fault /\ LabDone(t) /\ lab' = [lab EXCEPT !.lock = NoThread]
  BY <1>0, <1>1, FaultMoves, HolderGivesUp
<1>2. CASE /\ UNCHANGED <<process, lab>>
           /\ labJob' = [labJob EXCEPT ![t] = [pc |-> "orphans", root |-> workspace]]
  <2>1. Still /\ lab' = lab
    BY <1>2, NothingMoves
  <2>2. /\ labJob' \in [Threads -> [pc : {"none", "start", "reroot", "look", "orphans", "spawn", "record"},
                                    root : 0 .. MaxCommands]]
        /\ labJob'[t].pc = "orphans" /\ labJob'[t].root = workspace
        /\ \A u \in Threads \ {t} : labJob'[u] = labJob[u]
    BY <1>0, <1>2 DEF LabInv, LabTyped
  <2> QED BY <1>0, <2>1, <2>2, NobodyKilled, HolderGoesOn
<1> QED BY <1>1, <1>2 DEF Look

LEMMA KillOrphansKeeps ==
  ASSUME ProcessTypeOK, LabInv, NEW t \in Commands, KillOrphans(t)
  PROVE  LabInv' /\ Still
<1>0. /\ labJob[t].pc = "orphans" /\ InLab(t) /\ UNCHANGED <<lab, workspace>> /\ t \in Threads /\ Still
      /\ server' = Killed(Servers) /\ JobSound(t)
  BY Bounds, NothingMoves DEF KillOrphans, LabAt, InLab, Orphans, LabInv, JobsSound
<1>1. labJob' = [labJob EXCEPT ![t].pc = "spawn"]
  BY DEF KillOrphans, LabGoes
<1>2. /\ labJob' \in [Threads -> [pc : {"none", "start", "reroot", "look", "orphans", "spawn", "record"},
                                  root : 0 .. MaxCommands]]
      /\ labJob'[t].pc = "spawn" /\ labJob'[t].root = labJob[t].root
      /\ \A u \in Threads \ {t} : labJob'[u] = labJob[u]
  BY <1>0, <1>1 DEF LabInv, LabTyped
<1>3. labJob'[t].root = workspace \/ Rerooting
  BY <1>0, <1>2 DEF JobSound
<1> QED BY <1>0, <1>2, <1>3, HolderGoesOn

LEMMA SpawnLabKeeps ==
  ASSUME ProcessTypeOK, LabInv, NEW t \in Commands, SpawnLab(t)
  PROVE  LabInv' /\ Still
<1>0. labJob[t].pc = "spawn" /\ InLab(t) /\ UNCHANGED workspace /\ t \in Threads /\ labJob[t] # NoJob
  BY Bounds DEF SpawnLab, LabAt, InLab, NoJob
<1>1. CASE Fault /\ UNCHANGED server /\ LabDone(t) /\ lab' = [lab EXCEPT !.lock = NoThread]
  BY <1>0, <1>1, FaultMoves, HolderGivesUp
<1>2. CASE /\ UNCHANGED <<process, lab>> /\ LabGoes(t, "record")
           /\ server' = [server EXCEPT ![t] = [state |-> "alive", root |-> labJob[t].root,
                                               launch |-> launch, late |-> FALSE]]
  <2>1. Still /\ lab' = lab
    BY <1>2, NothingMoves
  <2>2. labJob' = [labJob EXCEPT ![t].pc = "record"]
    BY <1>2 DEF LabGoes
  <2>3. /\ labJob' \in [Threads -> [pc : {"none", "start", "reroot", "look", "orphans", "spawn", "record"},
                                    root : 0 .. MaxCommands]]
        /\ labJob'[t].pc = "record" /\ labJob'[t].root = labJob[t].root
        /\ (\A u \in Threads \ {t} : labJob'[u] = labJob[u]) /\ labJob[t].root \in 0 .. MaxCommands
    BY <1>0, <2>2 DEF LabInv, LabTyped
  <2>4. /\ \A u \in Threads \ {t} : ~InLab(u) /\ JobSound(u)'
        /\ t <= asked /\ asked' = asked /\ launch' = launch /\ app' = app /\ JobSound(t)
        /\ (labJob[t].pc # "reroot" => (Rerooting => Rerooting'))
    BY <1>0, <2>1, <2>3, HolderGoes
  <2>5. /\ server' \in [Commands -> [state : {"unborn", "alive", "dead"}, root : 0 .. MaxCommands,
                                     launch : 1 .. MaxLaunches, late : BOOLEAN]]
        /\ server'[t].state = "alive" /\ server'[t].root = labJob[t].root /\ server'[t].launch = launch
        /\ \A s \in Commands \ {t} : server'[s] = server[s]
    BY <1>2, <2>3 DEF LabInv, LabTyped, ProcessTypeOK
  <2>6. Servers = {} /\ lab.lock = t /\ lab.child = NoLab
    BY <1>0, <2>4 DEF JobSound
  <2>7. Servers' = {t}
    BY <2>5, <2>6 DEF Servers
  <2>8. LabTyped'
    BY <1>0, <2>1, <2>3, <2>5 DEF LabInv, LabTyped
  <2>9. JobSound(t)'
    BY <1>0, <2>1, <2>3, <2>4, <2>5, <2>6, <2>7, Bounds DEF JobSound, InLab
  <2>10. ServerSound(t)'
    BY <2>3, <2>4, <2>5, Bounds DEF ServerSound
  <2>11. ServersSound' /\ ServesWorkspace'
    BY <2>1, <2>6, <2>7, <2>10 DEF LabInv, LabTyped, ServersSound, ServesWorkspace
  <2> QED BY <2>1, <2>4, <2>8, <2>9, <2>11 DEF LabInv, JobsSound
<1> QED BY <1>1, <1>2 DEF SpawnLab

LEMMA RecordLabKeeps ==
  ASSUME ProcessTypeOK, LabInv, NEW t \in Commands, RecordLab(t)
  PROVE  LabInv' /\ Still
<1>0. /\ labJob[t].pc = "record" /\ InLab(t) /\ UNCHANGED workspace /\ t \in Threads /\ labJob[t] # NoJob
      /\ Still /\ Alive
  BY Bounds, NothingMoves DEF RecordLab, LabAt, InLab, NoJob
<1>1. /\ labJob' = [labJob EXCEPT ![t] = NoJob] /\ NoJob.pc = "none"
      /\ lab' = [lock |-> NoThread, child |-> t, running |-> TRUE]
      /\ server' = [server EXCEPT ![t].late = app \in {"core", "waiting", "cleanup"}]
  BY DEF RecordLab, LabDone, NoJob
<1>2. /\ labJob' \in [Threads -> [pc : {"none", "start", "reroot", "look", "orphans", "spawn", "record"},
                                  root : 0 .. MaxCommands]]
      /\ (\A u \in Threads \ {t} : labJob'[u] = labJob[u]) /\ labJob'[t].pc = "none"
  <2>1. 0 \in 0 .. MaxCommands
    BY DesktopAssumption
  <2> QED BY <1>0, <1>1, <2>1 DEF LabInv, LabTyped, NoJob
<1>3. /\ \A u \in Threads \ {t} : ~InLab(u) /\ JobSound(u)'
      /\ t <= asked /\ asked' = asked /\ launch' = launch /\ app' = app /\ JobSound(t)
      /\ (labJob[t].pc # "reroot" => (Rerooting => Rerooting'))
  BY <1>0, <1>2, HolderGoes
<1>4. Rerooting => Rerooting'
  BY <1>0, <1>3
<1> DEFINE late == app \in {"core", "waiting", "cleanup"}
<1>5. late \in BOOLEAN /\ server' = [server EXCEPT ![t].late = late] /\ (app \in AfterLab => late)
  BY <1>0, <1>1 DEF AfterLab, Alive
<1> HIDE DEF late
<1>15. /\ server' \in [Commands -> [state : {"unborn", "alive", "dead"}, root : 0 .. MaxCommands,
                                    launch : 1 .. MaxLaunches, late : BOOLEAN]]
       /\ (server'[t].late <=> late)
       /\ \A s \in Commands : /\ server'[s].state = server[s].state /\ server'[s].root = server[s].root
                              /\ server'[s].launch = server[s].launch
  BY <1>5 DEF LabInv, LabTyped
<1>6. /\ lab' \in [lock : 0 .. NoThread, child : Commands \cup {NoLab}, running : BOOLEAN]
      /\ lab'.child = t /\ lab'.running /\ t # NoLab
  BY <1>1, Bounds DEF NoLab, Commands
<1>7. LabTyped'
  BY <1>0, <1>2, <1>5, <1>15, <1>6 DEF LabInv, LabTyped
<1>8. Servers' = Servers /\ Servers \subseteq {t} /\ server[t].root = labJob[t].root
  BY <1>0, <1>3, <1>5, <1>15 DEF Servers, JobSound
<1>9. JobSound(t)'
  BY <1>2, <1>3, Bounds DEF JobSound, InLab
<1>10. ASSUME NEW s \in Servers' PROVE s = t /\ ServerSound(s)'
  <2>1. s = t /\ ServerSound(t)
    BY <1>8, <1>10 DEF LabInv, ServersSound
  <2>2. app \in AfterLab => server'[t].late
    BY <1>5, <1>15
  <2> QED BY <1>3, <1>5, <1>15, <1>6, <2>1, <2>2 DEF ServerSound
<1>11. ServersSound'
  BY <1>10 DEF ServersSound
<1>12. ServesWorkspace'
  BY <1>0, <1>3, <1>4, <1>5, <1>15, <1>6, <1>8 DEF JobSound, ServesWorkspace
<1> QED BY <1>0, <1>3, <1>7, <1>9, <1>11, <1>12 DEF LabInv, JobsSound

\* What dies unnoticed stays recorded.
LEMMA LabDiesKeeps ==
  ASSUME ProcessTypeOK, LabInv, NEW r \in Commands, LabDies(r)
  PROVE  LabInv' /\ Still
<1>0. /\ Still /\ UNCHANGED <<lab, workspace, labJob>> /\ server' = Killed({r}) /\ (Rerooting' <=> Rerooting)
      /\ asked' = asked /\ launch' = launch /\ app' = app
  BY FaultMoves DEF LabDies, Rerooting, Still, Moves
<1>1. Servers' = Servers \ {r}
  BY <1>0, LabKilled
<1>2. LabTyped'
  BY <1>0, LabKilled DEF LabInv, LabTyped
<1>3. JobsSound'
  <2> SUFFICES ASSUME NEW t \in Threads PROVE JobSound(t)'
    BY DEF JobsSound
  <2>1. JobSound(t) /\ Servers' \subseteq Servers
    BY <1>1 DEF LabInv, JobsSound
  <2>2. labJob[t].pc = "record" => server'[t].root = server[t].root
    BY <1>0, <2>1, LabKilled DEF JobSound, InLab
  <2> QED BY <1>0, <2>1, <2>2 DEF JobSound, InLab
<1>4. ASSUME NEW s \in Servers' PROVE s \in Servers /\ ServerSound(s)'
  <2>1. s \in Servers /\ s \in Commands
    BY <1>1, <1>4 DEF Servers
  <2>2. server'[s].launch = server[s].launch /\ server'[s].late = server[s].late
    BY <1>0, <2>1, LabKilled
  <2>3. ServerSound(s)
    BY <2>1 DEF LabInv, ServersSound
  <2> QED BY <1>0, <2>1, <2>2, <2>3 DEF ServerSound
<1>5. ServersSound'
  BY <1>4 DEF LabInv, ServersSound
<1>6. ServesWorkspace'
  <2>1. lab.running => lab.child \in Commands
    BY DEF LabInv, LabTyped
  <2>2. lab.running => server'[lab.child].root = server[lab.child].root
    BY <1>0, <2>1, LabKilled
  <2> QED BY <1>0, <2>2 DEF LabInv, ServesWorkspace
<1> QED BY <1>0, <1>2, <1>3, <1>5, <1>6 DEF LabInv

LEMMA LabStepKeeps ==
  ASSUME ProcessTypeOK, LabInv, LabStep
  PROVE  LabInv' /\ Moves /\ (app' = app \/ (app = "lab" /\ app' = "core"))
BY LabAsked, ExitLabKeeps, BeginStartKeeps, BeginRerootKeeps, LookKeeps, KillOrphansKeeps, SpawnLabKeeps,
   RecordLabKeeps, LabDiesKeeps DEF LabStep, LabGoesOn, Still

LEMMA LabCorrect == ASSUME ProcessTypeOK, LabInv PROVE LabIsKnown
<1>1. LabTypeOK
  <2>1. /\ lab.lock \in 0 .. NoThread /\ lab.child \in 0 .. MaxCommands /\ lab.running \in BOOLEAN
    BY Bounds DEF LabInv, LabTyped, NoLab, Commands
  <2>2. \A t \in Commands : InLab(t) => lab.lock = t
    BY Bounds DEF LabInv, JobsSound, JobSound
  <2> QED BY <2>1, <2>2 DEF LabTypeOK, InLab
<1>2. Cardinality(Servers) <= 1
  <2>1. CASE Servers = {}
    BY <2>1, FS_EmptySet
  <2>2. CASE Servers # {}
    <3>1. PICK s : Servers = {s}
      BY <2>2 DEF LabInv, ServersSound
    <3> QED BY <3>1, FS_Singleton
  <2> QED BY <2>1, <2>2
<1>3. \A s \in Servers : server[s].launch = launch => lab.child = s \/ labJob[s].pc = "record"
  BY DEF LabInv, ServersSound, ServerSound
<1>4. (\A t \in Commands : labJob[t] = NoJob) => ~Rerooting
  BY DEF Rerooting, NoJob
<1> QED BY <1>1, <1>2, <1>3, <1>4 DEF LabIsKnown, LabInv, ServesWorkspace
-----------------------------------------------------------------------------
(* OpenCode *)

Children == [pid : 0 .. MaxSpawns, handle : BOOLEAN]
Sidecars == [url : 0 .. MaxSpawns, port : 0 .. MaxSpawns, child : Children, shutting : BOOLEAN]
Procs == [state : {"unborn", "alive", "exited"}, killed : BOOLEAN,
          watcher : {"none", "watching", "signalled", "cleared"}, port : 0 .. MaxSpawns]
Cmds == [kind : {"none", "start", "config", "stop"},
         pc : {"idle", "queued", "kill", "confirm", "change", "start", "attempt", "deploy", "probe",
               "again", "publish", "leave"},
         child : Children, then : {"leave", "start", "change", "again"},
         restart : BOOLEAN, early : BOOLEAN, try : Nat, port : 0 .. MaxSpawns]

SidecarTyped ==
    /\ lock \in 0 .. NoThread
    /\ sidecar \in Sidecars
    /\ sidecar.child.pid = NoPid => sidecar.child = NoChild
    /\ proc \in [Pids -> Procs]
    /\ cmd \in [Threads -> Cmds]

Holds(t) == cmd[t].pc \notin {"idle", "queued"}
Ending == {"kill", "confirm"}
Starting == {"probe", "publish"}

\* Who waits has nothing in its hands; whose process is in nobody's hands is the holder of the mutex.
CmdSound(t) ==
    /\ t > asked => cmd[t] = Idle
    /\ ~Holds(t) => cmd[t].child = NoChild
    /\ Holds(t) => lock = t /\ sidecar.child = NoChild /\ sidecar.url = 0
    /\ Holds(t) /\ cmd[t].pc \notin Ending \cup Starting => LivePids = {}
    /\ cmd[t].pc \in Ending \cup Starting =>
          cmd[t].child.pid \in Pids /\ LivePids \subseteq {cmd[t].child.pid}
    /\ cmd[t].pc = "confirm" => ~cmd[t].child.handle
    /\ cmd[t].pc \in Starting => cmd[t].child.handle

CmdsSound == \A t \in Threads : CmdSound(t)

Owned == (\A t \in Threads : ~Holds(t)) => LivePids \subseteq {sidecar.child.pid}

Watched == \A p \in Pids : ExitSignalled(p) => proc[p].state = "exited"

Published == sidecar.url # 0 => sidecar.child.handle /\ proc[sidecar.child.pid].port = sidecar.url

\* Nothing is started any more, and nothing is alive but what is remembered without a handle.
Stopping(t) == cmd[t].pc \in Ending \cup {"leave"} /\ cmd[t].then = "leave"

Stopped ==
    /\ sidecar.url = 0 /\ ~sidecar.child.handle
    /\ \A t \in Threads : Holds(t) => Stopping(t) /\ ~cmd[t].child.handle

ShutInOrder ==
    /\ app \in BeforeExit => ~sidecar.shutting
    /\ ~sidecar.shutting => cmd[Main] = Idle
    /\ cmd[Main].pc # "idle" => cmd[Main].kind = "stop"
    /\ cmd[Main].pc = "idle" => cmd[Main] = Idle
    /\ Holds(Main) => Stopping(Main)
    /\ app \in AfterSidecar => sidecar.shutting /\ cmd[Main] = Idle
    /\ sidecar.shutting /\ cmd[Main] = Idle => Stopped

SidecarInv == SidecarTyped /\ CmdsSound /\ Owned /\ Watched /\ Published /\ ShutInOrder

LEMMA IdleIsACmd == Idle \in Cmds /\ Idle.pc = "idle" /\ Idle.child = NoChild /\ NoChild \in Children
  BY SidecarAssumption DEF Idle, Cmds, NoChild, Children, NoPid

LEMMA SidecarStarts == ASSUME ProcessTypeOK, SidecarInit, app = "setup" PROVE SidecarInv
<1>1. /\ lock \in 0 .. NoThread /\ sidecar \in Sidecars /\ sidecar.child = NoChild /\ ~sidecar.shutting
      /\ sidecar.url = 0
  BY IdleIsACmd, Bounds, SidecarAssumption DEF SidecarInit, Sidecars
<1>2. proc \in [Pids -> Procs] /\ \A p \in Pids : proc[p].watcher = "none" /\ proc[p].state = "unborn"
  BY SidecarAssumption DEF SidecarInit, Unborn, Procs
<1>3. cmd \in [Threads -> Cmds] /\ \A t \in Threads : cmd[t] = Idle
  BY IdleIsACmd DEF SidecarInit
<1>4. SidecarTyped
  BY <1>1, <1>2, <1>3 DEF SidecarTyped
<1>5. CmdsSound
  BY <1>3, IdleIsACmd DEF CmdsSound, CmdSound, Holds, Ending, Starting
<1>6. Owned /\ Watched /\ Published
  BY <1>1, <1>2 DEF Owned, LivePids, Watched, ExitSignalled, Published
<1>7. ShutInOrder
  BY <1>1, <1>3, IdleIsACmd, Bounds DEF ShutInOrder, BeforeExit, AfterSidecar, Holds
<1> QED BY <1>4, <1>5, <1>6, <1>7 DEF SidecarInv

LEMMA SidecarUndisturbed ==
  ASSUME ProcessTypeOK, SidecarInv, Moves, UNCHANGED sidecarVars, app' \in AfterSidecar => app \in AfterSidecar
  PROVE  SidecarInv'
<1>0. lock' = lock /\ sidecar' = sidecar /\ proc' = proc /\ cmd' = cmd /\ LivePids' = LivePids
      /\ (app' \in BeforeExit => app \in BeforeExit)
  BY DEF sidecarVars, LivePids, Moves
<1>1. CmdsSound'
  <2> SUFFICES ASSUME NEW t \in Threads PROVE CmdSound(t)'
    BY DEF CmdsSound
  <2>1. (t > asked' => t > asked) /\ CmdSound(t)
    BY Bounds DEF Moves, ProcessTypeOK, SidecarInv, CmdsSound
  <2> QED BY <1>0, <2>1 DEF CmdSound, Holds
<1>2. SidecarTyped' /\ Owned' /\ Watched' /\ Published'
  BY <1>0 DEF SidecarInv, SidecarTyped, Owned, Holds, Watched, ExitSignalled, Published
<1>3. ShutInOrder'
  BY <1>0 DEF SidecarInv, ShutInOrder, Stopped, Stopping, Holds
<1> QED BY <1>1, <1>2, <1>3 DEF SidecarInv

LEMMA SidecarRelaunched ==
  ASSUME ProcessTypeOK, ProcessTypeOK', SidecarRelaunch, app' = "setup"
  PROVE  SidecarInv'
<1>1. /\ lock' \in 0 .. NoThread /\ sidecar' \in Sidecars /\ sidecar'.child = NoChild /\ ~sidecar'.shutting
      /\ sidecar'.url = 0
  BY IdleIsACmd, Bounds, SidecarAssumption DEF SidecarRelaunch, Sidecars
<1>2. proc' \in [Pids -> Procs] /\ \A p \in Pids : proc'[p].watcher = "none" /\ proc'[p].state = "unborn"
  BY SidecarAssumption DEF SidecarRelaunch, Unborn, Procs
<1>3. cmd' \in [Threads -> Cmds] /\ \A t \in Threads : cmd'[t] = Idle
  BY IdleIsACmd DEF SidecarRelaunch
<1>4. SidecarTyped'
  BY <1>1, <1>2, <1>3 DEF SidecarTyped
<1>5. CmdsSound'
  BY <1>3, IdleIsACmd DEF CmdsSound, CmdSound, Holds, Ending, Starting
<1>6. Owned' /\ Watched' /\ Published'
  BY <1>1, <1>2 DEF Owned, LivePids, Watched, ExitSignalled, Published
<1>7. ShutInOrder'
  BY <1>1, <1>3, IdleIsACmd, Bounds DEF ShutInOrder, BeforeExit, AfterSidecar, Holds
<1> QED BY <1>4, <1>5, <1>6, <1>7 DEF SidecarInv

\* While a thread has the mutex or takes it, nobody else has anything in its hands.
LEMMA HolderAlone ==
  ASSUME ProcessTypeOK, SidecarInv, Still, NEW t \in Threads,
         Holds(t) \/ (lock = NoThread /\ cmd[t].pc = "queued"),
         \A u \in Threads \ {t} : cmd'[u] = cmd[u]
  PROVE  /\ \A u \in Threads \ {t} : ~Holds(u) /\ ~Holds(u)' /\ CmdSound(u)'
         /\ t <= asked' /\ asked' = asked /\ app' = app /\ CmdSound(t)
<1>1. asked' = asked /\ app' = app /\ CmdSound(t)
  BY DEF Still, SidecarInv, CmdsSound
<1>2. t <= asked
  BY <1>1, Bounds, IdleIsACmd DEF CmdSound, Holds
<1>3. ASSUME NEW u \in Threads \ {t} PROVE ~Holds(u) /\ ~Holds(u)' /\ CmdSound(u)'
  <2>1. CmdSound(u) /\ cmd'[u] = cmd[u]
    BY DEF SidecarInv, CmdsSound
  <2>2. ~Holds(u)
    BY <1>1, <2>1, Bounds DEF CmdSound
  <2>3. ~Holds(u)'
    BY <2>1, <2>2 DEF Holds
  <2>4. CmdSound(u)'
    BY <1>1, <2>1, <2>2, <2>3 DEF CmdSound, Holds, Ending, Starting
  <2> QED BY <2>2, <2>3, <2>4
<1> QED BY <1>1, <1>2, <1>3

\* A thread is done: it gives the mutex back, or was refused.
LEMMA CmdReturns ==
  ASSUME ProcessTypeOK, SidecarInv, Still, NEW t \in Threads,
         Holds(t) \/ (lock = NoThread /\ cmd[t].pc = "queued"),
         cmd' = [cmd EXCEPT ![t] = Idle], lock' \in 0 .. NoThread,
         sidecar' \in Sidecars, sidecar'.child.pid = NoPid => sidecar'.child = NoChild,
         sidecar'.shutting = sidecar.shutting, proc' \in [Pids -> Procs],
         LivePids' \subseteq {sidecar'.child.pid}, Watched', Published',
         sidecar.shutting /\ (t = Main \/ cmd[Main] = Idle) => sidecar'.url = 0 /\ ~sidecar'.child.handle
  PROVE  SidecarInv'
<1>1. cmd' \in [Threads -> Cmds] /\ cmd'[t] = Idle /\ \A u \in Threads \ {t} : cmd'[u] = cmd[u]
  BY IdleIsACmd DEF SidecarInv, SidecarTyped
<1>2. /\ \A u \in Threads \ {t} : ~Holds(u) /\ ~Holds(u)' /\ CmdSound(u)'
      /\ t <= asked' /\ asked' = asked /\ app' = app /\ CmdSound(t)
  BY <1>1, HolderAlone
<1>3. ~Holds(t)' /\ CmdSound(t)'
  BY <1>1, <1>2, IdleIsACmd DEF CmdSound, Holds, Ending, Starting
<1>4. \A u \in Threads : ~Holds(u)' /\ CmdSound(u)'
  BY <1>2, <1>3
<1>5. SidecarTyped' /\ Owned' /\ CmdsSound'
  BY <1>1, <1>4 DEF SidecarTyped, Owned, CmdsSound
<1>6. cmd'[Main] = IF t = Main THEN Idle ELSE cmd[Main]
  BY <1>1, Bounds
<1>7. Stopped' \/ ~(sidecar'.shutting /\ cmd'[Main] = Idle)
  BY <1>4, <1>6 DEF Stopped
<1>8. ShutInOrder'
  BY <1>2, <1>4, <1>6, <1>7, IdleIsACmd, Bounds DEF SidecarInv, ShutInOrder
<1> QED BY <1>5, <1>8 DEF SidecarInv

\* A thread goes on with the mutex.
LEMMA CmdGoesOn ==
  ASSUME ProcessTypeOK, SidecarInv, Still, NEW t \in Threads,
         Holds(t) \/ (lock = NoThread /\ cmd[t].pc = "queued"),
         cmd' \in [Threads -> Cmds], \A u \in Threads \ {t} : cmd'[u] = cmd[u], lock' = t,
         sidecar' \in Sidecars, sidecar'.shutting = sidecar.shutting,
         sidecar'.child = NoChild, sidecar'.url = 0,
         proc' \in [Pids -> Procs], Watched', Holds(t)',
         cmd'[t].pc \notin Ending \cup Starting => LivePids' = {},
         cmd'[t].pc \in Ending \cup Starting =>
            cmd'[t].child.pid \in Pids /\ LivePids' \subseteq {cmd'[t].child.pid},
         cmd'[t].pc = "confirm" => ~cmd'[t].child.handle,
         cmd'[t].pc \in Starting => cmd'[t].child.handle,
         t = Main => Stopping(t)' /\ cmd'[t].kind = cmd[t].kind,
         sidecar.shutting /\ cmd[Main] = Idle => Stopping(t)' /\ ~cmd'[t].child.handle
  PROVE  SidecarInv'
<1>1. cmd'[t] \in Cmds /\ t \in 0 .. NoThread
  BY Bounds DEF NoThread
<1>2. /\ \A u \in Threads \ {t} : ~Holds(u) /\ ~Holds(u)' /\ CmdSound(u)'
      /\ t <= asked' /\ asked' = asked /\ app' = app /\ CmdSound(t)
  BY HolderAlone
<1>3. CmdSound(t)'
  BY <1>2, Bounds DEF CmdSound
<1>4. CmdsSound'
  BY <1>2, <1>3 DEF CmdsSound
<1>5. SidecarTyped' /\ Owned' /\ Published'
  BY <1>1 DEF SidecarTyped, Owned, Published
<1>6. cmd[t] # Idle /\ cmd'[t] # Idle
  BY IdleIsACmd DEF Holds
<1>7. t # Main => cmd'[Main] = cmd[Main] /\ (Holds(Main)' <=> Holds(Main)) /\ (Stopping(Main)' <=> Stopping(Main))
  BY Bounds DEF Holds, Stopping
<1>8. sidecar'.shutting /\ cmd'[Main] = Idle => Stopped'
  BY <1>2, <1>6, <1>7, IdleIsACmd DEF Stopped, NoChild
<1>9. ShutInOrder'
  <2>1. CASE t = Main
    <3>1. cmd[Main].pc # "idle" /\ cmd'[Main].pc # "idle"
      BY <2>1 DEF Holds
    <3> QED BY <1>2, <1>6, <1>8, <2>1, <3>1 DEF SidecarInv, ShutInOrder
  <2>2. CASE t # Main
    BY <1>2, <1>7, <1>8, <2>2 DEF SidecarInv, ShutInOrder
  <2> QED BY <2>1, <2>2
<1> QED BY <1>4, <1>5, <1>9 DEF SidecarInv

LEMMA NobodyDisturbed == ASSUME SidecarInv, UNCHANGED proc
                         PROVE  proc' \in [Pids -> Procs] /\ LivePids' = LivePids /\ Watched'
  BY DEF SidecarInv, SidecarTyped, LivePids, Watched, ExitSignalled

\* What is noted of a process: that it was asked to end, or that a watcher was attached.
LEMMA ProcNoted ==
  ASSUME SidecarInv, NEW p \in Pids,
         \/ proc' = [proc EXCEPT ![p].killed = TRUE]
         \/ proc' = [proc EXCEPT ![p].watcher = "watching"]
  PROVE  /\ proc' \in [Pids -> Procs] /\ LivePids' = LivePids /\ Watched'
         /\ \A q \in Pids : proc'[q].port = proc[q].port
<1>0. proc \in [Pids -> Procs]
  BY DEF SidecarInv, SidecarTyped
<1>1. /\ proc' \in [Pids -> Procs]
      /\ \A q \in Pids : proc'[q].port = proc[q].port /\ proc'[q].state = proc[q].state
      /\ \A q \in Pids : proc'[q].watcher = proc[q].watcher \/ proc'[q].watcher = "watching"
  <2>1. CASE proc' = [proc EXCEPT ![p].killed = TRUE]
    BY <1>0, <2>1, ZenonT(30) DEF Procs
  <2>2. CASE proc' = [proc EXCEPT ![p].watcher = "watching"]
    BY <1>0, <2>2 DEF Procs
  <2> QED BY <2>1, <2>2
<1> QED BY <1>1 DEF SidecarInv, LivePids, Watched, ExitSignalled

\* The holder has no process, and goes on without one.
LEMMA HolderWorks ==
  ASSUME ProcessTypeOK, SidecarInv, Still, NEW t \in Threads,
         cmd[t].pc \in {"change", "start", "attempt", "again"}, UNCHANGED <<lock, sidecar, proc>>,
         cmd' \in [Threads -> Cmds], \A u \in Threads \ {t} : cmd'[u] = cmd[u],
         Holds(t)', cmd'[t].pc \notin Ending \cup Starting
  PROVE  SidecarInv'
<1>1. Holds(t) /\ CmdSound(t)
  BY DEF Holds, SidecarInv, CmdsSound
<1>2. lock = t /\ sidecar.child = NoChild /\ sidecar.url = 0 /\ LivePids = {}
  BY <1>1 DEF CmdSound, Ending, Starting
<1>3. t # Main /\ ~(sidecar.shutting /\ cmd[Main] = Idle)
  BY <1>1 DEF SidecarInv, ShutInOrder, Stopped, Stopping, Ending
<1>4. cmd'[t].pc # "confirm" /\ LivePids' = LivePids
  BY NobodyDisturbed DEF Ending
<1> QED BY <1>1, <1>2, <1>3, <1>4, NobodyDisturbed, CmdGoesOn DEF SidecarInv, SidecarTyped

\* The holder has no process, and is done.
LEMMA HolderReturns ==
  ASSUME ProcessTypeOK, SidecarInv, Still, NEW t \in Threads,
         cmd[t].pc \in {"change", "start", "attempt", "deploy", "again", "leave"}, Leave(t), UNCHANGED proc,
         NEW port \in 0 .. MaxSpawns, sidecar' = [sidecar EXCEPT !.port = port]
  PROVE  SidecarInv'
<1>1. Holds(t) /\ CmdSound(t) /\ NoThread \in 0 .. NoThread
  BY Bounds DEF Holds, SidecarInv, CmdsSound
<1>2. sidecar.child = NoChild /\ sidecar.url = 0 /\ LivePids = {}
  BY <1>1 DEF CmdSound, Ending, Starting
<1>3. /\ sidecar' \in Sidecars /\ sidecar'.child = NoChild /\ sidecar'.url = 0
      /\ sidecar'.shutting = sidecar.shutting
  BY <1>2 DEF SidecarInv, SidecarTyped, Sidecars
<1>4. cmd' = [cmd EXCEPT ![t] = Idle] /\ lock' = NoThread
  BY DEF Leave
<1>5. proc' \in [Pids -> Procs] /\ LivePids' = {} /\ Watched' /\ Published'
  BY <1>2, <1>3, NobodyDisturbed DEF Published
<1>6. ~sidecar'.child.handle
  BY <1>3 DEF NoChild
<1> QED BY <1>1, <1>3, <1>4, <1>5, <1>6, CmdReturns

LEMMA SamePort == ASSUME SidecarInv, UNCHANGED sidecar
                  PROVE  sidecar.port \in 0 .. MaxSpawns /\ sidecar' = [sidecar EXCEPT !.port = sidecar.port]
<1>1. sidecar \in Sidecars
  BY DEF SidecarInv, SidecarTyped
<1>2. sidecar.port \in 0 .. MaxSpawns
  BY <1>1 DEF Sidecars
<1>3. [sidecar EXCEPT !.port = sidecar.port] = sidecar
  BY <1>1 DEF Sidecars
<1> QED BY <1>2, <1>3

LEMMA CmdQueued ==
  ASSUME SidecarInv, NEW t \in Threads, NEW kind \in {"start", "config", "stop"},
         cmd' = [cmd EXCEPT ![t].kind = kind, ![t].pc = "queued"]
  PROVE  /\ cmd' \in [Threads -> Cmds] /\ cmd'[t].pc = "queued" /\ cmd'[t].child = cmd[t].child
         /\ cmd'[t].kind = kind /\ \A u \in Threads \ {t} : cmd'[u] = cmd[u]
<1>0. cmd \in [Threads -> Cmds]
  BY DEF SidecarInv, SidecarTyped
<1> DEFINE c == [cmd[t] EXCEPT !.kind = kind, !.pc = "queued"]
<1>1. cmd' = [cmd EXCEPT ![t] = c]
  BY <1>0 DEF Cmds
<1>2. c \in Cmds /\ c.child = cmd[t].child /\ c.pc = "queued"
  BY <1>0, ZenonT(30) DEF Cmds
<1>3. c.kind = kind
  BY <1>0 DEF Cmds
<1> HIDE DEF c
<1> QED BY <1>0, <1>1, <1>2, <1>3

LEMMA AskSidecarKeeps ==
  ASSUME ProcessTypeOK, SidecarInv, NEW t \in Commands, NEW kind \in {"start", "config", "stop"},
         AskSidecar(t, kind)
  PROVE  SidecarInv' /\ Moves /\ app' = app
<1>0. /\ Moves /\ app' = app /\ t = asked + 1 /\ asked' = t /\ t \in Threads /\ t # Main
      /\ UNCHANGED <<lock, sidecar, proc>>
  BY CommandMoves, Bounds DEF AskSidecar, Parts, Main, Commands
<1>1. cmd[t] = Idle
  BY <1>0, Bounds DEF SidecarInv, CmdsSound, CmdSound
<1>2. cmd' = [cmd EXCEPT ![t].kind = kind, ![t].pc = "queued"]
  BY DEF AskSidecar
<1>3. /\ cmd' \in [Threads -> Cmds] /\ cmd'[t].pc = "queued" /\ cmd'[t].child = cmd[t].child
      /\ \A u \in Threads \ {t} : cmd'[u] = cmd[u]
  BY <1>0, <1>2, CmdQueued
<1>4. ~Holds(t) /\ ~Holds(t)' /\ cmd'[t].child = NoChild
  BY <1>1, <1>3, IdleIsACmd DEF Holds
<1>5. proc' \in [Pids -> Procs] /\ LivePids' = LivePids /\ Watched'
  BY <1>0, NobodyDisturbed
<1>6. CmdsSound'
  <2> SUFFICES ASSUME NEW u \in Threads PROVE CmdSound(u)'
    BY DEF CmdsSound
  <2>1. CASE u = t
    <3>1. ~(t > asked')
      BY <1>0, Bounds
    <3> QED BY <1>3, <1>4, <2>1, <3>1 DEF CmdSound, Ending, Starting
  <2>2. CASE u # t
    <3>1. CmdSound(u) /\ (u > asked' => u > asked) /\ cmd'[u] = cmd[u]
      BY <1>0, <1>3, <2>2, Bounds DEF SidecarInv, CmdsSound
    <3> QED BY <1>0, <1>5, <3>1 DEF CmdSound, Holds
  <2> QED BY <2>1, <2>2
<1>7. \A u \in Threads : Holds(u)' <=> Holds(u)
  BY <1>3, <1>4 DEF Holds
<1>8. Owned' /\ Published' /\ SidecarTyped'
  BY <1>0, <1>3, <1>5, <1>7 DEF SidecarInv, SidecarTyped, Owned, Published
<1>9. \A u \in Threads : Holds(u) => cmd'[u] = cmd[u]
  BY <1>3, <1>4
<1>10. ShutInOrder'
  <2>1. cmd'[Main] = cmd[Main] /\ (Stopped => Stopped')
    BY <1>0, <1>3, <1>7, <1>9, Bounds DEF Stopped, Stopping
  <2> QED BY <1>0, <1>7, <1>9, <2>1, Bounds DEF SidecarInv, ShutInOrder, Stopping
<1> QED BY <1>0, <1>5, <1>6, <1>8, <1>10 DEF SidecarInv

LEMMA ExitSidecarKeeps ==
  ASSUME ProcessTypeOK, SidecarInv, ExitSidecar \/ SidecarStopped
  PROVE  SidecarInv' /\ Moves /\ (app' = app \/ (app = "sidecar" /\ app' = "kernels"))
<1>1. CASE ExitSidecar
  <2>0. /\ Still /\ UNCHANGED <<lock, proc>> /\ app' = app /\ asked' = asked /\ app = "sidecar"
        /\ ~sidecar.shutting /\ cmd[Main] = Idle /\ Main \in Threads
    BY <1>1, NothingMoves, Bounds DEF ExitSidecar, Still, SidecarInv, ShutInOrder
  <2>1. /\ sidecar' = [sidecar EXCEPT !.shutting = TRUE]
        /\ cmd' = [cmd EXCEPT ![Main].kind = "stop", ![Main].pc = "queued"]
    BY <1>1 DEF ExitSidecar
  <2>2. /\ cmd' \in [Threads -> Cmds] /\ cmd'[Main].pc = "queued" /\ cmd'[Main].child = cmd[Main].child
        /\ cmd'[Main].kind = "stop" /\ \A u \in Threads \ {Main} : cmd'[u] = cmd[u]
    BY <2>0, <2>1, CmdQueued
  <2>3. /\ sidecar' \in Sidecars /\ sidecar'.shutting /\ sidecar'.url = sidecar.url
        /\ sidecar'.child = sidecar.child
    BY <2>1 DEF SidecarInv, SidecarTyped, Sidecars
  <2>4. ~Holds(Main) /\ ~Holds(Main)' /\ cmd'[Main].child = NoChild /\ cmd'[Main] # Idle
    BY <2>0, <2>2, IdleIsACmd DEF Holds
  <2>5. proc' \in [Pids -> Procs] /\ LivePids' = LivePids /\ Watched'
    BY <2>0, NobodyDisturbed
  <2>6. CmdsSound'
    <3> SUFFICES ASSUME NEW u \in Threads PROVE CmdSound(u)'
      BY DEF CmdsSound
    <3>1. CASE u = Main
      <4>1. ~(Main > asked')
        BY <2>0, Bounds DEF Main
      <4> QED BY <2>2, <2>4, <3>1, <4>1 DEF CmdSound, Ending, Starting
    <3>2. CASE u # Main
      <4>1. CmdSound(u) /\ cmd'[u] = cmd[u]
        BY <2>2, <3>2 DEF SidecarInv, CmdsSound
      <4> QED BY <2>0, <2>3, <2>5, <4>1 DEF CmdSound, Holds
    <3> QED BY <3>1, <3>2
  <2>7. \A u \in Threads : Holds(u)' <=> Holds(u)
    BY <2>2, <2>4 DEF Holds
  <2>8. Owned' /\ Published' /\ SidecarTyped'
    BY <2>0, <2>2, <2>3, <2>5, <2>7 DEF SidecarInv, SidecarTyped, Owned, Published
  <2>9. ShutInOrder'
    BY <2>0, <2>2, <2>3, <2>4 DEF ShutInOrder, BeforeExit, AfterSidecar
  <2> QED BY <2>0, <2>5, <2>6, <2>8, <2>9 DEF SidecarInv, Still
<1>2. CASE SidecarStopped
  <2>1. Moves /\ app = "sidecar" /\ app' = "kernels" /\ asked' = asked /\ UNCHANGED sidecarVars
    BY <1>2, PhaseMoves DEF SidecarStopped, Phases, BeforeExit
  <2>2. lock' = lock /\ sidecar' = sidecar /\ proc' = proc /\ cmd' = cmd /\ LivePids' = LivePids
    BY <2>1 DEF sidecarVars, LivePids
  <2>3. CmdsSound' /\ SidecarTyped' /\ Owned' /\ Watched' /\ Published'
    BY <2>1, <2>2 DEF SidecarInv, CmdsSound, CmdSound, Holds, SidecarTyped, Owned, Watched, ExitSignalled, Published
  <2>4. ShutInOrder'
    <3>1. sidecar.shutting /\ cmd[Main] = Idle
      BY <1>2 DEF SidecarStopped
    <3> QED BY <2>1, <2>2, <3>1 DEF SidecarInv, ShutInOrder, Stopped, Stopping, Holds, BeforeExit
  <2> QED BY <2>1, <2>3, <2>4 DEF SidecarInv
<1> QED BY <1>1, <1>2

\* The mutex is taken, and the child with it.
LEMMA TakeChildKeeps ==
  ASSUME ProcessTypeOK, SidecarInv, Still, NEW t \in Threads, cmd[t].pc = "queued", lock = NoThread, lock' = t,
         UNCHANGED proc, NEW then \in {"leave", "start", "change"}, NEW s \in Sidecars, NEW restart \in BOOLEAN,
         s.child = sidecar.child, s.shutting = sidecar.shutting, s.url = 0, TakeChild(t, then, s, restart),
         then # "leave" => t # Main /\ ~sidecar.shutting
  PROVE  SidecarInv'
<1> DEFINE pc == IF s.child = NoChild THEN then ELSE "kill"
<1>0. /\ cmd \in [Threads -> Cmds] /\ s.child \in Children /\ \A u \in Threads : CmdSound(u)
      /\ proc' \in [Pids -> Procs] /\ LivePids' = LivePids /\ Watched'
  BY NobodyDisturbed DEF SidecarInv, SidecarTyped, CmdsSound, Sidecars
<1>1. /\ cmd' \in [Threads -> Cmds] /\ cmd'[t].pc = pc /\ cmd'[t].child = s.child /\ cmd'[t].then = then
      /\ cmd'[t].kind = cmd[t].kind /\ \A u \in Threads \ {t} : cmd'[u] = cmd[u]
  BY <1>0 DEF TakeChild, Cmds
<1>2. /\ sidecar' \in Sidecars /\ sidecar'.child = NoChild /\ sidecar'.url = 0
      /\ sidecar'.shutting = sidecar.shutting
  BY IdleIsACmd DEF TakeChild, Sidecars
<1>3. \A u \in Threads : ~Holds(u)
  <2> SUFFICES ASSUME NEW u \in Threads, Holds(u) PROVE FALSE
    OBVIOUS
  <2> QED BY <1>0, Bounds DEF CmdSound
<1>4. LivePids \subseteq {s.child.pid}
  BY <1>3 DEF SidecarInv, Owned
<1>5. s.child # NoChild => s.child.pid \in Pids
  BY <1>0 DEF SidecarInv, SidecarTyped, Children, Pids, NoPid
<1>6. s.child = NoChild => LivePids = {}
  BY <1>4, SidecarAssumption DEF NoChild, NoPid, LivePids, Pids
<1>7. pc \in {"leave", "start", "change", "kill"} /\ (pc \in Ending \cup Starting <=> s.child # NoChild)
      /\ (pc \in Ending \cup Starting <=> pc = "kill")
  BY DEF Ending, Starting
<1>8. sidecar.shutting /\ cmd[Main] = Idle => ~s.child.handle
  BY DEF SidecarInv, ShutInOrder, Stopped
<1>9. then = "leave" => Stopping(t)'
  BY <1>1 DEF Stopping, Ending
<1>10. Holds(t)'
  BY <1>1 DEF Holds
<1> HIDE DEF pc
<1>11. cmd'[t].pc # "confirm" /\ cmd'[t].pc \notin Starting
  BY <1>1, <1>7 DEF Starting
<1> QED BY <1>0, <1>1, <1>2, <1>4, <1>5, <1>6, <1>7, <1>8, <1>9, <1>10, <1>11, CmdGoesOn

LEMMA EnterKeeps ==
  ASSUME ProcessTypeOK, SidecarInv, NEW t \in Threads, Enter(t)
  PROVE  SidecarInv' /\ Still
<1>0. Still /\ cmd[t].pc = "queued" /\ lock = NoThread /\ UNCHANGED proc /\ sidecar \in Sidecars
      /\ (t = Main => cmd[t].kind = "stop")
  BY NothingMoves DEF Enter, At, SidecarInv, SidecarTyped, ShutInOrder
<1>1. CASE Refused(t) /\ cmd' = [cmd EXCEPT ![t] = Idle] /\ UNCHANGED <<lock, sidecar>>
  <2>1. /\ proc' \in [Pids -> Procs] /\ LivePids' = LivePids /\ Watched' /\ lock' \in 0 .. NoThread
        /\ (sidecar'.child.pid = NoPid => sidecar'.child = NoChild)
    BY <1>0, <1>1, NobodyDisturbed DEF SidecarInv, SidecarTyped
  <2>2. Published'
    BY <1>0, <1>1 DEF SidecarInv, Published
  <2>3. \A u \in Threads : ~Holds(u)
    <3> SUFFICES ASSUME NEW u \in Threads, Holds(u) PROVE FALSE
      OBVIOUS
    <3>1. CmdSound(u)
      BY DEF SidecarInv, CmdsSound
    <3> QED BY <1>0, <3>1, Bounds DEF CmdSound
  <2>4. LivePids \subseteq {sidecar.child.pid}
    BY <2>3 DEF SidecarInv, Owned
  <2>5. t # Main /\ (sidecar.shutting /\ cmd[Main] = Idle => sidecar.url = 0 /\ ~sidecar.child.handle)
    BY <1>0, <1>1 DEF Refused, SidecarInv, ShutInOrder, Stopped
  <2> QED BY <1>0, <1>1, <2>1, <2>2, <2>4, <2>5, CmdReturns
<1>2. CASE ~Refused(t) /\ cmd[t].kind = "start" /\ lock' = t /\ TakeChild(t, "start", sidecar, FALSE)
  <2>1. sidecar.url = 0 /\ ~sidecar.shutting
    BY <1>0, <1>2 DEF Refused, Sidecars
  <2> QED BY <1>0, <1>2, <2>1, TakeChildKeeps
<1>3. ASSUME ~Refused(t), cmd[t].kind = "config", lock' = t, NEW restart, restart = (sidecar.url # 0 \/ sidecar.child # NoChild),
             TakeChild(t, "change", [sidecar EXCEPT !.url = 0], restart)
      PROVE  SidecarInv'
  <2>1. ~sidecar.shutting
    BY <1>0, <1>3 DEF Refused, Sidecars
  <2>2. /\ [sidecar EXCEPT !.url = 0] \in Sidecars /\ [sidecar EXCEPT !.url = 0].child = sidecar.child
        /\ [sidecar EXCEPT !.url = 0].url = 0 /\ [sidecar EXCEPT !.url = 0].shutting = sidecar.shutting
    <3>1. 0 \in 0 .. MaxSpawns
      BY SidecarAssumption
    <3> QED BY <1>0, <3>1 DEF Sidecars
  <2>3. restart \in BOOLEAN
    BY <1>3
  <2> QED BY <1>0, <1>3, <2>1, <2>2, <2>3, TakeChildKeeps
<1>4. CASE cmd[t].kind = "stop" /\ lock' = t /\ TakeChild(t, "leave", [sidecar EXCEPT !.url = 0, !.port = 0], FALSE)
  <2> DEFINE s == [sidecar EXCEPT !.url = 0, !.port = 0]
  <2>1. s \in Sidecars /\ s.child = sidecar.child /\ s.url = 0 /\ s.shutting = sidecar.shutting
    <3>1. 0 \in 0 .. MaxSpawns
      BY SidecarAssumption
    <3> QED BY <1>0, <3>1 DEF Sidecars
  <2> QED BY <1>0, <1>4, <2>1, TakeChildKeeps
<1> QED BY <1>0, <1>1, <1>2, <1>3, <1>4 DEF Enter

LEMMA KillKeeps ==
  ASSUME ProcessTypeOK, SidecarInv, NEW t \in Threads, Kill(t)
  PROVE  SidecarInv' /\ Still
<1>0. /\ cmd[t].pc = "kill" /\ Holds(t) /\ CmdSound(t) /\ cmd \in [Threads -> Cmds] /\ UNCHANGED <<lock, sidecar>>
      /\ sidecar \in Sidecars /\ (t = Main => Stopping(t))
      /\ (sidecar.shutting /\ cmd[Main] = Idle => Stopping(t) /\ ~cmd[t].child.handle)
  BY DEF Kill, At, Holds, SidecarInv, CmdsSound, SidecarTyped, ShutInOrder, Stopped
<1>1. /\ lock = t /\ sidecar.child = NoChild /\ sidecar.url = 0 /\ cmd[t].child.pid \in Pids
      /\ LivePids \subseteq {cmd[t].child.pid}
  BY <1>0 DEF CmdSound, Ending
<1>2. CASE Confirmed(t) /\ UNCHANGED <<process, proc>> /\ Goto(t, cmd[t].then)
  <2>1. Still /\ proc' \in [Pids -> Procs] /\ LivePids' = LivePids /\ Watched'
    BY <1>2, NothingMoves, NobodyDisturbed
  <2>2. cmd' = [cmd EXCEPT ![t].pc = cmd[t].then] /\ cmd[t].then \in {"leave", "start", "change", "again"}
    BY <1>0, <1>2 DEF Goto, Cmds
  <2>3. /\ cmd' \in [Threads -> Cmds] /\ cmd'[t].pc = cmd[t].then /\ cmd'[t].child = cmd[t].child
        /\ cmd'[t].then = cmd[t].then /\ cmd'[t].kind = cmd[t].kind
        /\ \A u \in Threads \ {t} : cmd'[u] = cmd[u]
    BY <1>0, <2>2 DEF Cmds
  <2>4. LivePids = {}
    BY <1>1, <1>2 DEF Confirmed, SidecarInv, Watched, LivePids
  <2>5. /\ Holds(t)' /\ cmd'[t].pc \notin Ending \cup Starting /\ cmd'[t].pc # "confirm"
        /\ (Stopping(t) => Stopping(t)')
    BY <2>2, <2>3 DEF Holds, Ending, Starting, Stopping
  <2> QED BY <1>0, <1>1, <2>1, <2>3, <2>4, <2>5, CmdGoesOn
<1>3. CASE cmd' = [cmd EXCEPT ![t].pc = "confirm", ![t].child.handle = FALSE]
           /\ \/ /\ cmd[t].child.handle /\ UNCHANGED process
                 /\ proc' = [proc EXCEPT ![cmd[t].child.pid].killed = TRUE]
              \/ /\ Costs(cmd[t].child.handle) /\ UNCHANGED proc
  <2>1. Still /\ proc' \in [Pids -> Procs] /\ LivePids' = LivePids /\ Watched'
    BY <1>1, <1>3, NothingMoves, CostMoves, NobodyDisturbed, ProcNoted
  <2> DEFINE c == [cmd[t] EXCEPT !.pc = "confirm", !.child.handle = FALSE]
  <2>2. cmd' = [cmd EXCEPT ![t] = c]
    BY <1>0, <1>3 DEF Cmds
  <2>3. c \in Cmds /\ c.pc = "confirm" /\ c.then = cmd[t].then /\ c.kind = cmd[t].kind
    BY <1>0, ZenonT(30) DEF Cmds, Children
  <2>4. c.child.pid = cmd[t].child.pid /\ ~c.child.handle
    BY <1>0 DEF Cmds, Children
  <2> HIDE DEF c
  <2>5. cmd' \in [Threads -> Cmds] /\ cmd'[t] = c /\ \A u \in Threads \ {t} : cmd'[u] = cmd[u]
    BY <1>0, <2>2, <2>3
  <2>6. /\ Holds(t)' /\ cmd'[t].pc \in Ending /\ cmd'[t].pc \notin Starting
        /\ (Stopping(t) => Stopping(t)')
    BY <2>3, <2>5 DEF Holds, Ending, Starting, Stopping
  <2> QED BY <1>0, <1>1, <2>1, <2>3, <2>4, <2>5, <2>6, CmdGoesOn
<1> QED BY <1>2, <1>3, NothingMoves, CostMoves DEF Kill

LEMMA ConfirmKeeps ==
  ASSUME ProcessTypeOK, SidecarInv, NEW t \in Threads, Confirm(t)
  PROVE  SidecarInv' /\ Still
<1>0. /\ cmd[t].pc = "confirm" /\ Holds(t) /\ CmdSound(t) /\ cmd \in [Threads -> Cmds] /\ UNCHANGED proc
      /\ sidecar \in Sidecars /\ (t = Main => Stopping(t))
      /\ (sidecar.shutting /\ cmd[Main] = Idle => Stopping(t) /\ ~cmd[t].child.handle)
  BY DEF Confirm, At, Holds, SidecarInv, CmdsSound, SidecarTyped, ShutInOrder, Stopped
<1>1. /\ lock = t /\ sidecar.child = NoChild /\ sidecar.url = 0 /\ cmd[t].child.pid \in Pids
      /\ LivePids \subseteq {cmd[t].child.pid} /\ ~cmd[t].child.handle
  BY <1>0 DEF CmdSound, Ending
<1>2. proc' \in [Pids -> Procs] /\ LivePids' = LivePids /\ Watched'
  BY <1>0, NobodyDisturbed
<1>3. CASE ExitSignalled(cmd[t].child.pid) /\ UNCHANGED <<process, lock, sidecar>> /\ Goto(t, cmd[t].then)
  <2>1. Still
    BY <1>3, NothingMoves
  <2>2. cmd' = [cmd EXCEPT ![t].pc = cmd[t].then] /\ cmd[t].then \in {"leave", "start", "change", "again"}
    BY <1>0, <1>3 DEF Goto, Cmds
  <2>3. /\ cmd' \in [Threads -> Cmds] /\ cmd'[t].pc = cmd[t].then /\ cmd'[t].child = cmd[t].child
        /\ cmd'[t].then = cmd[t].then /\ cmd'[t].kind = cmd[t].kind
        /\ \A u \in Threads \ {t} : cmd'[u] = cmd[u]
    BY <1>0, <2>2 DEF Cmds
  <2>4. LivePids = {}
    BY <1>1, <1>3 DEF SidecarInv, Watched, LivePids
  <2>5. /\ Holds(t)' /\ cmd'[t].pc \notin Ending \cup Starting /\ cmd'[t].pc # "confirm"
        /\ (Stopping(t) => Stopping(t)')
    BY <2>2, <2>3 DEF Holds, Ending, Starting, Stopping
  <2> QED BY <1>0, <1>1, <1>2, <1>3, <2>1, <2>3, <2>4, <2>5, CmdGoesOn
<1>4. ASSUME Still, Leave(t), NEW port \in 0 .. MaxSpawns,
             sidecar' = [sidecar EXCEPT !.child = cmd[t].child, !.port = port]
      PROVE  SidecarInv'
  <2>1. /\ sidecar' \in Sidecars /\ sidecar'.child = cmd[t].child /\ sidecar'.url = 0
        /\ sidecar'.shutting = sidecar.shutting
    BY <1>0, <1>1, <1>4 DEF Sidecars, Cmds
  <2>2. cmd' = [cmd EXCEPT ![t] = Idle] /\ lock' \in 0 .. NoThread
    BY <1>4, Bounds DEF Leave
  <2>3. sidecar'.child.pid # NoPid /\ Published'
    BY <1>1, <2>1 DEF Pids, NoPid, Published
  <2> QED BY <1>0, <1>1, <1>2, <1>4, <2>1, <2>2, <2>3, CmdReturns
<1>5. CASE /\ Costs(proc[cmd[t].child.pid].killed) /\ Leave(t)
           /\ sidecar' = [sidecar EXCEPT !.child = cmd[t].child,
                            !.port = IF cmd[t].then \in {"change", "again"} THEN 0 ELSE @]
  <2>1. Still
    BY <1>5, CostMoves
  <2> DEFINE port == IF cmd[t].then \in {"change", "again"} THEN 0 ELSE sidecar.port
  <2>2. port \in 0 .. MaxSpawns
    BY <1>0, SidecarAssumption DEF Sidecars
  <2>3. sidecar' = [sidecar EXCEPT !.child = cmd[t].child, !.port = port]
    BY <1>0, <1>5 DEF Sidecars
  <2> HIDE DEF port
  <2> QED BY <1>4, <1>5, <2>1, <2>2, <2>3
<1> QED BY <1>3, <1>5, NothingMoves, CostMoves DEF Confirm

LEMMA ChangeKeeps ==
  ASSUME ProcessTypeOK, SidecarInv, NEW t \in Threads, Change(t) \/ Attempt(t) \/ Finish(t)
  PROVE  SidecarInv' /\ Still
<1>0. Still /\ UNCHANGED proc /\ cmd \in [Threads -> Cmds] /\ UNCHANGED sidecar
  BY NothingMoves DEF Change, Attempt, Finish, SidecarInv, SidecarTyped
<1>1. CASE cmd[t].pc = "change" /\ UNCHANGED <<lock, sidecar>>
           /\ cmd' = [cmd EXCEPT ![t].pc = "start", ![t].child = NoChild]
  <2> DEFINE c == [cmd[t] EXCEPT !.pc = "start", !.child = NoChild]
  <2>0. c \in Cmds /\ c.pc = "start"
    BY <1>0, IdleIsACmd DEF Cmds
  <2>3. cmd' = [cmd EXCEPT ![t] = c]
    BY <1>0, <1>1 DEF Cmds
  <2> HIDE DEF c
  <2>1. /\ cmd' \in [Threads -> Cmds] /\ cmd'[t].pc = "start"
        /\ \A u \in Threads \ {t} : cmd'[u] = cmd[u]
    BY <1>0, <2>0, <2>3
  <2>2. Holds(t)' /\ cmd'[t].pc \notin Ending \cup Starting
    BY <2>1 DEF Holds, Ending, Starting
  <2> QED BY <1>0, <1>1, <2>1, <2>2, HolderWorks
<1>2. CASE cmd[t].pc = "attempt" /\ UNCHANGED <<lock, sidecar>> /\ Goto(t, "deploy")
  <2>1. /\ cmd' \in [Threads -> Cmds] /\ cmd'[t].pc = "deploy"
        /\ \A u \in Threads \ {t} : cmd'[u] = cmd[u]
    BY <1>0, <1>2 DEF Goto, Cmds
  <2>2. Holds(t)' /\ cmd'[t].pc \notin Ending \cup Starting
    BY <2>1 DEF Holds, Ending, Starting
  <2> QED BY <1>0, <1>2, <2>1, <2>2, HolderWorks
<1>3. CASE cmd[t].pc \in {"change", "leave"} /\ Leave(t)
  BY <1>0, <1>3, SamePort, HolderReturns
<1> QED BY <1>0, <1>1, <1>2, <1>3 DEF Change, Attempt, Finish, At

LEMMA StartKeeps ==
  ASSUME ProcessTypeOK, SidecarInv, NEW t \in Threads, Start(t) \/ Again(t)
  PROVE  SidecarInv' /\ Still
<1>0. /\ Still /\ UNCHANGED proc /\ cmd \in [Threads -> Cmds] /\ sidecar \in Sidecars
      /\ cmd[t].pc \in {"start", "again"} /\ 0 \in 0 .. MaxSpawns
  BY NothingMoves, SidecarAssumption DEF Start, Again, At, SidecarInv, SidecarTyped
<1>1. ASSUME UNCHANGED <<lock, sidecar>>, NEW c \in Cmds, c.pc = "attempt", cmd' = [cmd EXCEPT ![t] = c]
      PROVE  SidecarInv'
  <2>1. cmd' \in [Threads -> Cmds] /\ cmd'[t].pc = "attempt" /\ \A u \in Threads \ {t} : cmd'[u] = cmd[u]
    BY <1>0, <1>1
  <2>2. Holds(t)' /\ cmd'[t].pc \notin Ending \cup Starting
    BY <2>1 DEF Holds, Ending, Starting
  <2> QED BY <1>0, <1>1, <2>1, <2>2, HolderWorks
<1>2. ASSUME Leave(t), NEW port \in 0 .. MaxSpawns, sidecar' = [sidecar EXCEPT !.port = port]
      PROVE  SidecarInv'
  BY <1>0, <1>2, HolderReturns
<1>3. CASE Start(t)
  <2>1. sidecar.port \in 0 .. MaxSpawns
    BY <1>0 DEF Sidecars
  <2>2. CASE Leave(t) /\ \E port \in {0, sidecar.port} : sidecar' = [sidecar EXCEPT !.port = port]
    BY <1>0, <1>2, <2>1, <2>2
  <2>3. CASE /\ cmd' = [cmd EXCEPT ![t].pc = "attempt", ![t].child = NoChild,
                                   ![t].port = sidecar.port, ![t].try = 1]
             /\ UNCHANGED <<lock, sidecar>>
    <3> DEFINE c == [cmd[t] EXCEPT !.pc = "attempt", !.child = NoChild, !.port = sidecar.port, !.try = 1]
    <3>1. cmd' = [cmd EXCEPT ![t] = c]
      BY <1>0, <2>3 DEF Cmds
    <3>2. c \in Cmds
      BY <1>0, <2>1, IdleIsACmd DEF Cmds
    <3>3. c.pc = "attempt"
      BY <1>0 DEF Cmds
    <3> HIDE DEF c
    <3> QED BY <1>0, <1>1, <2>3, <3>1, <3>2, <3>3
  <2> QED BY <1>3, <2>2, <2>3 DEF Start
<1>4. CASE Again(t)
  <2>1. CASE /\ cmd' = [cmd EXCEPT ![t].pc = "attempt", ![t].child = NoChild,
                                   ![t].port = 0, ![t].try = @ + 1, ![t].early = FALSE]
             /\ UNCHANGED <<lock, sidecar>>
    <3> DEFINE try == cmd[t].try + 1
               c == [cmd[t] EXCEPT !.pc = "attempt", !.child = NoChild, !.port = 0, !.try = try, !.early = FALSE]
    <3>1. cmd' = [cmd EXCEPT ![t] = c]
      BY <1>0, <2>1 DEF Cmds
    <3>4. try \in Nat /\ NoChild \in Children /\ cmd[t] \in Cmds
      BY <1>0, IdleIsACmd DEF Cmds
    <3> HIDE DEF try
    <3>2. c \in Cmds
      BY <1>0, <3>4 DEF Cmds
    <3>3. c.pc = "attempt"
      BY <1>0 DEF Cmds
    <3> HIDE DEF c
    <3> QED BY <1>0, <1>1, <2>1, <3>1, <3>2, <3>3
  <2>2. CASE sidecar' = [sidecar EXCEPT !.port = 0] /\ Leave(t)
    BY <1>0, <1>2, <2>2
  <2> QED BY <1>4, <2>1, <2>2 DEF Again
<1> QED BY <1>0, <1>3, <1>4

LEMMA SpawnKeeps ==
  ASSUME ProcessTypeOK, SidecarInv, NEW t \in Threads, Spawn(t)
  PROVE  SidecarInv' /\ Still
<1>0. /\ cmd[t].pc = "deploy" /\ Holds(t) /\ CmdSound(t) /\ cmd \in [Threads -> Cmds] /\ Still
      /\ sidecar \in Sidecars /\ t # Main /\ ~(sidecar.shutting /\ cmd[Main] = Idle)
      /\ proc \in [Pids -> Procs] /\ 0 \in 0 .. MaxSpawns
  BY NothingMoves, SidecarAssumption
     DEF Spawn, At, Holds, SidecarInv, CmdsSound, SidecarTyped, ShutInOrder, Stopped, Stopping, Ending
<1>1. CASE UNCHANGED <<process, proc>> /\ sidecar' = [sidecar EXCEPT !.port = 0] /\ Leave(t)
  BY <1>0, <1>1, HolderReturns
<1>2. ASSUME UNCHANGED <<process, lock, sidecar>>, NEW p \in Pids, proc[p] = Unborn,
             proc' = [proc EXCEPT ![p].state = "alive", ![p].port = IF cmd[t].port # 0 THEN cmd[t].port ELSE p],
             cmd' = [cmd EXCEPT ![t].pc = "probe", ![t].child = [pid |-> p, handle |-> TRUE]]
      PROVE  SidecarInv'
  <2>1. lock = t /\ sidecar.child = NoChild /\ sidecar.url = 0 /\ LivePids = {}
    BY <1>0 DEF CmdSound, Ending, Starting
  <2> DEFINE child == [pid |-> p, handle |-> TRUE]
             c == [cmd[t] EXCEPT !.pc = "probe", !.child = child]
             port == IF cmd[t].port # 0 THEN cmd[t].port ELSE p
             q == [proc[p] EXCEPT !.state = "alive", !.port = port]
  <2>2. child \in Children /\ child.pid = p /\ child.handle = TRUE
    BY SidecarAssumption DEF Children, Pids
  <2>3. cmd' = [cmd EXCEPT ![t] = c]
    BY <1>0, <1>2 DEF Cmds
  <2> HIDE DEF child
  <2>4. c \in Cmds
    BY <1>0, <2>2 DEF Cmds
  <2>5. c.pc = "probe" /\ c.child = child
    BY <1>0 DEF Cmds
  <2> HIDE DEF c
  <2>6. cmd' \in [Threads -> Cmds] /\ cmd'[t] = c /\ \A u \in Threads \ {t} : cmd'[u] = cmd[u]
    BY <1>0, <2>3, <2>4
  <2>7. port \in 0 .. MaxSpawns
    BY <1>0, SidecarAssumption DEF Cmds, Pids
  <2>8. proc' = [proc EXCEPT ![p] = q]
    BY <1>0, <1>2 DEF Procs
  <2> HIDE DEF port
  <2>9. q \in Procs /\ q.state = "alive" /\ q.watcher = proc[p].watcher
    BY <1>0, <2>7 DEF Procs
  <2>10. proc[p].watcher = "none"
    BY <1>2 DEF Unborn
  <2> HIDE DEF q
  <2>11. /\ proc' \in [Pids -> Procs] /\ proc'[p] = q /\ \A r \in Pids \ {p} : proc'[r] = proc[r]
    BY <1>0, <2>8, <2>9
  <2>12. Watched'
    BY <2>9, <2>10, <2>11 DEF SidecarInv, Watched, ExitSignalled
  <2>13. LivePids' \subseteq {p}
    BY <2>1, <2>11 DEF LivePids
  <2>14. /\ Holds(t)' /\ cmd'[t].pc \in Starting /\ cmd'[t].pc # "confirm"
    BY <2>5, <2>6 DEF Holds, Starting
  <2> QED BY <1>0, <1>2, <2>1, <2>2, <2>5, <2>6, <2>11, <2>12, <2>13, <2>14, CmdGoesOn
<1> QED BY <1>0, <1>1, <1>2 DEF Spawn

\* A process that is not published after all: it will be ended.
LEMMA DiscardKeeps ==
  ASSUME ProcessTypeOK, SidecarInv, NEW t \in Threads, cmd[t].pc \in Starting, Still,
         NEW then \in {"leave", "again"}, NEW early \in BOOLEAN, Discard(t, then, early), UNCHANGED lock,
         NEW port \in 0 .. MaxSpawns, sidecar' = [sidecar EXCEPT !.port = port]
  PROVE  SidecarInv'
<1>0. /\ Holds(t) /\ CmdSound(t) /\ cmd \in [Threads -> Cmds] /\ sidecar \in Sidecars
  BY DEF Holds, Starting, SidecarInv, CmdsSound, SidecarTyped
<1>1. t # Main /\ ~(sidecar.shutting /\ cmd[Main] = Idle)
  BY <1>0 DEF SidecarInv, ShutInOrder, Stopped, Stopping, Ending, Starting
<1>2. /\ lock = t /\ sidecar.child = NoChild /\ sidecar.url = 0 /\ cmd[t].child.pid \in Pids
      /\ LivePids \subseteq {cmd[t].child.pid}
  BY <1>0 DEF CmdSound
<1>3. /\ sidecar' \in Sidecars /\ sidecar'.child = NoChild /\ sidecar'.url = 0
      /\ sidecar'.shutting = sidecar.shutting
  BY <1>0, <1>2 DEF Sidecars
<1>4. proc' \in [Pids -> Procs] /\ LivePids' = LivePids /\ Watched'
  BY <1>2, ProcNoted DEF Discard
<1>5. cmd' = [cmd EXCEPT ![t].pc = "kill", ![t].then = then, ![t].early = early]
  BY DEF Discard
<1> DEFINE c == [cmd[t] EXCEPT !.pc = "kill", !.then = then, !.early = early]
<1>8. cmd' = [cmd EXCEPT ![t] = c]
  BY <1>0, <1>5 DEF Cmds
<1>9. c \in Cmds
  BY <1>0, ZenonT(30) DEF Cmds
<1>10. c.pc = "kill" /\ c.child = cmd[t].child
  BY <1>0 DEF Cmds
<1> HIDE DEF c
<1>6. /\ cmd' \in [Threads -> Cmds] /\ cmd'[t].pc = "kill" /\ cmd'[t].child = cmd[t].child
      /\ \A u \in Threads \ {t} : cmd'[u] = cmd[u]
  BY <1>0, <1>8, <1>9, <1>10
<1>7. Holds(t)' /\ cmd'[t].pc \in Ending /\ cmd'[t].pc \notin Starting /\ cmd'[t].pc # "confirm"
  BY <1>6 DEF Holds, Ending, Starting
<1> QED BY <1>0, <1>1, <1>2, <1>3, <1>4, <1>6, <1>7, CmdGoesOn

LEMMA ProbeKeeps ==
  ASSUME ProcessTypeOK, SidecarInv, NEW t \in Threads, Probe(t)
  PROVE  SidecarInv' /\ Still
<1>0. /\ cmd[t].pc = "probe" /\ Holds(t) /\ CmdSound(t) /\ cmd \in [Threads -> Cmds] /\ Still
      /\ UNCHANGED <<lock, sidecar>> /\ cmd[t].pc \in Starting
  BY NothingMoves, FaultMoves DEF Probe, At, Holds, Starting, SidecarInv, CmdsSound, SidecarTyped
<1>1. CASE UNCHANGED <<process, proc>> /\ Goto(t, "publish")
  <2>1. t # Main /\ ~(sidecar.shutting /\ cmd[Main] = Idle)
    BY <1>0 DEF SidecarInv, ShutInOrder, Stopped, Stopping, Ending
  <2>2. /\ lock = t /\ sidecar.child = NoChild /\ sidecar.url = 0 /\ cmd[t].child.pid \in Pids
        /\ LivePids \subseteq {cmd[t].child.pid} /\ cmd[t].child.handle
    BY <1>0 DEF CmdSound, Starting
  <2>3. proc' \in [Pids -> Procs] /\ LivePids' = LivePids /\ Watched'
    BY <1>1, NobodyDisturbed
  <2>4. /\ cmd' \in [Threads -> Cmds] /\ cmd'[t].pc = "publish" /\ cmd'[t].child = cmd[t].child
        /\ \A u \in Threads \ {t} : cmd'[u] = cmd[u]
    BY <1>0, <1>1 DEF Goto, Cmds
  <2>5. Holds(t)' /\ cmd'[t].pc \in Starting /\ cmd'[t].pc # "confirm"
    BY <2>4 DEF Holds, Starting
  <2> QED BY <1>0, <2>1, <2>2, <2>3, <2>4, <2>5, CmdGoesOn DEF SidecarInv, SidecarTyped
<1>2. ASSUME NEW early \in BOOLEAN, Discard(t, "again", early) PROVE SidecarInv'
  BY <1>0, <1>2, SamePort, DiscardKeeps
<1> QED BY <1>0, <1>1, <1>2 DEF Probe

LEMMA PublishKeeps ==
  ASSUME ProcessTypeOK, SidecarInv, NEW t \in Threads, Publish(t)
  PROVE  SidecarInv' /\ Still
<1> DEFINE port == proc[cmd[t].child.pid].port
<1>0. /\ cmd[t].pc = "publish" /\ Holds(t) /\ CmdSound(t) /\ cmd \in [Threads -> Cmds] /\ Still
      /\ cmd[t].pc \in Starting /\ proc \in [Pids -> Procs] /\ sidecar \in Sidecars /\ 0 \in 0 .. MaxSpawns
  BY NothingMoves, SidecarAssumption DEF Publish, At, Holds, Starting, SidecarInv, CmdsSound, SidecarTyped
<1>1. CASE ~Publishable(t) /\ UNCHANGED lock /\ sidecar' = [sidecar EXCEPT !.port = 0] /\ Discard(t, "leave", FALSE)
  BY <1>0, <1>1, DiscardKeeps
<1>2. CASE /\ Publishable(t) /\ proc' = [proc EXCEPT ![cmd[t].child.pid].watcher = "watching"]
           /\ sidecar' = [sidecar EXCEPT !.url = port, !.port = port, !.child = cmd[t].child] /\ Leave(t)
  <2>1. cmd[t].child.pid \in Pids /\ LivePids \subseteq {cmd[t].child.pid} /\ cmd[t].child.handle
    BY <1>0 DEF CmdSound
  <2>2. /\ proc' \in [Pids -> Procs] /\ LivePids' = LivePids /\ Watched'
        /\ proc'[cmd[t].child.pid].port = port
    BY <1>2, <2>1, ProcNoted
  <2>3. port \in 0 .. MaxSpawns
    BY <1>0, <2>1 DEF Procs
  <2> HIDE DEF port
  <2>4. /\ sidecar' \in Sidecars /\ sidecar'.child = cmd[t].child /\ sidecar'.url = port
        /\ sidecar'.shutting = sidecar.shutting
    BY <1>0, <1>2, <2>3 DEF Sidecars, Cmds
  <2>5. cmd' = [cmd EXCEPT ![t] = Idle] /\ lock' \in 0 .. NoThread
    BY <1>2, Bounds DEF Leave
  <2>6. Published' /\ sidecar'.child.pid # NoPid /\ ~sidecar.shutting
    BY <1>2, <2>1, <2>2, <2>4 DEF Published, Publishable, Pids, NoPid
  <2> QED BY <1>0, <2>1, <2>2, <2>4, <2>5, <2>6, CmdReturns
<1> QED BY <1>0, <1>1, <1>2 DEF Publish

\* A process ends, or its watcher tells.
LEMMA ProcChanges ==
  ASSUME ProcessTypeOK, SidecarInv, Still, UNCHANGED <<lock, cmd>>, proc' \in [Pids -> Procs], Watched',
         LivePids' \subseteq LivePids, \A p \in Pids : proc'[p].port = proc[p].port,
         \/ UNCHANGED sidecar
         \/ /\ lock = NoThread /\ LivePids' = {} /\ sidecar' \in Sidecars /\ sidecar'.child = NoChild
            /\ sidecar'.url = 0 /\ sidecar'.shutting = sidecar.shutting
  PROVE  SidecarInv'
<1>0. lock' = lock /\ cmd' = cmd /\ asked' = asked /\ app' = app /\ (\A t \in Threads : Holds(t)' <=> Holds(t))
  BY DEF Still, Holds
<1>1. \A t \in Threads : CmdSound(t)
  BY DEF SidecarInv, CmdsSound
<1>2. CASE UNCHANGED sidecar
  <2>1. CmdsSound'
    <3> SUFFICES ASSUME NEW t \in Threads PROVE CmdSound(t)'
      BY DEF CmdsSound
    <3> QED BY <1>0, <1>1, <1>2 DEF CmdSound
  <2>2. Published'
    <3>1. sidecar.url # 0 => sidecar.child.pid \in Pids
      BY DEF SidecarInv, SidecarTyped, Sidecars, Children, Published, NoChild, NoPid, Pids
    <3> QED BY <1>2, <3>1 DEF SidecarInv, Published
  <2>3. SidecarTyped' /\ Owned'
    BY <1>0, <1>2 DEF SidecarInv, SidecarTyped, Owned
  <2>4. ShutInOrder'
    BY <1>0, <1>2, Bounds DEF SidecarInv, ShutInOrder, Stopped, Stopping
  <2> QED BY <2>1, <2>2, <2>3, <2>4 DEF SidecarInv
<1>3. CASE /\ lock = NoThread /\ LivePids' = {} /\ sidecar' \in Sidecars /\ sidecar'.child = NoChild
           /\ sidecar'.url = 0 /\ sidecar'.shutting = sidecar.shutting
  <2>1. \A t \in Threads : ~Holds(t)
    BY <1>1, <1>3, Bounds DEF CmdSound
  <2>2. CmdsSound'
    <3> SUFFICES ASSUME NEW t \in Threads PROVE CmdSound(t)'
      BY DEF CmdsSound
    <3> QED BY <1>0, <1>1, <2>1 DEF CmdSound, Holds, Ending, Starting
  <2>3. SidecarTyped' /\ Owned' /\ Published'
    BY <1>0, <1>3 DEF SidecarInv, SidecarTyped, Owned, Published
  <2>4. ShutInOrder'
    BY <1>0, <1>3, <2>1, Bounds DEF SidecarInv, ShutInOrder, Stopped, Stopping, NoChild
  <2> QED BY <2>2, <2>3, <2>4 DEF SidecarInv
<1> QED BY <1>2, <1>3

LEMMA ExitsKeeps ==
  ASSUME ProcessTypeOK, SidecarInv, NEW p \in Pids, Exits(p)
  PROVE  SidecarInv' /\ Still
<1>1. Still /\ UNCHANGED <<lock, sidecar, cmd>> /\ proc \in [Pids -> Procs] /\ proc' = [proc EXCEPT ![p].state = "exited"]
  BY CostMoves DEF Exits, SidecarInv, SidecarTyped
<1>2. /\ proc' \in [Pids -> Procs] /\ proc'[p].state = "exited" /\ \A q \in Pids \ {p} : proc'[q] = proc[q]
      /\ \A q \in Pids : proc'[q].port = proc[q].port
  BY <1>1 DEF Procs
<1>3. LivePids' \subseteq LivePids /\ Watched'
  BY <1>2 DEF LivePids, SidecarInv, Watched, ExitSignalled
<1> QED BY <1>1, <1>2, <1>3, ProcChanges

LEMMA WatcherKeeps ==
  ASSUME ProcessTypeOK, SidecarInv, NEW p \in Pids, WatcherSignals(p) \/ WatcherClears(p)
  PROVE  SidecarInv' /\ Still
<1>1. /\ Still /\ UNCHANGED <<lock, cmd>> /\ proc \in [Pids -> Procs] /\ proc[p].state = "exited"
      /\ sidecar \in Sidecars
  BY NothingMoves DEF WatcherSignals, WatcherClears, SidecarInv, SidecarTyped, Watched, ExitSignalled
<1>2. PICK watcher \in {"signalled", "cleared"} : proc' = [proc EXCEPT ![p].watcher = watcher]
  BY DEF WatcherSignals, WatcherClears
<1>3. /\ proc' \in [Pids -> Procs] /\ proc'[p].state = "exited" /\ \A q \in Pids \ {p} : proc'[q] = proc[q]
      /\ \A q \in Pids : proc'[q].port = proc[q].port
  BY <1>1, <1>2 DEF Procs
<1>4. LivePids' = LivePids /\ Watched' /\ p \notin LivePids
  BY <1>1, <1>3 DEF LivePids, SidecarInv, Watched, ExitSignalled
<1>5. CASE UNCHANGED sidecar
  BY <1>1, <1>3, <1>4, <1>5, ProcChanges
<1>6. CASE /\ SameProcess(p) /\ lock = NoThread
           /\ sidecar' = [sidecar EXCEPT !.child = NoChild, !.url = 0, !.port = 0]
  <2>1. 0 \in 0 .. MaxSpawns
    BY SidecarAssumption
  <2>2. /\ sidecar' \in Sidecars /\ sidecar'.child = NoChild /\ sidecar'.url = 0
        /\ sidecar'.shutting = sidecar.shutting
    BY <1>1, <1>6, <2>1, IdleIsACmd DEF Sidecars
  <2>3. \A t \in Threads : ~Holds(t)
    <3> SUFFICES ASSUME NEW t \in Threads, Holds(t) PROVE FALSE
      OBVIOUS
    <3>1. CmdSound(t)
      BY DEF SidecarInv, CmdsSound
    <3> QED BY <1>6, <3>1, Bounds DEF CmdSound
  <2>4. LivePids' = {}
    BY <1>4, <1>6, <2>3 DEF SidecarInv, Owned, SameProcess
  <2> QED BY <1>1, <1>3, <1>4, <1>6, <2>2, <2>4, ProcChanges
<1> QED BY <1>1, <1>5, <1>6 DEF WatcherSignals, WatcherClears

LEMMA SidecarThreadKeeps ==
  ASSUME ProcessTypeOK, SidecarInv, NEW t \in Threads, SidecarThread(t)
  PROVE  SidecarInv' /\ Still
BY EnterKeeps, KillKeeps, ConfirmKeeps, ChangeKeeps, StartKeeps, SpawnKeeps, ProbeKeeps, PublishKeeps
   DEF SidecarThread

\* The steps of OpenCode, with the bundled skill that is deployed on the way.
LEMMA SidecarStepKeeps ==
  ASSUME ProcessTypeOK, SidecarInv, PackInv, SidecarStep
  PROVE  SidecarInv' /\ PackInv' /\ Moves /\ (app' = app \/ (app = "sidecar" /\ app' = "kernels"))
<1>1. ASSUME NEW t \in Commands, NEW kind \in {"start", "config", "stop"}, AskSidecar(t, kind)
      PROVE  SidecarInv' /\ PackInv' /\ Moves /\ app' = app
  <2>1. SidecarInv' /\ Moves /\ app' = app
    BY <1>1, AskSidecarKeeps
  <2> QED BY <1>1, <2>1, PackUndisturbed DEF AskSidecar, Moves
<1>2. CASE ExitSidecar \/ SidecarStopped
  <2>1. SidecarInv' /\ Moves /\ (app' = app \/ (app = "sidecar" /\ app' = "kernels"))
    BY <1>2, ExitSidecarKeeps
  <2> QED BY <1>2, <2>1, PackUndisturbed DEF ExitSidecar, SidecarStopped, Moves
<1>3. ASSUME NEW t \in Threads, SidecarThread(t) PROVE SidecarInv' /\ PackInv' /\ Moves /\ app' = app
  <2>1. SidecarInv' /\ Still /\ launch' = launch
    BY <1>3, SidecarThreadKeeps DEF Still, Moves
  <2>2. CASE UNCHANGED packVars
    BY <2>1, <2>2, PackUndisturbed DEF Still
  <2>3. CASE Attempt(t)
    <3>1. pack.step = "idle" /\ pack' = [pack EXCEPT !.step = "recover"] /\ UNCHANGED bare
      BY <2>3 DEF Attempt
    <3>2. pack \in Packs /\ pack' \in Packs /\ pack'.step = "recover" /\ Kept(pack') = Kept(pack)
      BY <3>1 DEF PackInv, Packs, Steps, Kept
    <3>3. Packs' = Packs /\ \A p : Kept(p)' = Kept(p)
      BY <2>1 DEF Packs, Kept, Complete, Versions, Contents, Installed
    <3> QED BY <2>1, <3>1, <3>2 DEF PackInv, DeployedSoFar, Still
  <2>4. CASE Spawn(t)
    BY <2>1, <2>4, PackRelaunches DEF Spawn, Deploys, Still
  <2> QED BY <1>3, <2>2, <2>3, <2>4 DEF SidecarThread, Enter, Kill, Confirm, Change, Start, Probe, Again, Publish, Finish
<1>4. CASE (PackStep \/ Damage) /\ UNCHANGED sidecarVars
  <2>1. PackInv' /\ Still
    BY <1>4, PackSteps, DamageIsNoted
  <2> QED BY <1>4, <2>1, SidecarUndisturbed DEF Still
<1>5. ASSUME NEW p \in Pids, WatcherSignals(p) \/ WatcherClears(p) \/ Exits(p)
      PROVE  SidecarInv' /\ PackInv' /\ Moves /\ app' = app
  <2>1. SidecarInv' /\ Still /\ launch' = launch
    BY <1>5, WatcherKeeps, ExitsKeeps DEF Still, Moves
  <2> QED BY <1>5, <2>1, PackUndisturbed DEF WatcherSignals, WatcherClears, Exits, Still
<1> QED BY <1>1, <1>2, <1>3, <1>4, <1>5 DEF SidecarStep, SidecarGoesOn

LEMMA SidecarCorrect == ASSUME ProcessTypeOK, SidecarInv PROVE SidecarIsKnown
<1>1. (\A t \in Threads : CmdSound(t)) /\ sidecar \in Sidecars
  BY DEF SidecarInv, CmdsSound, SidecarTyped
<1>2. SidecarTypeOK
  <2>1. \A t \in Threads : cmd[t].pc \notin {"idle", "queued"} => lock = t
    BY <1>1 DEF CmdSound, Holds
  <2> QED BY <1>1, <2>1 DEF SidecarInv, SidecarTyped, SidecarTypeOK, Sidecars, Children, Procs
<1>3. Cardinality(LivePids) <= 1
  <2>1. \E p : LivePids \subseteq {p}
    <3>1. CASE \A t \in Threads : ~Holds(t)
      BY <3>1 DEF SidecarInv, Owned
    <3>2. CASE \E t \in Threads : Holds(t)
      BY <1>1, <3>2 DEF CmdSound
    <3> QED BY <3>1, <3>2
  <2>2. PICK p : LivePids \subseteq {p}
    BY <2>1
  <2>3. LivePids = {} \/ LivePids = {p}
    BY <2>2
  <2>4. CASE LivePids = {}
    BY <2>4, FS_EmptySet
  <2>5. CASE LivePids = {p}
    BY <2>5, FS_Singleton
  <2> QED BY <2>3, <2>4, <2>5
<1>4. \A t \in Threads : cmd[t].pc = "change" => LivePids = {}
  BY <1>1 DEF CmdSound, Holds, Ending, Starting
<1>5. ASSUME sidecar.url # 0, NEW t \in Threads PROVE cmd[t].child.pid # sidecar.child.pid
  <2>1. cmd[t].child = NoChild
    BY <1>1, <1>5 DEF CmdSound
  <2>2. sidecar.child.handle /\ sidecar.child # NoChild
    BY <1>5 DEF SidecarInv, Published, NoChild
  <2>3. sidecar.child.pid # NoPid
    BY <2>2 DEF SidecarInv, SidecarTyped
  <2> QED BY <2>1, <2>3 DEF NoChild
<1> QED BY <1>2, <1>3, <1>4, <1>5 DEF SidecarIsKnown, SidecarInv, Published

\* Once the exit has gone past OpenCode, what is alive is remembered without a handle.
LEMMA SidecarLeavesNothing ==
  ASSUME ProcessTypeOK, SidecarInv, app \in AfterSidecar, NEW p \in LivePids
  PROVE  [pid |-> p, handle |-> FALSE] \in {sidecar.child} \cup {cmd[t].child : t \in Threads}
<1>1. Stopped /\ sidecar.child \in Children /\ cmd \in [Threads -> Cmds] /\ \A t \in Threads : CmdSound(t)
  BY DEF SidecarInv, ShutInOrder, SidecarTyped, Sidecars, CmdsSound
<1>2. \A c \in Children : c.pid = p /\ ~c.handle => c = [pid |-> p, handle |-> FALSE]
  BY DEF Children
<1>3. CASE \A t \in Threads : ~Holds(t)
  <2>1. sidecar.child.pid = p
    BY <1>3 DEF SidecarInv, Owned
  <2> QED BY <1>1, <1>2, <2>1 DEF Stopped
<1>4. ASSUME NEW t \in Threads, Holds(t)
      PROVE  [pid |-> p, handle |-> FALSE] \in {cmd[u].child : u \in Threads}
  <2>1. Stopping(t) /\ ~cmd[t].child.handle
    BY <1>1, <1>4 DEF Stopped
  <2>2. cmd[t].child.pid = p
    BY <1>1, <1>4, <2>1 DEF CmdSound, Stopping, Ending, Starting
  <2>3. cmd[t].child \in Children
    BY <1>1 DEF Cmds
  <2> QED BY <1>2, <2>1, <2>2, <2>3
<1> QED BY <1>3, <1>4
-----------------------------------------------------------------------------
(* Science Core *)

UnderWay == {"prepare", "files", "load", "register", "clear", "up", "probe", "publish", "cleanup",
             "finish"}
Unregistered == {"prepare", "files", "load", "register"}
Registered == {"clear", "up", "probe", "publish", "cleanup"}
Busy(n) == start[n].pc \in UnderWay \cup {"stop"}
Cleaning(c) == cleaner[c].pc \in {"revoke", "down", "wipe", "ended"}
BroughtDown(c) == cleaner[c].pc = "wipe" \/ (cleaner[c].pc = "ended" /\ cleaner[c].ok)

Cores == [status : Statuses, active : Starts \cup {None}, gen : Nat,
          cancel : Starts \cup {None}, worker : Starts \cup {None}]
Sessions == [files : SUBSET Files, bridge : Starts \cup {None, Foreign}]
StartRecords == [pc : UnderWay \cup {"unused", "stop", "leave", "done"}, gen : Nat,
                 cancelled : BOOLEAN, holds : BOOLEAN, ok : BOOLEAN, late : BOOLEAN]
Works == [pc : {"none", "revoke", "down", "wipe", "ended", "schedule"}, gen : Nat,
          retry : BOOLEAN, ok : BOOLEAN]

CoreTyped ==
    /\ core \in Cores /\ session \in Sessions /\ container \in Starts \cup {None, Foreign}
    /\ start \in [Starts -> StartRecords] /\ cleaner \in [Cleaners -> Works]

\* A start under way is the current one, and is active once it has registered.
StartSound(n) ==
    /\ Busy(n) => start[n].gen = core.gen /\ core.worker = n
    /\ start[n].pc \in UnderWay =>
          core.cancel = n /\ core.status \in {"starting", "stopping"} /\ core.active \in {None, n}
    /\ start[n].pc \in Unregistered => core.active = None
    /\ start[n].pc \in {"prepare", "files", "load"} => ~start[n].holds
    /\ start[n].pc \in Registered => core.active = n
    /\ start[n].pc \in Registered \cup {"register"} => start[n].holds
    /\ start[n].pc = "stop" => core.status = "stopping" /\ core.active = n
    /\ start[n].ok => start[n].pc = "finish" /\ start[n].holds
    /\ start[n].holds => start[n].pc \in UnderWay
    /\ start[n].pc = "finish" /\ start[n].holds => core.active = n
    /\ start[n].pc = "finish" /\ ~start[n].holds => container # n

StartsSound == \A n \in Starts : StartSound(n)

CoreSound ==
    /\ core.cancel # None => start[core.cancel].pc \in UnderWay
    /\ core.worker # None => Busy(core.worker) \/ start[core.worker].pc = "leave"
    /\ core.status = "starting" => core.cancel # None
    /\ core.status \in {"stopped", "unavailable"} => core.active = None
    /\ container \in Starts => core.active = container

\* Who stops something under the current number has no start behind him.
CleanerSound(t) ==
    /\ t > asked => cleaner[t] = NoWork
    /\ cleaner[t].gen <= core.gen
    /\ Cleaning(t) /\ cleaner[t].gen = core.gen => \A n \in Starts : ~Busy(n)
    /\ BroughtDown(t) /\ cleaner[t].gen = core.gen => container \notin Starts

\* A start stops what it made itself.
OwnCleanerSound(n) ==
    /\ cleaner[StartThread(n)].pc # "none" => start[n].pc \in {"cleanup", "stop"} /\ Cleaning(StartThread(n))
    /\ BroughtDown(StartThread(n)) => container # n

CleanersSound == (\A t \in Threads : CleanerSound(t)) /\ (\A n \in Starts : OwnCleanerSound(n))

\* Before the exit a start finds its files, and its container once it is up.
Furnished(n) ==
    /\ start[n].pc \in {"register", "clear", "up", "probe", "publish"} => session.files = Files
    /\ start[n].pc = "load" => session.files = {"compose"}
    /\ start[n].pc \in {"probe", "publish"} => container = n
    /\ start[n].ok => container = n /\ session = [files |-> Files, bridge |-> n]

BridgeUsed ==
    \/ core.status = "ready"
    \/ \E n \in Starts : start[n].pc = "finish" /\ start[n].ok
    \/ \E c \in Cleaners : cleaner[c].pc = "revoke"

ReadySound ==
    /\ \A n \in Starts : Furnished(n)
    /\ \A t \in Threads : Cleaning(t) => cleaner[t].gen = core.gen /\ core.status = "stopping"
    /\ \A s, t \in Threads : Cleaning(s) /\ Cleaning(t) => s = t
    /\ core.status = "ready" =>
          /\ core.active # None /\ container = core.active
          /\ session = [files |-> Files, bridge |-> core.active]
    /\ session.bridge \in Starts => BridgeUsed

\* What the exit leaves behind is still being stopped, failed to stop, or came late.
LeftKnown ==
    container \in Starts /\ ~start[container].late =>
        \/ core.status = "failed"
        \/ /\ core.status = "stopping"
           /\ \E t \in Threads : Cleaning(t) /\ cleaner[t].gen = core.gen /\ (app = "gone" => t \in Commands)

ExitSound ==
    /\ app = "setup" => core.status = "unavailable" /\ \A c \in Cleaners : cleaner[c] = NoWork
    /\ app = "cleanup" => \A n \in Starts : Busy(n) => start[n].late
    /\ app \in {"cleanup", "gone"} => LeftKnown

CoreInv == CoreTyped /\ StartsSound /\ CoreSound /\ CleanersSound /\ (app \in BeforeExit => ReadySound) /\ ExitSound

LEMMA CoreNumbers ==
  /\ \A n \in Starts : StartThread(n) \in Cleaners /\ StartThread(n) \notin Threads
  /\ \A m, n \in Starts : StartThread(m) = StartThread(n) => m = n
  /\ \A c \in Cleaners : c \in Threads \/ \E n \in Starts : c = StartThread(n)
  /\ Threads \subseteq Cleaners /\ None \notin Starts /\ Foreign \notin Starts
  /\ Main \in Threads /\ Commands = Threads \ {Main} /\ Files \in SUBSET Files /\ {"compose"} \in SUBSET Files
BY DesktopAssumption, CoreAssumption
   DEF StartThread, Starts, Cleaners, Threads, Main, Commands, NoThread, None, Foreign, Files

LEMMA CoreRecords ==
  /\ Unused \in StartRecords /\ Unused.pc = "unused" /\ ~Unused.holds /\ ~Unused.ok
  /\ NoWork \in Works /\ NoWork.pc = "none" /\ NoWork.gen = 0 /\ NoSession \in Sessions /\ NoSession.bridge = None
  BY DEF Unused, StartRecords, NoWork, Works, NoSession, Sessions

\* A start that is busy is alone.
LEMMA StartAlone ==
  ASSUME CoreInv, NEW n \in Starts, Busy(n)
  PROVE  /\ \A m \in Starts : Busy(m) => m = n
         /\ \A t \in Threads : ~(Cleaning(t) /\ cleaner[t].gen = core.gen)
         /\ app \in BeforeExit => \A t \in Threads : ~Cleaning(t)
         /\ core.status \in {"starting", "stopping"} /\ app # "setup"
<1>1. \A m \in Starts : StartSound(m)
  BY DEF CoreInv, StartsSound
<1>2. \A m \in Starts : Busy(m) => m = n
  BY <1>1 DEF StartSound
<1>3. \A t \in Threads : ~(Cleaning(t) /\ cleaner[t].gen = core.gen)
  BY DEF CoreInv, CleanersSound, CleanerSound
<1>4. app \in BeforeExit => \A t \in Threads : ~Cleaning(t)
  BY <1>3 DEF CoreInv, ReadySound
<1>5. core.status \in {"starting", "stopping"}
  BY <1>1 DEF StartSound, Busy
<1> QED BY <1>2, <1>3, <1>4, <1>5 DEF CoreInv, ExitSound

LEMMA CoreStarts ==
  ASSUME ProcessTypeOK, CoreInit, app = "setup"
  PROVE  CoreInv
<1>1. core \in Cores /\ core.status = "unavailable" /\ core.active = None /\ core.cancel = None /\ core.worker = None
      /\ core.gen = 0
  BY DEF CoreInit, Cores, Statuses
<1>2. session \in Sessions /\ session.bridge = None /\ container = None
  BY CoreRecords DEF CoreInit
<1>3. start \in [Starts -> StartRecords] /\ \A n \in Starts : start[n] = Unused
  BY CoreRecords DEF CoreInit
<1>4. cleaner \in [Cleaners -> Works] /\ \A c \in Cleaners : cleaner[c] = NoWork
  BY CoreRecords DEF CoreInit
<1>5. \A n \in Starts : ~Busy(n) /\ start[n].pc = "unused" /\ ~start[n].holds /\ ~start[n].ok
  BY <1>3, CoreRecords DEF Busy, UnderWay
<1>6. \A c \in Cleaners : cleaner[c].pc = "none" /\ ~Cleaning(c) /\ ~BroughtDown(c) /\ cleaner[c].gen = 0
  BY <1>4, CoreRecords DEF Cleaning, BroughtDown
<1>7. CoreTyped /\ CoreSound
  BY <1>1, <1>2, <1>3, <1>4, CoreNumbers DEF CoreTyped, CoreSound
<1>8. StartsSound
  BY <1>5 DEF StartsSound, StartSound, UnderWay, Registered, Unregistered
<1>9. CleanersSound
  BY <1>1, <1>4, <1>6, CoreNumbers DEF CleanersSound, CleanerSound, OwnCleanerSound
<1>10. ReadySound
  BY <1>1, <1>2, <1>5, <1>6, CoreNumbers DEF ReadySound, Furnished
<1>11. ExitSound
  BY <1>1, <1>4 DEF ExitSound
<1> QED BY <1>7, <1>8, <1>9, <1>10, <1>11 DEF CoreInv

LEMMA CoreUndisturbed ==
  ASSUME ProcessTypeOK, CoreInv, Moves, UNCHANGED coreVars,
         \/ app' = app \/ app' \notin {"setup", "running", "cleanup", "gone"}
         \/ app' = "gone" /\ LeftKnown'
  PROVE  CoreInv'
<1>0. core' = core /\ session' = session /\ container' = container /\ start' = start /\ cleaner' = cleaner
  BY DEF coreVars
<1>1. /\ \A n \in Starts : (Busy(n)' <=> Busy(n))
      /\ \A c \in Cleaners : (Cleaning(c)' <=> Cleaning(c)) /\ (BroughtDown(c)' <=> BroughtDown(c))
  BY <1>0 DEF Busy, Cleaning, BroughtDown
<1>2. CoreTyped' /\ StartsSound' /\ CoreSound'
  BY <1>0 DEF CoreInv, CoreTyped, StartsSound, StartSound, Busy, CoreSound
<1>3. \A t \in Threads : CleanerSound(t)'
  <2> SUFFICES ASSUME NEW t \in Threads PROVE CleanerSound(t)'
    OBVIOUS
  <2>1. CleanerSound(t) /\ (t > asked' => t > asked) /\ t \in Cleaners
    BY Bounds, CoreNumbers DEF CoreInv, CleanersSound, Moves, ProcessTypeOK
  <2> QED BY <1>0, <1>1, <2>1 DEF CleanerSound
<1>4. \A n \in Starts : OwnCleanerSound(n)'
  BY <1>0 DEF CoreInv, CleanersSound, OwnCleanerSound, Cleaning, BroughtDown
<1>5. app' \in BeforeExit => ReadySound'
  <2>1. app' \in BeforeExit => app \in BeforeExit
    BY DEF Moves
  <2>2. ReadySound => ReadySound'
    BY <1>0 DEF ReadySound, Furnished, BridgeUsed, Cleaning
  <2> QED BY <2>1, <2>2 DEF CoreInv
<1>6. ExitSound'
  <2>1. app' = app => ExitSound'
    BY <1>0 DEF CoreInv, ExitSound, LeftKnown, Busy, Cleaning
  <2>2. app' \notin {"setup", "running", "cleanup", "gone"} => ExitSound'
    BY DEF ExitSound
  <2>3. app' = "gone" /\ LeftKnown' => ExitSound'
    BY DEF ExitSound
  <2> QED BY <2>1, <2>2, <2>3
<1> QED BY <1>2, <1>3, <1>4, <1>5, <1>6 DEF CoreInv, CleanersSound

LEMMA CoreRelaunched ==
  ASSUME ProcessTypeOK, ProcessTypeOK', CoreInv, CoreRelaunch, app' = "setup"
  PROVE  CoreInv'
<1>1. core' \in Cores /\ core'.status = "unavailable" /\ core'.active = None /\ core'.cancel = None
      /\ core'.worker = None /\ core'.gen = 0
  BY DEF CoreRelaunch, Cores, Statuses
<1>2. session' \in Sessions /\ session'.bridge \notin Starts
  <2>1. PICK b \in {None, Foreign} : session' = [session EXCEPT !.bridge = b]
    <3>1. CASE session.bridge = None
      BY <3>1 DEF CoreRelaunch, CoreInv, CoreTyped, Sessions
    <3>2. CASE session.bridge # None
      BY <3>2 DEF CoreRelaunch, CoreInv, CoreTyped, Sessions
    <3> QED BY <3>1, <3>2
  <2> QED BY <2>1, CoreNumbers DEF CoreInv, CoreTyped, Sessions
<1>12. container' \in {None, Foreign}
  BY DEF CoreRelaunch
<1>3. start' \in [Starts -> StartRecords] /\ \A n \in Starts : start'[n] = Unused
  BY CoreRecords DEF CoreRelaunch
<1>4. cleaner' \in [Cleaners -> Works] /\ \A c \in Cleaners : cleaner'[c] = NoWork
  BY CoreRecords DEF CoreRelaunch
<1>5. \A n \in Starts : ~Busy(n)' /\ start'[n].pc = "unused" /\ ~start'[n].holds /\ ~start'[n].ok
  BY <1>3, CoreRecords DEF Busy, UnderWay
<1>6. \A c \in Cleaners : cleaner'[c].pc = "none" /\ ~Cleaning(c)' /\ ~BroughtDown(c)' /\ cleaner'[c].gen = 0
  BY <1>4, CoreRecords DEF Cleaning, BroughtDown
<1>7. CoreTyped' /\ CoreSound'
  BY <1>1, <1>2, <1>12, <1>3, <1>4, CoreNumbers DEF CoreTyped, CoreSound
<1>8. StartsSound'
  BY <1>5 DEF StartsSound, StartSound, Busy, UnderWay, Registered, Unregistered
<1>9. CleanersSound'
  BY <1>1, <1>4, <1>6, <1>12, CoreNumbers DEF CleanersSound, CleanerSound, OwnCleanerSound
<1>10. ReadySound'
  BY <1>1, <1>2, <1>5, <1>6, CoreNumbers DEF ReadySound, Furnished
<1>11. ExitSound'
  BY <1>1, <1>4 DEF ExitSound
<1> QED BY <1>7, <1>8, <1>9, <1>10, <1>11 DEF CoreInv

\* A start takes its next step: it stays current; what it brings up is its own.
LEMMA StartAdvances ==
  ASSUME ProcessTypeOK, CoreInv, Still, Alive, NEW n \in Starts,
         start[n].pc \in UnderWay \ {"cleanup", "finish"}, start'[n].pc \in UnderWay,
         start' \in [Starts -> StartRecords], \A m \in Starts \ {n} : start'[m] = start[m],
         start'[n].late = start[n].late,
         core' = core \/ (core' = [core EXCEPT !.active = n] /\ start[n].pc = "register"),
         cleaner' = cleaner \/ (Cleans(StartThread(n), start[n].gen, FALSE) /\ start'[n].pc = "cleanup"),
         container' \in {container, None} \/ (container' = n /\ core.active = n),
         session' \in Sessions,
         session'.bridge \in {session.bridge, None} \/ (session'.bridge = n /\ start'[n].pc = "finish" /\ start'[n].ok),
         StartSound(n)', app \in BeforeExit => Furnished(n)'
  PROVE  CoreInv'
<1>0. /\ Busy(n) /\ Busy(n)' /\ app' = app /\ asked' = asked /\ n # None
      /\ core \in Cores /\ cleaner \in [Cleaners -> Works] /\ start \in [Starts -> StartRecords]
  BY CoreNumbers DEF Busy, Still, CoreInv, CoreTyped
<1>1. /\ \A m \in Starts : Busy(m) => m = n
      /\ \A t \in Threads : ~(Cleaning(t) /\ cleaner[t].gen = core.gen)
      /\ app \in BeforeExit => \A t \in Threads : ~Cleaning(t)
      /\ core.status \in {"starting", "stopping"} /\ app # "setup"
  BY <1>0, StartAlone
<1>2. /\ core' \in Cores /\ core'.status = core.status /\ core'.gen = core.gen /\ core'.cancel = core.cancel
      /\ core'.worker = core.worker /\ core'.active \in {core.active, n}
  BY <1>0 DEF Cores
<1>3. \A m \in Starts : StartSound(m) /\ (m # n => start[m].pc \notin UnderWay /\ start[m].pc # "stop" /\ ~start[m].ok)
  BY <1>1 DEF CoreInv, StartsSound, StartSound, Busy, UnderWay
<1>4. \A m \in Starts : Busy(m)' <=> Busy(m)
  BY <1>0 DEF Busy
<1>5. StartsSound'
  <2> SUFFICES ASSUME NEW m \in Starts, m # n PROVE StartSound(m)'
    BY DEF StartsSound
  <2>1. start'[m] = start[m] /\ start[m].pc \notin UnderWay /\ start[m].pc # "stop" /\ StartSound(m)
    BY <1>3
  <2> QED BY <2>1 DEF StartSound, Busy, UnderWay, Registered, Unregistered
<1>6. /\ cleaner' \in [Cleaners -> Works] /\ (\A t \in Threads : cleaner'[t] = cleaner[t])
      /\ (\A m \in Starts \ {n} : cleaner'[StartThread(m)] = cleaner[StartThread(m)])
      /\ cleaner'[StartThread(n)].pc # "none" => start'[n].pc = "cleanup" /\ cleaner'[StartThread(n)].pc = "revoke"
  <2>1. StartThread(n) \in Cleaners /\ cleaner[StartThread(n)].pc = "none" /\ start[n].gen \in Nat
    BY <1>0, CoreNumbers DEF CoreInv, CleanersSound, OwnCleanerSound, StartRecords, UnderWay
  <2>2. CASE cleaner' = cleaner
    BY <1>0, <2>1, <2>2
  <2>3. CASE Cleans(StartThread(n), start[n].gen, FALSE) /\ start'[n].pc = "cleanup"
    <3>1. [pc |-> "revoke", gen |-> start[n].gen, retry |-> FALSE, ok |-> FALSE] \in Works
      BY <2>1 DEF Works
    <3>2. cleaner' = [cleaner EXCEPT ![StartThread(n)] =
                        [pc |-> "revoke", gen |-> start[n].gen, retry |-> FALSE, ok |-> FALSE]]
      BY <2>3 DEF Cleans
    <3> QED BY <1>0, <2>1, <2>3, <3>1, <3>2, CoreNumbers
  <2> QED BY <2>2, <2>3
<1>7. container' \in Starts => container' = container \/ (container' = n /\ core.active = n)
  BY CoreNumbers
<1>8. CoreTyped' /\ CoreSound'
  <2>1. container' \in Starts \cup {None, Foreign}
    BY DEF CoreInv, CoreTyped
  <2>2. core.cancel # None => start'[core.cancel].pc \in UnderWay
    BY <1>0 DEF CoreInv, CoreSound, Cores
  <2>3. core.worker # None => start'[core.worker].pc \in UnderWay \cup {"stop", "leave"}
    BY <1>0 DEF CoreInv, CoreSound, Busy, Cores
  <2>4. container' \in Starts => core'.active = container'
    <3>1. container \in Starts => core.active = container
      BY DEF CoreInv, CoreSound
    <3>2. core' # core => core.active = None /\ core'.active = n
      BY <1>0, <1>3 DEF StartSound, Unregistered, Cores
    <3>3. core' = core \/ container \notin Starts
      BY <3>1, <3>2, CoreNumbers
    <3> QED BY <1>0, <1>2, <1>7, <3>1, <3>3
  <2> QED BY <1>0, <1>1, <1>2, <1>6, <2>1, <2>2, <2>3, <2>4 DEF CoreTyped, CoreSound, CoreInv, Busy
<1>9. \A t \in Threads : CleanerSound(t)'
  <2> SUFFICES ASSUME NEW t \in Threads PROVE CleanerSound(t)'
    OBVIOUS
  <2>1. CleanerSound(t) /\ cleaner'[t] = cleaner[t] /\ ~(Cleaning(t) /\ cleaner[t].gen = core.gen)
    BY <1>1, <1>6 DEF CoreInv, CleanersSound
  <2> QED BY <1>0, <1>2, <2>1 DEF CleanerSound, Cleaning, BroughtDown
<1>10. \A m \in Starts : OwnCleanerSound(m)'
  <2> SUFFICES ASSUME NEW m \in Starts PROVE OwnCleanerSound(m)'
    OBVIOUS
  <2>1. CASE m = n
    BY <1>6, <2>1 DEF OwnCleanerSound, Cleaning, BroughtDown
  <2>2. CASE m # n
    <3>1. OwnCleanerSound(m) /\ cleaner'[StartThread(m)] = cleaner[StartThread(m)] /\ start'[m] = start[m]
          /\ (container' # m \/ container = m)
      BY <1>6, <1>7, <2>2 DEF CoreInv, CleanersSound
    <3> QED BY <3>1 DEF OwnCleanerSound, Cleaning, BroughtDown
  <2> QED BY <2>1, <2>2
<1>11. app \in BeforeExit => ReadySound'
  <2> SUFFICES ASSUME app \in BeforeExit PROVE ReadySound'
    OBVIOUS
  <2>1. \A m \in Starts : Furnished(m)'
    <3> SUFFICES ASSUME NEW m \in Starts, m # n PROVE Furnished(m)'
      OBVIOUS
    <3> QED BY <1>3 DEF Furnished, UnderWay
  <2>2. \A t \in Threads : ~Cleaning(t)'
    BY <1>1, <1>6 DEF Cleaning
  <2>3. session.bridge \notin Starts
    <3> SUFFICES ASSUME session.bridge \in Starts PROVE FALSE
      OBVIOUS
    <3>1. BridgeUsed
      BY DEF CoreInv, ReadySound
    <3>2. \A m \in Starts : ~(start[m].pc = "finish" /\ start[m].ok)
      BY <1>3
    <3>3. PICK c \in Cleaners : cleaner[c].pc = "revoke"
      BY <1>1, <3>1, <3>2 DEF BridgeUsed
    <3>4. c \notin Threads
      BY <1>1, <3>3 DEF Cleaning
    <3>5. PICK m \in Starts : c = StartThread(m)
      BY <3>4, CoreNumbers
    <3>6. start[m].pc \in {"cleanup", "stop"} /\ Busy(m)
      BY <3>3, <3>5 DEF CoreInv, CleanersSound, OwnCleanerSound, Busy, UnderWay
    <3> QED BY <1>1, <3>6 DEF UnderWay
  <2>4. session'.bridge \in Starts => BridgeUsed'
    BY <2>3, CoreNumbers DEF BridgeUsed
  <2> QED BY <1>1, <1>2, <2>1, <2>2, <2>4 DEF ReadySound
<1>12. ExitSound'
  <2>1. \A m \in Starts : start'[m].late = start[m].late
    BY <1>0
  <2>2. app = "cleanup" => \A m \in Starts : Busy(m)' => start'[m].late
    BY <1>4, <2>1 DEF CoreInv, ExitSound
  <2>3. app = "cleanup" => LeftKnown'
    <3>1. app = "cleanup" => LeftKnown /\ start[n].late
      BY <1>0 DEF CoreInv, ExitSound
    <3>2. \A t \in Threads : ~Cleaning(t) \/ cleaner[t].gen # core.gen
      BY <1>1
    <3>3. app = "cleanup" => ~(container \in Starts /\ ~start[container].late)
      BY <1>1, <3>1, <3>2 DEF LeftKnown
    <3> QED BY <1>7, <2>1, <3>1, <3>3 DEF LeftKnown
  <2> QED BY <1>0, <1>1, <2>2, <2>3 DEF ExitSound, Alive
<1> QED BY <1>0, <1>5, <1>8, <1>9, <1>10, <1>11, <1>12 DEF CoreInv, CleanersSound

\* A stop takes its next step: nothing is made, and it is alone before the exit.
LEMMA CleanerAdvances ==
  ASSUME ProcessTypeOK, CoreInv, Still, Alive, NEW c \in Cleaners, Cleaning(c), Cleaning(c)', UNCHANGED <<core, start>>,
         cleaner' \in [Cleaners -> Works], \A d \in Cleaners \ {c} : cleaner'[d] = cleaner[d],
         cleaner'[c].gen = cleaner[c].gen, cleaner'[c].pc # "revoke", container' \in {container, None},
         BroughtDown(c)' => BroughtDown(c) \/ container' = None, session' \in Sessions,
         session'.bridge = None \/ (session' = session /\ cleaner[c].pc # "revoke")
  PROVE  CoreInv'
<1>0. app' = app /\ asked' = asked /\ core' = core /\ start' = start /\ (\A n \in Starts : Busy(n)' <=> Busy(n))
  BY DEF Still, Busy
<1>1. \A d \in Cleaners : /\ Cleaning(d)' <=> Cleaning(d)
                          /\ cleaner'[d].gen = cleaner[d].gen
                          /\ cleaner'[d].pc = "none" <=> cleaner[d].pc = "none"
                          /\ BroughtDown(d)' => BroughtDown(d) \/ container' = None
  BY DEF Cleaning, BroughtDown
<1>2. CoreTyped' /\ StartsSound' /\ CoreSound'
  BY <1>0, CoreNumbers DEF CoreInv, CoreTyped, StartsSound, StartSound, Busy, CoreSound
<1>3. \A t \in Threads : CleanerSound(t)'
  <2> SUFFICES ASSUME NEW t \in Threads PROVE CleanerSound(t)'
    OBVIOUS
  <2>1. CleanerSound(t) /\ t \in Cleaners
    BY CoreNumbers DEF CoreInv, CleanersSound
  <2>2. t > asked => cleaner'[t] = NoWork
    BY <2>1, CoreRecords DEF CleanerSound, Cleaning
  <2> QED BY <1>0, <1>1, <2>1, <2>2, CoreNumbers DEF CleanerSound
<1>4. \A n \in Starts : OwnCleanerSound(n)'
  <2> SUFFICES ASSUME NEW n \in Starts PROVE OwnCleanerSound(n)'
    OBVIOUS
  <2>1. OwnCleanerSound(n) /\ StartThread(n) \in Cleaners /\ n # None
    BY CoreNumbers DEF CoreInv, CleanersSound
  <2> QED BY <1>0, <1>1, <2>1 DEF OwnCleanerSound
<1>5. app \in BeforeExit => ReadySound'
  <2> SUFFICES ASSUME app \in BeforeExit PROVE ReadySound'
    OBVIOUS
  <2>1. /\ core.status # "ready"
        /\ \A n \in Starts : start[n].pc \notin UnderWay \/ start[n].pc = "cleanup"
    <3>1. CASE c \in Threads
      <4>1. cleaner[c].gen = core.gen /\ core.status = "stopping"
        BY <3>1 DEF CoreInv, ReadySound
      <4>2. \A n \in Starts : ~Busy(n)
        BY <3>1, <4>1 DEF CoreInv, CleanersSound, CleanerSound
      <4> QED BY <4>1, <4>2 DEF Busy
    <3>2. CASE c \notin Threads
      <4>1. PICK n \in Starts : c = StartThread(n)
        BY <3>2, CoreNumbers
      <4>2. start[n].pc \in {"cleanup", "stop"} /\ Busy(n)
        BY <4>1 DEF CoreInv, CleanersSound, OwnCleanerSound, Cleaning, Busy, UnderWay
      <4>3. core.status # "ready" /\ \A m \in Starts : Busy(m) => m = n
        BY <4>2, StartAlone
      <4> QED BY <4>2, <4>3 DEF Busy, UnderWay
    <3> QED BY <3>1, <3>2
  <2>2. \A n \in Starts : ~start[n].ok
    BY <2>1 DEF CoreInv, StartsSound, StartSound, UnderWay
  <2>3. \A n \in Starts : Furnished(n)'
    BY <1>0, <2>1, <2>2 DEF Furnished, UnderWay
  <2>4. session'.bridge \in Starts => BridgeUsed'
    <3>1. session'.bridge \in Starts => /\ session' = session /\ cleaner[c].pc # "revoke" /\ BridgeUsed
      BY CoreNumbers DEF CoreInv, ReadySound
    <3>2. cleaner[c].pc # "revoke" => \A d \in Cleaners : cleaner[d].pc = "revoke" => cleaner'[d].pc = "revoke"
      OBVIOUS
    <3> QED BY <1>0, <3>1, <3>2 DEF BridgeUsed
  <2> QED BY <1>0, <1>1, <2>1, <2>3, <2>4, CoreNumbers DEF CoreInv, ReadySound
<1>6. ExitSound'
  <2>1. app # "setup"
    BY CoreRecords DEF CoreInv, ExitSound, Cleaning
  <2>2. LeftKnown => LeftKnown'
    BY <1>0, <1>1, CoreNumbers DEF LeftKnown
  <2> QED BY <1>0, <2>1, <2>2 DEF CoreInv, ExitSound
<1> QED BY <1>0, <1>2, <1>3, <1>4, <1>5, <1>6 DEF CoreInv, CleanersSound

\* The record of a start after a step: where it goes, and what else it notes.
LEMMA StartGoesTo ==
  ASSUME CoreInv, NEW n \in Starts, NEW holds \in BOOLEAN, NEW ok \in BOOLEAN,
         NEW pc \in UnderWay \cup {"unused", "stop", "leave", "done"},
         start' = [start EXCEPT ![n].pc = pc, ![n].holds = holds, ![n].ok = ok]
  PROVE  /\ start' \in [Starts -> StartRecords] /\ (\A m \in Starts \ {n} : start'[m] = start[m])
         /\ start'[n].pc = pc /\ start'[n].holds = holds /\ start'[n].ok = ok
         /\ start'[n].gen = start[n].gen /\ start'[n].late = start[n].late
         /\ start'[n].cancelled = start[n].cancelled
<1>0. start \in [Starts -> StartRecords]
  BY DEF CoreInv, CoreTyped
<1> DEFINE s == [start[n] EXCEPT !.pc = pc, !.holds = holds, !.ok = ok]
<1>1. start' = [start EXCEPT ![n] = s]
  BY <1>0 DEF StartRecords
<1>2. s \in StartRecords
  BY <1>0 DEF StartRecords
<1>3. s.pc = pc /\ s.gen = start[n].gen /\ s.late = start[n].late /\ s.cancelled = start[n].cancelled
  BY <1>0 DEF StartRecords
<1>4. s.holds = holds /\ s.ok = ok
  BY <1>0 DEF StartRecords
<1> HIDE DEF s
<1>5. start' \in [Starts -> StartRecords] /\ (\A m \in Starts \ {n} : start'[m] = start[m]) /\ start'[n] = s
  BY <1>0, <1>1, <1>2
<1> QED BY <1>3, <1>4, <1>5

\* A step of a start that notes nothing but where it is.
LEMMA StartGoesOn ==
  ASSUME CoreInv, NEW n \in Starts, NEW pc \in UnderWay \cup {"unused", "stop", "leave", "done"}, StartGoes(n, pc)
  PROVE  /\ start' \in [Starts -> StartRecords] /\ (\A m \in Starts \ {n} : start'[m] = start[m])
         /\ start'[n].pc = pc /\ start'[n].holds = start[n].holds /\ start'[n].ok = start[n].ok
         /\ start'[n].gen = start[n].gen /\ start'[n].late = start[n].late
         /\ cleaner' = cleaner \/ (Cleans(StartThread(n), start[n].gen, FALSE) /\ start'[n].pc = "cleanup")
<1>0. start \in [Starts -> StartRecords] /\ start' = [start EXCEPT ![n].pc = pc]
  BY DEF CoreInv, CoreTyped, StartGoes
<1> DEFINE s == [start[n] EXCEPT !.pc = pc]
<1>1. start' = [start EXCEPT ![n] = s]
  BY <1>0 DEF StartRecords
<1>2. s \in StartRecords
  BY <1>0 DEF StartRecords
<1>3. s.pc = pc /\ s.gen = start[n].gen /\ s.late = start[n].late
  BY <1>0 DEF StartRecords
<1>4. s.holds = start[n].holds /\ s.ok = start[n].ok
  BY <1>0 DEF StartRecords
<1> HIDE DEF s
<1>5. cleaner' = cleaner \/ (Cleans(StartThread(n), start[n].gen, FALSE) /\ pc = "cleanup")
  BY DEF StartGoes
<1> QED BY <1>0, <1>1, <1>2, <1>3, <1>4, <1>5

\* What is known of a start that is about to take a step.
LEMMA StartKnown ==
  ASSUME CoreInv, NEW n \in Starts, start[n].pc \in UnderWay \ {"cleanup", "finish"}
  PROVE  /\ StartSound(n) /\ Busy(n) /\ ~start[n].ok /\ start[n].holds \in BOOLEAN /\ start[n].gen = core.gen
         /\ core.worker = n /\ core.cancel = n /\ core.status \in {"starting", "stopping"}
         /\ (app \in BeforeExit => Furnished(n))
         /\ (start[n].pc \in Registered => core.active = n /\ start[n].holds)
         /\ (start[n].pc \in Unregistered => core.active = None /\ container \notin Starts)
         /\ session \in Sessions
<1>1. StartSound(n) /\ start[n] \in StartRecords /\ session \in Sessions
  BY DEF CoreInv, StartsSound, CoreTyped
<1>2. Busy(n) /\ start[n].holds \in BOOLEAN /\ ~start[n].ok
  BY <1>1 DEF StartSound, Busy, StartRecords
<1>3. core.active = None => container \notin Starts
  BY CoreNumbers DEF CoreInv, CoreSound
<1> QED BY <1>1, <1>2, <1>3 DEF StartSound, CoreInv, ReadySound, Unregistered, Registered

LEMMA PrepareKeeps ==
  ASSUME ProcessTypeOK, CoreInv, NEW n \in Starts, Prepare(n) \/ WriteFiles(n)
  PROVE  CoreInv' /\ Still
<1>0. /\ Still /\ Alive /\ start[n].pc \in {"prepare", "files"} /\ UNCHANGED <<core, container>>
      /\ start[n].pc \in UnderWay \ {"cleanup", "finish"} /\ start[n].pc \in Unregistered
  BY CostMoves DEF Prepare, WriteFiles, StartAt, UnderWay, Unregistered
<1>1. /\ StartSound(n) /\ ~start[n].ok /\ start[n].gen = core.gen /\ core.worker = n /\ core.cancel = n
      /\ core.status \in {"starting", "stopping"} /\ core.active = None /\ container \notin Starts
      /\ session \in Sessions
  BY <1>0, StartKnown
<1>2. ~start[n].holds
  BY <1>0, <1>1 DEF StartSound
<1>3. PICK pc \in {"files", "load", "finish"} :
         /\ StartGoes(n, pc)
         /\ pc = "load" => session' = [session EXCEPT !.files = {"compose"}]
         /\ pc # "load" => session' \in {session, NoSession}
  BY <1>0 DEF Prepare, WriteFiles, StartAt
<1>4. /\ start' \in [Starts -> StartRecords] /\ (\A m \in Starts \ {n} : start'[m] = start[m])
      /\ start'[n].pc = pc /\ start'[n].holds = start[n].holds /\ start'[n].ok = start[n].ok
      /\ start'[n].gen = start[n].gen /\ start'[n].late = start[n].late /\ cleaner' = cleaner
  BY <1>3, StartGoesOn DEF UnderWay
<1>5. session' \in Sessions /\ session'.bridge \in {session.bridge, None} /\ (pc = "load" => session'.files = {"compose"})
  BY <1>1, <1>3, CoreNumbers, CoreRecords DEF Sessions
<1>6. StartSound(n)'
  BY <1>0, <1>1, <1>2, <1>4 DEF StartSound, Busy, UnderWay, Unregistered, Registered
<1>7. Furnished(n)'
  BY <1>1, <1>4, <1>5 DEF Furnished
<1>8. start'[n].pc \in UnderWay /\ container' \in {container, None}
  BY <1>0, <1>4 DEF UnderWay
<1> QED BY <1>0, <1>4, <1>5, <1>6, <1>7, <1>8, StartAdvances

LEMMA LoadKeeps ==
  ASSUME ProcessTypeOK, CoreInv, NEW n \in Starts, Load(n)
  PROVE  CoreInv' /\ Still
<1>0. /\ Still /\ Alive /\ start[n].pc = "load" /\ UNCHANGED <<core, container, cleaner>>
      /\ start[n].pc \in UnderWay \ {"cleanup", "finish"} /\ start[n].pc \in Unregistered
  BY CostMoves DEF Load, StartAt, UnderWay, Unregistered
<1>1. /\ StartSound(n) /\ ~start[n].ok /\ start[n].gen = core.gen /\ core.worker = n /\ core.cancel = n
      /\ core.status \in {"starting", "stopping"} /\ core.active = None /\ container \notin Starts
      /\ session \in Sessions /\ (app \in BeforeExit => Furnished(n)) /\ start[n] \in StartRecords
  BY <1>0, StartKnown DEF CoreInv, CoreTyped
<1>2. ~start[n].holds /\ start[n].ok \in BOOLEAN /\ start[n].ok = FALSE /\ start[n].holds = FALSE
  <2>1. ~start[n].holds
    BY <1>0, <1>1 DEF StartSound
  <2>2. start[n].holds \in BOOLEAN /\ start[n].ok \in BOOLEAN
    BY <1>1 DEF StartRecords
  <2> QED BY <1>1, <2>1, <2>2
<1>3. CASE session' = NoSession /\ start' = [start EXCEPT ![n].pc = "finish"]
  <2>1. start' = [start EXCEPT ![n].pc = "finish", ![n].holds = FALSE, ![n].ok = FALSE]
    <3>1. start \in [Starts -> StartRecords]
      BY DEF CoreInv, CoreTyped
    <3> QED BY <1>2, <1>3, <3>1 DEF StartRecords
  <2>2. /\ start' \in [Starts -> StartRecords] /\ (\A m \in Starts \ {n} : start'[m] = start[m])
        /\ start'[n].pc = "finish" /\ start'[n].holds = FALSE /\ start'[n].ok = FALSE
        /\ start'[n].gen = start[n].gen /\ start'[n].late = start[n].late
    <3>1. /\ "finish" \in UnderWay \cup {"unused", "stop", "leave", "done"}
          /\ FALSE \in BOOLEAN /\ TRUE \in BOOLEAN
      BY DEF UnderWay
    <3> QED BY <2>1, <3>1, StartGoesTo
  <2>3. StartSound(n)'
    BY <1>0, <1>1, <2>2 DEF StartSound, Busy, UnderWay, Unregistered, Registered
  <2>4. Furnished(n)' /\ start'[n].pc \in UnderWay /\ container' \in {container, None}
        /\ session' \in Sessions /\ session'.bridge \in {session.bridge, None}
    BY <1>0, <1>3, <2>2, CoreRecords DEF Furnished, UnderWay
  <2> QED BY <1>0, <2>2, <2>3, <2>4, StartAdvances
<1>4. CASE /\ session' = [session EXCEPT !.files = @ \cup {"session.env"}]
           /\ start' = [start EXCEPT ![n].pc = "register", ![n].holds = TRUE]
  <2>1. start' = [start EXCEPT ![n].pc = "register", ![n].holds = TRUE, ![n].ok = FALSE]
    <3>1. start \in [Starts -> StartRecords]
      BY DEF CoreInv, CoreTyped
    <3> QED BY <1>2, <1>4, <3>1 DEF StartRecords
  <2>2. /\ start' \in [Starts -> StartRecords] /\ (\A m \in Starts \ {n} : start'[m] = start[m])
        /\ start'[n].pc = "register" /\ start'[n].holds = TRUE /\ start'[n].ok = FALSE
        /\ start'[n].gen = start[n].gen /\ start'[n].late = start[n].late
    <3>1. /\ "register" \in UnderWay \cup {"unused", "stop", "leave", "done"}
          /\ FALSE \in BOOLEAN /\ TRUE \in BOOLEAN
      BY DEF UnderWay
    <3> QED BY <2>1, <3>1, StartGoesTo
  <2>3. StartSound(n)'
    BY <1>0, <1>1, <2>2 DEF StartSound, Busy, UnderWay, Unregistered, Registered
  <2>4. session' \in Sessions /\ session'.bridge = session.bridge /\ session'.files = session.files \cup {"session.env"}
    BY <1>1, <1>4 DEF Sessions, Files
  <2>5. app \in BeforeExit => Furnished(n)'
    BY <1>0, <1>1, <2>2, <2>4 DEF Furnished, Files
  <2>6. start'[n].pc \in UnderWay /\ container' \in {container, None}
    BY <1>0, <2>2 DEF UnderWay
  <2> QED BY <1>0, <2>2, <2>3, <2>4, <2>5, <2>6, StartAdvances
<1> QED BY <1>0, <1>3, <1>4 DEF Load

LEMMA RegisterKeeps ==
  ASSUME ProcessTypeOK, CoreInv, NEW n \in Starts, Register(n)
  PROVE  CoreInv' /\ Still
<1>0. /\ Still /\ Alive /\ start[n].pc = "register" /\ UNCHANGED <<process, session, container>>
      /\ start[n].pc \in UnderWay \ {"cleanup", "finish"} /\ start[n].pc \in Unregistered
  BY NothingMoves DEF Register, StartAt, UnderWay, Unregistered
<1>1. /\ StartSound(n) /\ ~start[n].ok /\ start[n].gen = core.gen /\ core.worker = n /\ core.cancel = n
      /\ core.status \in {"starting", "stopping"} /\ core.active = None /\ container \notin Starts
      /\ session \in Sessions /\ (app \in BeforeExit => Furnished(n))
  BY <1>0, StartKnown
<1>2. PICK pc \in {"cleanup", "clear"} : StartGoes(n, pc)
  BY DEF Register
<1>3. /\ start' \in [Starts -> StartRecords] /\ (\A m \in Starts \ {n} : start'[m] = start[m])
      /\ start'[n].pc = pc /\ start'[n].holds = start[n].holds /\ start'[n].ok = start[n].ok
      /\ start'[n].gen = start[n].gen /\ start'[n].late = start[n].late
      /\ cleaner' = cleaner \/ (Cleans(StartThread(n), start[n].gen, FALSE) /\ start'[n].pc = "cleanup")
  BY <1>2, StartGoesOn DEF UnderWay
<1>4. core' = [core EXCEPT !.active = n] /\ core \in Cores
  BY <1>1 DEF Register, Registers, CoreInv, CoreTyped
<1>5. /\ core'.gen = core.gen /\ core'.worker = n /\ core'.cancel = n /\ core'.active = n
      /\ core'.status = core.status
  BY <1>1, <1>4 DEF Cores
<1>6. start[n].holds
  BY <1>0, <1>1 DEF StartSound
<1>7. StartSound(n)'
  BY <1>0, <1>1, <1>3, <1>5, <1>6 DEF StartSound, Busy, UnderWay, Unregistered, Registered
<1>8. app \in BeforeExit => Furnished(n)'
  BY <1>0, <1>1, <1>3 DEF Furnished
<1>9. start'[n].pc \in UnderWay /\ container' \in {container, None} /\ session' \in Sessions
      /\ session'.bridge \in {session.bridge, None}
  BY <1>0, <1>1, <1>3 DEF UnderWay
<1> QED BY <1>0, <1>3, <1>4, <1>7, <1>8, <1>9, StartAdvances

\* Between its registration and the bridge a start may do what it likes with its container.
LEMMA RegisteredGoesOn ==
  ASSUME ProcessTypeOK, CoreInv, Still, Alive, NEW n \in Starts, start[n].pc \in {"clear", "up", "probe", "publish"},
         NEW pc \in {"up", "probe", "publish", "cleanup"}, StartGoes(n, pc), UNCHANGED <<core, session>>,
         container' \in {container, None, n},
         pc \in {"probe", "publish"} => container' = n \/ (start[n].pc = "probe" /\ container' = container)
  PROVE  CoreInv'
<1>0. start[n].pc \in UnderWay \ {"cleanup", "finish"} /\ start[n].pc \in Registered
  BY DEF UnderWay, Registered
<1>1. /\ StartSound(n) /\ ~start[n].ok /\ start[n].gen = core.gen /\ core.worker = n /\ core.cancel = n
      /\ core.status \in {"starting", "stopping"} /\ core.active = n /\ start[n].holds
      /\ session \in Sessions /\ (app \in BeforeExit => Furnished(n))
  BY <1>0, StartKnown
<1>2. /\ start' \in [Starts -> StartRecords] /\ (\A m \in Starts \ {n} : start'[m] = start[m])
      /\ start'[n].pc = pc /\ start'[n].holds = start[n].holds /\ start'[n].ok = start[n].ok
      /\ start'[n].gen = start[n].gen /\ start'[n].late = start[n].late
      /\ cleaner' = cleaner \/ (Cleans(StartThread(n), start[n].gen, FALSE) /\ start'[n].pc = "cleanup")
  BY StartGoesOn DEF UnderWay
<1>3. StartSound(n)'
  BY <1>0, <1>1, <1>2 DEF StartSound, Busy, UnderWay, Unregistered, Registered
<1>4. app \in BeforeExit => Furnished(n)'
  BY <1>1, <1>2 DEF Furnished
<1>5. start'[n].pc \in UnderWay /\ session' \in Sessions /\ session'.bridge \in {session.bridge, None}
      /\ (container' \in {container, None} \/ (container' = n /\ core.active = n))
  BY <1>1, <1>2 DEF UnderWay
<1> QED BY <1>0, <1>2, <1>3, <1>4, <1>5, StartAdvances

LEMMA ComposeKeeps ==
  ASSUME ProcessTypeOK, CoreInv, NEW n \in Starts, Clear(n) \/ ComposeUp(n) \/ WaitReady(n)
  PROVE  CoreInv' /\ Still
<1>1. CASE Clear(n)
  <2>1. /\ Still /\ Alive /\ start[n].pc = "clear" /\ UNCHANGED <<core, session>> /\ container' \in {container, None}
        /\ \E pc \in {"up", "cleanup"} : StartGoes(n, pc)
    BY <1>1, CostMoves DEF Clear, StartAt, Outcome
  <2> QED BY <2>1, RegisteredGoesOn
<1>2. CASE ComposeUp(n)
  <2>1. /\ Still /\ Alive /\ start[n].pc = "up" /\ UNCHANGED <<core, session>>
        /\ \E pc \in {"probe", "cleanup"} : StartGoes(n, pc) /\ container' \in {container, n}
                                            /\ (pc = "probe" => container' = n)
    BY <1>2, CostMoves DEF ComposeUp, StartAt, Outcome
  <2> QED BY <2>1, RegisteredGoesOn
<1>3. CASE WaitReady(n)
  <2>1. /\ Still /\ Alive /\ start[n].pc = "probe" /\ UNCHANGED <<core, session, container>>
        /\ \E pc \in {"publish", "cleanup"} : StartGoes(n, pc)
    BY <1>3, CostMoves DEF WaitReady, StartAt, Outcome
  <2> QED BY <2>1, RegisteredGoesOn
<1> QED BY <1>1, <1>2, <1>3

LEMMA PublishBridgeKeeps ==
  ASSUME ProcessTypeOK, CoreInv, NEW n \in Starts, PublishBridge(n)
  PROVE  CoreInv' /\ Still
<1>0. /\ Still /\ Alive /\ start[n].pc = "publish" /\ UNCHANGED <<core, container>>
      /\ start[n].pc \in UnderWay \ {"cleanup", "finish"} /\ start[n].pc \in Registered
  BY NothingMoves, CostMoves DEF PublishBridge, StartAt, UnderWay, Registered
<1>1. CASE UNCHANGED session /\ StartGoes(n, "cleanup")
  BY <1>0, <1>1, RegisteredGoesOn
<1>2. CASE /\ UNCHANGED cleaner /\ session' = [session EXCEPT !.bridge = n]
           /\ start' = [start EXCEPT ![n].pc = "finish", ![n].ok = TRUE]
  <2>1. /\ StartSound(n) /\ ~start[n].ok /\ start[n].gen = core.gen /\ core.worker = n /\ core.cancel = n
        /\ core.status \in {"starting", "stopping"} /\ core.active = n /\ start[n].holds
        /\ session \in Sessions /\ (app \in BeforeExit => Furnished(n)) /\ start[n].holds \in BOOLEAN
    BY <1>0, StartKnown
  <2>2. start' = [start EXCEPT ![n].pc = "finish", ![n].holds = TRUE, ![n].ok = TRUE]
    <3>1. start \in [Starts -> StartRecords] /\ start[n].holds = TRUE
      BY <2>1 DEF CoreInv, CoreTyped
    <3> QED BY <1>2, <3>1 DEF StartRecords
  <2>3. /\ start' \in [Starts -> StartRecords] /\ (\A m \in Starts \ {n} : start'[m] = start[m])
        /\ start'[n].pc = "finish" /\ start'[n].holds = TRUE /\ start'[n].ok = TRUE
        /\ start'[n].gen = start[n].gen /\ start'[n].late = start[n].late
    <3>1. "finish" \in UnderWay \cup {"unused", "stop", "leave", "done"} /\ TRUE \in BOOLEAN
      BY DEF UnderWay
    <3> QED BY <2>2, <3>1, StartGoesTo
  <2>4. StartSound(n)'
    BY <1>0, <2>1, <2>3 DEF StartSound, Busy, UnderWay, Unregistered, Registered
  <2>5. session' \in Sessions /\ session'.bridge = n /\ session'.files = session.files
    BY <1>2, <2>1 DEF Sessions
  <2>6. app \in BeforeExit => Furnished(n)'
    <3>1. session' = [files |-> session.files, bridge |-> n]
      BY <1>2, <2>1 DEF Sessions
    <3> QED BY <1>0, <2>1, <2>3, <3>1 DEF Furnished
  <2>7. start'[n].pc \in UnderWay /\ container' \in {container, None}
    BY <1>0, <2>3 DEF UnderWay
  <2> QED BY <1>0, <1>2, <2>3, <2>4, <2>5, <2>6, <2>7, StartAdvances
<1> QED BY <1>0, <1>1, <1>2 DEF PublishBridge

\* A start that has come to its end hands over what it made, or what it could not clean up.
LEMMA FinishStartKeeps ==
  ASSUME ProcessTypeOK, CoreInv, NEW n \in Starts, FinishStart(n)
  PROVE  CoreInv' /\ Still
<1>0. /\ Still /\ Alive /\ app' = app /\ asked' = asked /\ start[n].pc = "finish" /\ UNCHANGED <<session, container>>
      /\ core \in Cores /\ cleaner \in [Cleaners -> Works] /\ start \in [Starts -> StartRecords]
      /\ session \in Sessions /\ container \in Starts \cup {None, Foreign} /\ n # None
  BY NothingMoves, CoreNumbers DEF FinishStart, StartAt, Still, CoreInv, CoreTyped
<1>1. /\ StartSound(n) /\ Busy(n) /\ start[n].gen = core.gen /\ core.worker = n /\ core.cancel = n
      /\ core.status \in {"starting", "stopping"} /\ core.active \in {None, n} /\ start[n].gen \in Nat
  BY <1>0 DEF CoreInv, StartsSound, StartSound, Busy, UnderWay, StartRecords
<1>2. /\ \A m \in Starts : Busy(m) => m = n
      /\ \A t \in Threads : ~(Cleaning(t) /\ cleaner[t].gen = core.gen)
      /\ app \in BeforeExit => \A t \in Threads : ~Cleaning(t)
      /\ app # "setup"
  BY <1>1, StartAlone
<1>3. \A m \in Starts : StartSound(m) /\ (m # n => start[m].pc \notin UnderWay /\ start[m].pc # "stop" /\ ~start[m].ok)
  BY <1>2 DEF CoreInv, StartsSound, StartSound, Busy, UnderWay
<1>4. \A c \in Cleaners : cleaner[c].pc = "revoke" => app \notin BeforeExit
  <2> SUFFICES ASSUME NEW c \in Cleaners, cleaner[c].pc = "revoke", app \in BeforeExit PROVE FALSE
    OBVIOUS
  <2>1. PICK m \in Starts : c = StartThread(m)
    BY <1>2, CoreNumbers DEF Cleaning
  <2>2. start[m].pc \in {"cleanup", "stop"}
    BY <2>1 DEF CoreInv, CleanersSound, OwnCleanerSound
  <2> QED BY <1>0, <1>3, <2>2 DEF UnderWay
<1> DEFINE made == start[n].holds
           stops == made /\ core.status = "stopping"
           pc == IF stops THEN "stop" ELSE "leave"
           status == IF core.status = "stopping" THEN IF made THEN "stopping" ELSE "stopped"
                     ELSE IF start[n].ok THEN "ready" ELSE "failed"
<1>5. /\ core' = [core EXCEPT !.cancel = None, !.active = IF made THEN n ELSE None, !.status = status]
      /\ start' = [start EXCEPT ![n].holds = FALSE, ![n].ok = FALSE, ![n].pc = pc]
      /\ (stops => Cleans(StartThread(n), start[n].gen, FALSE)) /\ (~stops => cleaner' = cleaner)
  BY <1>0, <1>1 DEF FinishStart, Cores
<1>6. /\ start' \in [Starts -> StartRecords] /\ (\A m \in Starts \ {n} : start'[m] = start[m])
      /\ start'[n].pc = pc /\ start'[n].holds = FALSE /\ start'[n].ok = FALSE
      /\ start'[n].gen = start[n].gen /\ start'[n].late = start[n].late
  <2>1. pc \in UnderWay \cup {"unused", "stop", "leave", "done"}
    OBVIOUS
  <2> HIDE DEF pc
  <2>2. start' = [start EXCEPT ![n].pc = pc, ![n].holds = FALSE, ![n].ok = FALSE]
    BY <1>0, <1>5 DEF StartRecords
  <2> QED BY <2>1, <2>2, StartGoesTo
<1>7. /\ core' \in Cores /\ core'.cancel = None /\ core'.gen = core.gen /\ core'.worker = n
      /\ core'.active = (IF made THEN n ELSE None) /\ core'.status = status
  <2>1. status \in Statuses
    BY DEF Statuses
  <2> HIDE DEF status, made
  <2> QED BY <1>0, <1>1, <1>5, <2>1 DEF Cores
<1>8. /\ cleaner' \in [Cleaners -> Works] /\ (\A t \in Threads : cleaner'[t] = cleaner[t])
      /\ (\A m \in Starts \ {n} : cleaner'[StartThread(m)] = cleaner[StartThread(m)])
      /\ cleaner'[StartThread(n)].pc = (IF stops THEN "revoke" ELSE "none")
  <2>1. StartThread(n) \in Cleaners /\ cleaner[StartThread(n)].pc = "none"
    BY <1>0, CoreNumbers DEF CoreInv, CleanersSound, OwnCleanerSound
  <2>2. CASE ~stops
    BY <1>0, <1>5, <2>1, <2>2
  <2>3. CASE stops
    <3>1. [pc |-> "revoke", gen |-> start[n].gen, retry |-> FALSE, ok |-> FALSE] \in Works
      BY <1>1 DEF Works
    <3>2. cleaner' = [cleaner EXCEPT ![StartThread(n)] =
                        [pc |-> "revoke", gen |-> start[n].gen, retry |-> FALSE, ok |-> FALSE]]
      BY <1>5, <2>3 DEF Cleans
    <3> QED BY <1>0, <2>1, <2>3, <3>1, <3>2, CoreNumbers
  <2> QED BY <2>2, <2>3
<1>9. container \in Starts => made /\ container = n /\ core.active = n
  <2>1. container \in Starts => core.active = container
    BY DEF CoreInv, CoreSound
  <2>2. ~made => container # n
    BY <1>0, <1>1 DEF StartSound
  <2> QED BY <1>1, <2>1, <2>2, CoreNumbers
<1>10. pc \in {"stop", "leave"} /\ status # "starting" /\ (status = "stopped" => ~made) /\ status # "unavailable"
       /\ (pc = "stop" => made /\ status = "stopping") /\ (status = "ready" => start[n].ok)
       /\ (start[n].ok => made /\ (stops \/ status = "ready"))
  BY <1>0, <1>1 DEF StartSound
<1> HIDE DEF pc, status, stops, made
<1>11. CoreTyped' /\ CoreSound'
  BY <1>0, <1>6, <1>7, <1>8, <1>9, <1>10 DEF CoreTyped, CoreSound, Busy
<1>12. StartsSound'
  <2> SUFFICES ASSUME NEW m \in Starts PROVE StartSound(m)'
    BY DEF StartsSound
  <2>1. CASE m = n
    BY <1>1, <1>6, <1>7, <1>10, <2>1 DEF StartSound, Busy, UnderWay, Registered, Unregistered
  <2>2. CASE m # n
    <3>1. start'[m] = start[m] /\ start[m].pc \notin UnderWay /\ start[m].pc # "stop" /\ StartSound(m)
      BY <1>3, <1>6, <2>2
    <3> QED BY <3>1 DEF StartSound, Busy, UnderWay, Registered, Unregistered
  <2> QED BY <2>1, <2>2
<1>13. \A t \in Threads : CleanerSound(t)'
  <2> SUFFICES ASSUME NEW t \in Threads PROVE CleanerSound(t)'
    OBVIOUS
  <2>1. CleanerSound(t) /\ cleaner'[t] = cleaner[t] /\ ~(Cleaning(t) /\ cleaner[t].gen = core.gen)
    BY <1>2, <1>8 DEF CoreInv, CleanersSound
  <2> QED BY <1>0, <1>7, <2>1 DEF CleanerSound, Cleaning, BroughtDown
<1>14. \A m \in Starts : OwnCleanerSound(m)'
  <2> SUFFICES ASSUME NEW m \in Starts PROVE OwnCleanerSound(m)'
    OBVIOUS
  <2>1. CASE m = n
    <3>1. stops => pc = "stop"
      BY DEF pc
    <3> QED BY <1>6, <1>8, <2>1, <3>1 DEF OwnCleanerSound, Cleaning, BroughtDown
  <2>2. CASE m # n
    <3>1. OwnCleanerSound(m) /\ cleaner'[StartThread(m)] = cleaner[StartThread(m)] /\ start'[m] = start[m]
      BY <1>6, <1>8, <2>2 DEF CoreInv, CleanersSound
    <3> QED BY <1>0, <3>1 DEF OwnCleanerSound, Cleaning, BroughtDown
  <2> QED BY <2>1, <2>2
<1>15. app \in BeforeExit => ReadySound'
  <2> SUFFICES ASSUME app \in BeforeExit PROVE ReadySound'
    OBVIOUS
  <2>0. ReadySound
    BY DEF CoreInv
  <2>1. \A m \in Starts : Furnished(m)'
    <3> SUFFICES ASSUME NEW m \in Starts PROVE Furnished(m)'
      OBVIOUS
    <3>1. CASE m = n
      BY <1>6, <1>10, <3>1 DEF Furnished
    <3>2. CASE m # n
      BY <1>3, <1>6, <3>2 DEF Furnished, UnderWay
    <3> QED BY <3>1, <3>2
  <2>2. \A t \in Threads : ~Cleaning(t)'
    BY <1>2, <1>8 DEF Cleaning
  <2>3. start[n].ok => container = n /\ session = [files |-> Files, bridge |-> n]
    BY <2>0 DEF ReadySound, Furnished
  <2>4. session.bridge \in Starts => start[n].ok
    BY <1>0, <1>1, <1>3, <1>4, <2>0 DEF ReadySound, BridgeUsed
  <2>5. session'.bridge \in Starts => BridgeUsed'
    <3>1. CASE stops
      <4>1. cleaner'[StartThread(n)].pc = "revoke" /\ StartThread(n) \in Cleaners
        BY <1>8, <3>1, CoreNumbers
      <4> QED BY <4>1 DEF BridgeUsed
    <3>2. CASE ~stops
      BY <1>0, <1>7, <1>10, <2>4, <3>2 DEF BridgeUsed
    <3> QED BY <3>1, <3>2
  <2>6. core'.status = "ready" => core'.active = n
    BY <1>7, <1>10
  <2> QED BY <1>0, <1>7, <1>10, <2>1, <2>2, <2>3, <2>5, <2>6 DEF ReadySound
<1>16. ExitSound'
  <2>1. \A m \in Starts : start'[m].late = start[m].late
    BY <1>6
  <2>2. \A m \in Starts : Busy(m)' => Busy(m)
    BY <1>1, <1>6 DEF Busy
  <2>3. app = "cleanup" => (\A m \in Starts : Busy(m)' => start'[m].late) /\ start[n].late
    BY <1>1, <2>1, <2>2 DEF CoreInv, ExitSound
  <2>4. app = "cleanup" => LeftKnown'
    BY <1>0, <1>9, <2>1, <2>3 DEF LeftKnown
  <2> QED BY <1>0, <1>2, <2>3, <2>4 DEF ExitSound, Alive
<1> QED BY <1>0, <1>11, <1>12, <1>13, <1>14, <1>15, <1>16 DEF CoreInv, CleanersSound

LEMMA LeaveStartKeeps ==
  ASSUME ProcessTypeOK, CoreInv, NEW n \in Starts, LeaveStart(n)
  PROVE  CoreInv' /\ Still
<1>0. /\ Still /\ Alive /\ app' = app /\ asked' = asked /\ start[n].pc = "leave"
      /\ session' = session /\ container' = container /\ cleaner' = cleaner
      /\ core \in Cores /\ start \in [Starts -> StartRecords] /\ n # None /\ ~Busy(n)
  BY NothingMoves, CoreNumbers DEF LeaveStart, StartAt, Still, CoreInv, CoreTyped, Busy, UnderWay
<1>1. /\ core' \in Cores /\ core'.status = core.status /\ core'.active = core.active /\ core'.gen = core.gen
      /\ core'.cancel = core.cancel /\ core'.worker = (IF core.worker = n THEN None ELSE core.worker)
  <2>1. CASE core.worker = n
    BY <1>0, <2>1 DEF LeaveStart, Cores
  <2>2. CASE core.worker # n
    BY <1>0, <2>2 DEF LeaveStart
  <2> QED BY <2>1, <2>2
<1>2. /\ start' \in [Starts -> StartRecords] /\ (\A m \in Starts \ {n} : start'[m] = start[m])
      /\ start'[n].pc = "done" /\ ~start'[n].holds /\ ~start'[n].ok /\ start'[n].late = start[n].late
  <2> DEFINE s == [Unused EXCEPT !.pc = "done", !.late = start[n].late]
  <2>1. s \in StartRecords /\ s.pc = "done" /\ ~s.holds /\ ~s.ok /\ s.late = start[n].late
    BY <1>0 DEF Unused, StartRecords
  <2>2. start' = [start EXCEPT ![n] = s]
    BY DEF LeaveStart
  <2> HIDE DEF s
  <2> QED BY <1>0, <2>1, <2>2
<1>3. \A m \in Starts : (Busy(m)' <=> Busy(m)) /\ (m # n => start'[m] = start[m]) /\ start'[m].late = start[m].late
  <2>1. ~Busy(n)'
    BY <1>2 DEF Busy, UnderWay
  <2> QED BY <1>0, <1>2, <2>1 DEF Busy
<1>4. CoreTyped' /\ CoreSound'
  <2>1. core.cancel # n
    BY <1>0 DEF CoreInv, CoreSound, UnderWay
  <2>2. CoreTyped'
    BY <1>0, <1>1, <1>2 DEF CoreInv, CoreTyped
  <2>3. core'.cancel # None => start'[core'.cancel].pc \in UnderWay
    BY <1>0, <1>1, <1>3, <2>1 DEF CoreInv, CoreSound, Cores
  <2>4. core'.worker # None => Busy(core.worker)' \/ start'[core'.worker].pc = "leave"
    <3> SUFFICES ASSUME core'.worker # None PROVE Busy(core.worker)' \/ start'[core'.worker].pc = "leave"
      OBVIOUS
    <3>1. core'.worker = core.worker /\ core.worker \in Starts /\ core.worker # n /\ core.worker # None
      BY <1>0, <1>1 DEF Cores
    <3>2. Busy(core.worker) \/ start[core.worker].pc = "leave"
      BY <3>1 DEF CoreInv, CoreSound
    <3>3. start'[core'.worker] = start[core.worker]
      BY <1>3, <3>1
    <3> QED BY <3>2, <3>3 DEF Busy
  <2>5. start' \in [Starts -> StartRecords] /\ (container \in Starts => core.active = container)
        /\ (core.status = "starting" => core.cancel # None)
        /\ (core.status \in {"stopped", "unavailable"} => core.active = None)
    BY <1>2 DEF CoreInv, CoreSound
  <2> QED BY <1>0, <1>1, <2>2, <2>3, <2>4, <2>5 DEF CoreSound
<1>5. StartsSound'
  <2> SUFFICES ASSUME NEW m \in Starts PROVE StartSound(m)'
    BY DEF StartsSound
  <2>1. CASE m = n
    BY <1>2, <2>1 DEF StartSound, Busy, UnderWay, Registered, Unregistered
  <2>2. CASE m # n
    <3>1. start'[m] = start[m] /\ StartSound(m) /\ (Busy(m) => core.worker = m /\ core'.worker = m)
      BY <1>1, <1>3, <2>2 DEF CoreInv, StartsSound, StartSound
    <3> QED BY <1>0, <1>1, <1>3, <3>1 DEF StartSound
  <2> QED BY <2>1, <2>2
<1>6. \A t \in Threads : CleanerSound(t)'
  BY <1>0, <1>1, <1>3 DEF CoreInv, CleanersSound, CleanerSound, Cleaning, BroughtDown
<1>7. \A m \in Starts : OwnCleanerSound(m)'
  BY <1>0, <1>3 DEF CoreInv, CleanersSound, OwnCleanerSound, Cleaning, BroughtDown
<1>8. app \in BeforeExit => ReadySound'
  <2> SUFFICES ASSUME app \in BeforeExit PROVE ReadySound'
    OBVIOUS
  <2>1. ReadySound
    BY DEF CoreInv
  <2>2. \A m \in Starts : Furnished(m)'
    BY <1>0, <1>2, <1>3, <2>1 DEF ReadySound, Furnished
  <2>3. BridgeUsed => BridgeUsed'
    BY <1>0, <1>1, <1>3 DEF BridgeUsed
  <2> QED BY <1>0, <1>1, <2>1, <2>2, <2>3 DEF ReadySound, Cleaning
<1>9. ExitSound'
  <2>1. LeftKnown => LeftKnown'
    BY <1>0, <1>1, <1>3 DEF LeftKnown, Cleaning
  <2> QED BY <1>0, <1>1, <1>3, <2>1 DEF CoreInv, ExitSound
<1> QED BY <1>0, <1>4, <1>5, <1>6, <1>7, <1>8, <1>9 DEF CoreInv, CleanersSound

\* Who stops something goes on.
LEMMA CleanerGoesTo ==
  ASSUME CoreInv, NEW c \in Cleaners, NEW pc \in {"down", "wipe", "ended"}, NEW ok \in BOOLEAN, CleanerGoes(c, pc, ok)
  PROVE  /\ cleaner' \in [Cleaners -> Works] /\ (\A d \in Cleaners \ {c} : cleaner'[d] = cleaner[d])
         /\ cleaner'[c].pc = pc /\ cleaner'[c].ok = ok /\ cleaner'[c].gen = cleaner[c].gen
<1>0. cleaner \in [Cleaners -> Works] /\ cleaner' = [cleaner EXCEPT ![c].pc = pc, ![c].ok = ok]
  BY DEF CoreInv, CoreTyped, CleanerGoes
<1> DEFINE w == [cleaner[c] EXCEPT !.pc = pc, !.ok = ok]
<1>1. cleaner' = [cleaner EXCEPT ![c] = w]
  BY <1>0 DEF Works
<1>2. w \in Works /\ w.pc = pc /\ w.ok = ok /\ w.gen = cleaner[c].gen
  BY <1>0 DEF Works
<1> HIDE DEF w
<1> QED BY <1>0, <1>1, <1>2, ZenonT(30)

LEMMA CleanerKeeps ==
  ASSUME ProcessTypeOK, CoreInv, NEW c \in Cleaners, Revoke(c) \/ Down(c) \/ Wipe(c)
  PROVE  CoreInv' /\ Still
<1>0. session \in Sessions
  BY DEF CoreInv, CoreTyped
<1>1. CASE Revoke(c)
  <2>1. Still /\ Alive /\ cleaner[c].pc = "revoke" /\ CleanerGoes(c, "down", FALSE) /\ UNCHANGED <<core, container, start>>
    BY <1>1, NothingMoves DEF Revoke, CleanerAt
  <2>2. session' \in Sessions /\ session'.bridge = None
    BY <1>0, <1>1 DEF Revoke, Revoked, Sessions
  <2>3. /\ cleaner' \in [Cleaners -> Works] /\ (\A d \in Cleaners \ {c} : cleaner'[d] = cleaner[d])
        /\ cleaner'[c].pc = "down" /\ cleaner'[c].gen = cleaner[c].gen
    BY <2>1, CleanerGoesTo
  <2>4. Cleaning(c) /\ Cleaning(c)' /\ ~BroughtDown(c)'
    BY <2>1, <2>3 DEF Cleaning, BroughtDown
  <2> QED BY <2>1, <2>2, <2>3, <2>4, CleanerAdvances
<1>2. CASE Down(c)
  <2>1. Still /\ Alive /\ cleaner[c].pc = "down" /\ UNCHANGED <<core, session, start>>
    BY <1>2, NothingMoves, CostMoves DEF Down, CleanerAt
  <2>2. PICK pc \in {"wipe", "ended"}, ok \in BOOLEAN :
           CleanerGoes(c, pc, ok) /\ container' \in {container, None} /\ (ok => container' = None) /\ (pc = "wipe" => ok)
    <3>1. CASE container' = None /\ CleanerGoes(c, "wipe", TRUE)
      BY <3>1
    <3>2. CASE UNCHANGED container /\ CleanerGoes(c, "ended", FALSE)
      BY <3>2
    <3> QED BY <1>2, <3>1, <3>2 DEF Down
  <2>3. /\ cleaner' \in [Cleaners -> Works] /\ (\A d \in Cleaners \ {c} : cleaner'[d] = cleaner[d])
        /\ cleaner'[c].pc = pc /\ cleaner'[c].ok = ok /\ cleaner'[c].gen = cleaner[c].gen
    BY <2>2, CleanerGoesTo
  <2>4. Cleaning(c) /\ Cleaning(c)' /\ (BroughtDown(c)' => container' = None)
    BY <2>1, <2>2, <2>3 DEF Cleaning, BroughtDown
  <2> QED BY <1>0, <2>1, <2>2, <2>3, <2>4, CleanerAdvances
<1>3. CASE Wipe(c)
  <2>1. Still /\ Alive /\ cleaner[c].pc = "wipe" /\ CleanerGoes(c, "ended", TRUE) /\ UNCHANGED <<core, container, start>>
        /\ session' = NoSession
    BY <1>3, NothingMoves DEF Wipe, CleanerAt
  <2>2. /\ cleaner' \in [Cleaners -> Works] /\ (\A d \in Cleaners \ {c} : cleaner'[d] = cleaner[d])
        /\ cleaner'[c].pc = "ended" /\ cleaner'[c].gen = cleaner[c].gen
    BY <2>1, CleanerGoesTo
  <2>3. Cleaning(c) /\ Cleaning(c)' /\ BroughtDown(c)
    BY <2>1, <2>2 DEF Cleaning, BroughtDown
  <2> QED BY <2>1, <2>2, <2>3, CoreRecords, CleanerAdvances
<1> QED BY <1>1, <1>2, <1>3

\* A command's stop, or the exit's, has come to its end.
LEMMA EndStopKeeps ==
  ASSUME ProcessTypeOK, CoreInv, NEW t, EndStop(t)
  PROVE  CoreInv' /\ Still
<1>0. /\ Still /\ Alive /\ app' = app /\ asked' = asked /\ t \in Threads /\ t \in Cleaners /\ cleaner[t].pc = "ended"
      /\ session' = session /\ container' = container /\ start' = start /\ (\A m \in Starts : Busy(m)' <=> Busy(m))
      /\ core \in Cores /\ cleaner \in [Cleaners -> Works]
  BY NothingMoves, CoreNumbers DEF EndStop, CleanerAt, Still, CoreInv, CoreTyped, Busy
<1>1. Cleaning(t) /\ CleanerSound(t) /\ (cleaner[t].ok => BroughtDown(t)) /\ cleaner[t].ok \in BOOLEAN
  BY <1>0 DEF Cleaning, BroughtDown, CoreInv, CleanersSound, Works
<1> DEFINE ends == core.gen = cleaner[t].gen /\ core.status = "stopping"
<1>2. /\ core' \in Cores /\ core'.gen = core.gen /\ core'.worker = core.worker
      /\ (~ends => core' = core)
      /\ (ends /\ cleaner[t].ok => core'.status = "stopped" /\ core'.active = None /\ core'.cancel = None)
      /\ (ends /\ ~cleaner[t].ok => core'.status = "failed" /\ core'.active = core.active /\ core'.cancel = core.cancel)
  <2>1. CASE ~ends
    BY <1>0, <2>1 DEF EndStop, StopEnds
  <2>2. CASE ends /\ cleaner[t].ok
    <3>1. core' = [core EXCEPT !.active = None, !.cancel = None, !.status = "stopped"]
      BY <2>2 DEF EndStop, StopEnds
    <3> QED BY <1>0, <2>2, <3>1 DEF Cores, Statuses
  <2>3. CASE ends /\ ~cleaner[t].ok
    <3>1. core' = [core EXCEPT !.status = "failed"]
      BY <2>3 DEF EndStop, StopEnds
    <3> QED BY <1>0, <2>3, <3>1 DEF Cores, Statuses
  <2> QED BY <2>1, <2>2, <2>3
<1>3. /\ cleaner' \in [Cleaners -> Works] /\ (\A c \in Cleaners \ {t} : cleaner'[c] = cleaner[c])
      /\ cleaner'[t].pc \in {"none", "schedule"} /\ cleaner'[t].gen = 0
  <2> DEFINE w == IF cleaner[t].retry /\ cleaner[t].ok THEN [NoWork EXCEPT !.pc = "schedule"] ELSE NoWork
  <2>1. w \in Works /\ w.pc \in {"none", "schedule"} /\ w.gen = 0
    BY DEF NoWork, Works
  <2>2. cleaner' = [cleaner EXCEPT ![t] = w]
    BY DEF EndStop
  <2> HIDE DEF w
  <2> QED BY <1>0, <2>1, <2>2
<1>4. ends => (\A m \in Starts : ~Busy(m)) /\ (cleaner[t].ok => container \notin Starts) /\ core.cancel = None
  <2>1. ends => (\A m \in Starts : ~Busy(m)) /\ (cleaner[t].ok => container \notin Starts)
    BY <1>1 DEF CleanerSound
  <2>2. core.cancel # None => Busy(core.cancel) /\ core.cancel \in Starts
    BY <1>0 DEF CoreInv, CoreSound, Busy, Cores
  <2> QED BY <2>1, <2>2
<1>5. \A m \in Starts : ~Busy(m) => start[m].pc \notin UnderWay /\ start[m].pc # "stop" /\ ~start[m].ok
  BY DEF CoreInv, StartsSound, StartSound, Busy, UnderWay
<1>6. \A c \in Cleaners : c # t => /\ Cleaning(c)' <=> Cleaning(c)
                                   /\ BroughtDown(c)' <=> BroughtDown(c)
  BY <1>3 DEF Cleaning, BroughtDown
<1>7. ~Cleaning(t)' /\ ~BroughtDown(t)'
  BY <1>3 DEF Cleaning, BroughtDown
<1>8. core.active \in Starts \cup {None} /\ app # "setup" /\ (container \in Starts => core.active = container)
  BY <1>0, CoreRecords DEF CoreInv, ExitSound, Cores, CoreSound
<1> HIDE DEF ends
<1>9. CoreTyped' /\ CoreSound'
  <2>1. CoreTyped'
    BY <1>0, <1>2, <1>3 DEF CoreInv, CoreTyped
  <2>2. CASE ends
    <3>1. core.worker # None => Busy(core.worker) \/ start[core.worker].pc = "leave"
      BY DEF CoreInv, CoreSound
    <3>2. core'.cancel = None /\ core'.status \in {"stopped", "failed"} /\ (core'.status = "stopped" => core'.active = None)
          /\ (container \in Starts => core'.active = container)
      BY <1>2, <1>4, <1>8, <2>2
    <3> QED BY <1>0, <1>2, <2>1, <3>1, <3>2 DEF CoreSound, Busy
  <2>3. CASE ~ends
    BY <1>0, <1>2, <2>1, <2>3 DEF CoreInv, CoreSound, Busy
  <2> QED BY <2>2, <2>3
<1>10. StartsSound'
  <2> SUFFICES ASSUME NEW m \in Starts PROVE StartSound(m)'
    BY DEF StartsSound
  <2>1. StartSound(m)
    BY DEF CoreInv, StartsSound
  <2>2. CASE ends
    BY <1>0, <1>4, <1>5, <2>1, <2>2 DEF StartSound, Registered, Unregistered, UnderWay
  <2>3. CASE ~ends
    BY <1>0, <1>2, <2>1, <2>3 DEF StartSound
  <2> QED BY <2>2, <2>3
<1>11. \A s \in Threads : CleanerSound(s)'
  <2> SUFFICES ASSUME NEW s \in Threads PROVE CleanerSound(s)'
    OBVIOUS
  <2>1. CleanerSound(s) /\ s \in Cleaners
    BY CoreNumbers DEF CoreInv, CleanersSound
  <2>2. CASE s = t
    <3>1. ~(t > asked)
      BY <1>0, <1>1, CoreRecords DEF CleanerSound
    <3>2. 0 <= core.gen
      BY <1>0 DEF Cores
    <3> QED BY <1>0, <1>2, <1>3, <1>7, <2>2, <3>1, <3>2 DEF CleanerSound
  <2>3. CASE s # t
    BY <1>0, <1>2, <1>3, <1>6, <2>1, <2>3 DEF CleanerSound
  <2> QED BY <2>2, <2>3
<1>12. \A m \in Starts : OwnCleanerSound(m)'
  <2> SUFFICES ASSUME NEW m \in Starts PROVE OwnCleanerSound(m)'
    OBVIOUS
  <2>1. OwnCleanerSound(m) /\ StartThread(m) \in Cleaners \ {t}
    BY <1>0, CoreNumbers DEF CoreInv, CleanersSound
  <2> QED BY <1>0, <1>3, <1>6, <2>1 DEF OwnCleanerSound
<1>13. app \in BeforeExit => ReadySound'
  <2> SUFFICES ASSUME app \in BeforeExit PROVE ReadySound'
    OBVIOUS
  <2>0. ReadySound
    BY DEF CoreInv
  <2>1. ends /\ core.status = "stopping" /\ core'.status \in {"stopped", "failed"}
    <3>1. cleaner[t].gen = core.gen /\ core.status = "stopping"
      BY <1>0, <1>1, <2>0 DEF ReadySound
    <3>2. ends
      BY <3>1 DEF ends
    <3> QED BY <1>2, <3>1, <3>2
  <2>2. \A s \in Threads : ~Cleaning(s)'
    <3>1. \A s \in Threads : s # t => ~Cleaning(s)
      BY <1>0, <1>1, <2>0 DEF ReadySound
    <3> QED BY <1>6, <1>7, <3>1, CoreNumbers
  <2>3. \A m \in Starts : ~Busy(m) /\ Furnished(m)'
    BY <1>0, <1>4, <1>5, <2>1 DEF Furnished, UnderWay
  <2>4. session.bridge \notin Starts
    <3> SUFFICES ASSUME session.bridge \in Starts PROVE FALSE
      OBVIOUS
    <3>1. PICK c \in Cleaners : cleaner[c].pc = "revoke"
      BY <1>5, <2>0, <2>1, <2>3 DEF ReadySound, BridgeUsed
    <3>2. c \notin Threads
      BY <1>0, <1>1, <2>0, <3>1 DEF ReadySound, Cleaning
    <3>3. PICK m \in Starts : c = StartThread(m)
      BY <3>2, CoreNumbers
    <3>4. Busy(m)
      BY <3>1, <3>3 DEF CoreInv, CleanersSound, OwnCleanerSound, Busy, UnderWay
    <3> QED BY <2>3, <3>4
  <2> QED BY <1>0, <2>1, <2>2, <2>3, <2>4 DEF ReadySound
<1>14. ExitSound'
  <2>1. LeftKnown => LeftKnown'
    <3> SUFFICES ASSUME LeftKnown, container \in Starts, ~start[container].late
                 PROVE  \/ core'.status = "failed"
                        \/ /\ core'.status = "stopping"
                           /\ \E s \in Threads : Cleaning(s)' /\ cleaner'[s].gen = core'.gen /\ (app = "gone" => s \in Commands)
      BY <1>0 DEF LeftKnown
    <3>1. CASE ends
      BY <1>2, <1>4, <3>1
    <3>2. CASE ~ends
      <4>1. CASE core.status = "failed"
        BY <1>2, <3>2, <4>1
      <4>2. CASE core.status # "failed"
        <5>1. PICK s \in Threads : Cleaning(s) /\ cleaner[s].gen = core.gen /\ (app = "gone" => s \in Commands)
          BY <4>2 DEF LeftKnown
        <5>2. core.status = "stopping"
          BY <4>2 DEF LeftKnown
        <5>3. s # t
          BY <3>2, <5>1, <5>2 DEF ends
        <5> QED BY <1>2, <1>3, <1>6, <3>2, <5>1, <5>2, <5>3, CoreNumbers
      <4> QED BY <4>1, <4>2
    <3> QED BY <3>1, <3>2
  <2> QED BY <1>0, <1>8, <2>1 DEF CoreInv, ExitSound
<1> QED BY <1>0, <1>9, <1>10, <1>11, <1>12, <1>13, <1>14 DEF CoreInv, CleanersSound

\* A start's own stop has come to its end.
LEMMA EndStartCleanupKeeps ==
  ASSUME ProcessTypeOK, CoreInv, NEW n \in Starts, EndStartCleanup(n)
  PROVE  CoreInv' /\ Still
<1> DEFINE c == StartThread(n)
<1>0. /\ Still /\ Alive /\ app' = app /\ asked' = asked /\ c \in Cleaners /\ cleaner[c].pc = "ended"
      /\ session' = session /\ container' = container /\ n # None /\ start[n].pc \in {"cleanup", "stop"}
      /\ core \in Cores /\ cleaner \in [Cleaners -> Works] /\ start \in [Starts -> StartRecords]
  BY NothingMoves, CoreNumbers DEF EndStartCleanup, CleanerAt, StartAt, Still, CoreInv, CoreTyped
<1>1. /\ StartSound(n) /\ Busy(n) /\ start[n].gen = core.gen /\ core.worker = n /\ core.active = n /\ ~start[n].ok
      /\ cleaner[c].ok \in BOOLEAN /\ (cleaner[c].ok => container # n) /\ (start[n].pc = "stop" => ~start[n].holds)
      /\ (start[n].pc = "stop" => core.status = "stopping") /\ start[n].ok = FALSE
      /\ (start[n].pc = "cleanup" => core.cancel = n /\ core.status \in {"starting", "stopping"})
  <2>1. StartSound(n) /\ Busy(n) /\ OwnCleanerSound(n)
    BY <1>0 DEF CoreInv, StartsSound, CleanersSound, Busy, UnderWay
  <2>2. cleaner[c].ok \in BOOLEAN /\ start[n].ok \in BOOLEAN
    BY <1>0 DEF Works, StartRecords
  <2>3. ~start[n].ok
    BY <1>0, <2>1 DEF StartSound
  <2> QED BY <1>0, <2>1, <2>2, <2>3 DEF StartSound, Busy, OwnCleanerSound, BroughtDown, Registered, UnderWay
<1>2. /\ \A m \in Starts : Busy(m) => m = n
      /\ \A t \in Threads : ~(Cleaning(t) /\ cleaner[t].gen = core.gen)
      /\ app \in BeforeExit => \A t \in Threads : ~Cleaning(t)
      /\ core.status \in {"starting", "stopping"} /\ app # "setup"
  BY <1>1, StartAlone
<1>3. \A m \in Starts : StartSound(m) /\ (m # n => start[m].pc \notin UnderWay /\ start[m].pc # "stop" /\ ~start[m].ok)
  BY <1>2 DEF CoreInv, StartsSound, StartSound, Busy, UnderWay
<1>4. PICK pc \in {"finish", "leave"}, holds \in BOOLEAN :
         /\ start' = [start EXCEPT ![n].pc = pc, ![n].holds = holds, ![n].ok = FALSE]
         /\ pc = "finish" => core' = core /\ start[n].pc = "cleanup" /\ (~holds => cleaner[c].ok)
         /\ pc = "leave" => /\ start[n].pc = "stop" /\ ~holds /\ StopEnds(start[n].gen, cleaner[c].ok)
  <2>1. CASE start[n].pc = "cleanup"
    <3> DEFINE h == ~cleaner[c].ok
    <3>1. start' = [start EXCEPT ![n].pc = "finish", ![n].holds = h] /\ core' = core
      BY <2>1 DEF EndStartCleanup, StartAt
    <3>2. h \in BOOLEAN /\ (~h => cleaner[c].ok)
      OBVIOUS
    <3> HIDE DEF h
    <3>3. start' = [start EXCEPT ![n].pc = "finish", ![n].holds = h, ![n].ok = FALSE]
      <4>1. start \in [Starts -> StartRecords] /\ start[n].ok = FALSE /\ start' = [start EXCEPT ![n].pc = "finish", ![n].holds = h]
        BY <1>0, <1>1, <3>1
      <4> QED BY <3>2, <4>1, ZenonT(30) DEF StartRecords
    <3> QED BY <2>1, <3>1, <3>2, <3>3
  <2>2. CASE start[n].pc = "stop"
    <3>1. start' = [start EXCEPT ![n].pc = "leave"] /\ StopEnds(start[n].gen, cleaner[c].ok)
      BY <2>2 DEF EndStartCleanup, StartAt
    <3>2. start[n].holds = FALSE
      BY <1>0, <1>1, <2>2 DEF StartRecords
    <3>3. start' = [start EXCEPT ![n].pc = "leave", ![n].holds = FALSE, ![n].ok = FALSE]
      BY <1>0, <1>1, <3>1, <3>2, ZenonT(30) DEF StartRecords
    <3> QED BY <2>2, <3>1, <3>3
  <2> QED BY <1>0, <2>1, <2>2
<1>5. /\ start' \in [Starts -> StartRecords] /\ (\A m \in Starts \ {n} : start'[m] = start[m])
      /\ start'[n].pc = pc /\ start'[n].holds = holds /\ start'[n].ok = FALSE
      /\ start'[n].gen = start[n].gen /\ start'[n].late = start[n].late
  <2>1. pc \in UnderWay \cup {"unused", "stop", "leave", "done"} /\ FALSE \in BOOLEAN
    BY DEF UnderWay
  <2> QED BY <1>4, <2>1, StartGoesTo
<1>6. /\ core' \in Cores /\ core'.gen = core.gen /\ core'.worker = n
      /\ (pc = "leave" /\ cleaner[c].ok => core'.status = "stopped" /\ core'.active = None /\ core'.cancel = None)
      /\ (pc = "leave" /\ ~cleaner[c].ok => core'.status = "failed" /\ core'.active = n /\ core'.cancel = core.cancel)
  <2>1. CASE pc = "finish"
    BY <1>0, <1>1, <1>4, <2>1
  <2>2. CASE pc = "leave" /\ cleaner[c].ok
    <3>1. core' = [core EXCEPT !.active = None, !.cancel = None, !.status = "stopped"]
      BY <1>1, <1>4, <2>2 DEF StopEnds
    <3> QED BY <1>0, <1>1, <2>2, <3>1 DEF Cores, Statuses
  <2>3. CASE pc = "leave" /\ ~cleaner[c].ok
    <3>1. core' = [core EXCEPT !.status = "failed"]
      BY <1>1, <1>4, <2>3 DEF StopEnds
    <3> QED BY <1>0, <1>1, <2>3, <3>1 DEF Cores, Statuses
  <2> QED BY <2>1, <2>2, <2>3
<1>7. /\ cleaner' \in [Cleaners -> Works] /\ (\A t \in Threads : cleaner'[t] = cleaner[t])
      /\ (\A m \in Starts \ {n} : cleaner'[StartThread(m)] = cleaner[StartThread(m)])
      /\ cleaner'[c].pc = "none"
  BY <1>0, CoreRecords, CoreNumbers DEF EndStartCleanup
<1>8. container \in Starts => container = n
  BY <1>1 DEF CoreInv, CoreSound
<1>9. \A m \in Starts : cleaner[StartThread(m)].pc # "revoke"
  <2> SUFFICES ASSUME NEW m \in Starts, cleaner[StartThread(m)].pc = "revoke" PROVE FALSE
    OBVIOUS
  <2>1. m # n
    BY <1>0
  <2>2. start[m].pc \in {"cleanup", "stop"}
    BY DEF CoreInv, CleanersSound, OwnCleanerSound
  <2> QED BY <1>3, <2>1, <2>2 DEF UnderWay
<1>10. pc = "leave" => core.cancel = None
  <2> SUFFICES ASSUME pc = "leave", core.cancel # None PROVE FALSE
    OBVIOUS
  <2>1. core.cancel \in Starts /\ start[core.cancel].pc \in UnderWay
    BY <1>0 DEF CoreInv, CoreSound, Cores
  <2>2. core.cancel = n /\ start[n].pc = "stop"
    BY <1>3, <1>4, <2>1
  <2> QED BY <2>1, <2>2 DEF UnderWay
<1> HIDE DEF c
<1>11. CoreTyped' /\ CoreSound'
  <2>1. CoreTyped'
    BY <1>0, <1>5, <1>6, <1>7 DEF CoreInv, CoreTyped
  <2>2. CASE pc = "finish"
    <3>1. start'[n].pc \in UnderWay /\ core' = core /\ core.cancel = n
      BY <1>1, <1>4, <1>5, <2>2 DEF UnderWay
    <3> QED BY <1>0, <1>1, <1>2, <1>8, <2>1, <3>1 DEF CoreSound, Busy
  <2>3. CASE pc = "leave"
    BY <1>0, <1>1, <1>5, <1>6, <1>8, <1>10, <2>1, <2>3 DEF CoreSound
  <2> QED BY <2>2, <2>3
<1>12. StartsSound'
  <2> SUFFICES ASSUME NEW m \in Starts PROVE StartSound(m)'
    BY DEF StartsSound
  <2>1. CASE m # n
    <3>1. start'[m] = start[m] /\ start[m].pc \notin UnderWay /\ start[m].pc # "stop" /\ StartSound(m)
      BY <1>3, <1>5, <2>1
    <3> QED BY <3>1 DEF StartSound, Busy, UnderWay, Registered, Unregistered
  <2>2. CASE m = n /\ pc = "leave"
    BY <1>4, <1>5, <2>2 DEF StartSound, Busy, UnderWay, Registered, Unregistered
  <2>3. CASE m = n /\ pc = "finish"
    <3>1. core' = core /\ core.cancel = n /\ core.status \in {"starting", "stopping"} /\ (~holds => container # n)
      BY <1>1, <1>4, <2>3
    <3> QED BY <1>0, <1>1, <1>5, <2>3, <3>1 DEF StartSound, Busy, UnderWay, Registered, Unregistered
  <2> QED BY <2>1, <2>2, <2>3
<1>13. \A t \in Threads : CleanerSound(t)'
  <2> SUFFICES ASSUME NEW t \in Threads PROVE CleanerSound(t)'
    OBVIOUS
  <2>1. CleanerSound(t) /\ cleaner'[t] = cleaner[t] /\ ~(Cleaning(t) /\ cleaner[t].gen = core.gen)
    BY <1>2, <1>7 DEF CoreInv, CleanersSound
  <2> QED BY <1>0, <1>6, <2>1 DEF CleanerSound, Cleaning, BroughtDown
<1>14. \A m \in Starts : OwnCleanerSound(m)'
  <2> SUFFICES ASSUME NEW m \in Starts PROVE OwnCleanerSound(m)'
    OBVIOUS
  <2>1. CASE m = n
    BY <1>7, <2>1 DEF OwnCleanerSound, Cleaning, BroughtDown, c
  <2>2. CASE m # n
    <3>1. OwnCleanerSound(m) /\ cleaner'[StartThread(m)] = cleaner[StartThread(m)] /\ start'[m] = start[m]
      BY <1>5, <1>7, <2>2 DEF CoreInv, CleanersSound
    <3> QED BY <1>0, <3>1 DEF OwnCleanerSound, Cleaning, BroughtDown
  <2> QED BY <2>1, <2>2
<1>15. app \in BeforeExit => ReadySound'
  <2> SUFFICES ASSUME app \in BeforeExit PROVE ReadySound'
    OBVIOUS
  <2>0. ReadySound
    BY DEF CoreInv
  <2>1. \A m \in Starts : Furnished(m)'
    <3> SUFFICES ASSUME NEW m \in Starts PROVE Furnished(m)'
      OBVIOUS
    <3>1. CASE m = n
      BY <1>5, <3>1 DEF Furnished
    <3>2. CASE m # n
      BY <1>3, <1>5, <3>2 DEF Furnished, UnderWay
    <3> QED BY <3>1, <3>2
  <2>2. \A t \in Threads : ~Cleaning(t)'
    BY <1>2, <1>7 DEF Cleaning
  <2>3. session.bridge \notin Starts
    <3> SUFFICES ASSUME BridgeUsed PROVE FALSE
      BY <2>0 DEF ReadySound
    <3>1. \A m \in Starts : ~start[m].ok
      BY <1>1, <1>3
    <3>2. \A d \in Cleaners : cleaner[d].pc # "revoke"
      BY <1>2, <1>9, CoreNumbers DEF Cleaning
    <3> QED BY <1>2, <3>1, <3>2 DEF BridgeUsed
  <2>4. core'.status # "ready"
    BY <1>2, <1>4, <1>6
  <2> QED BY <1>0, <2>1, <2>2, <2>3, <2>4 DEF ReadySound
<1>16. ExitSound'
  <2>1. \A m \in Starts : start'[m].late = start[m].late
    BY <1>5
  <2>2. \A m \in Starts : Busy(m)' => Busy(m)
    BY <1>1, <1>5 DEF Busy
  <2>3. app = "cleanup" => (\A m \in Starts : Busy(m)' => start'[m].late) /\ start[n].late
    BY <1>1, <2>1, <2>2 DEF CoreInv, ExitSound
  <2>4. app = "cleanup" => LeftKnown'
    BY <1>0, <1>8, <2>1, <2>3 DEF LeftKnown
  <2> QED BY <1>0, <1>2, <2>3, <2>4 DEF ExitSound, Alive
<1> QED BY <1>0, <1>11, <1>12, <1>13, <1>14, <1>15, <1>16 DEF CoreInv, CleanersSound

\* Nothing is under way unless the status says so.
LEMMA CoreQuiet ==
  ASSUME CoreInv, core.status \notin {"starting", "stopping"}
  PROVE  /\ \A m \in Starts : ~Busy(m) /\ start[m].pc \notin UnderWay /\ start[m].pc # "stop" /\ ~start[m].ok
         /\ core.cancel = None
         /\ app \in BeforeExit => \A t \in Threads : ~Cleaning(t)
         /\ app \in BeforeExit => \A c \in Cleaners : cleaner[c].pc # "revoke"
<1>1. \A m \in Starts : ~Busy(m)
  BY StartAlone
<1>2. \A m \in Starts : start[m].pc \notin UnderWay /\ start[m].pc # "stop" /\ ~start[m].ok
  BY <1>1 DEF CoreInv, StartsSound, StartSound, Busy, UnderWay
<1>3. core.cancel = None
  BY <1>2 DEF CoreInv, CoreSound, CoreTyped, Cores
<1>4. app \in BeforeExit => \A t \in Threads : ~Cleaning(t)
  BY DEF CoreInv, ReadySound
<1>5. app \in BeforeExit => \A c \in Cleaners : cleaner[c].pc # "revoke"
  <2> SUFFICES ASSUME app \in BeforeExit, NEW c \in Cleaners, cleaner[c].pc = "revoke" PROVE FALSE
    OBVIOUS
  <2>1. PICK m \in Starts : c = StartThread(m)
    BY <1>4, CoreNumbers DEF Cleaning
  <2>2. Busy(m)
    BY <2>1 DEF CoreInv, CleanersSound, OwnCleanerSound, Busy, UnderWay
  <2> QED BY <1>1, <2>2
<1> QED BY <1>1, <1>2, <1>3, <1>4, <1>5

\* What a request does to the process: the one at launch ends the setup.
Requested(t) ==
    /\ Moves /\ t \in Threads /\ t <= asked' /\ cleaner[t].pc \in {"none", "schedule"} /\ app \notin {"gone", "killed"}
    /\ (app' = app /\ app # "setup") \/ (app = "setup" /\ app' = "running")

\* A stop of what is active begins: it is the current one from now on.
LEMMA StopBegins ==
  ASSUME ProcessTypeOK, CoreInv, NEW t, Requested(t), core.active # None, core.status \notin {"starting", "stopping"},
         NEW retry \in BOOLEAN, Cleans(t, core.gen + 1, retry),
         core' = [core EXCEPT !.gen = @ + 1, !.status = "stopping"], UNCHANGED <<session, container, start>>
  PROVE  CoreInv'
<1>0. /\ t \in Threads /\ t \in Cleaners /\ t <= asked' /\ asked \in Nat /\ asked' \in Nat /\ asked <= asked'
      /\ session' = session /\ container' = container /\ start' = start
      /\ core \in Cores /\ core.gen \in Nat /\ cleaner \in [Cleaners -> Works] /\ start \in [Starts -> StartRecords]
  BY CoreNumbers DEF Requested, Moves, ProcessTypeOK, CoreInv, CoreTyped, Cores
<1>1. /\ \A m \in Starts : ~Busy(m) /\ start[m].pc \notin UnderWay /\ start[m].pc # "stop" /\ ~start[m].ok
      /\ core.cancel = None
      /\ app \in BeforeExit => \A s \in Threads : ~Cleaning(s)
  BY CoreQuiet
<1>2. /\ core' \in Cores /\ core'.gen = core.gen + 1 /\ core'.status = "stopping" /\ core'.active = core.active
      /\ core'.cancel = None /\ core'.worker = core.worker
  <2>1. core \in Cores /\ core' = [core EXCEPT !.gen = @ + 1, !.status = "stopping"] /\ core.cancel = None
    BY <1>0, <1>1
  <2>2. "stopping" \in Statuses /\ core.gen + 1 \in Nat
    BY <1>0 DEF Statuses
  <2> QED BY <2>1, <2>2 DEF Cores
<1>3. /\ cleaner' \in [Cleaners -> Works] /\ (\A c \in Cleaners \ {t} : cleaner'[c] = cleaner[c])
      /\ cleaner'[t].pc = "revoke" /\ cleaner'[t].gen = core.gen + 1
  <2> DEFINE w == [pc |-> "revoke", gen |-> core.gen + 1, retry |-> retry, ok |-> FALSE]
  <2>1. w \in Works /\ w.pc = "revoke" /\ w.gen = core.gen + 1
    BY <1>0 DEF Works
  <2>2. cleaner' = [cleaner EXCEPT ![t] = w]
    BY DEF Cleans
  <2> HIDE DEF w
  <2> QED BY <1>0, <2>1, <2>2
<1>4. \A m \in Starts : ~Busy(m)'
  BY <1>0, <1>1 DEF Busy
<1>5. CoreTyped' /\ CoreSound'
  BY <1>0, <1>1, <1>2, <1>3 DEF CoreInv, CoreTyped, CoreSound, Busy
<1>6. StartsSound'
  BY <1>0, <1>1, <1>4 DEF CoreInv, StartsSound, StartSound, UnderWay, Registered, Unregistered
<1>7. \A s \in Threads : CleanerSound(s)'
  <2> SUFFICES ASSUME NEW s \in Threads PROVE CleanerSound(s)'
    OBVIOUS
  <2>1. CleanerSound(s) /\ s \in Cleaners /\ s \in Nat
    BY Bounds, CoreNumbers DEF CoreInv, CleanersSound
  <2>2. CASE s = t
    BY <1>0, <1>2, <1>3, <1>4, <2>1, <2>2 DEF CleanerSound, BroughtDown
  <2>3. CASE s # t
    <3>1. cleaner'[s] = cleaner[s] /\ cleaner[s].gen \in Nat
      BY <1>0, <1>3, <2>1, <2>3 DEF Works
    <3> QED BY <1>0, <1>2, <2>1, <3>1 DEF CleanerSound
  <2> QED BY <2>2, <2>3
<1>8. \A m \in Starts : OwnCleanerSound(m)'
  <2> SUFFICES ASSUME NEW m \in Starts PROVE OwnCleanerSound(m)'
    OBVIOUS
  <2>1. OwnCleanerSound(m) /\ cleaner'[StartThread(m)] = cleaner[StartThread(m)]
    BY <1>0, <1>3, CoreNumbers DEF CoreInv, CleanersSound
  <2> QED BY <1>0, <2>1 DEF OwnCleanerSound, Cleaning, BroughtDown
<1>9. app' \in BeforeExit => ReadySound'
  <2> SUFFICES ASSUME app' \in BeforeExit PROVE ReadySound'
    OBVIOUS
  <2>1. app \in BeforeExit
    BY DEF Requested, Moves
  <2>2. \A s \in Threads : Cleaning(s)' => s = t
    BY <1>1, <1>3, <2>1, CoreNumbers DEF Cleaning
  <2>3. \A m \in Starts : Furnished(m)'
    BY <1>0, <1>1 DEF Furnished, UnderWay
  <2> QED BY <1>0, <1>2, <1>3, <2>2, <2>3 DEF ReadySound, BridgeUsed
<1>10. ExitSound'
  <2>1. Cleaning(t)' /\ cleaner'[t].gen = core'.gen
    BY <1>2, <1>3 DEF Cleaning
  <2> QED BY <1>0, <1>2, <1>4, <2>1 DEF Requested, ExitSound, LeftKnown
<1> QED BY <1>5, <1>6, <1>7, <1>8, <1>9, <1>10 DEF CoreInv, CleanersSound

\* Nothing is to be started.
LEMMA NothingBegins ==
  ASSUME ProcessTypeOK, CoreInv, NEW t, Requested(t), cleaner' = [cleaner EXCEPT ![t] = NoWork] \/ cleaner' = cleaner,
         UNCHANGED <<core, session, container, start>>
  PROVE  CoreInv'
<1>0. /\ t \in Threads /\ t \in Cleaners /\ t <= asked' /\ asked \in Nat /\ asked' \in Nat /\ asked <= asked'
      /\ core' = core /\ session' = session /\ container' = container /\ start' = start
      /\ cleaner \in [Cleaners -> Works] /\ cleaner[t].pc \in {"none", "schedule"} /\ core.gen \in Nat
      /\ (\A m \in Starts : Busy(m)' <=> Busy(m))
  BY CoreNumbers DEF Requested, Moves, ProcessTypeOK, CoreInv, CoreTyped, Cores, Busy
<1>1. /\ cleaner' \in [Cleaners -> Works] /\ (\A c \in Cleaners \ {t} : cleaner'[c] = cleaner[c])
      /\ cleaner'[t].pc \in {"none", "schedule"} /\ cleaner'[t].gen \in {0, cleaner[t].gen}
      /\ (cleaner[t] = NoWork => cleaner'[t] = NoWork)
  <2>1. CASE cleaner' = [cleaner EXCEPT ![t] = NoWork]
    BY <1>0, <2>1, CoreRecords
  <2>2. CASE cleaner' = cleaner
    BY <1>0, <2>2
  <2> QED BY <2>1, <2>2
<1>2. \A c \in Cleaners : /\ Cleaning(c)' <=> Cleaning(c)
                          /\ BroughtDown(c)' <=> BroughtDown(c)
                          /\ Cleaning(c) \/ cleaner[c].pc = "revoke" => cleaner'[c] = cleaner[c]
  BY <1>0, <1>1 DEF Cleaning, BroughtDown
<1>3. CoreTyped' /\ CoreSound' /\ StartsSound'
  BY <1>0, <1>1 DEF CoreInv, CoreTyped, CoreSound, StartsSound, StartSound, Busy
<1>4. \A s \in Threads : CleanerSound(s)'
  <2> SUFFICES ASSUME NEW s \in Threads PROVE CleanerSound(s)'
    OBVIOUS
  <2>1. CleanerSound(s) /\ s \in Cleaners /\ s \in Nat
    BY Bounds, CoreNumbers DEF CoreInv, CleanersSound
  <2>2. s > asked' => cleaner'[s] = NoWork
    BY <1>0, <1>1, <2>1 DEF CleanerSound
  <2>3. cleaner'[s].gen <= core.gen
    BY <1>0, <1>1, <2>1 DEF CleanerSound
  <2>4. BroughtDown(s) => Cleaning(s)
    BY DEF BroughtDown, Cleaning
  <2>5. Cleaning(s)' => Cleaning(s) /\ cleaner'[s] = cleaner[s]
    BY <1>2, <2>1
  <2>6. BroughtDown(s)' => BroughtDown(s) /\ cleaner'[s] = cleaner[s]
    BY <1>2, <2>1, <2>4
  <2> QED BY <1>0, <2>1, <2>2, <2>3, <2>5, <2>6 DEF CleanerSound
<1>5. \A m \in Starts : OwnCleanerSound(m)'
  <2> SUFFICES ASSUME NEW m \in Starts PROVE OwnCleanerSound(m)'
    OBVIOUS
  <2>1. OwnCleanerSound(m) /\ cleaner'[StartThread(m)] = cleaner[StartThread(m)]
    BY <1>0, <1>1, CoreNumbers DEF CoreInv, CleanersSound
  <2> QED BY <1>0, <2>1 DEF OwnCleanerSound, Cleaning, BroughtDown
<1>6. app' \in BeforeExit => ReadySound'
  <2>1. app' \in BeforeExit => ReadySound
    BY DEF Requested, Moves, CoreInv
  <2>2. BridgeUsed => BridgeUsed'
    BY <1>0, <1>2 DEF BridgeUsed
  <2>3. ReadySound => \A s \in Threads : Cleaning(s)' => cleaner'[s].gen = core.gen /\ core.status = "stopping"
    BY <1>2, CoreNumbers DEF ReadySound
  <2>4. ReadySound => \A r, s \in Threads : Cleaning(r)' /\ Cleaning(s)' => r = s
    BY <1>2, CoreNumbers DEF ReadySound
  <2>5. ReadySound => \A m \in Starts : Furnished(m)'
    BY <1>0 DEF ReadySound, Furnished
  <2> QED BY <1>0, <2>1, <2>2, <2>3, <2>4, <2>5 DEF ReadySound
<1>7. ExitSound'
  <2>1. LeftKnown /\ app' = app => LeftKnown'
    BY <1>0, <1>2, CoreNumbers DEF LeftKnown
  <2> QED BY <1>0, <2>1 DEF Requested, CoreInv, ExitSound
<1> QED BY <1>3, <1>4, <1>5, <1>6, <1>7 DEF CoreInv, CleanersSound

\* A start begins: nothing is active, and nothing of an earlier one is left to be done.
LEMMA StartBegins ==
  ASSUME ProcessTypeOK, CoreInv, NEW t, Requested(t), Startable, cleaner' = [cleaner EXCEPT ![t] = NoWork],
         NEW n \in Starts, start[n] = Unused, NEW late \in BOOLEAN, app = "cleanup" => late,
         start' = [start EXCEPT ![n].pc = "prepare", ![n].gen = core.gen + 1, ![n].late = late],
         core' = [core EXCEPT !.gen = @ + 1, !.status = "starting", !.cancel = n, !.worker = n],
         UNCHANGED <<session, container>>
  PROVE  CoreInv'
<1>0. /\ t \in Threads /\ t \in Cleaners /\ t <= asked' /\ asked \in Nat /\ asked' \in Nat /\ asked <= asked'
      /\ session' = session /\ container' = container /\ n # None
      /\ core \in Cores /\ core.gen \in Nat /\ cleaner \in [Cleaners -> Works] /\ start \in [Starts -> StartRecords]
      /\ cleaner[t].pc \in {"none", "schedule"}
  BY CoreNumbers DEF Requested, Moves, ProcessTypeOK, CoreInv, CoreTyped, Cores
<1>1. /\ \A m \in Starts : ~Busy(m) /\ start[m].pc \notin UnderWay /\ start[m].pc # "stop" /\ ~start[m].ok
      /\ app \in BeforeExit => \A s \in Threads : ~Cleaning(s)
      /\ app \in BeforeExit => \A c \in Cleaners : cleaner[c].pc # "revoke"
  BY CoreQuiet DEF Startable
<1>2. container \notin Starts /\ core.active = None
  BY CoreNumbers DEF Startable, CoreInv, CoreSound
<1>3. /\ core' \in Cores /\ core'.gen = core.gen + 1 /\ core'.status = "starting" /\ core'.active = None
      /\ core'.cancel = n /\ core'.worker = n
  <2>1. /\ core \in Cores /\ core' = [core EXCEPT !.gen = @ + 1, !.status = "starting", !.cancel = n, !.worker = n]
        /\ core.active = None
    BY <1>0, <1>2
  <2>2. "starting" \in Statuses /\ core.gen + 1 \in Nat
    BY <1>0 DEF Statuses
  <2> QED BY <2>1, <2>2 DEF Cores
<1>4. /\ start' \in [Starts -> StartRecords] /\ (\A m \in Starts \ {n} : start'[m] = start[m])
      /\ start'[n].pc = "prepare" /\ ~start'[n].holds /\ ~start'[n].ok
      /\ start'[n].gen = core.gen + 1 /\ start'[n].late = late
  <2> DEFINE s == [start[n] EXCEPT !.pc = "prepare", !.gen = core.gen + 1, !.late = late]
  <2>1. start' = [start EXCEPT ![n] = s]
    BY <1>0 DEF StartRecords
  <2>2. s \in StartRecords /\ s.pc = "prepare" /\ s.gen = core.gen + 1 /\ s.late = late
    <3>1. start[n] \in StartRecords /\ core.gen + 1 \in Nat /\ "prepare" \in UnderWay
      BY <1>0 DEF UnderWay
    <3> QED BY <3>1 DEF StartRecords
  <2>3. ~s.holds /\ ~s.ok
    BY DEF Unused
  <2> HIDE DEF s
  <2> QED BY <1>0, <2>1, <2>2, <2>3, ZenonT(30)
<1>5. /\ cleaner' \in [Cleaners -> Works] /\ (\A c \in Cleaners \ {t} : cleaner'[c] = cleaner[c])
      /\ cleaner'[t] = NoWork /\ cleaner'[t].pc = "none" /\ cleaner'[t].gen = 0
  BY <1>0, CoreRecords
<1>6. \A m \in Starts : (m = n => Busy(m)') /\ (m # n => ~Busy(m)' /\ start'[m] = start[m])
  BY <1>1, <1>4 DEF Busy, UnderWay
<1>7. CoreTyped' /\ CoreSound'
  <2>1. start'[n].pc \in UnderWay /\ Busy(n)'
    BY <1>4, <1>6 DEF UnderWay
  <2>2. CoreTyped'
    BY <1>0, <1>3, <1>4, <1>5 DEF CoreInv, CoreTyped
  <2> QED BY <1>0, <1>2, <1>3, <2>1, <2>2 DEF CoreSound, Busy
<1>8. StartsSound'
  <2> SUFFICES ASSUME NEW m \in Starts PROVE StartSound(m)'
    BY DEF StartsSound
  <2>1. CASE m = n
    BY <1>0, <1>3, <1>4, <2>1 DEF StartSound, UnderWay, Registered, Unregistered
  <2>2. CASE m # n
    <3>1. start'[m] = start[m] /\ start[m].pc \notin UnderWay /\ start[m].pc # "stop" /\ StartSound(m) /\ ~Busy(m)'
      BY <1>1, <1>6, <2>2 DEF CoreInv, StartsSound
    <3> QED BY <3>1 DEF StartSound, UnderWay, Registered, Unregistered
  <2> QED BY <2>1, <2>2
<1>9. \A s \in Threads : CleanerSound(s)'
  <2> SUFFICES ASSUME NEW s \in Threads PROVE CleanerSound(s)'
    OBVIOUS
  <2>1. CleanerSound(s) /\ s \in Cleaners /\ s \in Nat
    BY Bounds, CoreNumbers DEF CoreInv, CleanersSound
  <2>2. CASE s = t
    BY <1>0, <1>3, <1>5, <2>1, <2>2 DEF CleanerSound, BroughtDown, Cleaning
  <2>3. CASE s # t
    <3>1. cleaner'[s] = cleaner[s] /\ cleaner[s].gen \in Nat
      BY <1>0, <1>5, <2>1, <2>3 DEF Works
    <3> QED BY <1>0, <1>3, <2>1, <3>1 DEF CleanerSound
  <2> QED BY <2>2, <2>3
<1>10. \A m \in Starts : OwnCleanerSound(m)'
  <2> SUFFICES ASSUME NEW m \in Starts PROVE OwnCleanerSound(m)'
    OBVIOUS
  <2>1. cleaner[StartThread(m)].pc = "none" /\ cleaner'[StartThread(m)] = cleaner[StartThread(m)]
    BY <1>0, <1>1, <1>5, CoreNumbers DEF CoreInv, CleanersSound, OwnCleanerSound, UnderWay
  <2> QED BY <2>1 DEF OwnCleanerSound, BroughtDown
<1>11. app' \in BeforeExit => ReadySound'
  <2> SUFFICES ASSUME app' \in BeforeExit PROVE ReadySound'
    OBVIOUS
  <2>0. app \in BeforeExit /\ ReadySound
    BY DEF Requested, Moves, CoreInv
  <2>1. \A s \in Threads : ~Cleaning(s)'
    BY <1>1, <1>5, <2>0, CoreNumbers DEF Cleaning
  <2>2. \A m \in Starts : Furnished(m)'
    <3> SUFFICES ASSUME NEW m \in Starts PROVE Furnished(m)'
      OBVIOUS
    <3>1. CASE m = n
      BY <1>4, <3>1 DEF Furnished
    <3>2. CASE m # n
      BY <1>1, <1>6, <3>2 DEF Furnished, UnderWay
    <3> QED BY <3>1, <3>2
  <2>3. session.bridge \notin Starts
    BY <1>1, <2>0 DEF ReadySound, BridgeUsed, Startable
  <2> QED BY <1>0, <1>3, <2>1, <2>2, <2>3 DEF ReadySound
<1>12. ExitSound'
  <2>1. app' = "cleanup" => \A m \in Starts : Busy(m)' => start'[m].late
    BY <1>4, <1>6 DEF Requested
  <2> QED BY <1>0, <1>2, <2>1 DEF Requested, ExitSound, LeftKnown
<1> QED BY <1>7, <1>8, <1>9, <1>10, <1>11, <1>12 DEF CoreInv, CleanersSound

LEMMA ScheduleStartKeeps ==
  ASSUME ProcessTypeOK, CoreInv, NEW t, Requested(t), ScheduleStart(t)
  PROVE  CoreInv'
<1>1. CASE RetryCleans /\ Cleans(t, core.gen + 1, TRUE) /\ UNCHANGED start
           /\ core' = [core EXCEPT !.gen = @ + 1, !.status = "stopping"]
  <2>1. core.active # None /\ core.status \notin {"starting", "stopping"}
    BY <1>1 DEF RetryCleans
  <2> QED BY <1>1, <2>1, StopBegins DEF ScheduleStart
<1>2. CASE cleaner' = [cleaner EXCEPT ![t] = NoWork] /\ UNCHANGED <<core, start>>
  BY <1>2, NothingBegins DEF ScheduleStart
<1>3. ASSUME cleaner' = [cleaner EXCEPT ![t] = NoWork], Startable, NEW n \in Starts, NextStart(n),
             start' = [start EXCEPT ![n].pc = "prepare", ![n].gen = core.gen + 1,
                                    ![n].late = app \notin {"setup", "running"}],
             core' = [core EXCEPT !.gen = @ + 1, !.status = "starting", !.cancel = n, !.worker = n]
      PROVE  CoreInv'
  <2> DEFINE late == app \notin {"setup", "running"}
  <2>1. late \in BOOLEAN /\ (app = "cleanup" => late)
    OBVIOUS
  <2>2. start' = [start EXCEPT ![n].pc = "prepare", ![n].gen = core.gen + 1, ![n].late = late]
    BY <1>3
  <2>3. start[n] = Unused
    BY <1>3 DEF NextStart
  <2> HIDE DEF late
  <2> QED BY <1>3, <2>1, <2>2, <2>3, StartBegins DEF ScheduleStart
<1> QED BY <1>1, <1>2, <1>3 DEF ScheduleStart

\* Whoever asks for a start: the launch, a command, or the retry that has stopped what was there.
LEMMA RequestKeeps ==
  ASSUME ProcessTypeOK, CoreInv, NEW t, Requested(t), UNCHANGED coreVars
  PROVE  CoreInv'
  BY NothingBegins DEF coreVars

LEMMA BootstrapKeeps ==
  ASSUME ProcessTypeOK, CoreInv, Bootstrap
  PROVE  CoreInv' /\ Moves
<1>1. Moves /\ app = "setup" /\ app' = "running" /\ asked' = asked
  BY PhaseMoves DEF Bootstrap, Phases, BeforeExit
<1>2. cleaner[Main] = NoWork /\ 0 <= asked'
  BY <1>1, CoreNumbers, Bounds DEF CoreInv, ExitSound
<1>3. Requested(Main)
  BY <1>1, <1>2, CoreNumbers, CoreRecords DEF Requested, Main
<1> QED BY <1>1, <1>3, ScheduleStartKeeps, RequestKeeps DEF Bootstrap

LEMMA CommandRequests ==
  ASSUME ProcessTypeOK, CoreInv, NEW t, MainCommand(t, "core")
  PROVE  Requested(t) /\ Moves /\ app' = app
<1>1. Command(t, "core") /\ app = "running" /\ "core" \in Parts
  BY DEF MainCommand, Running, Parts
<1>2. Moves /\ app' = app /\ t = asked + 1 /\ asked' = t /\ t \in Commands
  BY <1>1, CommandMoves
<1>3. t \in Threads /\ t > asked /\ t <= asked'
  BY <1>2, Bounds
<1>4. cleaner[t] = NoWork
  BY <1>3 DEF CoreInv, CleanersSound, CleanerSound
<1> QED BY <1>1, <1>2, <1>3, <1>4, CoreRecords DEF Requested

LEMMA AskRetryKeeps ==
  ASSUME ProcessTypeOK, CoreInv, NEW t, AskRetry(t)
  PROVE  CoreInv' /\ Moves /\ app' = app
  BY CommandRequests, ScheduleStartKeeps DEF AskRetry

LEMMA RescheduleKeeps ==
  ASSUME ProcessTypeOK, CoreInv, NEW t \in Threads, Reschedule(t)
  PROVE  CoreInv' /\ Still
<1>1. Still /\ Alive /\ cleaner[t].pc = "schedule"
  BY NothingMoves DEF Reschedule, CleanerAt
<1>2. app # "setup"
  BY <1>1, CoreNumbers, CoreRecords DEF CoreInv, ExitSound
<1>3. ~(t > asked) /\ t \in Nat /\ asked \in Nat /\ asked' = asked
  BY <1>1, Bounds, CoreRecords DEF CoreInv, CleanersSound, CleanerSound, Still
<1>4. Requested(t)
  BY <1>1, <1>2, <1>3 DEF Requested, Still, Alive
<1> QED BY <1>1, <1>4, ScheduleStartKeeps DEF Reschedule

\* A start is told to stop, by a command or by the exit.
LEMMA StartCancelled ==
  ASSUME CoreInv, start' = IF core.cancel = None THEN start ELSE [start EXCEPT ![core.cancel].cancelled = TRUE]
  PROVE  /\ start' \in [Starts -> StartRecords]
         /\ \A m \in Starts : /\ start'[m].pc = start[m].pc /\ start'[m].gen = start[m].gen
                              /\ start'[m].holds = start[m].holds /\ start'[m].ok = start[m].ok
                              /\ start'[m].late = start[m].late
<1>0. start \in [Starts -> StartRecords] /\ core.cancel \in Starts \cup {None}
  BY DEF CoreInv, CoreTyped, Cores
<1>1. CASE core.cancel = None
  BY <1>0, <1>1
<1>2. CASE core.cancel \in Starts /\ core.cancel # None
  <2> DEFINE n == core.cancel
             s == [start[n] EXCEPT !.cancelled = TRUE]
  <2>1. start' = [start EXCEPT ![n] = s] /\ n \in Starts
    BY <1>0, <1>2 DEF StartRecords
  <2>2. s \in StartRecords /\ s.pc = start[n].pc /\ s.gen = start[n].gen
    BY <1>0, <1>2, ZenonT(30) DEF StartRecords
  <2>3. s.holds = start[n].holds /\ s.ok = start[n].ok /\ s.late = start[n].late
    BY <1>0, <1>2 DEF StartRecords
  <2> HIDE DEF n, s
  <2> QED BY <1>0, <2>1, <2>2, <2>3
<1> QED BY <1>0, <1>1, <1>2

LEMMA CancelKeeps ==
  ASSUME ProcessTypeOK, CoreInv, Moves, CancelStart, core' = [core EXCEPT !.status = "stopping"],
         UNCHANGED <<session, container, cleaner>>,
         app' = "waiting" \/ (app = "running" /\ app' = "running" /\ core.status = "starting")
  PROVE  CoreInv'
<1>0. /\ session' = session /\ container' = container /\ cleaner' = cleaner /\ core \in Cores
      /\ asked \in Nat /\ asked' \in Nat /\ asked <= asked'
  BY DEF CoreInv, CoreTyped, Moves, ProcessTypeOK
<1>1. /\ start' \in [Starts -> StartRecords]
      /\ \A m \in Starts : /\ start'[m].pc = start[m].pc /\ start'[m].gen = start[m].gen
                           /\ start'[m].holds = start[m].holds /\ start'[m].ok = start[m].ok
                           /\ start'[m].late = start[m].late
  BY StartCancelled DEF CancelStart
<1>2. /\ core' \in Cores /\ core'.gen = core.gen /\ core'.status = "stopping" /\ core'.active = core.active
      /\ core'.cancel = core.cancel /\ core'.worker = core.worker
  BY <1>0 DEF Cores, Statuses
<1>3. \A m \in Starts : Busy(m)' <=> Busy(m)
  BY <1>1 DEF Busy
<1>4. CoreTyped' /\ CoreSound'
  <2>1. CoreTyped'
    BY <1>0, <1>1, <1>2 DEF CoreInv, CoreTyped
  <2>2. core.cancel # None => start'[core.cancel].pc \in UnderWay
    BY <1>0, <1>1 DEF CoreInv, CoreSound, Cores
  <2>3. core.worker # None => start'[core.worker].pc = "leave" \/ start'[core.worker].pc \in UnderWay \cup {"stop"}
    BY <1>0, <1>1 DEF CoreInv, CoreSound, Cores, Busy
  <2> QED BY <1>0, <1>2, <2>1, <2>2, <2>3 DEF CoreInv, CoreSound, Busy
<1>5. StartsSound'
  <2> SUFFICES ASSUME NEW m \in Starts PROVE StartSound(m)'
    BY DEF StartsSound
  <2>1. StartSound(m)
    BY DEF CoreInv, StartsSound
  <2> QED BY <1>0, <1>1, <1>2, <1>3, <2>1 DEF StartSound
<1>6. \A t \in Threads : CleanerSound(t)'
  <2> SUFFICES ASSUME NEW t \in Threads PROVE CleanerSound(t)'
    OBVIOUS
  <2>1. CleanerSound(t) /\ t \in Nat /\ t \in Cleaners
    BY Bounds, CoreNumbers DEF CoreInv, CleanersSound
  <2> QED BY <1>0, <1>2, <1>3, <2>1 DEF CleanerSound, Cleaning, BroughtDown
<1>7. \A m \in Starts : OwnCleanerSound(m)'
  BY <1>0, <1>1 DEF CoreInv, CleanersSound, OwnCleanerSound, Cleaning, BroughtDown
<1>8. app' \in BeforeExit => ReadySound'
  <2> SUFFICES ASSUME app' \in BeforeExit PROVE ReadySound'
    OBVIOUS
  <2>1. ReadySound /\ core.status = "starting"
    BY DEF BeforeExit, CoreInv
  <2>2. \A m \in Starts : Furnished(m)'
    BY <1>0, <1>1, <2>1 DEF ReadySound, Furnished
  <2>3. BridgeUsed => BridgeUsed'
    BY <1>0, <1>1, <2>1 DEF BridgeUsed
  <2> QED BY <1>0, <1>2, <2>1, <2>2, <2>3 DEF ReadySound, Cleaning
<1>9. ExitSound'
  BY DEF ExitSound
<1> QED BY <1>4, <1>5, <1>6, <1>7, <1>8, <1>9 DEF CoreInv, CleanersSound

LEMMA AskStopKeeps ==
  ASSUME ProcessTypeOK, CoreInv, NEW t, AskStop(t)
  PROVE  CoreInv' /\ Moves /\ app' = app
<1>1. /\ Requested(t) /\ Moves /\ app' = app /\ app = "running" /\ UNCHANGED <<session, container>>
  BY CommandRequests DEF AskStop, MainCommand, Running
<1>2. CASE /\ core.status = "starting" /\ UNCHANGED cleaner
           /\ core' = [core EXCEPT !.status = "stopping"]
           /\ start' = [start EXCEPT ![core.cancel].cancelled = TRUE]
  <2>1. CancelStart
    BY <1>2 DEF CancelStart, CoreInv, CoreSound
  <2> QED BY <1>1, <1>2, <2>1, CancelKeeps
<1>3. CASE /\ core.status \notin {"starting", "stopping"} /\ core.active # None
           /\ Cleans(t, core.gen + 1, FALSE)
           /\ core' = [core EXCEPT !.gen = @ + 1, !.status = "stopping"] /\ UNCHANGED start
  BY <1>1, <1>3, StopBegins
<1>4. CASE UNCHANGED <<core, start, cleaner>>
  BY <1>1, <1>4, NothingBegins
<1> QED BY <1>1, <1>2, <1>3, <1>4 DEF AskStop

LEMMA ExitCoreKeeps ==
  ASSUME ProcessTypeOK, CoreInv, ExitCore
  PROVE  CoreInv' /\ Moves /\ app = "core" /\ app' = "waiting"
<1>1. Moves /\ app = "core" /\ app' = "waiting"
  BY PhaseMoves DEF ExitCore, Phases, BeforeExit
<1> QED BY <1>1, CancelKeeps DEF ExitCore

\* The exit brings down what is active, under the number it finds.
LEMMA ExitCleans ==
  ASSUME ProcessTypeOK, CoreInv, Moves, app' = "cleanup", core.active # None, core.cancel = None,
         \A m \in Starts : ~Busy(m), core' = [core EXCEPT !.status = "stopping"], Cleans(Main, core.gen, FALSE),
         UNCHANGED <<session, container, start>>
  PROVE  CoreInv'
<1>0. /\ Main \in Threads /\ Main \in Cleaners /\ asked \in Nat /\ asked' \in Nat /\ asked <= asked'
      /\ session' = session /\ container' = container /\ start' = start /\ Main <= asked'
      /\ core \in Cores /\ core.gen \in Nat /\ cleaner \in [Cleaners -> Works] /\ start \in [Starts -> StartRecords]
  BY CoreNumbers DEF Moves, ProcessTypeOK, CoreInv, CoreTyped, Cores, Main
<1>1. /\ core' \in Cores /\ core'.gen = core.gen /\ core'.status = "stopping" /\ core'.active = core.active
      /\ core'.cancel = None /\ core'.worker = core.worker
  BY <1>0 DEF Cores, Statuses
<1>2. /\ cleaner' \in [Cleaners -> Works] /\ (\A c \in Cleaners \ {Main} : cleaner'[c] = cleaner[c])
      /\ cleaner'[Main].pc = "revoke" /\ cleaner'[Main].gen = core.gen
  <2> DEFINE w == [pc |-> "revoke", gen |-> core.gen, retry |-> FALSE, ok |-> FALSE]
  <2>1. w \in Works /\ w.pc = "revoke" /\ w.gen = core.gen
    BY <1>0 DEF Works
  <2>2. cleaner' = [cleaner EXCEPT ![Main] = w]
    BY DEF Cleans
  <2> HIDE DEF w
  <2> QED BY <1>0, <2>1, <2>2
<1>3. \A m \in Starts : ~Busy(m)'
  BY <1>0 DEF Busy
<1>4. \A m \in Starts : start[m].pc \notin UnderWay /\ start[m].pc # "stop" /\ ~start[m].ok
  BY DEF CoreInv, StartsSound, StartSound, Busy, UnderWay
<1>5. CoreTyped' /\ CoreSound'
  BY <1>0, <1>1, <1>2 DEF CoreInv, CoreTyped, CoreSound, Busy
<1>6. StartsSound'
  BY <1>0, <1>3, <1>4 DEF CoreInv, StartsSound, StartSound, UnderWay, Registered, Unregistered
<1>7. \A t \in Threads : CleanerSound(t)'
  <2> SUFFICES ASSUME NEW t \in Threads PROVE CleanerSound(t)'
    OBVIOUS
  <2>1. CleanerSound(t) /\ t \in Cleaners /\ t \in Nat
    BY Bounds, CoreNumbers DEF CoreInv, CleanersSound
  <2>2. CASE t = Main
    BY <1>0, <1>1, <1>2, <1>3, <2>1, <2>2 DEF CleanerSound, BroughtDown
  <2>3. CASE t # Main
    <3>1. cleaner'[t] = cleaner[t]
      BY <1>2, <2>1, <2>3
    <3> QED BY <1>0, <1>1, <1>3, <2>1, <3>1 DEF CleanerSound, BroughtDown
  <2> QED BY <2>2, <2>3
<1>8. \A m \in Starts : OwnCleanerSound(m)'
  <2> SUFFICES ASSUME NEW m \in Starts PROVE OwnCleanerSound(m)'
    OBVIOUS
  <2>1. OwnCleanerSound(m) /\ cleaner'[StartThread(m)] = cleaner[StartThread(m)]
    BY <1>0, <1>2, CoreNumbers DEF CoreInv, CleanersSound
  <2> QED BY <1>0, <2>1 DEF OwnCleanerSound, Cleaning, BroughtDown
<1>9. ExitSound'
  <2>1. Cleaning(Main)' /\ cleaner'[Main].gen = core'.gen
    BY <1>1, <1>2 DEF Cleaning
  <2> QED BY <1>0, <1>1, <1>3, <2>1 DEF ExitSound, LeftKnown
<1>10. app' \notin BeforeExit
  BY DEF BeforeExit
<1> QED BY <1>5, <1>6, <1>7, <1>8, <1>9, <1>10 DEF CoreInv, CleanersSound

LEMMA ExitWaitedKeeps ==
  ASSUME ProcessTypeOK, CoreInv, ExitWaited
  PROVE  CoreInv' /\ Moves /\ app = "waiting" /\ app' \in {"cleanup", "gone"}
<1>0. app = "waiting" /\ UNCHANGED <<session, container>> /\ core \in Cores
  BY DEF ExitWaited, CoreInv, CoreTyped
<1>1. core.active = None => container \notin Starts
  BY CoreNumbers DEF CoreInv, CoreSound
<1>2. CASE /\ core.worker # None /\ start[core.worker].pc = "load"
           /\ faults < FaultsOf[used] /\ faults' = faults + 1
           /\ app' = "gone" /\ UNCHANGED <<launch, asked, used, core, start, cleaner>>
  <2>1. faults + 1 \in 0 .. MaxFaults
    BY <1>2, Bounds, DesktopAssumption, SMTT(30)
  <2>2. Moves
    BY <1>2, <2>1, Bounds DEF ProcessTypeOK, Moves, Phases, BeforeExit
  <2>3. core.active = None
    BY <1>0, <1>2 DEF CoreInv, StartsSound, StartSound, Cores, Unregistered
  <2>4. LeftKnown'
    BY <1>0, <1>1, <2>3 DEF LeftKnown
  <2> QED BY <1>0, <1>2, <2>2, <2>4, CoreUndisturbed DEF coreVars
<1>3. ASSUME WorkerEnded, CancelStart PROVE (\A m \in Starts : ~Busy(m)) /\ core.cancel = None /\ start' = start
  <2>1. core.worker = None
    BY <1>3 DEF WorkerEnded, CoreInv, CoreSound, Busy, UnderWay
  <2>2. \A m \in Starts : ~Busy(m)
    BY <2>1, CoreNumbers DEF CoreInv, StartsSound, StartSound
  <2>3. core.cancel = None
    BY <1>0, <2>2 DEF CoreInv, CoreSound, Cores, Busy
  <2> QED BY <1>3, <2>2, <2>3 DEF CancelStart
<1>4. CASE WorkerEnded /\ CancelStart /\ core.active = None /\ GoesOn("waiting", "gone") /\ UNCHANGED <<core, cleaner>>
  <2>1. Moves /\ app' = "gone"
    BY <1>4, PhaseMoves DEF Phases, BeforeExit
  <2>2. LeftKnown'
    BY <1>0, <1>1, <1>4 DEF LeftKnown
  <2> QED BY <1>0, <1>3, <1>4, <2>1, <2>2, CoreUndisturbed DEF coreVars
<1>5. CASE /\ WorkerEnded /\ CancelStart /\ core.active # None /\ GoesOn("waiting", "cleanup")
           /\ core' = [core EXCEPT !.status = "stopping"] /\ Cleans(Main, core.gen, FALSE)
  <2>1. Moves /\ app' = "cleanup"
    BY <1>5, PhaseMoves DEF Phases, BeforeExit
  <2> QED BY <1>0, <1>3, <1>5, <2>1, ExitCleans
<1> QED BY <1>2, <1>4, <1>5 DEF ExitWaited

LEMMA ExitCleanedKeeps ==
  ASSUME ProcessTypeOK, CoreInv, ExitCleaned
  PROVE  CoreInv' /\ Moves /\ app = "cleanup" /\ app' = "gone"
<1>1. Moves /\ app = "cleanup" /\ app' = "gone"
  BY PhaseMoves DEF ExitCleaned, Phases, BeforeExit
<1>2. UNCHANGED coreVars /\ cleaner[Main] = NoWork
  BY DEF ExitCleaned
<1>3. LeftKnown'
  <2>1. LeftKnown
    BY <1>1 DEF CoreInv, ExitSound
  <2>2. ~Cleaning(Main)
    BY <1>2, CoreRecords DEF Cleaning
  <2> QED BY <1>2, <2>1, <2>2, CoreNumbers DEF LeftKnown, Cleaning, coreVars
<1> QED BY <1>1, <1>2, <1>3, CoreUndisturbed

LEMMA CoreStepKeeps ==
  ASSUME ProcessTypeOK, CoreInv, CoreStep
  PROVE  /\ CoreInv' /\ Moves
         /\ \/ app' = app \/ (app = "setup" /\ app' = "running")
            \/ app \in {"core", "waiting", "cleanup"} /\ app' \in {"waiting", "cleanup", "gone"}
<1>1. ASSUME NEW n \in Starts, StartStep(n) PROVE CoreInv' /\ Still
  BY <1>1, PrepareKeeps, LoadKeeps, RegisterKeeps, ComposeKeeps, PublishBridgeKeeps, FinishStartKeeps,
     LeaveStartKeeps, EndStartCleanupKeeps DEF StartStep
<1>2. CoreGoesOn => CoreInv' /\ Still
  BY <1>1, CleanerKeeps, EndStopKeeps, RescheduleKeeps DEF CoreGoesOn
<1>3. CoreGoesOn => CoreInv' /\ Moves /\ app' = app
  BY <1>2 DEF Still
<1>4. Bootstrap => CoreInv' /\ Moves /\ app = "setup" /\ app' = "running"
  BY BootstrapKeeps DEF Bootstrap, GoesOn
<1> QED BY <1>3, <1>4, ExitCoreKeeps, ExitWaitedKeeps, ExitCleanedKeeps, AskRetryKeeps, AskStopKeeps DEF CoreStep

\* A container that was brought up is known until it is down, and what is called ready is
\* that container (the core's part of ProcessesAreKnown).
LEMMA CoreCorrect ==
  ASSUME CoreInv
  PROVE  CoreIsKnown
<1>1. CoreTyped /\ CoreSound /\ (app \in BeforeExit => ReadySound) /\ (\A n \in Starts : StartSound(n))
  BY DEF CoreInv, StartsSound
<1>2. CoreTypeOK
  BY <1>1 DEF CoreTyped, Cores, Sessions, CoreTypeOK, StartSound
<1>3. container \in Starts => core.active # None
  BY <1>1, CoreNumbers DEF CoreSound
<1>4. Running => ReadySound
  BY <1>1 DEF Running, BeforeExit
<1> QED BY <1>2, <1>3, <1>4 DEF CoreIsKnown, ReadySound, BridgeUsed

\* The core's part of ExitLeavesNothing.
LEMMA CoreLeavesNothing ==
  ASSUME CoreInv, app = "gone", container \in Starts
  PROVE  core.status = "failed" \/ (\E t \in Commands : cleaner[t] # NoWork) \/ start[container].late
<1>1. LeftKnown
  BY DEF CoreInv, ExitSound
<1>2. \A t \in Threads : Cleaning(t) => cleaner[t] # NoWork
  BY CoreRecords DEF Cleaning
<1> QED BY <1>1, <1>2 DEF LeftKnown
-----------------------------------------------------------------------------
(* The shell *)

DesktopInv == ProcessTypeOK /\ PackInv /\ KernelsInv /\ LabInv /\ SidecarInv /\ CoreInv

LEMMA DesktopStarts == Init => DesktopInv
<1> SUFFICES ASSUME Init PROVE DesktopInv
  OBVIOUS
<1>1. ProcessTypeOK /\ app = "setup"
  BY DesktopAssumption DEF Init, ProcessTypeOK, Phases
<1> QED BY <1>1, PackStarts, KernelsStart, LabStarts, SidecarStarts, CoreStarts DEF Init, DesktopInv

\* The death of the shell disturbs nobody's account of what still runs.
LEMMA CrashKeeps == ASSUME DesktopInv, Crash PROVE DesktopInv'
<1>1. ProcessTypeOK
  BY DEF DesktopInv
<1>2. faults + 1 \in 0 .. MaxFaults
  BY <1>1, Bounds, DesktopAssumption, SMTT(30) DEF Crash
<1>3. Moves /\ app' = "killed"
  BY <1>1, <1>2, Bounds DEF Crash, ProcessTypeOK, Moves, Phases, BeforeExit
<1>4. app' \notin AfterSidecar /\ app' \notin AfterLab /\ ProcessTypeOK' /\ launch' = launch
  BY <1>3 DEF AfterSidecar, AfterLab, Moves
<1>5. UNCHANGED <<sidecarVars, packVars, kernelVars, labVars, coreVars>>
  BY DEF Crash, opencodeVars
<1> QED BY <1>1, <1>3, <1>4, <1>5, PackUndisturbed, KernelsUndisturbed, LabUndisturbed, SidecarUndisturbed, CoreUndisturbed
        DEF DesktopInv

LEMMA BeginExitKeeps == ASSUME DesktopInv, BeginExit PROVE DesktopInv'
<1>1. ProcessTypeOK
  BY DEF DesktopInv
<1>2. Moves /\ app' = "sidecar"
  BY <1>1, PhaseMoves DEF BeginExit, Phases, BeforeExit
<1>3. app' \notin AfterSidecar /\ app' \notin AfterLab /\ ProcessTypeOK' /\ launch' = launch
  BY <1>2 DEF AfterSidecar, AfterLab, Moves
<1>4. UNCHANGED <<sidecarVars, packVars, kernelVars, labVars, coreVars>>
  BY DEF BeginExit, opencodeVars
<1> QED BY <1>1, <1>2, <1>3, <1>4, PackUndisturbed, KernelsUndisturbed, LabUndisturbed, SidecarUndisturbed, CoreUndisturbed
        DEF DesktopInv

\* The next launch finds what the last one left.
LEMMA RelaunchKeeps == ASSUME DesktopInv, Relaunch PROVE DesktopInv'
<1>1. ProcessTypeOK
  BY DEF DesktopInv
<1>2. launch + 1 \in 1 .. MaxLaunches
  BY <1>1, Bounds, DesktopAssumption, SMTT(30) DEF Relaunch
<1>3. ProcessTypeOK' /\ app' = "setup" /\ app' \notin AfterLab /\ launch' = launch + 1 /\ UNCHANGED asked
  BY <1>1, <1>2 DEF Relaunch, ProcessTypeOK, Phases, AfterLab
<1>4. PackInv'
  BY PackRelaunches DEF Relaunch, SidecarRelaunch, DesktopInv
<1>5. SidecarInv' /\ CoreInv'
  BY <1>1, <1>3, SidecarRelaunched, CoreRelaunched DEF Relaunch, DesktopInv
<1>6. KernelsInv' /\ LabInv'
  BY <1>1, <1>3, KernelsRelaunched, LabRelaunched DEF Relaunch, DesktopInv
<1> QED BY <1>3, <1>4, <1>5, <1>6 DEF DesktopInv

LEMMA DesktopSteps == DesktopInv /\ [Next]_vars => DesktopInv'
<1> SUFFICES ASSUME DesktopInv, [Next]_vars PROVE DesktopInv'
  OBVIOUS
<1>0. ProcessTypeOK /\ PackInv /\ KernelsInv /\ LabInv /\ SidecarInv /\ CoreInv
  BY DEF DesktopInv
<1>1. CASE SidecarStep /\ UNCHANGED <<kernelVars, labVars, coreVars>>
  <2>1. SidecarInv' /\ PackInv' /\ Moves /\ (app' = app \/ (app = "sidecar" /\ app' = "kernels"))
    BY <1>0, <1>1, SidecarStepKeeps
  <2>2. (app' \in AfterLab => app \in AfterLab) /\ ProcessTypeOK'
        /\ (app' = app \/ app' \notin {"setup", "running", "cleanup", "gone"})
    BY <2>1 DEF AfterLab, Moves
  <2> QED BY <1>0, <1>1, <2>1, <2>2, KernelsUndisturbed, LabUndisturbed, CoreUndisturbed DEF DesktopInv
<1>2. CASE KernelsStep /\ UNCHANGED <<opencodeVars, labVars, coreVars>>
  <2>1. KernelsInv' /\ Moves /\ (app' = app \/ (app = "kernels" /\ app' = "lab"))
    BY <1>0, <1>2, KernelsStepKeeps
  <2>2. /\ (app' \in AfterLab => app \in AfterLab) /\ (app' \in AfterSidecar => app \in AfterSidecar)
        /\ ProcessTypeOK' /\ launch' = launch
        /\ (app' = app \/ app' \notin {"setup", "running", "cleanup", "gone"})
    BY <2>1 DEF AfterLab, AfterSidecar, Moves
  <2>3. UNCHANGED <<sidecarVars, packVars>>
    BY <1>2 DEF opencodeVars
  <2> QED BY <1>0, <1>2, <2>1, <2>2, <2>3, PackUndisturbed, SidecarUndisturbed, LabUndisturbed, CoreUndisturbed
          DEF DesktopInv
<1>3. CASE LabStep /\ UNCHANGED <<opencodeVars, kernelVars, coreVars>>
  <2>1. LabInv' /\ Moves /\ (app' = app \/ (app = "lab" /\ app' = "core"))
    BY <1>0, <1>3, LabStepKeeps
  <2>2. /\ (app' \in AfterSidecar => app \in AfterSidecar) /\ ProcessTypeOK' /\ launch' = launch
        /\ (app' = app \/ app' \notin {"setup", "running", "cleanup", "gone"})
    BY <2>1 DEF AfterSidecar, Moves
  <2>3. UNCHANGED <<sidecarVars, packVars>>
    BY <1>3 DEF opencodeVars
  <2> QED BY <1>0, <1>3, <2>1, <2>2, <2>3, PackUndisturbed, SidecarUndisturbed, KernelsUndisturbed, CoreUndisturbed
          DEF DesktopInv
<1>4. CASE CoreStep /\ UNCHANGED <<opencodeVars, kernelVars, labVars>>
  <2>1. /\ CoreInv' /\ Moves
        /\ \/ app' = app \/ (app = "setup" /\ app' = "running")
           \/ app \in {"core", "waiting", "cleanup"} /\ app' \in {"waiting", "cleanup", "gone"}
    BY <1>0, <1>4, CoreStepKeeps
  <2>2. /\ (app' \in AfterLab => app \in AfterLab) /\ (app' \in AfterSidecar => app \in AfterSidecar)
        /\ ProcessTypeOK' /\ launch' = launch
    BY <2>1 DEF AfterLab, AfterSidecar, Moves
  <2>3. UNCHANGED <<sidecarVars, packVars>>
    BY <1>4 DEF opencodeVars
  <2> QED BY <1>0, <1>4, <2>1, <2>2, <2>3, PackUndisturbed, SidecarUndisturbed, KernelsUndisturbed, LabUndisturbed
          DEF DesktopInv
<1>5. CASE UNCHANGED vars
  <2>1. UNCHANGED <<process, sidecarVars, packVars, kernelVars, labVars, coreVars>>
    BY <1>5 DEF vars, opencodeVars
  <2>2. Moves /\ app' = app /\ ProcessTypeOK' /\ launch' = launch
    BY <1>0, <2>1, NothingMoves DEF Still, Moves
  <2> QED BY <1>0, <2>1, <2>2, PackUndisturbed, SidecarUndisturbed, KernelsUndisturbed, LabUndisturbed, CoreUndisturbed
          DEF DesktopInv
<1> QED BY <1>1, <1>2, <1>3, <1>4, <1>5, CrashKeeps, BeginExitKeeps, RelaunchKeeps DEF Next

\* The four invariants and the process: what holds of the shell in every state.
THEOREM DesktopInvariant == Spec => []DesktopInv
<1> QED BY DesktopStarts, DesktopSteps, PTL DEF Spec

\* Whatever step a deployment of the bundled skill died or failed at, a complete copy is
\* still there unless the last one was damaged, and OpenCode runs over this version's
\* (sync_skill_pack).
THEOREM SkillIsKeptCorrect == Spec => []SkillIsKept
<1>1. DesktopInv => SkillIsKept
  BY PackCorrect DEF DesktopInv
<1> QED BY <1>1, DesktopInvariant, PTL

\* The processes, kernels, servers and containers that run are those the shell knows, however
\* its commands, watchers, exit and faults overlap, over any number of launches.
THEOREM ProcessesAreKnownCorrect == Spec => []ProcessesAreKnown
<1>1. DesktopInv => ProcessesAreKnown
  BY SidecarCorrect, KernelsCorrect, LabCorrect, CoreCorrect DEF DesktopInv, ProcessesAreKnown
<1> QED BY <1>1, DesktopInvariant, PTL

\* The exit in its order (lib.rs:130-147) leaves nothing running but what it names.
THEOREM ExitLeavesNothingCorrect == Spec => []ExitLeavesNothing
<1>1. DesktopInv => ExitLeavesNothing
  <2> SUFFICES ASSUME DesktopInv PROVE ExitLeavesNothing
    OBVIOUS
  <2>1. ProcessTypeOK /\ LabInv /\ SidecarInv /\ CoreInv
    BY DEF DesktopInv
  <2>2. app = "gone" => app \in AfterSidecar /\ app \in AfterLab
    BY DEF AfterSidecar, AfterLab
  <2>3. app = "gone" => \A s \in Servers : server[s].launch = launch => server[s].late \/ labJob[s].pc = "record"
    BY <2>1, <2>2 DEF LabInv, ServersSound, ServerSound
  <2> QED BY <2>1, <2>2, <2>3, SidecarLeavesNothing, CoreLeavesNothing DEF ExitLeavesNothing
<1> QED BY <1>1, DesktopInvariant, PTL
=============================================================================

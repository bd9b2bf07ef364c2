------------------------- MODULE SoloCommandProofs -------------------------
(* Proofs about CommandRun as long as commands run one at a time.           *)
EXTENDS CommandRunProofs

\* No two processes run a command.
Solo == ~overlap => \A p, q \in Proc : Alive(p) /\ Alive(q) => p = q

\* Only the user starts commands; a process leaves the others alone.
LEMMA StepFrame ==
  ASSUME TypeInv, [Next]_vars
  PROVE  /\ world' = world
         /\ \/ /\ overlap' = overlap
               /\ \A q \in Proc : Alive(q)' => Alive(q)
            \/ \E p \in Proc, k \in Kind :
                 Start(p, k) /\ UNCHANGED <<breakerVars, sandboxVars, memoryVars>>
<1>. pc \in [Proc -> Stage]
  BY DEF TypeInv, TypeOK, ProcessTypeOK
<1>. USE DEF Alive, Goto, processVars
<1>1. ASSUME NEW p \in Proc, EndBody(p) \/ ClaimTask(p) \/ BreakerStep(p) \/ MemoryStep(p)
      PROVE  world' = world /\ overlap' = overlap /\ \A q \in Proc : Alive(q)' => Alive(q)
  <2>1. CASE EndBody(p) \/ ClaimTask(p)
    BY <2>1 DEF EndBody, ClaimTask, EnterTask, Move
  <2>2. CASE BreakerStep(p)
    BY <2>2 DEF BreakerStep, SkipServer, TryServer, HalfOpen, ConnectSucceeds,
         ConnectFails, RecordFailure
  <2>3. CASE MemoryStep(p)
    BY <2>3 DEF MemoryStep, ReadForBatch, WriteBatch, ReadMemory, WriteRecord, ReplaceMemory
  <2>. QED BY <1>1, <2>1, <2>2, <2>3
<1>2. ASSUME NEW p \in Proc, SandboxStep(p)
      PROVE  world' = world /\ overlap' = overlap /\ \A q \in Proc : Alive(q)' => Alive(q)
  <2>1. CASE ThreadStep(p)
    BY <2>1 DEF ThreadStep, FindWarm, FindCold, Purge, AddTree, RunContainer,
         RunFails, RemoveContainer, RemoveTree
  <2>2. CASE WorkerStep(p) \/ CancelLeft(p)
    BY <2>2, WorkerFrame
  <2>3. CASE ~ThreadStep(p) /\ ~WorkerStep(p) /\ ~CancelLeft(p)
    BY <1>2, <2>3 DEF SandboxStep, StartWave, EndWave, StopWave, Interrupt,
         LoopCloses, CleanContainers, SweepTrees
  <2>. QED BY <2>1, <2>2, <2>3
<1>3. ASSUME NEW p \in Proc, KillCommand(p)
      PROVE  world' = world /\ overlap' = overlap /\ \A q \in Proc : Alive(q)' => Alive(q)
  BY <1>3 DEF KillCommand, Kill
<1>4. CASE UNCHANGED processVars
  BY <1>4
<1>5. ASSUME NEW p \in Proc, StartCommand(p)
      PROVE  /\ world' = world
             /\ \E k \in Kind :
                  Start(p, k) /\ UNCHANGED <<breakerVars, sandboxVars, memoryVars>>
  BY <1>5 DEF StartCommand, Start
<1>6. \/ \E p \in Proc : \/ EndBody(p) \/ ClaimTask(p) \/ BreakerStep(p) \/ MemoryStep(p)
                         \/ SandboxStep(p) \/ KillCommand(p) \/ StartCommand(p)
      \/ UNCHANGED processVars
  BY DEF Next, Step, CloseSession, WindowPasses, vars
<1>. QED BY <1>1, <1>2, <1>3, <1>4, <1>5, <1>6

LEMMA SoloInductive == TypeInv /\ Solo /\ [Next]_vars => Solo'
<1>. SUFFICES ASSUME TypeInv, Solo, [Next]_vars PROVE Solo'
  OBVIOUS
<1>. pc \in [Proc -> Stage] /\ overlap \in BOOLEAN
  BY DEF TypeInv, TypeOK, ProcessTypeOK
<1>1. CASE overlap' = overlap /\ \A q \in Proc : Alive(q)' => Alive(q)
  BY <1>1 DEF Solo
<1>2. ASSUME NEW p \in Proc, NEW k \in Kind, Start(p, k) PROVE Solo'
  BY <1>2 DEF Start, Solo, Alive
<1>. QED BY <1>1, <1>2, StepFrame

LEMMA InitSolo == Init => Solo
BY DEF Init, ProcessInit, Solo, Alive
-----------------------------------------------------------------------------
(* What memory.md has acknowledged.                                        *)

\* m still has what was acknowledged.
Keeps(m) ==
  registered \subseteq Range(m.ids) /\ logged \ late \subseteq m.ledger \cup filed

LEMMA RangeGrows ==
  ASSUME NEW S, NEW s \in Seq(S), NEW t \in Seq(S)
  PROVE  Range(s) \subseteq Range(s \o t)
<1>1. \A i \in DOMAIN s : i \in DOMAIN (s \o t) /\ (s \o t)[i] = s[i]
  OBVIOUS
<1>. QED BY <1>1 DEF Range

\* A worker logs a session while no copy is in use, or it is late.
AcksInv ==
  ~overlap => Keeps(memory) /\ \A p \in Proc : pc[p] \in Editing => Keeps(copy[p])

LEMMA AcksInductive ==
  TypeInv /\ LeakInv /\ Solo /\ AcksInv /\ [Next]_vars => AcksInv'
<1>. SUFFICES ASSUME TypeInv, LeakInv, Solo, AcksInv, [Next]_vars, ~overlap' PROVE AcksInv'
  BY DEF AcksInv
<1>. /\ pc \in [Proc -> Stage] /\ copy \in [Proc -> Memory \cup {NoCopy}]
     /\ CopiesSound
  BY DEF TypeInv, TypeOK, ProcessTypeOK, MemoryTypeOK
<1>. ~overlap
  BY StepFrame DEF Start
<1>. Keeps(memory) /\ \A p \in Proc : pc[p] \in Editing => Keeps(copy[p])
  BY DEF AcksInv
<1>. USE DEF AcksInv, Keeps, Goto
<1>1. ASSUME NEW p \in Proc, ReadForBatch(p) PROVE AcksInv'
  <2>1. PICK batch \in world.batches :
          copy' = [copy EXCEPT ![p] = [memory EXCEPT !.ids = @ \o Ids(@, batch)]]
    BY <1>1 DEF ReadForBatch
  <2>2. copy'[p].ids = memory.ids \o Ids(memory.ids, batch) /\ copy'[p].ledger = memory.ledger
    BY <2>1 DEF CopiesSound, Sound, Memory
  <2>3. Range(memory.ids) \subseteq Range(copy'[p].ids)
    <3>1. batch \in Seq(Item) /\ memory.ids \in Seq(TaskId) /\ Bounded(memory.ids)
      BY ArchiverAssumption DEF TypeInv, TypeOK, ProcessTypeOK, CopiesSound, Sound, Memory
    <3>. QED BY <2>2, <3>1, IdsSound, RangeGrows
  <2>. QED BY <1>1, <2>1, <2>2, <2>3 DEF ReadForBatch, Editing
<1>2. ASSUME NEW p \in Proc, WriteBatch(p) PROVE AcksInv'
  <2>1. \A q \in Proc : pc'[q] \notin Editing
    BY <1>2 DEF WriteBatch, Solo, Alive, Editing
  <2>. QED BY <1>2, <2>1 DEF WriteBatch, Editing
<1>3. ASSUME NEW p \in Proc, ReplaceMemory(p) PROVE AcksInv'
  BY <1>3 DEF ReplaceMemory, Editing
<1>4. ASSUME NEW p \in Proc, ReadMemory(p) PROVE AcksInv'
  <2>1. pc'[p] \in Editing => copy'[p] = memory
    BY <1>4 DEF ReadMemory, Editing
  <2>2. /\ UNCHANGED <<memory, filed, logged, registered, late>>
        /\ \A q \in Proc \ {p} : pc'[q] = pc[q] /\ copy'[q] = copy[q]
    BY <1>4 DEF ReadMemory
  <2>. QED BY <2>1, <2>2
<1>5. ASSUME NEW p \in Proc, WriteRecord(p) PROVE AcksInv'
  <2>1. PICK s : copy' = [copy EXCEPT ![p] = Archived(copy[p], s)] /\ filed' = filed \cup {s}
    BY <1>5 DEF WriteRecord
  <2>2. copy'[p].ids = copy[p].ids /\ copy'[p].ledger = copy[p].ledger \ {s}
    BY <1>5, <2>1 DEF WriteRecord, CopiesSound, Sound, Memory, Editing, Archived
  <2>3. \A q \in Proc \ {p} : pc'[q] = pc[q] /\ copy'[q] = copy[q]
    BY <1>5, <2>1 DEF WriteRecord
  <2>. QED BY <1>5, <2>1, <2>2, <2>3 DEF WriteRecord, Editing
<1>6. ASSUME NEW p \in Proc, NEW t \in Session, LogSession(p, t), at[p] = "warm", SameCopies
      PROVE  AcksInv'
  <2>1. memory'.ids = memory.ids /\ memory'.ledger = memory.ledger \cup {t}
    BY <1>6 DEF LogSession, CopiesSound, Sound, Memory
  <2>2. /\ UNCHANGED <<filed, registered>>
        /\ logged' \ late' \subseteq (logged \ late) \cup {t}
        /\ pc[p] # "wave" => logged' \ late' \subseteq logged \ late
    BY <1>6 DEF LogSession
  <2>3. Keeps(memory)'
    BY <2>1, <2>2
  <2>4. pc[p] \in Awaiting
    BY <1>6 DEF LeakInv, JobsAwaited
  <2>5. CASE pc[p] = "wave"
    <3>1. \A q \in Proc : pc'[q] \notin Editing
      BY <1>6, <2>5 DEF SameCopies, Solo, Alive, Editing
    <3>. QED BY <2>3, <3>1
  <2>6. CASE pc[p] # "wave"
    BY <1>6, <2>2, <2>3, <2>6 DEF SameCopies
  <2>. QED BY <2>5, <2>6
<1>7. ASSUME NEW s \in Session, CloseSession(s), SameCopies PROVE AcksInv'
  <2>1. memory'.ids = memory.ids /\ memory'.ledger = memory.ledger
    BY <1>7 DEF CloseSession, CopiesSound, Sound, Memory
  <2>. QED BY <1>7, <2>1 DEF CloseSession, SameCopies
<1>8. ASSUME UNCHANGED <<memory, filed, logged, registered, late>>, SameCopies PROVE AcksInv'
  BY <1>8 DEF SameCopies
<1>9. CASE UNCHANGED vars
  BY <1>9 DEF vars, processVars, memoryVars
<1>. QED
  BY <1>1, <1>2, <1>3, <1>4, <1>5, <1>6, <1>7, <1>8, <1>9, MemoryMoves DEF MemoryStep

LEMMA InitLeak == Init => LeakInv
  BY DEF Init, ProcessInit, SandboxInit, LeakInv, JobsAwaited, Covered

\* As long as commands run one at a time, a registered task stays in memory.md
\* and a logged session's rows stay there or are archived, unless a worker that
\* Ctrl-C left running logged the session while its command wound down.
THEOREM SoloAcksSurvive == Spec => []AcksSurvive
<1>1. Init => AcksInv
  <2>. SUFFICES ASSUME Init PROVE AcksInv
    OBVIOUS
  <2>. QED BY DEF Init, ProcessInit, MemoryInit, AcksInv, Keeps, Editing
<1>2. AcksInv => AcksSurvive
  BY DEF AcksInv, Keeps, AcksSurvive
<1>. QED
  BY <1>1, <1>2, InitTypes, TypesInductive, InitLeak, LeakInductive, InitSolo, SoloInductive,
     AcksInductive, PTL
  DEF Spec
-----------------------------------------------------------------------------
(* The sandbox of a task.                                                  *)

ReadyTree(i) == i \in DOMAIN tree /\ HEAD \in tree[i]

\* What p relies on at its stage and at its thread's.
Relies(p) ==
  /\ job[p] = "run" => ReadyTree(WorkerOf[p])
  /\ job[p] = "untree" => WorkerOf[p] \notin container
  /\ job[p] \in {"remove", "untree"} => at[p] \notin {"warm", "task"}
  /\ pc[p] = "sweep" => container = {}
  /\ at[p] = "task" \/ (at[p] = "warm" /\ job[p] = "none") => WorkerOf[p] \in container
  /\ at[p] = "task" => job[p] = "none"

ReadyInv ==
  ~overlap /\ world.docker =>
    (\A i \in container : ReadyTree(i)) /\ \A p \in Proc : Relies(p)

LEMMA ReadyInductive ==
  TypeInv /\ LeakInv /\ Solo /\ ReadyInv /\ [Next]_vars => ReadyInv'
<1>. SUFFICES ASSUME TypeInv, LeakInv, Solo, ReadyInv, [Next]_vars,
                     ~overlap', world'.docker
              PROVE  ReadyInv'
  BY DEF ReadyInv
<1>. /\ pc \in [Proc -> Stage] /\ job \in [Proc -> Jobs] /\ JobsAwaited
     /\ DOMAIN tree \subseteq Id /\ container \subseteq Id
     /\ WorkerOf \in [Proc -> Worker] /\ at \in [Proc -> Place]
  BY SandboxAssumption DEF TypeInv, TypeOK, ProcessTypeOK, SandboxTypeOK, LeakInv
<1>. ~overlap
  BY StepFrame DEF Start
<1>. world' = world
  BY StepFrame
<1>. world.docker
  OBVIOUS
<1>. (\A i \in container : ReadyTree(i)) /\ \A p \in Proc : Relies(p)
  BY DEF ReadyInv
<1>0. ASSUME NEW p \in Proc, Alive(p)
      PROVE  \A q \in Proc \ {p} : pc[q] = "idle" /\ job[q] = "none" /\ at[q] = "none"
  BY <1>0 DEF Solo, Alive, JobsAwaited, Awaiting
<1>. USE DEF ReadyInv, Relies, ReadyTree, Goto, processVars, sandboxVars
<1>1. ASSUME NEW p \in Proc, ThreadStep(p) PROVE ReadyInv'
  <2>. USE DEF Job
  <2>1. /\ pc[p] \in Awaiting /\ pc' = pc /\ at' = at
        /\ \A q \in Proc \ {p} : pc[q] = "idle" /\ job'[q] = "none" /\ at[q] = "none"
    <3>1. /\ job[p] # "none" /\ pc' = pc /\ at' = at
          /\ \A q \in Proc \ {p} : job'[q] = job[q]
      BY <1>1 DEF ThreadStep, FindWarm, FindCold, Purge, AddTree, RunContainer,
           RunFails, RemoveContainer, RemoveTree
    <3>2. pc[p] \in Awaiting
      BY <3>1 DEF JobsAwaited
    <3>. QED BY <3>1, <3>2, <1>0 DEF Awaiting, Alive
  <2>2. CASE FindWarm(p) \/ FindCold(p) \/ RunFails(p)
    BY <2>1, <2>2 DEF FindWarm, FindCold, RunFails, Awaiting
  <2>3. CASE Purge(p)
    BY <2>1, <2>3 DEF Purge, TreeWithout, Awaiting
  <2>4. CASE AddTree(p)
    BY <2>1, <2>4 DEF AddTree, TreeWith, Awaiting
  <2>5. CASE RunContainer(p)
    BY <2>1, <2>5 DEF RunContainer, Awaiting
  <2>6. CASE RemoveContainer(p)
    BY <2>1, <2>6 DEF RemoveContainer, Awaiting
  <2>7. CASE RemoveTree(p)
    BY <2>1, <2>7 DEF RemoveTree, TreeWithout, Awaiting
  <2>. QED BY <1>1, <2>2, <2>3, <2>4, <2>5, <2>6, <2>7 DEF ThreadStep
<1>2. ASSUME NEW p \in Proc, SandboxStep(p), ~ThreadStep(p) PROVE ReadyInv'
  <2>1. CASE StageDraft(p)
    BY <2>1 DEF StageDraft
  <2>2. CASE CleanContainers(p)
    <3>1. job[p] = "none" /\ at[p] = "none"
      BY <2>2 DEF CleanContainers, JobsAwaited, Awaiting
    <3>. QED BY <2>2, <3>1, <1>0 DEF CleanContainers, Alive
  <2>3. CASE SweepTrees(p)
    <3>1. container' = {} /\ job' = job /\ at' = at /\ pc' = [pc EXCEPT ![p] = "idle"]
      BY <2>3 DEF SweepTrees
    <3>2. \A q \in Proc : pc'[q] = "idle" /\ job[q] = "none" /\ at[q] = "none"
      BY <2>3, <3>1, <1>0 DEF SweepTrees, Alive, JobsAwaited, Awaiting
    <3>. QED BY <3>1, <3>2
  <2>4. CASE StartWave(p)
    BY <2>4 DEF StartWave, JobsAwaited, Awaiting
  <2>5. CASE TakeTask(p)
    BY <2>5 DEF TakeTask, Move
  <2>6. CASE TaskEnds(p) \/ LoopCloses(p)
    BY <2>6 DEF TaskEnds, LoopCloses, Move
  <2>7. CASE EndWorker(p) \/ WorkerDone(p)
    BY <2>7 DEF EndWorker, WorkerDone, Move
  <2>8. CASE EndWave(p) \/ Interrupt(p)
    BY <2>8 DEF EndWave, Interrupt
  <2>9. CASE StopWave(p) \/ CancelLeft(p)
    BY <2>9 DEF StopWave, CancelLeft, Cancelled
  <2>. QED
    BY <1>2, <2>1, <2>2, <2>3, <2>4, <2>5, <2>6, <2>7, <2>8, <2>9 DEF SandboxStep, WorkerStep
<1>3. ASSUME NEW p \in Proc, ClaimTask(p) PROVE ReadyInv'
  BY <1>3 DEF ClaimTask, EnterTask, Move
<1>4. ASSUME NEW p \in Proc, KillCommand(p) PROVE ReadyInv'
  BY <1>4 DEF KillCommand, Kill, SandboxLost
<1>5. ASSUME NEW p \in Proc, StartCommand(p) PROVE ReadyInv'
  BY <1>5 DEF StartCommand, Start
<1>6. ASSUME NEW p \in Proc, UNCHANGED sandboxVars,
             EndBody(p) \/ BreakerStep(p) \/ MemoryStep(p)
      PROVE  ReadyInv'
  <2>1. pc'[p] # "sweep" /\ \A q \in Proc \ {p} : pc'[q] = pc[q]
    BY <1>6 DEF EndBody, BreakerStep, SkipServer, TryServer, HalfOpen, ConnectSucceeds,
      ConnectFails, RecordFailure, MemoryStep, ReadForBatch, WriteBatch, ReadMemory,
      WriteRecord, ReplaceMemory
  <2>. QED BY <1>6, <2>1
<1>7. CASE UNCHANGED <<processVars, sandboxVars>>
  BY <1>7
<1>. QED
  BY <1>1, <1>2, <1>3, <1>4, <1>5, <1>6, <1>7
  DEF Next, Step, vars, CloseSession, WindowPasses

\* As long as commands run one at a time, a task's container runs on a tree
\* with the project in it, whatever killed commands left behind.
THEOREM SoloSandboxReady == Spec => []SandboxReady
<1>1. Init => ReadyInv
  <2>. SUFFICES ASSUME Init PROVE ReadyInv
    OBVIOUS
  <2>. QED BY DEF Init, ProcessInit, SandboxInit, ReadyInv, Relies
<1>2. ReadyInv => SandboxReady
  <2>. SUFFICES ASSUME ReadyInv, ~overlap, world.docker, NEW p \in Proc, at[p] = "task"
                PROVE  WorkerOf[p] \in container /\ ReadyTree(WorkerOf[p])
    BY DEF SandboxReady, ReadyTree
  <2>. QED BY DEF ReadyInv, Relies
<1>. QED
  BY <1>1, <1>2, InitTypes, TypesInductive, InitLeak, InitSolo, SoloInductive, LeakInductive,
     ReadyInductive, PTL
  DEF Spec
=============================================================================

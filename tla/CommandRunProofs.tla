-------------------------- MODULE CommandRunProofs --------------------------
(* Proofs about CommandRun, for any processes, worlds, tasks and batches.   *)
EXTENDS CommandRun, FiniteSetTheorems, WellFoundedInduction, TLAPS

\* Ids have an upper bound, so that there is a highest one.
Bounded(ids) == \E n \in Nat : \A i \in DOMAIN ids : ids[i].n <= n

Sound(m) == m \in Memory /\ Len(m.ids) <= MaxRows /\ Bounded(m.ids)

Editing == {"register", "file", "replace"}

\* A process that edits a copy has one, and the archiver one to archive from.
CopiesSound ==
  /\ Sound(memory)
  /\ \A p \in Proc :
       /\ pc[p] \in Editing => Sound(copy[p])
       /\ pc[p] = "file" => ToArchive(copy[p]) # {}

TypeInv == TypeOK /\ CopiesSound
-----------------------------------------------------------------------------
LEMMA MinInSet ==
  ASSUME NEW S, S \subseteq Nat, S # {}
  PROVE  Min(S) \in S
<1>1. PICK x \in S : \A y \in S : ~ (<<y, x>> \in OpToRel(<, Nat))
  BY WFMin, NatLessThanWellFounded
<1>2. ASSUME NEW y \in S PROVE x <= y
  <2>1. <<y, x>> \in Nat \X Nat
    OBVIOUS
  <2>2. ~(y < x)
    BY <1>1, <2>1 DEF OpToRel
  <2>. QED BY <2>2
<1>. QED BY <1>2 DEF Min

LEMMA MaxInSet ==
  ASSUME NEW S, S \subseteq Nat, S # {}, NEW n \in Nat, \A x \in S : x <= n
  PROVE  Max(S) \in S /\ \A x \in S : x <= Max(S)
<1>. DEFINE Bounds == {m \in Nat : \A x \in S : x <= m}
<1>1. PICK m \in Bounds : \A y \in Bounds : ~ (<<y, m>> \in OpToRel(<, Nat))
  BY WFMin, NatLessThanWellFounded
<1>2. m \in S
  <2>1. SUFFICES ASSUME m \notin S PROVE FALSE
    OBVIOUS
  <2>2. \A x \in S : x <= m - 1
    BY <2>1
  <2>3. m - 1 \in Nat
    <3>1. PICK x \in S : x <= m - 1
      BY <2>2
    <3>. QED BY <3>1
  <2>4. <<m - 1, m>> \in OpToRel(<, Nat)
    BY <2>3 DEF OpToRel
  <2>. QED BY <1>1, <2>2, <2>3, <2>4
<1>. QED BY <1>2 DEF Max

LEMMA Appended ==
  ASSUME NEW S, NEW s \in Seq(S), NEW t \in Seq(S)
  PROVE  s \o t \in Seq(S) /\ Len(s \o t) = Len(s) + Len(t)
OBVIOUS

\* What s, t, and s and t together have twice is in X, and so is what their
\* concatenation has twice.
LEMMA JoinedDistinct ==
  ASSUME NEW S, NEW s \in Seq(S), NEW t \in Seq(S), NEW X,
         \A i, j \in 1 .. Len(s) : i # j /\ s[i] = s[j] => s[i] \in X,
         \A i, j \in 1 .. Len(t) : i < j /\ t[i] = t[j] => t[j] \in X,
         \A i \in 1 .. Len(s), j \in 1 .. Len(t) : s[i] = t[j] => s[i] \in X
  PROVE  \A i, j \in 1 .. Len(s) + Len(t) :
           i # j /\ (s \o t)[i] = (s \o t)[j] => (s \o t)[i] \in X
<1>1. \A i \in 1 .. Len(s) : (s \o t)[i] = s[i]
  OBVIOUS
<1>2. \A i \in 1 .. Len(s) + Len(t) : i \notin 1 .. Len(s) =>
        i - Len(s) \in 1 .. Len(t) /\ (s \o t)[i] = t[i - Len(s)]
  OBVIOUS
<1>3. \A i, j \in 1 .. Len(t) : i # j /\ t[i] = t[j] => t[i] \in X
  OBVIOUS
<1>. SUFFICES ASSUME NEW i \in 1 .. Len(s) + Len(t), NEW j \in 1 .. Len(s) + Len(t),
                     i # j, (s \o t)[i] = (s \o t)[j]
              PROVE  (s \o t)[i] \in X
  OBVIOUS
<1>4. CASE i \in 1 .. Len(s) /\ j \in 1 .. Len(s)
  BY <1>1, <1>4
<1>5. CASE i \in 1 .. Len(s) /\ j \notin 1 .. Len(s)
  BY <1>1, <1>2, <1>5
<1>6. CASE i \notin 1 .. Len(s) /\ j \in 1 .. Len(s)
  BY <1>1, <1>2, <1>6
<1>7. CASE i \notin 1 .. Len(s) /\ j \notin 1 .. Len(s)
  <2>1. /\ i - Len(s) \in 1 .. Len(t) /\ (s \o t)[i] = t[i - Len(s)]
        /\ j - Len(s) \in 1 .. Len(t) /\ (s \o t)[j] = t[j - Len(s)]
    BY <1>2, <1>7
  <2>2. i \in Int /\ j \in Int /\ Len(s) \in Int
    OBVIOUS
  <2>3. i - Len(s) # j - Len(s)
    BY <2>2
  <2>. QED BY <1>3, <2>1, <2>3
<1>. QED BY <1>4, <1>5, <1>6, <1>7

LEMMA BothBounded ==
  ASSUME NEW s \in Seq(TaskId), NEW t \in Seq(TaskId), NEW n \in Nat,
         \A i \in 1 .. Len(s) : s[i].n <= n, \A i \in 1 .. Len(t) : t[i].n <= n
  PROVE  Bounded(s \o t)
<1>1. \A i \in 1 .. Len(s) + Len(t) : (s \o t)[i].n <= n
  OBVIOUS
<1>2. DOMAIN (s \o t) = 1 .. Len(s) + Len(t)
  OBVIOUS
<1>. QED BY <1>1, <1>2 DEF Bounded

\* What is read of an id is at most its number.
LEMMA ReadBackBound ==
  ASSUME NEW id \in TaskId
  PROVE  ReadBack(id) \in Nat /\ ReadBack(id) <= id.n /\ Numbered(ReadBack(id)) \in TaskId
<1>1. id.n \in Nat
  BY DEF TaskId
<1>2. \A n \in Nat : n \div 10 \in Nat /\ n \div 10 <= n
  OBVIOUS
<1>3. ReadBack(id) \in Nat /\ ReadBack(id) <= id.n
  BY <1>1, <1>2 DEF ReadBack
<1>. QED BY <1>3 DEF Numbered, TaskId

LEMMA HighestBound ==
  ASSUME NEW ids \in Seq(TaskId), Bounded(ids)
  PROVE  /\ Highest(ids) \in Nat
         /\ \A i \in 1 .. Len(ids) : ReadBack(ids[i]) <= Highest(ids)
<1>1. CASE ids = <<>>
  BY <1>1 DEF Highest
<1>2. CASE ids # <<>>
  <2>. DEFINE R == {ReadBack(id) : id \in Range(ids)}
  <2>1. DOMAIN ids = 1 .. Len(ids) /\ \A i \in 1 .. Len(ids) : ids[i] \in TaskId
    OBVIOUS
  <2>2. R \subseteq Nat
    BY <2>1, ReadBackBound DEF Range
  <2>3. R # {}
    <3>1. 1 \in DOMAIN ids
      BY <1>2
    <3>. QED BY <3>1 DEF Range
  <2>4. PICK n \in Nat : \A i \in 1 .. Len(ids) : ids[i].n <= n
    BY <2>1 DEF Bounded
  <2>5. \A i \in 1 .. Len(ids) : ReadBack(ids[i]) <= n
    <3>1. ASSUME NEW i \in 1 .. Len(ids) PROVE ReadBack(ids[i]) <= n
      <4>1. ids[i] \in TaskId /\ ids[i].n \in Nat /\ ids[i].n <= n
        BY <2>1, <2>4 DEF TaskId
      <4>. QED BY <4>1, ReadBackBound
    <3>. QED BY <3>1
  <2>6. \A x \in R : x <= n
    BY <2>1, <2>5 DEF Range
  <2>. HIDE DEF R
  <2>7. Max(R) \in Nat /\ \A x \in R : x <= Max(R)
    BY <2>2, <2>3, <2>6, MaxInSet
  <2>8. \A i \in 1 .. Len(ids) : ReadBack(ids[i]) \in R
    BY <2>1 DEF R, Range
  <2>9. Highest(ids) = Max(R)
    BY <1>2 DEF Highest, R
  <2>. QED BY <2>7, <2>8, <2>9
<1>. QED BY <1>1, <1>2

\* The ids of a batch are ids, as many as it has items, and bounded.
LEMMA IdsSound ==
  ASSUME NEW ids \in Seq(TaskId), Bounded(ids), NEW batch \in Seq(Item)
  PROVE  /\ Ids(ids, batch) \in Seq(TaskId) /\ Len(Ids(ids, batch)) = Len(batch)
         /\ ids \o Ids(ids, batch) \in Seq(TaskId) /\ Bounded(ids \o Ids(ids, batch))
         /\ Len(ids \o Ids(ids, batch)) = Len(ids) + Len(batch)
         /\ Clashes(ids, batch) \subseteq TaskId
<1>. DEFINE new == Ids(ids, batch)
            h == Highest(ids)
            l == Len(batch)
<1>1. l \in Nat /\ DOMAIN batch = 1 .. l /\ h \in Nat
  BY HighestBound
<1>2. ASSUME NEW i \in 1 .. l
      PROVE  new[i] \in TaskId /\ new[i].n <= h + l + LastId
  <2>1. new[i] = IF batch[i].id = NoId THEN Numbered(h + i) ELSE batch[i].id
    BY <1>1 DEF Ids
  <2>2. batch[i].id \in ChosenId \cup {NoId}
    <3>1. batch[i] \in Item
      BY <1>1
    <3>. QED BY <3>1 DEF Item
  <2>. HIDE DEF new, h, l
  <2>3. h + i \in Nat /\ h + i <= h + l + LastId
    BY <1>1 DEF LastId
  <2>4. CASE batch[i].id = NoId
    BY <2>1, <2>3, <2>4 DEF Numbered, TaskId
  <2>5. CASE batch[i].id # NoId
    <3>1. new[i] \in TaskId /\ new[i].n <= LastId /\ new[i].n \in Nat
      BY <2>1, <2>2, <2>5 DEF ChosenId, TaskId
    <3>. QED BY <1>1, <3>1 DEF LastId
  <2>. QED BY <2>4, <2>5
<1>3. DOMAIN new = 1 .. l
  BY <1>1 DEF Ids
<1>4. new \in Seq(TaskId) /\ Len(new) = l
  <2>1. new = [i \in 1 .. l |-> new[i]]
    BY <1>1 DEF Ids
  <2>2. new \in [1 .. l -> TaskId]
    BY <1>2, <2>1
  <2>. QED BY <1>1, <1>3, <2>2
<1>5. Clashes(ids, batch) \subseteq TaskId
  <2>. SUFFICES ASSUME NEW x \in Clashes(ids, batch) PROVE x \in TaskId
    OBVIOUS
  <2>1. PICK j \in DOMAIN batch : x = new[j]
    BY DEF Clashes
  <2>. HIDE DEF new
  <2>. QED BY <1>1, <1>2, <2>1
<1>0. DOMAIN ids = 1 .. Len(ids) /\ \A i \in 1 .. Len(ids) : ids[i] \in TaskId
  OBVIOUS
<1>6. PICK m \in Nat : \A i \in 1 .. Len(ids) : ids[i].n <= m
  BY <1>0 DEF Bounded
<1>7. PICK n \in Nat : n = m + h + l + LastId
  <2>. HIDE DEF h, l
  <2>1. m + h + l + LastId \in Nat
    BY <1>1 DEF LastId
  <2>. QED BY <2>1
<1>8. \A i \in 1 .. Len(ids) : ids[i].n <= n
  <2>1. \A i \in 1 .. Len(ids) : ids[i].n \in Nat
    BY <1>0 DEF TaskId
  <2>. HIDE DEF h, l
  <2>. QED BY <1>1, <1>6, <1>7, <2>1 DEF LastId
<1>9. \A i \in 1 .. Len(new) : new[i].n <= n
  <2>1. \A i \in 1 .. l : new[i].n \in Nat /\ new[i].n <= h + l + LastId
    BY <1>2 DEF TaskId
  <2>. HIDE DEF new, h, l
  <2>. QED BY <1>1, <1>4, <1>6, <1>7, <2>1 DEF LastId
<1>. HIDE DEF new, h, l
<1>10. Bounded(ids \o new)
  BY <1>4, <1>8, <1>9, BothBounded
<1>11. ids \o new \in Seq(TaskId) /\ Len(ids \o new) = Len(ids) + Len(new)
  BY <1>4, Appended
<1>. QED BY <1>4, <1>5, <1>10, <1>11 DEF new, l

LEMMA InitTypes == Init => TypeInv
<1>. SUFFICES ASSUME Init PROVE TypeInv
  OBVIOUS
<1>. USE DEF Init, ProcessInit, BreakerInit, SandboxInit, MemoryInit
<1>1. ProcessTypeOK
  BY DEF ProcessTypeOK, Stage, Kind
<1>2. BreakerTypeOK
  <2>1. 0 \in 0 .. Threshold
    BY BreakerAssumption
  <2>. QED BY <2>1 DEF BreakerTypeOK
<1>3. SandboxTypeOK
  BY DEF SandboxTypeOK, Jobs, Place
<1>4. MemoryTypeOK
  <2>1. MaxRows \in Nat /\ Sessions \in Nat /\ world.finished \in 0 .. Sessions
    BY ArchiverAssumption
  <2>2. logged \subseteq Session
    BY <2>1 DEF Session
  <2>3. memory \in Memory
    BY <2>2 DEF Memory, Outcome
  <2>4. copy \in [Proc -> Memory \cup {NoCopy}] /\ Len(memory.ids) <= MaxRows
    BY <2>1
  <2>5. filed = {} /\ clashing = {} /\ registered = {} /\ late = {}
    OBVIOUS
  <2>. HIDE DEF Init, ProcessInit, MemoryInit
  <2>. QED BY <2>2, <2>3, <2>4, <2>5 DEF MemoryTypeOK
<1>5. CopiesSound
  <2>1. memory.ids = <<>> /\ Bounded(memory.ids)
    BY DEF Bounded
  <2>. QED BY <1>4, <2>1 DEF CopiesSound, Sound, MemoryTypeOK, Editing
<1>. QED BY <1>1, <1>2, <1>3, <1>4, <1>5 DEF TypeInv, TypeOK

\* What the worker does is no step of its process.
LEMMA WorkerFrame ==
  ASSUME NEW p \in Proc, WorkerStep(p) \/ CancelLeft(p)
  PROVE  UNCHANGED processVars
BY DEF WorkerStep, TakeTask, StageDraft, TaskEnds, EndWorker, WorkerDone, CancelLeft, Move

\* No step of a component leaves the stages.
LEMMA ProcessTypes ==
  ASSUME TypeInv, Next
  PROVE  ProcessTypeOK'
<1>. ProcessTypeOK
  BY DEF TypeInv, TypeOK
<1>. USE DEF ProcessTypeOK, Stage, Kind, Goto, processVars
<1>1. ASSUME NEW p \in Proc, StartCommand(p) PROVE ProcessTypeOK'
  BY <1>1 DEF StartCommand, Start
<1>2. ASSUME NEW p \in Proc, EndBody(p) PROVE ProcessTypeOK'
  BY <1>2 DEF EndBody
<1>3. ASSUME NEW p \in Proc, ClaimTask(p) PROVE ProcessTypeOK'
  BY <1>3 DEF ClaimTask, EnterTask, Move
<1>4. ASSUME NEW p \in Proc, BreakerStep(p) PROVE ProcessTypeOK'
  BY <1>4 DEF BreakerStep, SkipServer, TryServer, HalfOpen, ConnectSucceeds,
       ConnectFails, RecordFailure
<1>5. ASSUME NEW p \in Proc, SandboxStep(p) PROVE ProcessTypeOK'
  <2>1. CASE ThreadStep(p)
    BY <2>1 DEF ThreadStep, FindWarm, FindCold, Purge, AddTree, RunContainer,
         RunFails, RemoveContainer, RemoveTree
  <2>2. CASE CleanContainers(p) \/ SweepTrees(p)
    BY <2>2 DEF CleanContainers, SweepTrees
  <2>3. CASE WorkerStep(p) \/ CancelLeft(p)
    BY <2>3, WorkerFrame
  <2>4. CASE StartWave(p) \/ EndWave(p) \/ StopWave(p) \/ Interrupt(p) \/ LoopCloses(p)
    BY <2>4 DEF StartWave, EndWave, StopWave, Interrupt, LoopCloses
  <2>. QED BY <1>5, <2>1, <2>2, <2>3, <2>4 DEF SandboxStep
<1>6. ASSUME NEW p \in Proc, MemoryStep(p) PROVE ProcessTypeOK'
  BY <1>6 DEF MemoryStep, ReadForBatch, WriteBatch, ReadMemory, WriteRecord, ReplaceMemory
<1>7. ASSUME NEW p \in Proc, KillCommand(p) PROVE ProcessTypeOK'
  BY <1>7 DEF KillCommand, Kill
<1>8. ASSUME NEW s \in Session, CloseSession(s) PROVE ProcessTypeOK'
  BY <1>8 DEF CloseSession
<1>9. CASE WindowPasses
  BY <1>9 DEF WindowPasses
<1>. QED BY <1>1, <1>2, <1>3, <1>4, <1>5, <1>6, <1>7, <1>8, <1>9 DEF Next, Step

LEMMA BreakerTypes ==
  ASSUME TypeInv, Next
  PROVE  BreakerTypeOK'
<1>. /\ failures \in 0 .. Threshold /\ recent \in BOOLEAN
     /\ seen \in [Proc -> 0 .. Threshold]
     /\ Threshold \in Nat \ {0}
  BY BreakerAssumption DEF TypeInv, TypeOK, BreakerTypeOK
<1>0. 0 \in 0 .. Threshold /\ Threshold - 1 \in 0 .. Threshold
  OBVIOUS
<1>. USE DEF BreakerTypeOK
<1>1. ASSUME NEW p \in Proc, BreakerStep(p) PROVE BreakerTypeOK'
  <2>1. CASE SkipServer(p) \/ TryServer(p)
    BY <2>1 DEF SkipServer, TryServer, breakerVars
  <2>2. CASE HalfOpen(p) \/ ConnectSucceeds(p)
    BY <2>2, <1>0 DEF HalfOpen, ConnectSucceeds
  <2>3. CASE ConnectFails(p)
    BY <2>3 DEF ConnectFails
  <2>4. CASE RecordFailure(p)
    <3>1. failures' \in 0 .. Threshold
      BY <2>4 DEF RecordFailure
    <3>. QED BY <2>4, <3>1, <1>0 DEF RecordFailure
  <2>. QED BY <1>1, <2>1, <2>2, <2>3, <2>4 DEF BreakerStep
<1>2. ASSUME NEW p \in Proc, KillCommand(p) PROVE BreakerTypeOK'
  BY <1>2, <1>0 DEF KillCommand
<1>3. CASE WindowPasses
  BY <1>3 DEF WindowPasses
<1>4. CASE UNCHANGED breakerVars
  BY <1>4 DEF breakerVars
<1>. QED BY <1>1, <1>2, <1>3, <1>4 DEF Next, Step, StartCommand, ClaimTask

\* Shadow trees stay shadow trees, whichever is added or removed.
LEMMA TreesTyped ==
  ASSUME DOMAIN tree \subseteq Id, tree \in [DOMAIN tree -> Content],
         NEW i \in Id, NEW content \in Content, NEW ids
  PROVE  /\ DOMAIN TreeWith(i, content) \subseteq Id
         /\ TreeWith(i, content) \in [DOMAIN TreeWith(i, content) -> Content]
         /\ DOMAIN TreeWithout(ids) \subseteq Id
         /\ TreeWithout(ids) \in [DOMAIN TreeWithout(ids) -> Content]
BY DEF TreeWith, TreeWithout

LEMMA SandboxTypes ==
  ASSUME TypeInv, Next
  PROVE  SandboxTypeOK'
<1>. /\ SandboxTypeOK
     /\ DOMAIN tree \subseteq Id /\ tree \in [DOMAIN tree -> Content]
     /\ WorkerOf \in [Proc -> Worker] /\ {} \in Content /\ {HEAD} \in Content
  BY SandboxAssumption DEF TypeInv, TypeOK, SandboxTypeOK, Content
<1>. USE DEF SandboxTypeOK, Jobs, Place, Move
<1>1. ASSUME NEW p \in Proc, ThreadStep(p) PROVE SandboxTypeOK'
  <2>. WorkerOf[p] \in Id
    BY DEF Id
  <2>. USE DEF Job
  <2>1. CASE FindWarm(p) \/ FindCold(p) \/ RunFails(p)
    BY <2>1 DEF FindWarm, FindCold, RunFails
  <2>2. CASE Purge(p) \/ RemoveTree(p)
    BY <2>2, TreesTyped DEF Purge, RemoveTree
  <2>3. CASE AddTree(p)
    BY <2>3, TreesTyped DEF AddTree
  <2>4. CASE RunContainer(p)
    BY <2>4, TreesTyped DEF RunContainer
  <2>5. CASE RemoveContainer(p)
    BY <2>5 DEF RemoveContainer
  <2>. QED BY <1>1, <2>1, <2>2, <2>3, <2>4, <2>5 DEF ThreadStep
<1>2. ASSUME NEW p \in Proc, SandboxStep(p), ~ThreadStep(p) PROVE SandboxTypeOK'
  <2>1. CASE StageDraft(p)
    <3>1. CASE world.docker /\ task[p] \in DOMAIN tree
      <4>1. task[p] \in Task
        BY <3>1, SandboxAssumption DEF Id
      <4>2. tree[task[p]] \cup {task[p]} \in Content
        BY <3>1, <4>1 DEF Content
      <4>. QED BY <2>1, <3>1, <4>2 DEF StageDraft
    <3>2. CASE ~(world.docker /\ task[p] \in DOMAIN tree)
      BY <2>1, <3>2 DEF StageDraft
    <3>. QED BY <3>1, <3>2
  <2>2. CASE CleanContainers(p)
    BY <2>2 DEF CleanContainers
  <2>3. CASE SweepTrees(p)
    <3>1. TreeWithout(Id) = [j \in {} |-> tree[j]]
      BY DEF TreeWithout
    <3>. QED BY <2>3, <3>1 DEF SweepTrees
  <2>4. CASE StartWave(p) \/ TakeTask(p) \/ EndWorker(p) \/ WorkerDone(p) \/ LoopCloses(p)
    BY <2>4 DEF StartWave, TakeTask, EndWorker, WorkerDone, LoopCloses
  <2>5. CASE TaskEnds(p)
    BY <2>5 DEF TaskEnds, LeaveTask
  <2>6. CASE StopWave(p) \/ CancelLeft(p)
    BY <2>6 DEF StopWave, CancelLeft, Cancelled, LeaveTask
  <2>7. CASE EndWave(p) \/ Interrupt(p)
    BY <2>7 DEF EndWave, Interrupt, sandboxVars
  <2>. QED BY <1>2, <2>1, <2>2, <2>3, <2>4, <2>5, <2>6, <2>7 DEF SandboxStep, WorkerStep
<1>3. ASSUME NEW p \in Proc, ClaimTask(p) PROVE SandboxTypeOK'
  BY <1>3 DEF ClaimTask, EnterTask, Move
<1>4. ASSUME NEW p \in Proc, KillCommand(p) PROVE SandboxTypeOK'
  BY <1>4 DEF KillCommand, SandboxLost, LeaveTask
<1>5. CASE UNCHANGED sandboxVars
  BY <1>5 DEF sandboxVars
<1>. QED BY <1>1, <1>2, <1>3, <1>4, <1>5 DEF Next, Step, StartCommand

\* Apart from the archiver, the registration and a kill, nothing takes a
\* process to the editing of a copy or lets it go on with one.
LEMMA EditingKept ==
  ASSUME TypeInv, NEW p \in Proc,
         \/ StartCommand(p) \/ EndBody(p) \/ ClaimTask(p)
         \/ BreakerStep(p) \/ SandboxStep(p)
  PROVE  \A q \in Proc : pc'[q] \in Editing => pc'[q] = pc[q]
<1>. pc \in [Proc -> Stage]
  BY DEF TypeInv, TypeOK, ProcessTypeOK
<1>. USE DEF Editing, Goto, processVars
<1>1. CASE StartCommand(p) \/ EndBody(p) \/ ClaimTask(p)
  BY <1>1 DEF StartCommand, Start, EndBody, ClaimTask, EnterTask, Move
<1>2. CASE BreakerStep(p)
  BY <1>2 DEF BreakerStep, SkipServer, TryServer, HalfOpen, ConnectSucceeds,
       ConnectFails, RecordFailure
<1>3. CASE ThreadStep(p)
  BY <1>3 DEF ThreadStep, FindWarm, FindCold, Purge, AddTree, RunContainer,
       RunFails, RemoveContainer, RemoveTree
<1>4. CASE WorkerStep(p) \/ CancelLeft(p)
  BY <1>4, WorkerFrame
<1>5. CASE SandboxStep(p) /\ ~ThreadStep(p) /\ ~WorkerStep(p) /\ ~CancelLeft(p)
  BY <1>5 DEF SandboxStep, StartWave, EndWave, StopWave, Interrupt, LoopCloses,
       CleanContainers, SweepTrees
<1>. QED BY <1>1, <1>2, <1>3, <1>4, <1>5

LEMMA OnlySessions ==
  ASSUME NEW m
  PROVE  ToArchive(m) \subseteq Session /\ Session \subseteq Nat
BY DEF ToArchive, Terminal, Session

LEMMA ArchivedSound ==
  ASSUME NEW m, Sound(m), NEW s \in Session
  PROVE  Sound(Archived(m, s))
BY DEF Sound, Archived, Memory, Outcome

LEMMA MemoryTypes ==
  ASSUME TypeInv, Next
  PROVE  MemoryTypeOK' /\ CopiesSound'
<1>. /\ MemoryTypeOK /\ CopiesSound
     /\ pc \in [Proc -> Stage] /\ copy \in [Proc -> Memory \cup {NoCopy}]
  BY DEF TypeInv, TypeOK, ProcessTypeOK, MemoryTypeOK
<1>. USE DEF MemoryTypeOK, CopiesSound, Sound
<1>1. ASSUME NEW p \in Proc, ReadForBatch(p) PROVE MemoryTypeOK' /\ CopiesSound'
  <2>1. PICK batch \in world.batches :
          /\ Len(memory.ids) + Len(batch) <= MaxRows
          /\ copy' = [copy EXCEPT ![p] = [memory EXCEPT !.ids = @ \o Ids(@, batch)]]
          /\ clashing' = clashing \cup Clashes(memory.ids, batch)
    BY <1>1 DEF ReadForBatch
  <2>2. batch \in Seq(Item) /\ memory.ids \in Seq(TaskId)
    BY ArchiverAssumption DEF TypeInv, TypeOK, ProcessTypeOK, Memory
  <2>3. Sound(copy'[p])
    <3>. DEFINE new == Ids(memory.ids, batch)
    <3>1. copy'[p] = [memory EXCEPT !.ids = memory.ids \o new]
      BY <2>1
    <3>2. /\ memory.ids \o new \in Seq(TaskId) /\ Bounded(memory.ids \o new)
          /\ Len(memory.ids \o new) <= MaxRows
      BY <2>1, <2>2, IdsSound
    <3>. HIDE DEF new
    <3>. QED BY <3>1, <3>2 DEF Memory
  <2>4. pc' = [pc EXCEPT ![p] = "register"] /\ UNCHANGED <<memory, filed, logged, registered, late>>
    BY <1>1 DEF ReadForBatch, Goto
  <2>5. clashing' \subseteq TaskId
    BY <2>1, <2>2, IdsSound
  <2>. QED BY <2>1, <2>3, <2>4, <2>5 DEF Editing
<1>2. ASSUME NEW p \in Proc, WriteBatch(p) PROVE MemoryTypeOK' /\ CopiesSound'
  <2>1. Range(copy[p].ids) \subseteq TaskId
    BY <1>2 DEF WriteBatch, Goto, Editing, Memory, Range
  <2>. QED BY <1>2, <2>1 DEF WriteBatch, Goto, Editing
<1>3. ASSUME NEW p \in Proc, ReadMemory(p) PROVE MemoryTypeOK' /\ CopiesSound'
  <2>1. \/ pc'[p] = "file" /\ copy' = [copy EXCEPT ![p] = memory] /\ ToArchive(memory) # {}
        \/ pc'[p] = "close" /\ copy' = copy
    <3>1. CASE ToArchive(memory) = {}
      BY <1>3, <3>1 DEF ReadMemory, Goto
    <3>2. CASE ToArchive(memory) # {}
      BY <1>3, <3>2 DEF ReadMemory, Goto
    <3>. QED BY <3>1, <3>2
  <2>2. /\ UNCHANGED <<memory, filed, clashing, logged, registered, late>>
        /\ \A q \in Proc \ {p} : pc'[q] = pc[q] /\ copy'[q] = copy[q]
    BY <1>3 DEF ReadMemory, Goto
  <2>3. MemoryTypeOK'
    BY <2>1, <2>2
  <2>4. pc'[p] \in Editing => Sound(copy'[p]) /\ (pc'[p] = "file" => ToArchive(copy'[p]) # {})
    BY <2>1 DEF Editing
  <2>. QED BY <2>2, <2>3, <2>4 DEF Editing
<1>4. ASSUME NEW p \in Proc, WriteRecord(p) PROVE MemoryTypeOK' /\ CopiesSound'
  <2>. DEFINE s == Min(ToArchive(copy[p]))
              edited == Archived(copy[p], s)
  <2>1. ToArchive(copy[p]) # {} /\ ToArchive(copy[p]) \subseteq Session /\ Session \subseteq Nat
    <3>1. pc[p] = "file"
      BY <1>4 DEF WriteRecord, Goto
    <3>. QED BY <3>1, OnlySessions
  <2>2. s \in Session
    BY <2>1, MinInSet
  <2>3. Sound(edited)
    BY <1>4, <2>2, ArchivedSound DEF WriteRecord, Goto, Editing
  <2>4. /\ copy' = [copy EXCEPT ![p] = edited] /\ filed' = filed \cup {s}
        /\ pc' = [pc EXCEPT ![p] = IF ToArchive(edited) = {} THEN "replace" ELSE "file"]
        /\ UNCHANGED <<memory, clashing, logged, registered, late>>
    BY <1>4 DEF WriteRecord, Goto
  <2>. HIDE DEF s, edited
  <2>. QED BY <2>2, <2>3, <2>4 DEF Editing
<1>5. ASSUME NEW p \in Proc, ReplaceMemory(p) PROVE MemoryTypeOK' /\ CopiesSound'
  BY <1>5 DEF ReplaceMemory, Goto, Editing
<1>6. ASSUME NEW p \in Proc, KillCommand(p) PROVE MemoryTypeOK' /\ CopiesSound'
  BY <1>6 DEF KillCommand, Kill, CopyLost, Editing
<1>7. ASSUME NEW s \in Session, CloseSession(s) PROVE MemoryTypeOK' /\ CopiesSound'
  BY <1>7 DEF CloseSession, processVars, Memory, Outcome
<1>8. ASSUME NEW p \in Proc, ClaimTask(p) PROVE MemoryTypeOK' /\ CopiesSound'
  <2>1. PICK t \in Session : LogSession(p, t)
    BY <1>8, TaskAssumption DEF ClaimTask
  <2>2. Sound(memory') /\ UNCHANGED copy
    BY <2>1 DEF LogSession, Memory, Outcome
  <2>3. MemoryTypeOK'
    BY <2>1, <2>2 DEF LogSession
  <2>4. \A q \in Proc : pc'[q] \in Editing => pc'[q] = pc[q]
    BY <1>8, EditingKept
  <2>. QED BY <2>2, <2>3, <2>4 DEF Editing
<1>9. ASSUME UNCHANGED memoryVars, \A q \in Proc : pc'[q] \in Editing => pc'[q] = pc[q]
      PROVE  MemoryTypeOK' /\ CopiesSound'
  BY <1>9 DEF memoryVars, Editing
<1>10. CASE WindowPasses /\ UNCHANGED <<sandboxVars, memoryVars>>
  BY <1>10 DEF WindowPasses, processVars, memoryVars
<1>. QED
  BY <1>1, <1>2, <1>3, <1>4, <1>5, <1>6, <1>7, <1>8, <1>9, <1>10, EditingKept
  DEF Next, Step, StartCommand, MemoryStep

LEMMA TypesInductive == TypeInv /\ [Next]_vars => TypeInv'
<1>1. CASE Next
  BY <1>1, ProcessTypes, BreakerTypes, SandboxTypes, MemoryTypes DEF TypeInv, TypeOK
<1>2. CASE UNCHANGED vars
  BY <1>2 DEF TypeInv, TypeOK, vars, processVars, breakerVars, sandboxVars, memoryVars,
    ProcessTypeOK, BreakerTypeOK, SandboxTypeOK, MemoryTypeOK, CopiesSound
<1>. QED BY <1>1, <1>2

\* Every variable keeps its type, and a process that is to put a copy of
\* memory.md back has one to put back.
THEOREM TypeCorrect == Spec => []TypeOK
<1>1. TypeInv => TypeOK
  BY DEF TypeInv
<1>. QED BY InitTypes, TypesInductive, <1>1, PTL DEF Spec
-----------------------------------------------------------------------------
(* What a step changes of memory.md and of the copies in use.              *)

\* Who edits a copy has been editing it, at the same stage.
SameCopies == \A q \in Proc : pc'[q] \in Editing => pc'[q] = pc[q] /\ copy'[q] = copy[q]

LEMMA MemoryMoves ==
  ASSUME TypeInv, Next
  PROVE  \/ \E p \in Proc : MemoryStep(p)
         \/ \E p \in Proc, t \in Session : LogSession(p, t) /\ at[p] = "warm" /\ SameCopies
         \/ \E s \in Session : CloseSession(s) /\ SameCopies
         \/ UNCHANGED <<memory, filed, clashing, logged, registered, late>> /\ SameCopies
<1>. pc \in [Proc -> Stage] /\ copy \in [Proc -> Memory \cup {NoCopy}]
  BY DEF TypeInv, TypeOK, ProcessTypeOK, MemoryTypeOK
<1>1. ASSUME NEW p \in Proc, ClaimTask(p)
      PROVE  \E t \in Session : LogSession(p, t) /\ at[p] = "warm" /\ SameCopies
  BY <1>1, EditingKept, TaskAssumption
  DEF ClaimTask, EnterTask, Move, LogSession, SameCopies, processVars
<1>2. ASSUME NEW p \in Proc, KillCommand(p)
      PROVE  UNCHANGED <<memory, filed, clashing, logged, registered, late>> /\ SameCopies
  BY <1>2 DEF KillCommand, Kill, CopyLost, SameCopies, Editing
<1>3. ASSUME NEW s \in Session, CloseSession(s) PROVE SameCopies
  BY <1>3 DEF CloseSession, processVars, SameCopies
<1>4. CASE WindowPasses /\ UNCHANGED <<sandboxVars, memoryVars>>
  BY <1>4 DEF WindowPasses, processVars, memoryVars, SameCopies
<1>5. ASSUME NEW p \in Proc, UNCHANGED memoryVars,
             StartCommand(p) \/ EndBody(p) \/ BreakerStep(p) \/ SandboxStep(p)
      PROVE  UNCHANGED <<memory, filed, clashing, logged, registered, late>> /\ SameCopies
  BY <1>5, EditingKept DEF SameCopies, memoryVars
<1>. QED BY <1>1, <1>2, <1>3, <1>4, <1>5 DEF Next, Step, StartCommand, memoryVars
-----------------------------------------------------------------------------
(* Archived sessions.                                                      *)

\* The rows of m's sessions are in m or in the archive.
Filed(m) == \A s \in Session : m.outcome[s] # "none" => s \in m.ledger \cup filed

\* So it is in memory.md and in every copy that may become memory.md.
FiledInv == Filed(memory) /\ \A p \in Proc : pc[p] \in Editing => Filed(copy[p])

LEMMA FiledInductive == TypeInv /\ FiledInv /\ [Next]_vars => FiledInv'
<1>. SUFFICES ASSUME TypeInv, FiledInv, [Next]_vars PROVE FiledInv'
  OBVIOUS
<1>. /\ pc \in [Proc -> Stage] /\ copy \in [Proc -> Memory \cup {NoCopy}]
     /\ CopiesSound
  BY DEF TypeInv, TypeOK, ProcessTypeOK, MemoryTypeOK
<1>. USE DEF FiledInv, Filed, Goto
<1>1. ASSUME NEW p \in Proc, ReadForBatch(p) PROVE FiledInv'
  <2>1. PICK new : copy' = [copy EXCEPT ![p] = [memory EXCEPT !.ids = new]]
    BY <1>1 DEF ReadForBatch
  <2>2. copy'[p].outcome = memory.outcome /\ copy'[p].ledger = memory.ledger
    BY <2>1 DEF CopiesSound, Sound, Memory
  <2>. QED BY <1>1, <2>1, <2>2 DEF ReadForBatch, Editing
<1>2. ASSUME NEW p \in Proc, WriteBatch(p) \/ ReplaceMemory(p) PROVE FiledInv'
  BY <1>2 DEF WriteBatch, ReplaceMemory, Editing
<1>3. ASSUME NEW p \in Proc, ReadMemory(p) PROVE FiledInv'
  <2>1. pc'[p] \in Editing => copy'[p] = memory
    BY <1>3 DEF ReadMemory, Editing
  <2>2. /\ memory' = memory /\ filed' = filed
        /\ \A q \in Proc \ {p} : pc'[q] = pc[q] /\ copy'[q] = copy[q]
    BY <1>3 DEF ReadMemory
  <2>. QED BY <2>1, <2>2
<1>4. ASSUME NEW p \in Proc, WriteRecord(p) PROVE FiledInv'
  <2>. DEFINE s == Min(ToArchive(copy[p]))
              edited == Archived(copy[p], s)
  <2>1. s \in Session
    <3>1. ToArchive(copy[p]) # {} /\ ToArchive(copy[p]) \subseteq Nat
      <4>1. pc[p] = "file"
        BY <1>4 DEF WriteRecord
      <4>. QED BY <4>1, OnlySessions DEF CopiesSound
    <3>2. s \in ToArchive(copy[p])
      BY <3>1, MinInSet
    <3>. QED BY <3>2, OnlySessions
  <2>2. Sound(copy[p]) /\ Filed(copy[p])
    BY <1>4 DEF WriteRecord, CopiesSound, Editing
  <2>3. /\ copy' = [copy EXCEPT ![p] = edited] /\ filed' = filed \cup {s}
        /\ memory' = memory /\ \A q \in Proc \ {p} : pc'[q] = pc[q]
    BY <1>4 DEF WriteRecord
  <2>4. \A r \in Session : edited.outcome[r] # "none" => r \in edited.ledger \cup filed'
    BY <2>1, <2>2, <2>3 DEF Archived, Sound, Memory
  <2>. HIDE DEF s, edited
  <2>. QED BY <2>3, <2>4
<1>5. ASSUME NEW p \in Proc, NEW t \in Session, LogSession(p, t), SameCopies PROVE FiledInv'
  BY <1>5 DEF LogSession, SameCopies, Editing, CopiesSound, Sound, Memory
<1>6. ASSUME NEW s \in Session, CloseSession(s), SameCopies PROVE FiledInv'
  BY <1>6 DEF CloseSession, SameCopies, CopiesSound, Sound, Memory
<1>7. ASSUME UNCHANGED <<memory, filed>>, SameCopies PROVE FiledInv'
  BY <1>7 DEF SameCopies
<1>8. CASE UNCHANGED vars
  BY <1>8 DEF vars, processVars, memoryVars
<1>. QED
  BY <1>1, <1>2, <1>3, <1>4, <1>5, <1>6, <1>7, <1>8, MemoryMoves DEF MemoryStep

\* A session's ledger rows are in memory.md until its archive record is in
\* place, although several commands put copies of memory.md back and any may
\* be killed in between.
THEOREM ArchiveKeepsRows == Spec => []ArchivedIsFiled
<1>1. Init => FiledInv
  <2>. SUFFICES ASSUME Init PROVE FiledInv
    OBVIOUS
  <2>. QED BY DEF Init, ProcessInit, MemoryInit, FiledInv, Filed, Editing
<1>2. FiledInv => ArchivedIsFiled
  BY DEF FiledInv, Filed, ArchivedIsFiled
<1>. QED BY <1>1, <1>2, InitTypes, TypesInductive, FiledInductive, PTL DEF Spec
-----------------------------------------------------------------------------
(* Recent sessions.                                                        *)

FinishedAfter(m, s) == {r \in Session : r > s /\ m.outcome[r] \in {"terminal", "archived"}}

\* memory.md always has the rows of the last archive_keep_sessions finished
\* sessions and of the unfinished ones.
RecentInLedger ==
  \A s \in Session :
    memory.outcome[s] # "none" /\ Cardinality(FinishedAfter(memory, s)) < Keep =>
      s \in memory.ledger

\* A version of memory.md knows only logged sessions, archives only ones that
\* Keep finished ones follow, and has the rows of the others.
Orderly(m) ==
  \A s \in Session :
    /\ m.outcome[s] # "none" => s \in logged
    /\ m.outcome[s] = "archived" => Keep <= Cardinality(FinishedAfter(m, s))
    /\ m.outcome[s] \notin {"none", "archived"} => s \in m.ledger

OrderInv == Orderly(memory) /\ \A p \in Proc : pc[p] \in Editing => Orderly(copy[p])

\* With more finished sessions no fewer follow.
LEMMA FollowMonotone ==
  ASSUME NEW m, NEW n, NEW s,
         \A r \in Session : m.outcome[r] \in {"terminal", "archived"} =>
                              n.outcome[r] \in {"terminal", "archived"}
  PROVE  /\ Cardinality(FinishedAfter(m, s)) \in Nat /\ Cardinality(FinishedAfter(n, s)) \in Nat
         /\ Cardinality(FinishedAfter(m, s)) <= Cardinality(FinishedAfter(n, s))
<1>1. IsFiniteSet(Session)
  <2>1. 1 \in Int /\ Sessions \in Int
    BY ArchiverAssumption
  <2>. QED BY <2>1, FS_Interval DEF Session
<1>2. FinishedAfter(m, s) \subseteq FinishedAfter(n, s) /\ FinishedAfter(n, s) \subseteq Session
  BY DEF FinishedAfter
<1>3. IsFiniteSet(FinishedAfter(n, s))
  BY <1>1, <1>2, FS_Subset
<1>4. IsFiniteSet(FinishedAfter(m, s))
  BY <1>2, <1>3, FS_Subset
<1>. QED BY <1>2, <1>3, <1>4, FS_Subset, FS_CardinalityType

\* The archiver's edit keeps the order: at least Keep finished sessions follow
\* the one it takes.
LEMMA ArchivedOrderly ==
  ASSUME NEW m, Sound(m), Orderly(m), NEW s \in ToArchive(m)
  PROVE  Orderly(Archived(m, s))
<1>. DEFINE n == Archived(m, s)
<1>1. s \in Session /\ m.outcome[s] = "terminal"
  BY DEF ToArchive, Terminal
<1>2. /\ n.outcome[s] = "archived" /\ n.ledger = m.ledger \ {s}
      /\ \A r \in Session \ {s} : n.outcome[r] = m.outcome[r]
  BY <1>1 DEF Archived, Sound, Memory
<1>. HIDE DEF n
<1>3. \A r \in Session : m.outcome[r] \in {"terminal", "archived"} =>
                           n.outcome[r] \in {"terminal", "archived"}
  BY <1>2
<1>4. Keep <= Cardinality(FinishedAfter(m, s))
  <2>. DEFINE later == {r \in Terminal(m) : r > s}
  <2>1. Keep <= Cardinality(later) /\ Keep \in Nat
    BY ArchiverAssumption DEF ToArchive
  <2>2. later \subseteq FinishedAfter(m, s)
    BY DEF Terminal, FinishedAfter
  <2>3. IsFiniteSet(FinishedAfter(m, s))
    <3>1. 1 \in Int /\ Sessions \in Int
      BY ArchiverAssumption
    <3>2. IsFiniteSet(Session)
      BY <3>1, FS_Interval DEF Session
    <3>. QED BY <3>2, FS_Subset DEF FinishedAfter
  <2>4. IsFiniteSet(later) /\ Cardinality(later) <= Cardinality(FinishedAfter(m, s))
    BY <2>2, <2>3, FS_Subset
  <2>5. Cardinality(later) \in Nat /\ Cardinality(FinishedAfter(m, s)) \in Nat
    BY <2>3, <2>4, FS_CardinalityType
  <2>. HIDE DEF later
  <2>. QED BY <2>1, <2>4, <2>5
<1>5. ASSUME NEW r \in Session, n.outcome[r] = "archived"
      PROVE  Keep <= Cardinality(FinishedAfter(n, r))
  <2>1. Keep <= Cardinality(FinishedAfter(m, r))
    BY <1>2, <1>4, <1>5 DEF Orderly
  <2>. QED BY <1>3, <2>1, FollowMonotone, ArchiverAssumption
<1>6. ASSUME NEW r \in Session
      PROVE  /\ n.outcome[r] # "none" => r \in logged
             /\ n.outcome[r] \notin {"none", "archived"} => r \in n.ledger
  BY <1>1, <1>2, <1>6 DEF Orderly
<1>7. Orderly(n)
  BY <1>5, <1>6 DEF Orderly
<1>. QED BY <1>7 DEF n

\* Sessions once logged stay, and so does the order.
LEMMA OrderlyStays ==
  ASSUME logged \subseteq logged', NEW m, NEW n, Orderly(m),
         n.outcome = m.outcome, n.ledger = m.ledger
  PROVE  Orderly(n)'
BY DEF Orderly, FinishedAfter

LEMMA OrderInductive == TypeInv /\ OrderInv /\ [Next]_vars => OrderInv'
<1>. SUFFICES ASSUME TypeInv, OrderInv, [Next]_vars PROVE OrderInv'
  OBVIOUS
<1>. /\ pc \in [Proc -> Stage] /\ copy \in [Proc -> Memory \cup {NoCopy}]
     /\ CopiesSound
  BY DEF TypeInv, TypeOK, ProcessTypeOK, MemoryTypeOK
<1>. USE DEF Goto
<1>1. ASSUME NEW m, Orderly(m), logged \subseteq logged' PROVE Orderly(m)'
  BY <1>1, OrderlyStays
<1>2. ASSUME NEW p \in Proc, ReadForBatch(p) PROVE OrderInv'
  <2>1. PICK new : copy' = [copy EXCEPT ![p] = [memory EXCEPT !.ids = new]]
    BY <1>2 DEF ReadForBatch
  <2>2. copy'[p].outcome = memory.outcome /\ copy'[p].ledger = memory.ledger
    BY <2>1 DEF CopiesSound, Sound, Memory
  <2>3. memory' = memory /\ logged' = logged /\ \A q \in Proc \ {p} : pc'[q] = pc[q] /\ copy'[q] = copy[q]
    BY <1>2, <2>1 DEF ReadForBatch
  <2>4. ASSUME NEW c, c = copy'[p] PROVE Orderly(c)'
    <3>1. c.outcome = memory.outcome /\ c.ledger = memory.ledger
      BY <2>2, <2>4
    <3>. QED BY <2>3, <3>1, OrderlyStays DEF OrderInv
  <2>. QED BY <1>1, <2>3, <2>4 DEF OrderInv
<1>3. ASSUME NEW p \in Proc, WriteBatch(p) \/ ReplaceMemory(p) PROVE OrderInv'
  <2>1. /\ Orderly(copy[p]) /\ memory' = copy[p] /\ logged' = logged /\ pc'[p] \notin Editing
        /\ \A q \in Proc \ {p} : pc'[q] = pc[q] /\ copy'[q] = copy[q]
    BY <1>3 DEF WriteBatch, ReplaceMemory, Editing, OrderInv
  <2>. QED BY <1>1, <2>1 DEF OrderInv
<1>4. ASSUME NEW p \in Proc, ReadMemory(p) PROVE OrderInv'
  <2>1. /\ memory' = memory /\ logged' = logged
        /\ pc'[p] \in Editing => copy'[p] = memory
        /\ \A q \in Proc \ {p} : pc'[q] = pc[q] /\ copy'[q] = copy[q]
    BY <1>4 DEF ReadMemory, Editing
  <2>. QED BY <1>1, <2>1 DEF OrderInv
<1>5. ASSUME NEW p \in Proc, WriteRecord(p) PROVE OrderInv'
  <2>. DEFINE s == Min(ToArchive(copy[p]))
              edited == Archived(copy[p], s)
  <2>1. s \in ToArchive(copy[p])
    <3>1. ToArchive(copy[p]) # {} /\ ToArchive(copy[p]) \subseteq Nat
      <4>1. pc[p] = "file"
        BY <1>5 DEF WriteRecord
      <4>. QED BY <4>1, OnlySessions DEF CopiesSound
    <3>. QED BY <3>1, MinInSet
  <2>2. Sound(copy[p]) /\ Orderly(copy[p])
    BY <1>5 DEF WriteRecord, CopiesSound, OrderInv, Editing
  <2>3. /\ copy' = [copy EXCEPT ![p] = edited] /\ logged' = logged
        /\ memory' = memory /\ \A q \in Proc \ {p} : pc'[q] = pc[q]
    BY <1>5 DEF WriteRecord
  <2>4. Orderly(edited)
    BY <2>1, <2>2, ArchivedOrderly
  <2>. HIDE DEF s, edited
  <2>5. copy'[p] = edited /\ \A q \in Proc \ {p} : copy'[q] = copy[q]
    BY <2>3
  <2>. QED BY <1>1, <2>3, <2>4, <2>5 DEF OrderInv
<1>6. ASSUME NEW p \in Proc, NEW t \in Session, LogSession(p, t), SameCopies PROVE OrderInv'
  <2>1. /\ t \notin logged /\ logged' = logged \cup {t}
        /\ memory'.outcome = [memory.outcome EXCEPT ![t] = "open"]
        /\ memory'.ledger = memory.ledger \cup {t}
        /\ memory.outcome \in [Session -> Outcome]
    BY <1>6 DEF LogSession, CopiesSound, Sound, Memory
  <2>2. memory.outcome[t] = "none"
    BY <2>1 DEF OrderInv, Orderly
  <2>3. \A r \in Session : r # t => memory'.outcome[r] = memory.outcome[r]
    BY <2>1
  <2>4. \A s : FinishedAfter(memory', s) = FinishedAfter(memory, s)
    BY <2>1, <2>2, <2>3 DEF FinishedAfter
  <2>5. Orderly(memory)'
    <3>1. ASSUME NEW s \in Session
          PROVE  /\ memory'.outcome[s] # "none" => s \in logged'
                 /\ memory'.outcome[s] = "archived" => Keep <= Cardinality(FinishedAfter(memory', s))
                 /\ memory'.outcome[s] \notin {"none", "archived"} => s \in memory'.ledger
      <4>1. CASE s = t
        BY <2>1, <4>1
      <4>2. CASE s # t
        BY <2>1, <2>3, <2>4, <4>2 DEF OrderInv, Orderly
      <4>. QED BY <4>1, <4>2
    <3>. QED BY <3>1 DEF Orderly, FinishedAfter
  <2>. QED BY <1>1, <1>6, <2>1, <2>5 DEF SameCopies, OrderInv
<1>7. ASSUME NEW t \in Session, CloseSession(t), SameCopies PROVE OrderInv'
  <2>1. /\ memory.outcome[t] = "open" /\ logged' = logged
        /\ memory'.outcome = [memory.outcome EXCEPT ![t] = "terminal"]
        /\ memory'.ledger = memory.ledger
        /\ memory.outcome \in [Session -> Outcome]
    BY <1>7 DEF CloseSession, CopiesSound, Sound, Memory
  <2>2. memory'.outcome[t] = "terminal" /\ \A r \in Session : r # t => memory'.outcome[r] = memory.outcome[r]
    BY <2>1
  <2>3. \A r \in Session : memory.outcome[r] \in {"terminal", "archived"} =>
                             memory'.outcome[r] \in {"terminal", "archived"}
    BY <2>2
  <2>4. ASSUME NEW s \in Session
        PROVE  /\ memory'.outcome[s] # "none" => s \in logged'
               /\ memory'.outcome[s] = "archived" => Keep <= Cardinality(FinishedAfter(memory', s))
               /\ memory'.outcome[s] \notin {"none", "archived"} => s \in memory'.ledger
    <3>1. memory'.outcome[s] = "archived" => Keep <= Cardinality(FinishedAfter(memory, s))
      BY <2>2 DEF OrderInv, Orderly
    <3>2. /\ Cardinality(FinishedAfter(memory, s)) \in Nat /\ Cardinality(FinishedAfter(memory', s)) \in Nat
          /\ Cardinality(FinishedAfter(memory, s)) <= Cardinality(FinishedAfter(memory', s))
      BY <2>3, FollowMonotone
    <3>3. Keep \in Nat
      BY ArchiverAssumption
    <3>4. memory'.outcome[s] = "archived" => Keep <= Cardinality(FinishedAfter(memory', s))
      BY <3>1, <3>2, <3>3
    <3>. QED BY <2>1, <2>2, <3>4 DEF OrderInv, Orderly
  <2>5. Orderly(memory)'
    BY <2>4 DEF Orderly, FinishedAfter
  <2>. QED BY <1>1, <1>7, <2>1, <2>5 DEF SameCopies, OrderInv
<1>8. ASSUME UNCHANGED <<memory, logged>>, SameCopies PROVE OrderInv'
  BY <1>1, <1>8 DEF SameCopies, OrderInv
<1>9. CASE UNCHANGED vars
  BY <1>1, <1>9 DEF vars, processVars, memoryVars, OrderInv
<1>. QED
  BY <1>2, <1>3, <1>4, <1>5, <1>6, <1>7, <1>8, <1>9, MemoryMoves DEF MemoryStep

\* However many commands archive, register and log at once and are killed, and
\* whichever of their copies replaces memory.md last, it has the rows of its
\* last archive_keep_sessions finished sessions (archiver.py:81-90, 233-272).
THEOREM RecentKept == Spec => []RecentInLedger
<1>1. Init => OrderInv
  <2>. SUFFICES ASSUME Init PROVE OrderInv
    OBVIOUS
  <2>. QED BY DEF Init, ProcessInit, MemoryInit, OrderInv, Orderly, Editing
<1>2. OrderInv => RecentInLedger
  <2>. SUFFICES ASSUME OrderInv, NEW s \in Session, memory.outcome[s] # "none",
                       Cardinality(FinishedAfter(memory, s)) < Keep, s \notin memory.ledger
                PROVE  FALSE
    BY DEF RecentInLedger
  <2>1. Keep <= Cardinality(FinishedAfter(memory, s))
    BY DEF OrderInv, Orderly
  <2>2. Cardinality(FinishedAfter(memory, s)) \in Nat /\ Keep \in Nat
    BY FollowMonotone, ArchiverAssumption
  <2>. QED BY <2>1, <2>2
<1>. QED BY <1>1, <1>2, InitTypes, TypesInductive, OrderInductive, PTL DEF Spec
-----------------------------------------------------------------------------
(* Task ids.                                                               *)

\* Two tasks of ids have one id only if it is in X.
SharedIn(ids, X) == \A i, j \in DOMAIN ids : i # j /\ ids[i] = ids[j] => ids[i] \in X

\* Ids the registry may give to two tasks.
Exceptions(c) == {id \in TaskId : ~Ordinary(id)} \cup c

\* An accepted batch gets ids of its own, with these exceptions.
LEMMA UniqueAppend ==
  ASSUME NEW ids \in Seq(TaskId), Bounded(ids), NEW c, SharedIn(ids, Exceptions(c)),
         NEW batch \in Seq(Item), Accepted(ids, batch)
  PROVE  SharedIn(ids \o Ids(ids, batch), Exceptions(c \cup Clashes(ids, batch)))
<1>. DEFINE new == Ids(ids, batch)
            h == Highest(ids)
            given(i) == batch[i].id # NoId
            X == Exceptions(c \cup Clashes(ids, batch))
<1>1. /\ h \in Nat /\ \A i \in 1 .. Len(ids) : ReadBack(ids[i]) <= h
      /\ new \in Seq(TaskId) /\ Len(new) = Len(batch) /\ DOMAIN batch = 1 .. Len(new)
  BY IdsSound, HighestBound
<1>2. \A i \in 1 .. Len(new) : ~given(i) => new[i] = Numbered(h + i)
  BY <1>1 DEF Ids
<1>3. \A i \in 1 .. Len(new) : given(i) => new[i] = batch[i].id /\ batch[i].id \notin Known(ids)
  BY <1>1 DEF Ids, Accepted, Repeats
<1>4. \A i, j \in 1 .. Len(new) : i < j /\ given(j) => new[i] # new[j]
  <2>. SUFFICES ASSUME NEW i \in 1 .. Len(new), NEW j \in 1 .. Len(new), i < j, given(j)
                PROVE  new[i] # new[j]
    OBVIOUS
  <2>1. i \in 1 .. j - 1 /\ j \in DOMAIN batch
    BY <1>1
  <2>. QED BY <1>3, <2>1 DEF Accepted, Repeats
<1>5. \A i, j \in 1 .. Len(new) : i < j /\ new[i] = new[j] => new[j] \in X
  <2>. SUFFICES ASSUME NEW i \in 1 .. Len(new), NEW j \in 1 .. Len(new), i < j,
                       new[i] = new[j]
                PROVE  new[j] \in X
    OBVIOUS
  <2>1. ~given(j)
    BY <1>4
  <2>2. CASE given(i)
    <3>1. i \in 1 .. j - 1 /\ j \in DOMAIN batch /\ batch[i].id = new[j]
      BY <1>1, <1>3, <2>2
    <3>2. new[j] \in Clashes(ids, batch)
      BY <2>1, <3>1 DEF Clashes
    <3>. QED BY <3>2 DEF Exceptions
  <2>3. CASE ~given(i)
    <3>1. Numbered(h + i) = Numbered(h + j)
      BY <1>2, <2>1, <2>3
    <3>2. h + i = h + j
      BY <3>1 DEF Numbered
    <3>. HIDE DEF h, new
    <3>. QED BY <1>1, <3>2
  <2>. QED BY <2>2, <2>3
<1>6. \A i \in 1 .. Len(ids), j \in 1 .. Len(new) : ids[i] = new[j] => ids[i] \in X
  <2>. SUFFICES ASSUME NEW i \in 1 .. Len(ids), NEW j \in 1 .. Len(new),
                       ids[i] = new[j], Ordinary(ids[i])
                PROVE  FALSE
    BY DEF Exceptions
  <2>1. ids[i] = Numbered(ReadBack(ids[i]))
    BY DEF Ordinary
  <2>2. ids[i] \in Known(ids)
    <3>1. ids[i] \in Range(ids)
      BY DEF Range
    <3>. QED BY <2>1, <3>1 DEF Known
  <2>3. ~given(j)
    BY <1>3, <2>2
  <2>4. Numbered(ReadBack(ids[i])) = Numbered(h + j)
    BY <1>2, <2>1, <2>3
  <2>5. ReadBack(ids[i]) = h + j
    BY <2>4 DEF Numbered
  <2>6. ReadBack(ids[i]) <= h
    BY <1>1
  <2>. HIDE DEF h, new
  <2>. QED BY <1>1, <2>5, <2>6
<1>7. \A i, j \in 1 .. Len(ids) : i # j /\ ids[i] = ids[j] => ids[i] \in X
  BY DEF SharedIn, Exceptions
<1>. HIDE DEF new, h, given, X
<1>8. \A i, j \in 1 .. Len(ids) + Len(new) :
        i # j /\ (ids \o new)[i] = (ids \o new)[j] => (ids \o new)[i] \in X
  BY <1>1, <1>5, <1>6, <1>7, JoinedDistinct
<1>9. DOMAIN (ids \o new) = 1 .. Len(ids) + Len(new)
  BY <1>1, Appended
<1>. QED BY <1>8, <1>9 DEF SharedIn, new, X

\* With more exceptions no fewer ids may be shared.
LEMMA SharedMonotone ==
  ASSUME NEW ids, NEW c, NEW d, c \subseteq d, SharedIn(ids, Exceptions(c))
  PROVE  SharedIn(ids, Exceptions(d))
BY DEF SharedIn, Exceptions

UniqueInv ==
  /\ SharedIn(memory.ids, Exceptions(clashing))
  /\ \A p \in Proc : pc[p] \in Editing => SharedIn(copy[p].ids, Exceptions(clashing))

LEMMA UniqueInductive == TypeInv /\ UniqueInv /\ [Next]_vars => UniqueInv'
<1>. SUFFICES ASSUME TypeInv, UniqueInv, [Next]_vars PROVE UniqueInv'
  OBVIOUS
<1>. /\ pc \in [Proc -> Stage] /\ copy \in [Proc -> Memory \cup {NoCopy}]
     /\ CopiesSound
  BY DEF TypeInv, TypeOK, ProcessTypeOK, MemoryTypeOK
<1>0. ASSUME NEW ids, SharedIn(ids, Exceptions(clashing)), clashing \subseteq clashing'
      PROVE  SharedIn(ids, Exceptions(clashing'))
  BY <1>0, SharedMonotone
<1>00. ASSUME NEW ids PROVE SharedIn(ids, Exceptions(clashing))' <=>
                            SharedIn(ids', Exceptions(clashing'))
  BY DEF SharedIn, Exceptions, Ordinary, ReadBack, Numbered
<1>. USE DEF Goto
<1>1. ASSUME NEW p \in Proc, ReadForBatch(p) PROVE UniqueInv'
  <2>1. PICK batch \in world.batches :
          /\ Accepted(memory.ids, batch)
          /\ copy' = [copy EXCEPT ![p] = [memory EXCEPT !.ids = @ \o Ids(@, batch)]]
          /\ clashing' = clashing \cup Clashes(memory.ids, batch)
    BY <1>1 DEF ReadForBatch
  <2>2. batch \in Seq(Item) /\ memory.ids \in Seq(TaskId) /\ Bounded(memory.ids)
    BY ArchiverAssumption DEF TypeInv, TypeOK, ProcessTypeOK, CopiesSound, Sound, Memory
  <2>3. copy'[p].ids = memory.ids \o Ids(memory.ids, batch)
    BY <2>1 DEF CopiesSound, Sound, Memory
  <2>4. SharedIn(copy'[p].ids, Exceptions(clashing'))
    BY <2>1, <2>2, <2>3, UniqueAppend DEF UniqueInv
  <2>5. /\ memory' = memory
        /\ \A q \in Proc \ {p} : copy'[q] = copy[q] /\ pc'[q] = pc[q]
    BY <1>1, <2>1 DEF ReadForBatch
  <2>. QED BY <2>1, <2>4, <2>5, <1>0 DEF UniqueInv
<1>2. ASSUME NEW p \in Proc, WriteBatch(p) \/ ReplaceMemory(p) PROVE UniqueInv'
  BY <1>2 DEF WriteBatch, ReplaceMemory, Editing, UniqueInv
<1>3. ASSUME NEW p \in Proc, ReadMemory(p) PROVE UniqueInv'
  BY <1>3 DEF ReadMemory, Editing, UniqueInv
<1>4. ASSUME NEW p \in Proc, WriteRecord(p) PROVE UniqueInv'
  <2>1. PICK s : copy' = [copy EXCEPT ![p] = Archived(copy[p], s)]
    BY <1>4 DEF WriteRecord
  <2>2. copy'[p].ids = copy[p].ids
    BY <1>4, <2>1 DEF WriteRecord, CopiesSound, Sound, Memory, Editing, Archived
  <2>3. \A q \in Proc \ {p} : pc'[q] = pc[q] /\ copy'[q] = copy[q]
    BY <1>4, <2>1 DEF WriteRecord
  <2>. QED BY <1>4, <2>2, <2>3 DEF WriteRecord, Editing, UniqueInv
<1>5. ASSUME NEW t \in Session, (\E p \in Proc : LogSession(p, t)) \/ CloseSession(t), SameCopies
      PROVE  UniqueInv'
  <2>1. memory'.ids = memory.ids /\ clashing' = clashing
    BY <1>5 DEF LogSession, CloseSession, CopiesSound, Sound, Memory
  <2>. QED BY <1>5, <2>1 DEF SameCopies, UniqueInv
<1>6. ASSUME UNCHANGED <<memory, clashing>>, SameCopies PROVE UniqueInv'
  BY <1>6 DEF SameCopies, UniqueInv
<1>7. CASE UNCHANGED vars
  BY <1>7 DEF vars, processVars, memoryVars, UniqueInv
<1>. QED
  BY <1>1, <1>2, <1>3, <1>4, <1>5, <1>6, <1>7, MemoryMoves DEF MemoryStep

\* Two tasks share an id only if one batch chose it and numbered a later item
\* with it, or the id is read back as another one, however many commands
\* register at once and whichever copy of memory.md they put back.
THEOREM IdsStayUnique == Spec => []OrdinaryIdsUnique
<1>1. Init => UniqueInv
  <2>. SUFFICES ASSUME Init PROVE UniqueInv
    OBVIOUS
  <2>. QED BY DEF Init, ProcessInit, MemoryInit, UniqueInv, SharedIn, Editing
<1>2. UniqueInv => OrdinaryIdsUnique
  BY DEF UniqueInv, OrdinaryIdsUnique, SharedIn, Exceptions
<1>. QED BY <1>1, <1>2, InitTypes, TypesInductive, UniqueInductive, PTL DEF Spec
-----------------------------------------------------------------------------
(* Containers and shadow trees.                                            *)

\* A worker and its thread work only while its process waits for them or winds
\* down without them.
Awaiting == {"wave", "archive", "file", "replace", "close"}

JobsAwaited ==
  \A p \in Proc :
    /\ job[p] # "none" \/ at[p] # "none" => pc[p] \in Awaiting
    /\ pc[p] = "wave" /\ job[p] # "none" => at[p] # "none"

\* What exists will be cleaned up by a command that has not come to it yet.
Covered ==
  /\ container # {} /\ ~killed => \E p \in Proc : Alive(p) /\ pc[p] # "sweep"
  /\ DOMAIN tree # {} /\ ~killed => \E p \in Proc : Alive(p)

LeakInv == JobsAwaited /\ Covered

LEMMA LeakInductive == TypeInv /\ LeakInv /\ [Next]_vars => LeakInv'
<1>. SUFFICES ASSUME TypeInv, LeakInv, [Next]_vars PROVE LeakInv'
  OBVIOUS
<1>. /\ pc \in [Proc -> Stage] /\ job \in [Proc -> Jobs] /\ killed \in BOOLEAN
     /\ at \in [Proc -> Place]
     /\ DOMAIN tree \subseteq Id
  BY DEF TypeInv, TypeOK, ProcessTypeOK, SandboxTypeOK
<1>. USE DEF LeakInv, JobsAwaited, Covered, Alive, Goto, processVars, sandboxVars
<1>1. ASSUME NEW p \in Proc, ThreadStep(p) PROVE LeakInv'
  <2>1. job[p] # "none" /\ UNCHANGED processVars
    BY <1>1 DEF ThreadStep, FindWarm, FindCold, Purge, AddTree, RunContainer,
         RunFails, RemoveContainer, RemoveTree, Job
  <2>2. pc[p] \in Awaiting /\ pc' = pc /\ killed' = killed
    BY <2>1
  <2>3. at' = at /\ \A q \in Proc \ {p} : job'[q] = job[q]
    BY <1>1 DEF ThreadStep, FindWarm, FindCold, Purge, AddTree, RunContainer,
         RunFails, RemoveContainer, RemoveTree, Job
  <2>4. pc[p] = "wave" => at[p] # "none"
    BY <2>1
  <2>5. JobsAwaited'
    BY <2>2, <2>3, <2>4
  <2>6. Covered'
    BY <2>2 DEF Awaiting
  <2>. QED BY <2>5, <2>6
<1>2. ASSUME NEW p \in Proc, SandboxStep(p), ~ThreadStep(p) PROVE LeakInv'
  <2>1. CASE StageDraft(p)
    <3>1. DOMAIN tree' = DOMAIN tree
      BY <2>1 DEF StageDraft
    <3>. QED BY <2>1, <3>1 DEF StageDraft
  <2>2. CASE CleanContainers(p)
    BY <2>2 DEF CleanContainers, Awaiting
  <2>3. CASE SweepTrees(p)
    <3>1. DOMAIN tree' = {}
      BY <2>3 DEF SweepTrees, TreeWithout
    <3>2. \A q \in Proc : Alive(q) /\ pc[q] # "sweep" => q # p /\ pc'[q] = pc[q]
      BY <2>3 DEF SweepTrees
    <3>. QED BY <2>3, <3>1, <3>2 DEF SweepTrees, Awaiting
  <2>4. CASE TakeTask(p) \/ TaskEnds(p) \/ EndWorker(p) \/ WorkerDone(p)
    <3>1. at[p] # "none" /\ pc' = pc /\ UNCHANGED <<container, tree, killed>>
      BY <2>4 DEF TakeTask, TaskEnds, EndWorker, WorkerDone, Move
    <3>2. \A q \in Proc \ {p} : job'[q] = job[q] /\ at'[q] = at[q]
      BY <2>4 DEF TakeTask, TaskEnds, EndWorker, WorkerDone, Move
    <3>3. job'[p] # "none" => at'[p] # "none"
      BY <2>4 DEF TakeTask, TaskEnds, EndWorker, WorkerDone, Move, Place
    <3>4. JobsAwaited'
      BY <3>1, <3>2, <3>3
    <3>5. Covered'
      BY <3>1
    <3>. QED BY <3>4, <3>5
  <2>5. CASE StartWave(p) \/ LoopCloses(p)
    <3>1. CASE StartWave(p)
      BY <3>1 DEF StartWave, Awaiting
    <3>2. CASE LoopCloses(p)
      BY <3>2 DEF LoopCloses, Awaiting
    <3>. QED BY <2>5, <3>1, <3>2
  <2>6. CASE EndWave(p) \/ Interrupt(p)
    <3>1. CASE EndWave(p)
      BY <3>1 DEF EndWave, Awaiting
    <3>2. CASE Interrupt(p)
      BY <3>2 DEF Interrupt, Awaiting
    <3>. QED BY <2>6, <3>1, <3>2
  <2>7. CASE StopWave(p) \/ CancelLeft(p)
    BY <2>7 DEF StopWave, CancelLeft, Cancelled, Awaiting
  <2>. QED
    BY <1>2, <2>1, <2>2, <2>3, <2>4, <2>5, <2>6, <2>7 DEF SandboxStep, WorkerStep
<1>3. ASSUME NEW p \in Proc, ClaimTask(p) PROVE LeakInv'
  BY <1>3 DEF ClaimTask, EnterTask, Move, Awaiting
<1>4. ASSUME NEW p \in Proc, KillCommand(p) PROVE LeakInv'
  BY <1>4 DEF KillCommand, Kill, SandboxLost
<1>5. ASSUME NEW p \in Proc, StartCommand(p) PROVE LeakInv'
  BY <1>5 DEF StartCommand, Start, Awaiting
<1>6. ASSUME NEW p \in Proc, UNCHANGED sandboxVars,
             EndBody(p) \/ BreakerStep(p) \/ MemoryStep(p)
      PROVE  LeakInv'
  <2>1. CASE EndBody(p)
    BY <1>6, <2>1 DEF EndBody, Awaiting
  <2>2. CASE BreakerStep(p)
    BY <1>6, <2>2 DEF BreakerStep, SkipServer, TryServer, HalfOpen, ConnectSucceeds,
      ConnectFails, RecordFailure, Awaiting
  <2>3. CASE MemoryStep(p)
    BY <1>6, <2>3 DEF MemoryStep, ReadForBatch, WriteBatch, ReadMemory, WriteRecord,
      ReplaceMemory, Awaiting
  <2>. QED BY <1>6, <2>1, <2>2, <2>3
<1>7. CASE UNCHANGED <<processVars, sandboxVars>>
  BY <1>7
<1>. QED
  BY <1>1, <1>2, <1>3, <1>4, <1>5, <1>6, <1>7
  DEF Next, Step, vars, CloseSession, WindowPasses

\* Once no command runs, neither a container nor a shadow tree is left, unless
\* a command was killed after the last cleanup began.
THEOREM NothingLeaks == Spec => []NoLeaks
<1>1. Init => LeakInv
  BY DEF Init, ProcessInit, SandboxInit, LeakInv, JobsAwaited, Covered
<1>2. LeakInv => NoLeaks
  BY DEF LeakInv, Covered, NoLeaks
<1>. QED BY <1>1, <1>2, InitTypes, TypesInductive, LeakInductive, PTL DEF Spec
=============================================================================

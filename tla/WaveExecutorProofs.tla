------------------------- MODULE WaveExecutorProofs -------------------------
(* Proofs about WaveExecutor, for any tasks, workers and dependencies.      *)
EXTENDS WaveExecutor, FiniteSetTheorems, TLAPS

(* Types.                                                                  *)

\* A job is a record, and one that replaces the registry has all tasks.
IsJob(j) ==
  /\ j = [kind |-> j.kind, ran |-> j.ran, rows |-> j.rows, log |-> j.log]
  /\ j.kind \in {"batch", "handoff"} => DOMAIN j.rows = Task

\* Coroutines have a place to stand at.
Standing == pc = [c \in Coro |-> pc[c]]

TypeInv == TypeOK /\ Standing /\ IsJob(job) /\ \A j \in orphans : IsJob(j)

\* Goto moves one coroutine and leaves the others where they are.
LEMMA Moves ==
  ASSUME Standing, NEW c \in Coro, NEW l, Goto(c, l)
  PROVE  /\ Standing'
         /\ pc'[c] = l
         /\ \A d \in Coro : d # c => pc'[d] = pc[d]
  BY DEF Standing, Goto

\* The queue never grows past the tasks.
LEMMA QueueType ==
  /\ <<>> \in BoundedSeq(Task, Cardinality(Task))
  /\ \A s \in BoundedSeq(Task, Cardinality(Task)) :
       s # <<>> => Head(s) \in Task /\ Tail(s) \in BoundedSeq(Task, Cardinality(Task))
  /\ \A S \in SUBSET Task : SetToSeqs(S) \subseteq BoundedSeq(Task, Cardinality(Task))
<1>1. Cardinality(Task) \in Nat /\ \A S \in SUBSET Task :
        Cardinality(S) \in Nat /\ Cardinality(S) <= Cardinality(Task)
  BY ExecutorAssumption, FS_Subset, FS_CardinalityType
<1>. DEFINE n == Cardinality(Task)
<1>2. \A s : s \in BoundedSeq(Task, n) <=> \E m \in 0 .. n : s \in [1 .. m -> Task]
  BY DEF BoundedSeq, SeqOf
<1>3. <<>> \in [1 .. 0 -> Task]
  OBVIOUS
<1>4. ASSUME NEW s \in BoundedSeq(Task, n), s # <<>>
      PROVE  Head(s) \in Task /\ Tail(s) \in BoundedSeq(Task, n)
  <2>1. PICK m \in 0 .. n : s \in [1 .. m -> Task]
    BY <1>2
  <2>2. s \in Seq(Task) /\ Len(s) = m
    BY <1>1, <2>1
  <2>3. /\ Head(s) \in Task /\ Tail(s) \in Seq(Task)
        /\ Len(Tail(s)) = m - 1 /\ m - 1 \in 0 .. n
    BY <1>1, <1>4, <2>2
  <2>4. \A q \in Seq(Task) : q \in [1 .. Len(q) -> Task]
    OBVIOUS
  <2>. QED BY <1>2, <2>3, <2>4
<1>5. ASSUME NEW S \in SUBSET Task, NEW s \in SetToSeqs(S)
      PROVE  s \in BoundedSeq(Task, n)
  BY <1>1, <1>2 DEF SetToSeqs
<1>. HIDE DEF n
<1>6. 0 \in 0 .. n
  BY <1>1 DEF n
<1>. QED BY <1>2, <1>3, <1>4, <1>5, <1>6 DEF n

\* The places where a worker may learn that its thread failed, and those where
\* it goes on.
Breaking == {"session", "save", "saveover", "mark", "handoff", "saveerror", "cleanup",
             "raising", "breaking", "unwinding"}

LEMMA FailurePlaces ==
  /\ DOMAIN OnFailure = Breaking
  /\ OnFailure["session"] = "run"
  /\ \A l \in {"save", "saveover", "mark", "handoff"} : OnFailure[l] = "failing"
  /\ OnFailure["saveerror"] = "breaking"
  /\ \A l \in {"cleanup", "raising", "breaking"} : OnFailure[l] = "broken"
  /\ OnFailure["unwinding"] = "cancelled"
  BY DEF OnFailure, Breaking

\* What a failing thread does to its coroutine.
LEMMA BreakMoves ==
  ASSUME NEW c \in Coro, JobBreaks(c)
  PROVE  /\ \E l \in Breaking :
               pc[c] = l /\ cancelled = {} /\ Goto(c, IF c = Main THEN "end" ELSE OnFailure[l])
         /\ lock = c /\ R!JobFails
         /\ UNCHANGED <<foreign, orphans, doing, cancelled, queue, wave, spent, shutFlag>>
         /\ shutLock' \in {shutLock, NoOne} /\ toMark' \in {toMark, {}}
  BY FailurePlaces DEF JobBreaks, At, waveVars

\* A step of c that changes pc by Goto or not at all, and of the registry what
\* keeps its tasks.
RegistryKept == DOMAIN rows' = DOMAIN rows /\ IsJob(job)'

LEMMA RegistryTypes ==
  ASSUME TypeInv, NEW c \in Coro
  PROVE  /\ \A t, s, o : Mark(c, t, s, o) => RegistryKept
         /\ R!FlushClean(c) \/ R!FlushBegin(c) \/ R!FlushEnd(c) => RegistryKept
         /\ \A e : R!SessionBegin(c, e) \/ R!SessionEnd(c) => RegistryKept
         /\ R!HandoffBegin(c) \/ R!HandoffEnd(c) => RegistryKept
         /\ R!RunJob => RegistryKept
         /\ R!JobFails => RegistryKept
<1>. USE DEF TypeInv, TypeOK, RegistryKept, IsJob
<1>0. IsJob(R!NoJob)
  BY DEF R!NoJob
<1>1. ASSUME NEW t, NEW s, NEW o, Mark(c, t, s, o) PROVE RegistryKept
  BY <1>1 DEF Mark, R!UpdateTask, R!CacheUpdate, R!fileVars
<1>2. R!FlushClean(c) \/ R!FlushBegin(c) \/ R!FlushEnd(c) => RegistryKept
  BY <1>0 DEF R!FlushClean, R!FlushBegin, R!FlushEnd, R!vars, R!fileVars, R!Start, R!Finish
<1>3. ASSUME NEW e, R!SessionBegin(c, e) \/ R!SessionEnd(c) PROVE RegistryKept
  BY <1>0, <1>3 DEF R!SessionBegin, R!SessionEnd, R!fileVars, R!Start, R!Finish
<1>4. R!HandoffBegin(c) \/ R!HandoffEnd(c) => RegistryKept
  BY <1>0 DEF R!HandoffBegin, R!HandoffEnd, R!fileVars, R!Start, R!Finish
<1>5. R!RunJob => RegistryKept
  BY DEF R!RunJob, R!JobEffect, R!Merge
<1>6. R!JobFails => RegistryKept
  BY <1>0 DEF R!JobFails, R!Finish, R!fileVars
<1>. QED BY <1>1, <1>2, <1>3, <1>4, <1>5, <1>6

\* The types hold at the start.
LEMMA InitTypes == Init => TypeInv
<1>. SUFFICES ASSUME Init PROVE TypeInv
  OBVIOUS
<1>1. Main \in Coro /\ \A w \in Worker : w # Main
  BY ExecutorAssumption DEF Coro
<1>2. IsJob(job) /\ DOMAIN rows = Task /\ orphans = {} /\ foreign \subseteq Task
  BY DEF Init, R!Init, R!NoJob, IsJob
<1>3. /\ Standing /\ DOMAIN pc = Coro
      /\ pc[Main] \in CommandAwait /\ \A w \in Worker : pc[w] \in WorkerAwait
  BY <1>1 DEF Init, Standing, CommandAwait, WorkerAwait, Coro
<1>4. doing \in [Coro -> Task \cup {NoOne}] /\ cancelled \subseteq Worker
  BY DEF Init
<1>5. queue \in BoundedSeq(Task, Cardinality(Task)) /\ wave \subseteq Task /\ toMark \subseteq Task
  BY QueueType DEF Init
<1>6. spent \in BOOLEAN /\ shutFlag \in BOOLEAN /\ shutLock \in Coro \cup {NoOne}
  BY DEF Init
<1>. QED BY <1>2, <1>3, <1>4, <1>5, <1>6 DEF TypeInv, TypeOK

\* Every step keeps the types.
LEMMA TypesInductive == TypeInv /\ [Next]_vars => TypeInv'
<1>. SUFFICES ASSUME TypeInv, [Next]_vars PROVE TypeInv'
  OBVIOUS
<1>. USE DEF TypeInv, TypeOK
<1>. Standing /\ Main \in Coro /\ Worker \subseteq Coro /\ Main \notin Worker /\ Coro = Worker \cup {Main}
  BY ExecutorAssumption DEF Coro
<1>0. UNCHANGED registryVars => RegistryKept
  BY DEF RegistryKept, registryVars
<1>1. ASSUME NEW c \in Coro, NEW l, Goto(c, l),
             IF c = Main THEN l \in CommandAwait ELSE l \in WorkerAwait
      PROVE  /\ Standing' /\ DOMAIN pc' = Coro
             /\ pc'[Main] \in CommandAwait /\ \A w \in Worker : pc'[w] \in WorkerAwait
  <2>1. Standing' /\ pc'[c] = l /\ \A d \in Coro : d # c => pc'[d] = pc[d]
    BY ONLY <1>1, Moves, TypeInv DEF TypeInv
  <2>2. DOMAIN pc' = Coro
    BY ONLY <2>1 DEF Standing
  <2>3. \A w \in Worker : pc'[w] \in WorkerAwait
    BY <1>1, <2>1
  <2>4. pc'[Main] \in CommandAwait
    BY <1>1, <2>1
  <2>. QED BY <2>1, <2>2, <2>3, <2>4
<1>2. ASSUME NEW w \in Worker, TakeNext(w), RegistryKept, UNCHANGED <<foreign, orphans>> PROVE TypeInv'
  <2>. DEFINE B == BoundedSeq(Task, Cardinality(Task))
  <2>0. <<>> \in B /\ (queue # <<>> => Head(queue) \in Task /\ Tail(queue) \in B)
    BY QueueType
  <2>. HIDE DEF B
  <2>1. /\ \E t \in Task \cup {NoOne} : doing' = [doing EXCEPT ![w] = t]
        /\ queue' \in B
    BY <1>2, <2>0 DEF TakeNext, B
  <2>3. doing' \in [Coro -> Task \cup {NoOne}]
    BY <2>1
  <2>2. \E l \in {"ended", "raised", "claim"} : Goto(w, l)
    BY <1>2 DEF TakeNext
  <2>. QED BY <1>1, <1>2, <2>1, <2>2, <2>3 DEF TakeNext, RegistryKept, WorkerAwait, shutVars, B
<1>. DEFINE Kept == UNCHANGED <<orphans, doing, cancelled, waveVars, shutVars>>
<1>3. ASSUME RegistryKept, foreign' \subseteq Task, Kept, UNCHANGED pc PROVE TypeInv'
  BY <1>3 DEF RegistryKept, waveVars, shutVars, Standing
<1>4. ASSUME NEW w \in Worker, NEW l \in WorkerAwait, Goto(w, l), RegistryKept,
             foreign' \subseteq Task, Kept PROVE TypeInv'
  BY <1>1, <1>4 DEF RegistryKept, waveVars, shutVars
<1>. HIDE DEF Kept
<1>5. CASE PlanWave
  <2>1. FirstWave \subseteq Task /\ queue' \in BoundedSeq(Task, Cardinality(Task))
    BY <1>5, QueueType DEF PlanWave, FirstWave, Waiting, StatusOf
  <2>2. /\ Standing' /\ DOMAIN pc' = Coro
        /\ pc'[Main] \in CommandAwait /\ \A w \in Worker : pc'[w] \in WorkerAwait
    BY <1>5 DEF PlanWave, Standing, CommandAwait, WorkerAwait
  <2>. QED BY <1>0, <1>5, <2>1, <2>2 DEF PlanWave, RegistryKept, shutVars
<1>6. CASE PlanEnds \/ WaveDone \/ WaveRaised \/ LoopCloses
  <2>1. \E l \in CommandAwait : Goto(Main, l)
    BY <1>6 DEF PlanEnds, WaveDone, WaveRaised, LoopCloses, CommandAwait, ShutdownAwait
  <2>2. cancelled' \subseteq Worker
    BY <1>6 DEF PlanEnds, WaveDone, WaveRaised, LoopCloses
  <2>. QED
    BY <1>0, <1>1, <1>6, <2>1, <2>2
    DEF PlanEnds, WaveDone, WaveRaised, LoopCloses, RegistryKept, waveVars, shutVars
<1>7. ASSUME NEW c \in Coro, Shutdown(c) PROVE TypeInv'
  <2>. DEFINE Moved == \/ UNCHANGED pc
                       \/ \E l \in ShutdownAwait \cup {IF c = Main THEN "end" ELSE "raising"} : Goto(c, l)
  <2>1. ASSUME Moved
        PROVE  /\ Standing' /\ DOMAIN pc' = Coro
               /\ pc'[Main] \in CommandAwait /\ \A w \in Worker : pc'[w] \in WorkerAwait
    BY <1>1, <2>1 DEF CommandAwait, WorkerAwait, Standing
  <2>2. AfterShutdown(c) => Moved /\ queue' \in {queue, <<>>}
    BY DEF AfterShutdown
  <2>3. Goto(c, "look") \/ Goto(c, "mark") \/ Goto(c, "handoff") => Moved
    BY DEF ShutdownAwait
  <2>. HIDE DEF Moved
  <2>4. CASE EnterShutdown(c)
    BY <1>0, <2>1, <2>2, <2>3, <2>4, QueueType DEF EnterShutdown, RegistryKept
  <2>5. CASE LookForInProgress(c)
    BY <1>0, <2>1, <2>3, <2>5 DEF LookForInProgress, RegistryKept, waveVars, StatusOf
  <2>6. CASE MarkInterrupted(c)
    BY <2>6, RegistryTypes DEF MarkInterrupted, RegistryKept, waveVars, coroVars, Standing
  <2>7. CASE FlushInterrupted(c)
    BY <2>1, <2>3, <2>7, RegistryTypes
    DEF FlushInterrupted, Flush, RegistryKept, waveVars, coroVars, shutVars, Standing
  <2>8. CASE Handoff(c)
    <3>1. UNCHANGED <<pc, queue>> => Moved
      BY DEF Moved
    <3>. QED
      BY <2>1, <2>2, <2>8, <3>1, RegistryTypes, QueueType DEF Handoff, RegistryKept
  <2>. QED BY <1>7, <2>4, <2>5, <2>6, <2>7, <2>8 DEF Shutdown
<1>7a. ASSUME NEW w \in Worker, NEW st, NEW o, MarkOwn(w, st, o)
       PROVE  RegistryKept /\ foreign' \subseteq Task
  BY <1>7a, RegistryTypes DEF MarkOwn
<1>8. ASSUME NEW w \in Worker,
             Claim(w) \/ Stage(w) \/ Finish(w) \/ Validate(w) \/ MarkError(w) \/ Overrun(w)
      PROVE  TypeInv'
  BY <1>3, <1>4, <1>7a, <1>8
  DEF Claim, Stage, Finish, Validate, MarkError, Overrun, Kept, coroVars, WorkerAwait
<1>8a. ASSUME NEW w \in Worker, StartWorker(w) \/ LogSession(w) \/ Fail(w)
       PROVE  TypeInv'
  BY <1>0, <1>2, <1>3, <1>4, <1>8a, RegistryTypes DEF StartWorker, LogSession, Fail, Kept, WorkerAwait
<1>8b. ASSUME NEW w \in Worker, ToolUpdate(w) PROVE TypeInv'
  <2>1. PICK t \in Task, st \in ToolStatus :
          /\ Mark(w, t, st, NoOwner)
          /\ foreign' = IF t = doing[w] THEN foreign \ {t} ELSE foreign \cup {t}
    BY <1>8b DEF ToolUpdate
  <2>. QED BY <1>3, <1>8b, <2>1, RegistryTypes DEF ToolUpdate, Kept, coroVars
<1>8c. ASSUME NEW c \in Coro, JobBreaks(c) PROVE TypeInv'
  <2>1. \E l : Goto(c, l) /\ IF c = Main THEN l \in CommandAwait ELSE l \in WorkerAwait
    BY <1>8c, BreakMoves, FailurePlaces DEF Breaking, CommandAwait, WorkerAwait
  <2>2. RegistryKept
    BY <1>8c, BreakMoves, RegistryTypes
  <2>. QED BY <1>1, <1>8c, <2>1, <2>2, BreakMoves DEF RegistryKept
<1>9. ASSUME NEW w \in Worker, Spend(w) PROVE TypeInv'
  BY <1>0, <1>9 DEF Spend, RegistryKept, coroVars, shutVars, Standing
<1>10. ASSUME NEW w \in Worker, Save(w) \/ Cleanup(w) \/ LastFlush(w) PROVE TypeInv'
  BY <1>2, <1>3, <1>4, <1>10, RegistryTypes
  DEF Save, Cleanup, LastFlush, Flush, Kept, coroVars, WorkerAwait, ShutdownAwait
<1>11. ASSUME NEW w \in Worker, Unwind(w) PROVE TypeInv'
  <2>1. \E l \in {"cancelled", "unwinding"} : Goto(w, l)
    BY <1>11 DEF Unwind
  <2>2. DOMAIN rows' = Task /\ IsJob(job)' /\ \A j \in orphans' : IsJob(j)
    BY <1>11 DEF Unwind, R!Finish, R!NoJob, IsJob
  <2>. QED BY <1>1, <1>11, <2>1, <2>2 DEF Unwind, WorkerAwait, waveVars
<1>12. CASE RunJob
  BY <1>3, <1>12, RegistryTypes, ExecutorAssumption DEF RunJob, Kept, coroVars
<1>13. CASE RunOrphan
  <2>1. PICK j \in orphans : /\ orphans' = orphans \ {j}
                             /\ UNCHANGED <<rows, log>> \/ R!JobEffect(j)
                             /\ UNCHANGED <<job, foreign, coroVars, waveVars, shutVars>>
    BY <1>13 DEF RunOrphan
  <2>2. DOMAIN rows' = Task
    BY <2>1 DEF R!JobEffect, R!Merge, IsJob
  <2>. QED BY <2>1, <2>2 DEF coroVars, waveVars, shutVars, Standing, IsJob
<1>14. CASE UNCHANGED vars
  BY <1>14 DEF vars, registryVars, coroVars, waveVars, shutVars, Standing, IsJob
<1>. QED
  BY <1>5, <1>6, <1>7, <1>8, <1>9, <1>10, <1>11, <1>12, <1>13, <1>14, <1>8a, <1>8b, <1>8c
  DEF Next, Command, Work

\* Every variable keeps its type: each coroutine stands at one of its awaits,
\* the queue has tasks and never more than there are, memory.md has all of them.
THEOREM TypeCorrect == Spec => []TypeOK
<1>1. TypeInv => TypeOK
  BY DEF TypeInv
<1>. QED BY <1>1, InitTypes, TypesInductive, PTL DEF Spec
-----------------------------------------------------------------------------
(* The queue.                                                              *)

DrainInv == Standing /\ DrainedBeforeRaise

\* Every step leaves the queue drained behind a worker that raises.
LEMMA DrainStep ==
  ASSUME DrainInv, [Next]_vars
  PROVE  DrainInv'
<1>. USE DEF DrainInv, DrainedBeforeRaise, At, Flush
<1>. Standing /\ Main \in Coro /\ Worker \subseteq Coro /\ Main \notin Worker
  BY ExecutorAssumption DEF Coro
<1>0. UNCHANGED <<pc, queue>> => DrainInv'
  BY DEF Standing
<1>1. CASE PlanWave
  BY <1>1 DEF PlanWave, Standing
<1>2. CASE PlanEnds \/ WaveDone \/ WaveRaised \/ LoopCloses
  BY <1>2, Moves DEF PlanEnds, WaveDone, WaveRaised, LoopCloses, waveVars
<1>3. ASSUME NEW c \in Coro, Shutdown(c) PROVE DrainInv'
  BY <1>0, <1>3, Moves
  DEF Shutdown, EnterShutdown, LookForInProgress, MarkInterrupted, FlushInterrupted, Handoff,
    AfterShutdown, waveVars, coroVars, Coro
<1>4. ASSUME NEW w \in Worker, TakeNext(w), pc[w] \notin {"raising", "raised"} PROVE DrainInv'
  BY <1>4, Moves DEF TakeNext
<1>5. ASSUME NEW w \in Worker,
             StartWorker(w) \/ Claim(w) \/ LogSession(w) \/ Stage(w) \/ ToolUpdate(w) \/ Spend(w)
               \/ Finish(w) \/ Validate(w) \/ Fail(w) \/ MarkError(w) \/ Overrun(w)
      PROVE  DrainInv'
  BY <1>0, <1>4, <1>5, Moves DEF StartWorker, Claim, LogSession, Stage, ToolUpdate, Spend, Finish, Validate,
    Fail, MarkError, Overrun, waveVars, coroVars
<1>5a. ASSUME NEW c \in Coro, JobBreaks(c) PROVE DrainInv'
  <2>1. \E l : Goto(c, l) /\ l \notin {"raising", "raised"}
    BY <1>5a, BreakMoves, FailurePlaces DEF Breaking
  <2>. QED BY <1>5a, <2>1, BreakMoves, Moves
<1>6. ASSUME NEW w \in Worker, Save(w) \/ Cleanup(w) \/ LastFlush(w) \/ Unwind(w)
      PROVE  DrainInv'
  BY <1>0, <1>4, <1>6, Moves DEF Save, Cleanup, LastFlush, Unwind, waveVars, coroVars
<1>7. CASE RunJob \/ RunOrphan \/ UNCHANGED vars
  BY <1>0, <1>7 DEF RunJob, RunOrphan, vars, waveVars, coroVars
<1>. QED BY <1>1, <1>2, <1>3, <1>5, <1>5a, <1>6, <1>7 DEF Next, Command, Work, Coro

\* The queue is empty before a worker's exception reaches the command: no
\* sibling takes another task, however many workers and tasks there are.
THEOREM DrainedFirst == Spec => []DrainedBeforeRaise
<1>1. Init => DrainInv
  BY ExecutorAssumption DEF Init, DrainInv, DrainedBeforeRaise, Standing
<1>2. DrainInv => DrainedBeforeRaise
  BY DEF DrainInv
<1>. QED BY <1>1, <1>2, DrainStep, PTL DEF Spec
-----------------------------------------------------------------------------
(* While no shutdown has begun: what the workers of a wave hold, what the   *)
(* cache and memory.md say of it, and what is left when the wave is over.   *)

\* The wave loop runs and nobody has begun a shutdown.
Calm == ~shutFlag /\ pc[Main] \in {"plan", "wave"}

Idle == \A w \in Worker : pc[w] \in {"unborn", "ended"}

\* Where a worker cannot stand before a shutdown or a cancellation.
Late == {"look", "mark", "handoff", "raising", "unwinding", "cancelled"}

\* The status the process sees in each row.
Seen == [t \in Task |-> R!View[t].status]

Settled == {"awaiting-review", "completed", "error"}

\* The cache and memory.md.
Registry ==
  /\ rows = [t \in Task |-> rows[t]]
  /\ loaded => cache = [t \in Task |-> cache[t]]
  /\ dirty => loaded
  /\ loaded /\ ~dirty => cache = rows
  /\ lock = NoOne <=> job.kind = "none"
  /\ job.kind \in {"none", "session", "flush"}
  /\ job.kind = "flush" => dirty /\ (job.ran => rows = cache)
  /\ loaded \in BOOLEAN /\ dirty \in BOOLEAN

\* The locks are with a worker that writes a session row or flushes.
Holder ==
  lock # NoOne =>
    /\ lock \in Worker
    /\ pc[lock] \in IF job.kind = "session" THEN {"session"}
                    ELSE {"save", "saveerror", "saveover", "cleanup", "breaking"}

\* Where a worker's task may say in_progress, where it is settled, and where
\* its row may be unwritten.
Running == {"session", "run", "failing"}

Saving == {"save", "saveerror", "cleanup"}

Unsaved == Running \cup Saving \cup {"saveover"}

Active == {"claim", "shut"} \cup Unsaved

\* A worker has left the wave by an exception, or is about to.
Lost == \E w \in Worker : pc[w] \in {"raised", "breaking", "broken"}

\* What the status of a worker's task is, and that no two workers and no place
\* of the queue share a task.
Hands ==
  \A w \in Worker :
    /\ pc[w] \in Saving /\ doing[w] \notin foreign => Seen[doing[w]] \in Settled
    /\ pc[w] \in Active =>
         /\ doing[w] \in wave
         /\ \A i \in 1 .. Len(queue) : queue[i] # doing[w]
         /\ \A v \in Worker : pc[v] \in Active /\ doing[v] = doing[w] => v = w

InLine ==
  /\ \A i \in 1 .. Len(queue) : queue[i] \in wave
  /\ \A i, j \in 1 .. Len(queue) : queue[i] = queue[j] => i = j

\* A task of the wave is waiting, in work, settled, or another's session has
\* said so.
InAccount(t) ==
  \/ \E i \in 1 .. Len(queue) : queue[i] = t
  \/ \E w \in Worker : pc[w] \in Active /\ doing[w] = t
  \/ Seen[t] \in Settled
  \/ t \in foreign

\* Nothing of the wave is forgotten, unless a worker is lost.
Accounted ==
  /\ Lost \/ \A t \in wave : InAccount(t)
  /\ \A t \in Task \ foreign : Seen[t] = "in_progress" =>
       \E w \in Worker : pc[w] \in Running /\ doing[w] = t
  /\ queue = <<>> \/ pc[Main] # "wave" \/ ~Idle
  /\ dirty => Lost \/ \E w \in Worker : pc[w] \in Unsaved

\* How the workers share the wave.
Share == Hands /\ InLine /\ Accounted

\* What holds before a shutdown: only the wave's own workers act.
Quiet ==
  /\ pc[Main] = "plan" => Idle
  /\ \A w \in Worker : pc[w] \notin Late
  /\ orphans = {} /\ cancelled = {}
  /\ Registry /\ Holder /\ Share

\* The inductive invariant.  A shutdown is never taken back and the command
\* never returns to its wave loop, so a calm state has a calm past.
CalmInv ==
  /\ pc[Main] = "plan" => Idle
  /\ pc[Main] \in {"plan", "wave"} => cancelled = {}
  /\ Calm => Quiet
-----------------------------------------------------------------------------
(* What the operations of the registry do to it.                           *)

\* The locks are free and stay free.
Untouched == UNCHANGED <<lock, job>> /\ lock = NoOne

\* The process's view of the registry has every task.
LEMMA Viewed ==
  ASSUME Registry, DOMAIN rows = Task
  PROVE  /\ R!View = IF loaded THEN cache ELSE rows
         /\ R!View = [t \in Task |-> R!View[t]]
  BY DEF Registry, R!View

\* update_task_registry_row changes one row of the view and leaves it unwritten.
LEMMA MarkMoves ==
  ASSUME TypeInv, Registry, NEW c, NEW t \in Task, NEW s, NEW o, Mark(c, t, s, o)
  PROVE  Registry' /\ Untouched /\ dirty' /\ Seen' = [Seen EXCEPT ![t] = s]
<1>. DEFINE u == [status |-> s, owner |-> o, checkpoint |-> NoCheckpoint]
<1>1. /\ loaded' = TRUE /\ dirty' = TRUE /\ cache' = [R!View EXCEPT ![t] = R!Updated(@, u)]
      /\ UNCHANGED <<rows, log, lock, job>> /\ lock = NoOne
  BY DEF Mark, R!UpdateTask, R!CacheUpdate, R!fileVars
<1>2. R!View = [x \in Task |-> R!View[x]] /\ R!View' = cache'
  BY <1>1, Viewed DEF TypeInv, TypeOK, R!View
<1>3. R!Updated(R!View[t], u).status = s
  BY DEF R!Updated
<1>4. \A x \in Task : cache'[x] = IF x = t THEN R!Updated(R!View[x], u) ELSE R!View[x]
  BY <1>1, <1>2
<1>5. Seen' = [Seen EXCEPT ![t] = s]
  BY <1>2, <1>3, <1>4 DEF Seen
<1>6. cache' = [x \in Task |-> cache'[x]]
  BY <1>1, <1>2
<1>7. Registry'
  BY <1>1, <1>6 DEF Registry
<1>. QED BY <1>1, <1>5, <1>7 DEF Untouched

\* A flush never changes the view, and ends with nothing unwritten.
LEMMA FlushMoves ==
  ASSUME TypeInv, Registry, NEW c \in Worker
  PROVE  /\ R!FlushClean(c) => Registry' /\ Untouched /\ ~dirty' /\ Seen' = Seen
         /\ R!FlushBegin(c) => /\ Registry' /\ UNCHANGED dirty /\ Seen' = Seen
                               /\ lock' = c /\ job'.kind = "flush"
         /\ R!FlushEnd(c) => Registry' /\ lock' = NoOne /\ ~dirty' /\ Seen' = Seen
<1>1. c # NoOne
  BY ExecutorAssumption DEF Coro
<1>2. ASSUME R!FlushClean(c) PROVE Registry' /\ Untouched /\ ~dirty' /\ Seen' = Seen
  BY <1>2 DEF R!FlushClean, R!vars, R!cacheVars, R!fileVars, Registry, Untouched, Seen, R!View
<1>3. ASSUME R!FlushBegin(c)
      PROVE  /\ Registry' /\ UNCHANGED dirty /\ Seen' = Seen
             /\ lock' = c /\ job'.kind = "flush"
  BY <1>1, <1>3 DEF R!FlushBegin, R!Start, R!cacheVars, R!fileVars, Registry, Seen, R!View
<1>4. ASSUME R!FlushEnd(c) PROVE Registry' /\ lock' = NoOne /\ ~dirty' /\ Seen' = Seen
  BY <1>4 DEF R!FlushEnd, R!Finish, R!NoJob, R!fileVars, Registry, Seen, R!View
<1>. QED BY <1>2, <1>3, <1>4

\* A Session Log row leaves the registry's rows alone.
LEMMA SessionMoves ==
  ASSUME Registry, NEW c \in Worker
  PROVE  /\ \A e : R!SessionBegin(c, e) =>
              /\ Registry' /\ UNCHANGED dirty /\ Seen' = Seen
              /\ lock' = c /\ job'.kind = "session"
         /\ R!SessionEnd(c) => Registry' /\ UNCHANGED dirty /\ Seen' = Seen /\ lock' = NoOne
<1>1. c # NoOne
  BY ExecutorAssumption DEF Coro
<1>2. ASSUME NEW e, R!SessionBegin(c, e)
      PROVE  /\ Registry' /\ UNCHANGED dirty /\ Seen' = Seen
             /\ lock' = c /\ job'.kind = "session"
  BY <1>1, <1>2 DEF R!SessionBegin, R!Start, R!cacheVars, R!fileVars, Registry, Seen, R!View
<1>3. ASSUME R!SessionEnd(c) PROVE Registry' /\ UNCHANGED dirty /\ Seen' = Seen /\ lock' = NoOne
  BY <1>3 DEF R!SessionEnd, R!Finish, R!NoJob, R!cacheVars, R!fileVars, Registry, Seen, R!View
<1>. QED BY <1>2, <1>3

\* A thread that fails leaves everything as it was, and the locks free.
LEMMA FailureMoves ==
  ASSUME Registry, R!JobFails
  PROVE  Registry' /\ UNCHANGED dirty /\ Seen' = Seen /\ lock' = NoOne
  BY DEF R!JobFails, R!Finish, R!NoJob, R!cacheVars, R!fileVars, Registry, Seen, R!View

\* What the worker thread writes is what the process already sees.
LEMMA JobMoves ==
  ASSUME TypeInv, Registry, R!RunJob
  PROVE  Registry' /\ UNCHANGED <<dirty, lock>> /\ job'.kind = job.kind /\ Seen' = Seen
<1>1. /\ job.kind \in {"session", "flush"} /\ ~job.ran /\ job'.kind = job.kind
      /\ UNCHANGED <<loaded, cache, dirty, lock>>
  BY DEF R!RunJob, R!cacheVars, Registry, TypeInv, IsJob
<1>2. CASE job.kind = "session"
  BY <1>1, <1>2 DEF R!RunJob, R!JobEffect, Registry, Seen, R!View
<1>3. CASE job.kind = "flush"
  <2>1. loaded /\ rows' = [t \in Task |-> cache[t]]
    BY <1>1, <1>3 DEF R!RunJob, R!JobEffect, R!Merge, Registry, TypeInv, TypeOK
  <2>. QED BY <1>1, <1>3, <2>1 DEF Registry, Seen, R!View
<1>. QED BY <1>1, <1>2, <1>3
-----------------------------------------------------------------------------
(* What the steps of a wave do to the tasks.                               *)

\* A worker takes the head of the queue, finds none left, or finds the budget
\* gone.
LEMMA TakeKeepsShare ==
  ASSUME TypeInv, Share, NEW w \in Worker, TakeNext(w), pc[w] \in {"born", "cleanup"},
         UNCHANGED foreign, Seen' = Seen, pc[w] = "cleanup" => ~dirty', dirty' => dirty
  PROVE  Share'
<1>. Main \in Coro /\ Worker \subseteq Coro /\ Main \notin Worker
  BY ExecutorAssumption DEF Coro
<1>. Standing /\ doing \in [Coro -> Task \cup {NoOne}] /\ NoOne \notin Task
  BY ExecutorAssumption DEF TypeInv, TypeOK
<1>1. UNCHANGED wave
  BY DEF TakeNext
<1>2. CASE queue = <<>> \/ spent
  <2>1. PICK l \in {"ended", "raised"} :
          /\ queue' = <<>> /\ Goto(w, l) /\ doing' = [doing EXCEPT ![w] = NoOne]
          /\ l = "ended" => queue = <<>>
    BY <1>2 DEF TakeNext
  <2>2. /\ pc'[w] = l /\ doing'[w] = NoOne
        /\ \A v \in Worker : v # w => pc'[v] = pc[v] /\ doing'[v] = doing[v]
    BY <2>1, Moves
  <2>3. Hands'
    BY <1>1, <2>1, <2>2 DEF Share, Hands, Active, Unsaved, Running, Saving
  <2>4. InLine'
    BY <2>1 DEF InLine
  <2>5. Lost => Lost'
    BY <2>2 DEF Lost
  <2>6. l = "raised" => Lost'
    BY <2>2 DEF Lost
  <2>7. Lost' \/ \A t \in wave : InAccount(t)'
    <3>. SUFFICES ASSUME ~Lost', NEW t \in wave PROVE InAccount(t)'
      OBVIOUS
    <3>1. queue = <<>> /\ queue' = <<>> /\ InAccount(t)
      BY <2>1, <2>5, <2>6 DEF Share, Accounted
    <3>2. ASSUME NEW v \in Worker, pc[v] \in Active, doing[v] = t PROVE InAccount(t)'
      BY <2>2, <3>2 DEF Share, Hands, InAccount, Active, Unsaved, Running, Saving
    <3>. QED BY <3>1, <3>2 DEF InAccount
  <2>8. \A t \in Task \ foreign' : Seen'[t] = "in_progress" =>
          \E v \in Worker : pc'[v] \in Running /\ doing'[v] = t
    BY <2>2 DEF Share, Accounted, Running
  <2>9. dirty' => Lost' \/ \E v \in Worker : pc'[v] \in Unsaved
    BY <2>2, <2>5 DEF Share, Accounted, Unsaved, Running, Saving
  <2>10. Accounted'
    BY <1>1, <2>1, <2>7, <2>8, <2>9 DEF Accounted
  <2>. QED BY <2>3, <2>4, <2>10 DEF Share
<1>3. CASE queue # <<>> /\ ~spent
  <2>1. queue' = Tail(queue) /\ Goto(w, "claim") /\ doing' = [doing EXCEPT ![w] = Head(queue)]
    BY <1>3 DEF TakeNext
  <2>2. /\ pc'[w] = "claim" /\ doing'[w] = queue[1] /\ pc'[Main] = pc[Main]
        /\ \A v \in Worker : v # w => pc'[v] = pc[v] /\ doing'[v] = doing[v]
    BY <2>1, Moves
  <2>3. /\ Len(queue) \in Nat \ {0} /\ Len(queue') = Len(queue) - 1
        /\ \A i \in 1 .. Len(queue') : queue'[i] = queue[i + 1] /\ i + 1 \in 1 .. Len(queue)
        /\ \A i \in 1 .. Len(queue) : i # 1 => i - 1 \in 1 .. Len(queue') /\ queue[i] = queue'[i - 1]
    <3>1. PICK m \in Nat : queue \in [1 .. m -> Task]
      BY ExecutorAssumption, FS_CardinalityType DEF TypeInv, TypeOK, BoundedSeq, SeqOf
    <3>2. queue \in Seq(Task)
      BY <3>1
    <3>. QED BY <1>3, <2>1, <3>2
  <2>4. Hands'
    BY <1>1, <2>2, <2>3 DEF Share, Hands, InLine, Active, Unsaved, Running, Saving
  <2>5. InLine'
    BY <1>1, <2>3 DEF Share, InLine
  <2>6. Lost => Lost'
    BY <2>2 DEF Lost
  <2>7. ASSUME NEW t \in wave, InAccount(t) PROVE InAccount(t)'
    <3>1. ASSUME NEW i \in 1 .. Len(queue), queue[i] = t PROVE InAccount(t)'
      <4>1. CASE i = 1
        BY <2>2, <3>1, <4>1 DEF InAccount, Active
      <4>2. CASE i # 1
        BY <2>3, <3>1, <4>2 DEF InAccount
      <4>. QED BY <4>1, <4>2
    <3>2. ASSUME NEW v \in Worker, pc[v] \in Active, doing[v] = t PROVE InAccount(t)'
      BY <2>2, <3>2 DEF Share, Hands, InAccount, Active, Unsaved, Running, Saving
    <3>. QED BY <2>7, <3>1, <3>2 DEF InAccount
  <2>8. \A t \in Task \ foreign' : Seen'[t] = "in_progress" =>
          \E v \in Worker : pc'[v] \in Running /\ doing'[v] = t
    BY <2>2 DEF Share, Accounted, Running
  <2>9. dirty' => Lost' \/ \E v \in Worker : pc'[v] \in Unsaved
    BY <2>2, <2>6 DEF Share, Accounted, Unsaved, Running, Saving
  <2>10. ~Idle'
    BY <2>2 DEF Idle
  <2>11. Accounted'
    BY <1>1, <2>6, <2>7, <2>8, <2>9, <2>10 DEF Share, Accounted
  <2>. QED BY <2>4, <2>5, <2>11 DEF Share
<1>. QED BY <1>2, <1>3

\* A worker goes on with its task, and may update its row.
LEMMA MoveKeepsShare ==
  ASSUME TypeInv, Share, NEW w \in Worker, NEW l \in Active, Goto(w, l), pc[w] \in Active,
         UNCHANGED <<doing, queue, wave>>,
         foreign' \in {foreign, foreign \ {doing[w]}},
         Seen' = Seen \/ \E s : Seen' = [Seen EXCEPT ![doing[w]] = s],
         l \in Saving /\ doing[w] \notin foreign' => Seen'[doing[w]] \in Settled,
         Seen'[doing[w]] = "in_progress" /\ doing[w] \notin foreign' => l \in Running,
         dirty' => l \in Unsaved
  PROVE  Share'
<1>. Standing /\ Main \in Coro /\ Worker \subseteq Coro /\ Main \notin Worker /\ wave \subseteq Task
  BY ExecutorAssumption DEF Coro, TypeInv, TypeOK
<1>1. /\ pc'[w] = l /\ pc'[Main] = pc[Main]
      /\ \A v \in Worker : v # w => pc'[v] = pc[v]
  BY Moves
<1>2. /\ doing[w] \in wave /\ \A v \in Worker : pc[v] \in Active /\ doing[v] = doing[w] => v = w
      /\ DOMAIN Seen = Task
  BY DEF Share, Hands, Seen
<1>3. \A t \in Task : t # doing[w] => Seen'[t] = Seen[t] /\ (t \in foreign' <=> t \in foreign)
  BY <1>2
<1>5. \A v \in Worker : pc'[v] \in Active => pc[v] \in Active
  BY <1>1
<1>6. Hands'
  <2>. SUFFICES ASSUME NEW v \in Worker
                PROVE  /\ pc'[v] \in Saving /\ doing[v] \notin foreign' => Seen'[doing[v]] \in Settled
                       /\ pc'[v] \in Active =>
                            /\ doing[v] \in wave
                            /\ \A i \in 1 .. Len(queue) : queue[i] # doing[v]
                            /\ \A x \in Worker : pc'[x] \in Active /\ doing[x] = doing[v] => x = v
    BY DEF Hands
  <2>1. CASE v = w
    BY <1>1, <1>5, <2>1 DEF Share, Hands
  <2>2. CASE v # w
    <3>1. pc[v] \in Active => doing[v] \in Task /\ doing[v] # doing[w]
      BY <1>2, <2>2 DEF Share, Hands
    <3>2. pc'[v] \in Saving => pc[v] \in Saving /\ pc[v] \in Active
      BY <1>1, <2>2 DEF Active, Unsaved
    <3>3. pc'[v] \in Saving /\ doing[v] \notin foreign' => Seen'[doing[v]] \in Settled
      BY <1>3, <3>1, <3>2 DEF Share, Hands
    <3>. QED BY <1>1, <1>5, <2>2, <3>3 DEF Share, Hands
  <2>. QED BY <2>1, <2>2
<1>7. InLine'
  BY DEF Share, InLine
<1>8. ASSUME NEW t \in Task \ foreign', Seen'[t] = "in_progress"
      PROVE  \E v \in Worker : pc'[v] \in Running /\ doing[v] = t
  <2>1. CASE t = doing[w]
    BY <1>1, <1>8, <2>1
  <2>2. CASE t # doing[w]
    <3>1. PICK v \in Worker : pc[v] \in Running /\ doing[v] = t
      BY <1>3, <1>8, <2>2 DEF Share, Accounted
    <3>. QED BY <1>1, <2>2, <3>1
  <2>. QED BY <2>1, <2>2
<1>9. Lost => Lost'
  BY <1>1 DEF Lost, Active, Unsaved, Running, Saving
<1>10. ASSUME NEW t \in wave, InAccount(t) PROVE InAccount(t)'
  BY <1>1, <1>3, <1>10 DEF InAccount
<1>11. dirty' => \E v \in Worker : pc'[v] \in Unsaved
  BY <1>1
<1>12. ~Idle'
  BY <1>1 DEF Idle, Active, Unsaved, Running, Saving
<1>13. Accounted'
  BY <1>8, <1>9, <1>10, <1>11, <1>12 DEF Share, Accounted
<1>. QED BY <1>6, <1>7, <1>13 DEF Share

\* A worker is lost to a save that failed.
LEMMA BreakKeepsShare ==
  ASSUME TypeInv, Share, NEW w \in Worker, NEW l \in {"breaking", "broken"}, Goto(w, l),
         pc[w] \in {"saveerror", "cleanup", "breaking"},
         UNCHANGED <<foreign, doing, queue, wave>>, Seen' = Seen
  PROVE  Share'
<1>. Standing /\ Main \in Coro /\ Worker \subseteq Coro /\ Main \notin Worker
  BY ExecutorAssumption DEF Coro, TypeInv
<1>1. /\ pc'[w] = l /\ pc'[Main] = pc[Main]
      /\ \A v \in Worker : v # w => pc'[v] = pc[v]
  BY Moves
<1>2. Hands'
  BY <1>1 DEF Share, Hands, Active, Unsaved, Running, Saving
<1>3. InLine'
  BY DEF Share, InLine
<1>4. Lost' /\ ~Idle'
  BY <1>1 DEF Lost, Idle
<1>5. \A t \in Task \ foreign' : Seen'[t] = "in_progress" =>
        \E v \in Worker : pc'[v] \in Running /\ doing'[v] = t
  BY <1>1 DEF Share, Accounted, Running
<1>. QED BY <1>2, <1>3, <1>4, <1>5 DEF Share, Accounted

\* A worker's session updates a row.
LEMMA UpdateKeepsShare ==
  ASSUME TypeInv, Share, NEW w \in Worker, pc[w] = "run", UNCHANGED <<pc, doing, queue, wave>>,
         NEW t \in Task, NEW s, Seen' = [Seen EXCEPT ![t] = s],
         foreign' = IF t = doing[w] THEN foreign \ {t} ELSE foreign \cup {t}
  PROVE  Share'
<1>1. /\ pc[w] \in Active /\ pc[w] \in Running /\ pc[w] \in Unsaved
      /\ pc[w] \notin Saving /\ pc[w] \notin {"unborn", "ended"}
  BY DEF Active, Unsaved, Running, Saving
<1>2. \A x \in Task : x # t => Seen'[x] = Seen[x] /\ (x \in foreign' <=> x \in foreign)
  BY DEF Seen
<1>3. t # doing[w] => t \in foreign'
  OBVIOUS
<1>4. wave \subseteq Task
  BY DEF TypeInv, TypeOK
<1>5. Hands'
  <2>. SUFFICES ASSUME NEW v \in Worker, pc[v] \in Saving, doing[v] \notin foreign'
                PROVE  Seen'[doing[v]] \in Settled
    BY DEF Share, Hands
  <2>1. pc[v] \in Active /\ v # w
    BY <1>1 DEF Active, Unsaved
  <2>2. doing[v] \in Task /\ doing[v] # doing[w]
    BY <1>1, <1>4, <2>1 DEF Share, Hands
  <2>3. doing[v] # t
    BY <1>3, <2>2
  <2>. QED BY <1>2, <2>2, <2>3 DEF Share, Hands
<1>6. InLine'
  BY DEF Share, InLine
<1>7. ASSUME NEW x \in wave, InAccount(x) PROVE InAccount(x)'
  <2>1. CASE x = t
    BY <1>1, <1>3, <2>1 DEF InAccount
  <2>2. CASE x # t
    BY <1>2, <1>4, <1>7, <2>2 DEF InAccount
  <2>. QED BY <2>1, <2>2
<1>8. ASSUME NEW x \in Task \ foreign', Seen'[x] = "in_progress"
      PROVE  \E v \in Worker : pc[v] \in Running /\ doing[v] = x
  <2>1. CASE x = t
    BY <1>1, <1>3, <1>8, <2>1
  <2>2. CASE x # t
    BY <1>2, <1>8, <2>2 DEF Share, Accounted
  <2>. QED BY <2>1, <2>2
<1>9. Lost' <=> Lost
  BY DEF Lost
<1>10. ~Idle'
  BY <1>1 DEF Idle
<1>11. Accounted'
  BY <1>1, <1>7, <1>8, <1>9, <1>10 DEF Share, Accounted
<1>. QED BY <1>5, <1>6, <1>11 DEF Share

\* A step that moves nobody.
LEMMA StayKeepsShare ==
  ASSUME Share, UNCHANGED <<foreign, pc, doing, queue, wave>>, Seen' = Seen, dirty' => dirty
  PROVE  Share'
  BY DEF Share, Hands, InLine, Accounted, InAccount, Lost, Idle
-----------------------------------------------------------------------------
(* The steps of the executor.                                              *)

\* A shutdown is never taken back, and the wave loop never entered again.
LEMMA CalmBefore ==
  ASSUME TypeInv, [Next]_vars, Calm'
  PROVE  Calm
<1>. USE DEF At, Flush
<1>. Standing /\ Main \in Coro /\ Worker \subseteq Coro /\ Main \notin Worker
  BY ExecutorAssumption DEF Coro, TypeInv
<1>. SUFFICES ASSUME shutFlag \/ pc[Main] \notin {"plan", "wave"}
              PROVE  shutFlag' \/ pc'[Main] \notin {"plan", "wave"}
  BY DEF Calm
<1>1. CASE PlanWave
  BY <1>1 DEF PlanWave, shutVars
<1>2. CASE PlanEnds \/ WaveDone \/ WaveRaised \/ LoopCloses
  BY <1>2, Moves DEF PlanEnds, WaveDone, WaveRaised, LoopCloses, shutVars
<1>3. ASSUME NEW c \in Coro, Shutdown(c) PROVE shutFlag' \/ pc'[Main] \notin {"plan", "wave"}
  BY <1>3, Moves
  DEF Shutdown, EnterShutdown, LookForInProgress, MarkInterrupted, FlushInterrupted, Handoff,
    AfterShutdown, coroVars, shutVars
<1>4. ASSUME NEW w \in Worker, TakeNext(w) PROVE shutFlag' = shutFlag /\ pc'[Main] = pc[Main]
  BY <1>4, Moves DEF TakeNext, shutVars
<1>5. ASSUME NEW w \in Worker,
             StartWorker(w) \/ Claim(w) \/ LogSession(w) \/ Stage(w) \/ ToolUpdate(w) \/ Spend(w)
               \/ Finish(w) \/ Validate(w) \/ Fail(w) \/ MarkError(w) \/ Overrun(w)
      PROVE  shutFlag' = shutFlag /\ pc'[Main] = pc[Main]
  BY <1>4, <1>5, Moves DEF StartWorker, Claim, LogSession, Stage, ToolUpdate, Spend, Finish, Validate,
    Fail, MarkError, Overrun, coroVars, shutVars
<1>6. ASSUME NEW w \in Worker, Save(w) \/ Cleanup(w) \/ LastFlush(w) \/ Unwind(w)
      PROVE  shutFlag' = shutFlag /\ pc'[Main] = pc[Main]
  BY <1>4, <1>6, Moves DEF Save, Cleanup, LastFlush, Unwind, coroVars, shutVars
<1>7. CASE RunJob \/ RunOrphan \/ UNCHANGED vars
  BY <1>7 DEF RunJob, RunOrphan, vars, coroVars, shutVars
<1>8. ASSUME NEW c \in Coro, JobBreaks(c) PROVE shutFlag' \/ pc'[Main] \notin {"plan", "wave"}
  <2>1. PICK l \in Breaking : pc[c] = l /\ Goto(c, IF c = Main THEN "end" ELSE OnFailure[l])
    BY <1>8, BreakMoves
  <2>2. c = Main => pc'[Main] = "end"
    BY <2>1, Moves
  <2>3. c # Main => pc'[Main] = pc[Main]
    BY <2>1, Moves
  <2>. QED BY <1>8, <2>2, <2>3, BreakMoves
<1>. QED BY <1>1, <1>2, <1>3, <1>5, <1>6, <1>7, <1>8 DEF Next, Command, Work, Coro

\* The queue of a new wave has each of its tasks once.
LEMMA EveryTaskQueued ==
  ASSUME NEW S \in SUBSET Task, NEW s \in SetToSeqs(S)
  PROVE  /\ \A i \in 1 .. Len(s) : s[i] \in S
         /\ \A i, j \in 1 .. Len(s) : s[i] = s[j] => i = j
         /\ \A t \in S : \E i \in 1 .. Len(s) : s[i] = t
<1>. DEFINE n == Cardinality(S)
<1>1. IsFiniteSet(S) /\ n \in Nat
  BY ExecutorAssumption, FS_Subset, FS_CardinalityType
<1>2. s \in [1 .. n -> S] /\ \A i, j \in 1 .. n : i # j => s[i] # s[j]
  BY DEF SetToSeqs
<1>3. Len(s) = n
  BY <1>1, <1>2
<1>4. IsFiniteSet(1 .. n) /\ Cardinality(1 .. n) = n
  BY <1>1, FS_Interval
<1>. HIDE DEF n
<1>5. s \in Injection(1 .. n, S)
  BY <1>2 DEF Injection, IsInjective
<1>6. s \in Surjection(1 .. n, S)
  BY <1>1, <1>4, <1>5, FS_Injection DEF n
<1>. QED BY <1>2, <1>3, <1>6 DEF Surjection

\* The planner's first wave is not empty.
LEMMA FirstWaveFound ==
  ASSUME Waiting # {}, ~Unschedulable
  PROVE  FirstWave # {}
<1>1. Waiting \in SUBSET Waiting
  OBVIOUS
<1>2. PICK t \in Waiting : Deps[t] \subseteq Completed \cup (Waiting \ Waiting)
  BY <1>1 DEF Unschedulable
<1>. QED BY <1>2 DEF FirstWave

\* A wave with a task gets a worker.
LEMMA WorkersBorn ==
  ASSUME NEW W \in SUBSET Worker, FirstWave # {},
         Cardinality(W) = IF Cardinality(Worker) < Cardinality(FirstWave)
                          THEN Cardinality(Worker) ELSE Cardinality(FirstWave)
  PROVE  W # {}
<1>1. FirstWave \subseteq Task
  BY DEF FirstWave, Waiting, StatusOf
<1>2. IsFiniteSet(Worker) /\ IsFiniteSet(FirstWave) /\ Worker # {}
  BY <1>1, ExecutorAssumption, FS_Subset
<1>3. Cardinality(Worker) # 0 /\ Cardinality(FirstWave) # 0
  BY <1>2, FS_EmptySet
<1>. QED BY <1>3, FS_EmptySet

\* A new wave.
LEMMA PlanKeepsQuiet ==
  ASSUME TypeInv, Quiet, PlanWave
  PROVE  Quiet'
<1>. Main \in Coro /\ Worker \subseteq Coro /\ Main \notin Worker
  BY ExecutorAssumption DEF Coro
<1>1. pc[Main] = "plan" /\ Idle
  BY DEF PlanWave, At, Quiet
<1>2. /\ wave' = FirstWave /\ queue' \in SetToSeqs(FirstWave) /\ FirstWave \subseteq Task
      /\ UNCHANGED <<registryVars, foreign, orphans, doing, cancelled>> /\ lock = NoOne
  BY DEF PlanWave, FirstWave, Waiting, StatusOf
<1>3. PICK W \in SUBSET Worker :
        /\ W # {}
        /\ pc' = [c \in Coro |-> IF c = Main THEN "wave" ELSE IF c \in W THEN "born" ELSE "unborn"]
  BY FirstWaveFound, WorkersBorn DEF PlanWave
<1>4. Seen' = Seen /\ UNCHANGED <<dirty, foreign>>
  BY <1>2 DEF registryVars, Seen, R!View
<1>5. Registry' /\ Holder'
  BY <1>2 DEF registryVars, Quiet, Registry, Holder
<1>6. /\ pc'[Main] = "wave" /\ ~Idle'
      /\ \A w \in Worker : pc'[w] \notin Active /\ pc'[w] \notin Late /\ pc'[w] \notin Saving
  BY <1>3 DEF Idle, Active, Unsaved, Running, Saving, Late
<1>7. Hands'
  BY <1>6 DEF Hands
<1>8. InLine' /\ \A t \in wave' : \E i \in 1 .. Len(queue') : queue'[i] = t
  BY <1>2, EveryTaskQueued DEF InLine
<1>9. ~dirty /\ \A t \in Task \ foreign : Seen[t] # "in_progress"
  BY <1>1 DEF Quiet, Share, Accounted, Lost, Idle, Running, Saving, Unsaved
<1>10. Accounted'
  BY <1>4, <1>6, <1>8, <1>9 DEF Accounted, InAccount
<1>. QED BY <1>2, <1>5, <1>6, <1>7, <1>8, <1>10 DEF Quiet, Share

\* The wave is over.
LEMMA DoneKeepsQuiet ==
  ASSUME TypeInv, Quiet, WaveDone
  PROVE  Quiet'
<1>. Standing /\ Main \in Coro /\ Worker \subseteq Coro /\ Main \notin Worker
  BY ExecutorAssumption DEF Coro, TypeInv
<1>1. Idle /\ Goto(Main, "plan")
      /\ UNCHANGED <<registryVars, foreign, orphans, doing, cancelled, queue, wave>>
  BY DEF WaveDone, Idle, waveVars
<1>2. pc'[Main] = "plan" /\ \A w \in Worker : pc'[w] = pc[w]
  BY <1>1, Moves
<1>3. Seen' = Seen /\ UNCHANGED <<dirty, lock, job>>
  BY <1>1 DEF registryVars, Seen, R!View
<1>4. Registry' /\ Holder'
  BY <1>1, <1>2, <1>3 DEF registryVars, Quiet, Registry, Holder
<1>5. Hands' /\ InLine'
  BY <1>1, <1>2, <1>3 DEF Quiet, Share, Hands, InLine
<1>6. Lost' <=> Lost
  BY <1>2 DEF Lost
<1>7. Accounted'
  BY <1>1, <1>2, <1>3, <1>6 DEF Quiet, Share, Accounted, InAccount
<1>8. Idle'
  BY <1>1, <1>2 DEF Idle
<1>. QED BY <1>1, <1>2, <1>4, <1>5, <1>7, <1>8 DEF Quiet, Share

\* A step of a worker of the wave: what is left is the registry, the locks'
\* holder and the tasks.
LEMMA WaveQuiet ==
  ASSUME TypeInv, Quiet, pc[Main] = "wave", UNCHANGED <<orphans, cancelled>>,
         NEW w \in Worker, NEW l, Goto(w, l), l \notin Late, Registry', Holder', Share'
  PROVE  Quiet'
<1>. Main \in Coro /\ Worker \subseteq Coro /\ Main \notin Worker /\ Standing
  BY ExecutorAssumption DEF Coro, TypeInv
<1>1. pc'[Main] = "wave" /\ pc'[w] = l /\ \A v \in Worker : v # w => pc'[v] = pc[v]
  BY Moves
<1>. QED BY <1>1 DEF Quiet

\* A step that moves nobody.
LEMMA StayQuiet ==
  ASSUME Quiet, UNCHANGED <<pc, orphans, cancelled>>, Registry', Holder', Share'
  PROVE  Quiet'
  BY DEF Quiet, Idle

\* A worker that does not hold the locks moves.
LEMMA HolderMoves ==
  ASSUME TypeInv, Holder, NEW w \in Worker, NEW l, Goto(w, l), UNCHANGED <<lock, job>>, lock # w
  PROVE  Holder'
<1>. Standing /\ Worker \subseteq Coro
  BY DEF Coro, TypeInv
<1>. QED BY Moves DEF Holder

\* A worker marks its task and goes on.
LEMMA MarkKeepsQuiet ==
  ASSUME TypeInv, Quiet, NEW w \in Worker, pc[Main] = "wave",
         Claim(w) \/ Finish(w) \/ Validate(w) \/ MarkError(w) \/ Overrun(w)
  PROVE  Quiet'
<1>1. PICK l, s, o :
        /\ Goto(w, l) /\ MarkOwn(w, s, o)
        /\ <<l, s>> \in {<<"session", "in_progress">>, <<"save", "awaiting-review">>,
                        <<"cleanup", "completed">>, <<"saveerror", "error">>,
                        <<"saveover", "interrupted">>}
        /\ pc[w] \in {"claim", "run", "failing"}
        /\ UNCHANGED <<orphans, doing, cancelled, queue, wave>>
  <2>. USE DEF At, waveVars
  <2>1. CASE Claim(w)
    BY <2>1 DEF Claim
  <2>2. CASE Finish(w)
    BY <2>2 DEF Finish
  <2>3. CASE Validate(w)
    BY <2>3 DEF Validate
  <2>4. CASE MarkError(w)
    BY <2>4 DEF MarkError
  <2>5. CASE Overrun(w)
    BY <2>5 DEF Overrun
  <2>. QED BY <2>1, <2>2, <2>3, <2>4, <2>5
<1>2. Registry /\ Share /\ pc[w] \in Active
  BY <1>1 DEF Quiet, Active, Unsaved, Running
<1>3. doing[w] \in Task
  BY <1>2 DEF Share, Hands, TypeInv, TypeOK
<1>4. /\ Registry' /\ Untouched /\ dirty' /\ Seen' = [Seen EXCEPT ![doing[w]] = s]
      /\ foreign' = foreign \ {doing[w]}
  BY <1>1, <1>2, <1>3, MarkMoves DEF MarkOwn
<1>5. Seen'[doing[w]] = s
  BY <1>3, <1>4 DEF Seen
<1>6. /\ l \in Active /\ l \in Unsaved /\ l \notin Late
      /\ l \in Saving => s \in Settled
      /\ s = "in_progress" => l \in Running
  BY <1>1 DEF Active, Unsaved, Running, Saving, Settled, Late
<1>7. Share'
  BY ONLY TypeInv, <1>1, <1>2, <1>4, <1>5, <1>6, MoveKeepsShare
<1>8. Holder'
  BY <1>4 DEF Untouched, Holder
<1>. QED BY <1>1, <1>4, <1>6, <1>7, <1>8, WaveQuiet

\* A worker's session stages a file or updates a task.
LEMMA UpdateKeepsQuiet ==
  ASSUME TypeInv, Quiet, NEW w \in Worker, Stage(w) \/ ToolUpdate(w)
  PROVE  Quiet'
<1>1. /\ pc[w] = "run" /\ UNCHANGED <<pc, orphans, doing, cancelled, queue, wave>>
      /\ Registry /\ Share
  BY DEF Stage, ToolUpdate, At, coroVars, waveVars, Quiet
<1>2. doing[w] \in Task
  BY <1>1 DEF Share, Hands, TypeInv, TypeOK, Active, Unsaved, Running
<1>3. PICK t \in Task, s \in R!Status :
         /\ Mark(w, t, s, NoOwner)
         /\ foreign' = IF t = doing[w] THEN foreign \ {t} ELSE foreign \cup {t}
  <2>1. CASE Stage(w)
    BY <1>2, <2>1 DEF Stage, MarkOwn, R!Status
  <2>2. CASE ToolUpdate(w)
    BY <2>2, RowAssumption DEF ToolUpdate
  <2>. QED BY <2>1, <2>2
<1>4. Registry' /\ Untouched /\ Seen' = [Seen EXCEPT ![t] = s]
  BY <1>1, <1>3, MarkMoves
<1>5. Share'
  BY ONLY TypeInv, <1>1, <1>3, <1>4, UpdateKeepsShare
<1>. QED BY <1>1, <1>4, <1>5, StayQuiet DEF Untouched, Holder

\* A worker takes its next task.
LEMMA TakeKeepsQuiet ==
  ASSUME TypeInv, Quiet, NEW w \in Worker, pc[Main] = "wave", TakeNext(w),
         UNCHANGED <<foreign, orphans>>, Registry', Seen' = Seen,
         \/ pc[w] = "born" /\ UNCHANGED registryVars
         \/ pc[w] = "cleanup" /\ lock' = NoOne /\ ~dirty'
  PROVE  Quiet'
<1>1. PICK l \in {"ended", "raised", "claim"} : Goto(w, l)
  BY DEF TakeNext
<1>2. Holder'
  <2>1. CASE pc[w] = "born" /\ UNCHANGED registryVars
    BY <1>1, <2>1, HolderMoves DEF Quiet, Holder, registryVars
  <2>. QED BY <2>1 DEF Holder
<1>3. Share'
  BY TakeKeepsShare DEF Quiet, registryVars
<1>4. l \notin Late /\ UNCHANGED cancelled
  BY DEF Late, TakeNext
<1>. QED BY <1>1, <1>2, <1>3, <1>4, WaveQuiet

\* A worker flushes.
LEMMA FlushKeepsQuiet ==
  ASSUME TypeInv, Quiet, NEW w \in Worker, pc[Main] = "wave",
         Save(w) \/ Cleanup(w) \/ LastFlush(w)
  PROVE  Quiet'
<1>. DEFINE Places == {"save", "saveerror", "saveover", "cleanup", "breaking"}
<1>. DEFINE Begun == /\ R!FlushBegin(w) /\ pc[w] \in Places
                     /\ UNCHANGED <<foreign, orphans, coroVars, waveVars, shutVars>>
<1>. DEFINE Ended == R!FlushClean(w) \/ R!FlushEnd(w)
<1>. DEFINE Moved(l) == /\ Ended /\ Goto(w, l)
                        /\ UNCHANGED <<foreign, orphans, doing, cancelled, queue, wave>>
<1>1. \/ Begun
      \/ pc[w] = "save" /\ Moved("cleanup")
      \/ pc[w] = "saveerror" /\ Moved("cleanup")
      \/ pc[w] = "saveover" /\ Moved("shut")
      \/ pc[w] = "breaking" /\ Moved("broken")
      \/ Ended /\ pc[w] = "cleanup" /\ TakeNext(w) /\ UNCHANGED <<foreign, orphans>>
  <2>. pc[w] \notin {"raising", "unwinding"}
    BY DEF Quiet, Late
  <2>1. CASE Save(w)
    BY <2>1 DEF Save, Flush, At, waveVars
  <2>2. CASE Cleanup(w)
    BY <2>2 DEF Cleanup, Flush, At
  <2>3. CASE LastFlush(w)
    BY <2>3 DEF LastFlush, Flush, At, waveVars
  <2>. QED BY <2>1, <2>2, <2>3
<1>2. Registry /\ Share
  BY DEF Quiet
<1>3. Ended => Registry' /\ lock' = NoOne /\ ~dirty' /\ Seen' = Seen
  BY <1>2, FlushMoves DEF Untouched
<1>4. CASE Begun
  <2>1. Registry' /\ lock' = w /\ job'.kind = "flush" /\ UNCHANGED dirty /\ Seen' = Seen
    BY <1>2, <1>4, FlushMoves
  <2>2. Holder'
    BY <1>4, <2>1 DEF Holder, coroVars
  <2>. QED BY <1>2, <1>4, <2>1, <2>2, StayKeepsShare, StayQuiet DEF coroVars, waveVars
<1>. HIDE DEF Begun, Ended
<1>5. ASSUME NEW l \in {"cleanup", "shut"}, Moved(l),
             pc[w] \in IF l = "cleanup" THEN {"save", "saveerror"} ELSE {"saveover"}
      PROVE  Quiet'
  <2>1. /\ pc[w] \in Active /\ l \in Active /\ l \notin Late
        /\ l \in Saving => pc[w] \in Saving
        /\ pc[w] \notin Running
    BY <1>5 DEF Active, Unsaved, Running, Saving, Late
  <2>2. l \in Saving /\ doing[w] \notin foreign' => Seen'[doing[w]] \in Settled
    BY <1>2, <1>3, <1>5, <2>1 DEF Share, Hands
  <2>3. doing[w] \notin foreign' => Seen'[doing[w]] # "in_progress"
    <3>1. /\ doing[w] \in Task
          /\ \A v \in Worker : pc[v] \in Active /\ doing[v] = doing[w] => v = w
      BY <1>2, <2>1 DEF Share, Hands, TypeInv, TypeOK
    <3>2. ~ \E v \in Worker : pc[v] \in Running /\ doing[v] = doing[w]
      BY <2>1, <3>1 DEF Active, Unsaved
    <3>3. Seen' = Seen /\ foreign' = foreign
      BY <1>3, <1>5
    <3>. QED BY <1>2, <3>1, <3>2, <3>3 DEF Share, Accounted
  <2>4. Share'
    BY ONLY TypeInv, <1>2, <1>3, <1>5, <2>1, <2>2, <2>3, MoveKeepsShare
  <2>5. Holder'
    BY <1>3, <1>5 DEF Holder
  <2>. QED BY <1>3, <1>5, <2>1, <2>4, <2>5, WaveQuiet
<1>6. ASSUME Ended, pc[w] = "cleanup", TakeNext(w), UNCHANGED <<foreign, orphans>>
      PROVE  Quiet'
  BY <1>3, <1>6, TakeKeepsQuiet
<1>7. ASSUME pc[w] = "breaking", Moved("broken")
      PROVE  Quiet'
  <2>1. Share'
    BY <1>2, <1>3, <1>7, BreakKeepsShare
  <2>2. Holder'
    BY <1>3, <1>7 DEF Holder
  <2>. QED BY <1>3, <1>7, <2>1, <2>2, WaveQuiet DEF Late
<1>. QED BY <1>1, <1>4, <1>5, <1>6, <1>7

\* A thread fails.
LEMMA BreakKeepsQuiet ==
  ASSUME TypeInv, Quiet, NEW c \in Coro, pc[Main] \in {"plan", "wave"}, JobBreaks(c)
  PROVE  Quiet'
<1>. Main \in Coro /\ Worker \subseteq Coro /\ Main \notin Worker /\ Standing
  BY ExecutorAssumption DEF Coro, TypeInv
<1>1. PICK l \in Breaking : pc[c] = l /\ Goto(c, IF c = Main THEN "end" ELSE OnFailure[l])
  BY BreakMoves
<1>2. /\ lock = c /\ R!JobFails
      /\ UNCHANGED <<foreign, orphans, doing, cancelled, queue, wave>>
      /\ Registry /\ Share
  BY BreakMoves DEF Quiet
<1>3. c \in Worker
  BY <1>1 DEF Breaking, Coro
<1>4. pc[Main] = "wave"
  BY <1>1, <1>3 DEF Quiet, Idle, Breaking
<1>5. Registry' /\ UNCHANGED dirty /\ Seen' = Seen /\ lock' = NoOne
  BY <1>2, FailureMoves
<1>6. Holder'
  BY <1>5 DEF Holder
<1>7. Goto(c, OnFailure[l]) /\ l \notin Late
  BY <1>1, <1>3 DEF Quiet
<1>8. ASSUME NEW m \in {"run", "failing"}, Goto(c, m),
             l \in IF m = "run" THEN {"session"} ELSE {"save", "saveover"}
      PROVE  Quiet'
  <2>1. /\ pc[c] \in Active /\ m \in Active /\ m \in Running /\ m \in Unsaved
        /\ m \notin Saving /\ m \notin Late
    BY <1>1, <1>8 DEF Active, Unsaved, Running, Saving, Late
  <2>2. Share'
    BY ONLY TypeInv, <1>2, <1>3, <1>5, <1>8, <2>1, MoveKeepsShare
  <2>. QED BY <1>2, <1>3, <1>4, <1>5, <1>6, <1>8, <2>1, <2>2, WaveQuiet
<1>9. ASSUME NEW m \in {"breaking", "broken"}, Goto(c, m), l \in {"saveerror", "cleanup", "breaking"}
      PROVE  Quiet'
  <2>1. Share'
    BY <1>1, <1>2, <1>3, <1>5, <1>9, BreakKeepsShare
  <2>. QED BY <1>2, <1>3, <1>4, <1>5, <1>6, <1>9, <2>1, WaveQuiet DEF Late
<1>10. l \in {"session", "save", "saveover", "saveerror", "cleanup", "breaking"}
  BY <1>7 DEF Breaking, Late
<1>. QED BY <1>7, <1>8, <1>9, <1>10, FailurePlaces

\* A task fails.
LEMMA FailKeepsQuiet ==
  ASSUME TypeInv, Quiet, NEW w \in Worker, pc[Main] = "wave", Fail(w)
  PROVE  Quiet'
<1>1. /\ pc[w] \in {"claim", "run"} /\ Goto(w, "failing")
      /\ UNCHANGED <<registryVars, foreign, orphans, doing, cancelled, queue, wave>>
      /\ lock = NoOne \/ lock # w
  BY DEF Fail, At, waveVars, Quiet, Holder
<1>2. Registry' /\ Seen' = Seen /\ UNCHANGED <<lock, job>>
  BY <1>1 DEF registryVars, Seen, R!View, Quiet, Registry
<1>3. /\ pc[w] \in Active /\ "failing" \in Active /\ "failing" \in Running
      /\ "failing" \in Unsaved /\ "failing" \notin Saving /\ "failing" \notin Late
  BY <1>1 DEF Active, Unsaved, Running, Saving, Late
<1>4. Share /\ Holder
  BY DEF Quiet
<1>5. Share'
  BY ONLY TypeInv, <1>1, <1>2, <1>3, <1>4, MoveKeepsShare
<1>6. lock # w
  BY <1>1, ExecutorAssumption DEF Coro
<1>7. Holder'
  BY <1>1, <1>2, <1>4, <1>6, HolderMoves
<1>. QED BY <1>1, <1>2, <1>3, <1>5, <1>7, WaveQuiet

\* Every step of a worker that begins no shutdown.
LEMMA WorkKeepsQuiet ==
  ASSUME TypeInv, Quiet, Calm, Calm', NEW w \in Worker, Work(w)
  PROVE  Quiet'
<1>. Main \in Coro /\ Worker \subseteq Coro /\ Main \notin Worker /\ Standing
  BY ExecutorAssumption DEF Coro, TypeInv
<1>. USE DEF At, Flush
<1>1. ~EnterShutdown(w)
  BY DEF EnterShutdown, Calm
<1>2. ~Unwind(w) /\ ~Shutdown(w)
  BY <1>1 DEF Unwind, Shutdown, LookForInProgress, MarkInterrupted, FlushInterrupted,
    Handoff, Quiet, Late
<1>3. pc[w] \notin {"unborn", "ended"}
  BY <1>2 DEF Work, StartWorker, Claim, LogSession, Stage, ToolUpdate, Spend, Finish, Validate, Fail,
    MarkError, Overrun, Save, Cleanup, LastFlush
<1>4. pc[Main] = "wave"
  BY <1>3 DEF Quiet, Idle, Calm
<1>5. CASE StartWorker(w)
  BY <1>4, <1>5, TakeKeepsQuiet DEF StartWorker, registryVars, Seen, R!View, Quiet, Registry
<1>6. CASE LogSession(w)
  <2>0. pc[w] = "session" /\ UNCHANGED <<foreign, orphans, doing, cancelled, queue, wave>>
    BY <1>6 DEF LogSession, waveVars
  <2>1. CASE R!SessionBegin(w, "session") /\ UNCHANGED pc
    <3>1. Registry' /\ lock' = w /\ job'.kind = "session" /\ UNCHANGED dirty /\ Seen' = Seen
      BY <2>1, SessionMoves DEF Quiet
    <3>2. Share'
      BY <2>0, <2>1, <3>1, StayKeepsShare DEF Quiet
    <3>. QED BY <2>0, <2>1, <3>1, <3>2, StayQuiet DEF Holder
  <2>2. CASE R!SessionEnd(w) /\ Goto(w, "run")
    <3>1. Registry' /\ lock' = NoOne /\ UNCHANGED dirty /\ Seen' = Seen
      BY <2>2, SessionMoves DEF Quiet
    <3>2. /\ pc[w] \in Active /\ "run" \in Active /\ "run" \in Running /\ "run" \in Unsaved
          /\ "run" \notin Saving /\ "run" \notin Late
      BY <2>0 DEF Active, Unsaved, Running, Saving, Late
    <3>3. Share
      BY DEF Quiet
    <3>4. Share'
      BY ONLY TypeInv, <2>0, <2>2, <3>1, <3>2, <3>3, MoveKeepsShare
    <3>. QED BY <1>4, <2>0, <2>2, <3>1, <3>2, <3>4, WaveQuiet DEF Holder
  <2>. QED BY <1>6, <2>1, <2>2 DEF LogSession
<1>7. CASE Spend(w)
  <2>1. UNCHANGED <<registryVars, foreign, orphans, pc, doing, cancelled, queue, wave>>
    BY <1>7 DEF Spend, coroVars
  <2>2. Seen' = Seen /\ Registry' /\ Holder'
    BY <2>1 DEF registryVars, Seen, R!View, Quiet, Registry, Holder
  <2>3. Share'
    BY <2>1, <2>2, StayKeepsShare DEF Quiet, registryVars
  <2>. QED BY <2>1, <2>2, <2>3, StayQuiet
<1>. QED
  BY <1>2, <1>4, <1>5, <1>6, <1>7, MarkKeepsQuiet, UpdateKeepsQuiet, FailKeepsQuiet, FlushKeepsQuiet DEF Work

\* Every step of a wave that stays calm.
LEMMA QuietKept ==
  ASSUME TypeInv, Quiet, Calm, Calm', [Next]_vars
  PROVE  Quiet'
<1>. Main \in Coro /\ Worker \subseteq Coro /\ Main \notin Worker /\ Standing
  BY ExecutorAssumption DEF Coro, TypeInv
<1>1. ~Shutdown(Main) /\ ~RunOrphan
  BY DEF Shutdown, EnterShutdown, LookForInProgress, MarkInterrupted, FlushInterrupted, Handoff,
    At, Flush, RunOrphan, Quiet, Calm
<1>2. ~(PlanEnds \/ WaveRaised \/ LoopCloses)
  BY Moves DEF PlanEnds, WaveRaised, LoopCloses, At, Calm
<1>3. CASE RunJob
  <2>1. /\ UNCHANGED <<foreign, orphans, pc, doing, cancelled, queue, wave, dirty, lock>>
        /\ Registry' /\ job'.kind = job.kind /\ Seen' = Seen
    BY <1>3, JobMoves DEF RunJob, Quiet, coroVars, waveVars
  <2>2. Holder' /\ Share'
    BY <2>1, StayKeepsShare DEF Quiet, Holder
  <2>. QED BY <2>1, <2>2, StayQuiet
<1>4. CASE UNCHANGED vars
  <2>1. UNCHANGED <<registryVars, foreign, orphans, pc, doing, cancelled, queue, wave>>
    BY <1>4 DEF vars, coroVars, waveVars
  <2>2. Seen' = Seen /\ Registry' /\ Holder' /\ UNCHANGED dirty
    BY <2>1 DEF registryVars, Seen, R!View, Quiet, Registry, Holder
  <2>3. Share'
    BY <2>1, <2>2, StayKeepsShare DEF Quiet
  <2>. QED BY <2>1, <2>2, <2>3, StayQuiet
<1>5. ASSUME NEW c \in Coro, JobBreaks(c) PROVE Quiet'
  BY <1>5, BreakKeepsQuiet DEF Calm
<1>. QED
  BY <1>1, <1>2, <1>3, <1>4, <1>5, PlanKeepsQuiet, DoneKeepsQuiet, WorkKeepsQuiet DEF Next, Command

\* Between two waves only the command itself acts.
LEMMA IdleKept ==
  ASSUME TypeInv, CalmInv, [Next]_vars, pc'[Main] = "plan"
  PROVE  Idle'
<1>. Main \in Coro /\ Worker \subseteq Coro /\ Main \notin Worker /\ Standing
  BY ExecutorAssumption DEF Coro, TypeInv
<1>1. CASE pc[Main] = "plan"
  <2>1. Idle /\ cancelled = {}
    BY <1>1 DEF CalmInv
  <2>2. \A w \in Worker : ~Work(w)
    BY <2>1 DEF Work, StartWorker, Claim, LogSession, Stage, ToolUpdate, Spend, Finish, Validate, Fail,
      MarkError, Overrun, Save, Cleanup, LastFlush, Unwind, Shutdown, EnterShutdown, LookForInProgress,
      MarkInterrupted, FlushInterrupted, Handoff, At, Flush, Idle
  <2>3. \A c \in Coro : ~JobBreaks(c)
    BY <1>1, <2>1, BreakMoves DEF Breaking, Idle, Coro
  <2>4. \A w \in Worker : pc'[w] = pc[w]
    BY <1>1, <2>2, <2>3, Moves
    DEF Next, Command, PlanWave, PlanEnds, WaveDone, WaveRaised, LoopCloses, Shutdown, EnterShutdown,
      LookForInProgress, MarkInterrupted, FlushInterrupted, Handoff, At, Flush, RunJob, RunOrphan,
      vars, coroVars
  <2>. QED BY <2>1, <2>4 DEF Idle
<1>2. CASE pc[Main] # "plan"
  <2>1. ASSUME NEW w \in Worker, Work(w) PROVE pc'[Main] = pc[Main]
    BY <2>1, Moves DEF Work, StartWorker, TakeNext, Claim, LogSession, Stage, ToolUpdate, Spend, Finish,
      Validate, Fail, MarkError, Overrun, Save, Cleanup, LastFlush, Unwind, Shutdown, EnterShutdown,
      LookForInProgress, MarkInterrupted, FlushInterrupted, Handoff, AfterShutdown, Flush, coroVars
  <2>2. ~Shutdown(Main)
    BY Moves DEF Shutdown, EnterShutdown, LookForInProgress, MarkInterrupted, FlushInterrupted,
      Handoff, AfterShutdown, Flush, At, coroVars
  <2>3. ASSUME NEW c \in Coro, JobBreaks(c) PROVE FALSE
    <3>1. PICK l : Goto(c, IF c = Main THEN "end" ELSE l)
      BY <2>3, BreakMoves
    <3>2. CASE c = Main
      BY <3>1, <3>2, Moves
    <3>3. CASE c # Main
      BY <1>2, <3>1, <3>3, Moves
    <3>. QED BY <3>2, <3>3
  <2>4. WaveDone
    BY <1>2, <2>1, <2>2, <2>3, Moves DEF Next, Command, PlanWave, PlanEnds, WaveRaised, LoopCloses,
      RunJob, RunOrphan, vars, coroVars
  <2>. QED BY <2>4, Moves DEF WaveDone, Idle
<1>. QED BY <1>1, <1>2

\* While the wave loop runs nobody is cancelled.
LEMMA NoneCancelled ==
  ASSUME TypeInv, CalmInv, [Next]_vars, pc'[Main] \in {"plan", "wave"}
  PROVE  cancelled' = {}
<1>. USE DEF At, Flush
<1>. Standing /\ Main \in Coro /\ Worker \subseteq Coro /\ Main \notin Worker
  BY ExecutorAssumption DEF Coro, TypeInv
<1>1. CASE PlanWave \/ WaveDone
  BY <1>1 DEF PlanWave, WaveDone, CalmInv
<1>2. ~(PlanEnds \/ WaveRaised \/ LoopCloses)
  BY Moves DEF PlanEnds, WaveRaised, LoopCloses
<1>3. ASSUME NEW w \in Worker, Work(w) PROVE cancelled' \subseteq cancelled /\ pc'[Main] = pc[Main]
  BY <1>3, Moves DEF Work, StartWorker, TakeNext, Claim, LogSession, Stage, ToolUpdate, Spend, Finish,
    Validate, Fail, MarkError, Overrun, Save, Cleanup, LastFlush, Unwind, Shutdown, EnterShutdown,
    LookForInProgress, MarkInterrupted, FlushInterrupted, Handoff, AfterShutdown, coroVars
<1>4. ~Shutdown(Main)
  BY Moves DEF Shutdown, EnterShutdown, LookForInProgress, MarkInterrupted, FlushInterrupted,
    Handoff, AfterShutdown, coroVars
<1>5. CASE RunJob \/ RunOrphan \/ UNCHANGED vars
  BY <1>5 DEF RunJob, RunOrphan, vars, coroVars, CalmInv
<1>6. ASSUME NEW c \in Coro, JobBreaks(c) PROVE cancelled' = {}
  BY <1>6, BreakMoves
<1>. QED BY <1>1, <1>2, <1>3, <1>4, <1>5, <1>6 DEF Next, Command, CalmInv

\* The invariant is inductive.
LEMMA CalmInductive == TypeInv /\ CalmInv /\ [Next]_vars => CalmInv'
<1>. SUFFICES ASSUME TypeInv, CalmInv, [Next]_vars PROVE CalmInv'
  OBVIOUS
<1>1. Calm' => Quiet'
  BY CalmBefore, QuietKept DEF CalmInv
<1>. QED BY <1>1, IdleKept, NoneCancelled DEF CalmInv

\* It holds at the start of the command.
LEMMA CalmInit == Init => CalmInv
<1>. SUFFICES ASSUME Init PROVE CalmInv
  OBVIOUS
<1>. Main \in Coro /\ Worker \subseteq Coro /\ Main \notin Worker
  BY ExecutorAssumption DEF Coro
<1>1. pc[Main] = "plan" /\ Idle
  BY DEF Init, Idle
<1>2. /\ rows = [t \in Task |-> rows[t]] /\ loaded = FALSE /\ dirty = FALSE
      /\ lock = NoOne /\ job = R!NoJob
  BY DEF Init, R!Init
<1>3. Registry /\ Holder
  BY <1>2 DEF Registry, Holder, R!NoJob
<1>4. \A t \in Task \ foreign : Seen[t] # "in_progress"
  BY <1>2 DEF Init, Seen, R!View
<1>5. wave = {} /\ queue = <<>> /\ \A w \in Worker : pc[w] \notin Active \cup Saving \cup Late
  BY <1>1 DEF Init, Idle, Active, Unsaved, Running, Saving, Late
<1>6. Share
  BY <1>2, <1>4, <1>5 DEF Share, Hands, InLine, Accounted
<1>. QED BY <1>1, <1>3, <1>5, <1>6 DEF Init, CalmInv, Quiet

\* What holds at every step, whatever runs over or fails.
LEMMA CalmAlways == Spec => [](TypeInv /\ CalmInv)
  BY InitTypes, TypesInductive, CalmInit, CalmInductive, PTL DEF Spec

\* A wave that ends without an exception and without a shutdown has settled
\* every one of its tasks, in memory.md and not only in the cache, however its
\* workers interleaved, whichever sessions and saves failed and whatever an
\* earlier command left; but for a task another task's session has set.
THEOREM SettledAtEnd == Spec => []WaveSettled
<1>1. TypeInv /\ CalmInv => WaveSettled
  <2>. SUFFICES ASSUME TypeInv, CalmInv, pc[Main] = "wave", ~shutFlag, Idle
                PROVE  /\ \A t \in wave \ foreign : rows[t].status \in Settled
                       /\ ~dirty
    BY DEF WaveSettled, Idle, Settled
  <2>1. Quiet
    BY DEF CalmInv, Calm
  <2>2. /\ queue = <<>> /\ ~dirty /\ ~Lost
        /\ \A w \in Worker : pc[w] \notin Active
    BY <2>1 DEF Quiet, Share, Accounted, Lost, Idle, Active, Unsaved, Running, Saving
  <2>3. \A t \in wave \ foreign : t \in Task /\ Seen[t] \in Settled
    BY <2>1, <2>2 DEF Quiet, Share, Accounted, InAccount, TypeInv, TypeOK
  <2>4. \A t \in Task : Seen[t] = rows[t].status
    BY <2>1, <2>2 DEF Quiet, Registry, Seen, R!View
  <2>. QED BY <2>2, <2>3, <2>4
<1>. QED BY <1>1, CalmAlways, PTL

\* Until a shutdown begins, a task in progress is in the hands of exactly one
\* worker, and a task in flight is in no other's reach; the rows an aborted run
\* left in progress, and those another task's session has set, apart.
THEOREM OneWorkerEach == Spec => []InProgressHasWorker
<1>1. TypeInv /\ CalmInv => InProgressHasWorker
  <2>. DEFINE Holders(t) == {w \in Worker : doing[w] = t /\ pc[w] \in {"session", "run", "failing"}}
  <2>. SUFFICES ASSUME TypeInv, CalmInv, Calm, NEW t \in Task
                PROVE  /\ R!View[t].status = "in_progress" /\ t \notin foreign =>
                            Cardinality(Holders(t)) = 1
                       /\ InFlight(t) => ~Contains(queue, t)
    BY DEF InProgressHasWorker, Calm
  <2>1. Share
    BY DEF CalmInv, Quiet
  <2>2. ASSUME R!View[t].status = "in_progress", t \notin foreign
        PROVE  Cardinality(Holders(t)) = 1
    <3>1. Seen[t] = "in_progress"
      BY <2>2 DEF Seen
    <3>2. PICK w \in Worker : pc[w] \in Running /\ doing[w] = t
      BY <2>1, <2>2, <3>1 DEF Share, Accounted
    <3>3. Holders(t) = {w}
      BY <2>1, <3>2 DEF Share, Hands, Active, Unsaved, Running
    <3>. QED BY <3>3, FS_Singleton
  <2>3. InFlight(t) => ~Contains(queue, t)
    BY <2>1 DEF InFlight, Contains, Share, Hands, Active, Unsaved, Running
  <2>. QED BY <2>2, <2>3
<1>. QED BY <1>1, CalmAlways, PTL
-----------------------------------------------------------------------------
(* The command as a client of the registry.  What the executor calls is     *)
(* what TaskRegistry offers its callers, so what that module's proofs say   *)
(* of the registry holds of the command, until a coroutine is cancelled     *)
(* and may leave a thread behind that nobody waits for.                     *)

\* The rows the executor's updates, and those of its sessions, ask for,
Marks ==
  {[status |-> s, owner |-> o, checkpoint |-> NoCheckpoint] :
     s \in R!Status, o \in Owner \cup {NoOwner}}

\* and the operations it calls.
Calls == {"update", "flush", "session", "handoff"}

RP == INSTANCE TaskRegistryProofs WITH
        Entry <- {"session"}, Checkpoint <- {}, Updates <- Marks, Ops <- Calls

\* No coroutine has been cancelled, nor is it about to be.
Steady ==
  cancelled = {} /\ \A w \in Worker : pc[w] \notin {"unwinding", "cancelled"}

\* Each step of the command is a step of the registry or none of its business.
ObeysRegistry == [][Steady => RP!Next \/ UNCHANGED registryVars]_vars

\* It keeps what the registry promises,
PromiseThroughout ==
  [][Steady => RP!Promise!Next \/ UNCHANGED <<RP!View, rows>>]_vars

\* and what follows from that for the cache, memory.md and the updates.
RegistryWhole ==
  Steady => RP!CleanCacheIsDisk /\ RP!FlushWritesWholeCache /\ RP!AckedNotDropped

\* Where a worker has a task it may still update,
AtTask == {"claim", "session", "run", "failing", "save", "saveover"} \cup ShutdownAwait

\* and has one there.
Busy == \A w \in Worker : pc[w] \in AtTask => doing[w] \in Task

ClientInv ==
  /\ Busy
  /\ Steady => orphans = {} /\ RP!IInv /\ RP!AckInv

LEMMA RegistryAssumed == RP!RegistryAssumption
  BY ExecutorAssumption, RowAssumption
  DEF RP!RegistryAssumption, Coro, Marks, Calls, RP!Row, RP!Status, R!Row, R!Status

\* The operations the executor calls are the registry's.
LEMMA MarkIsUpdate ==
  ASSUME NEW c \in Coro, NEW t \in Task, NEW s, NEW o, Mark(c, t, s, o),
         s \in R!Status, o \in Owner \cup {NoOwner}
  PROVE  RP!Next
<1>. DEFINE u == [status |-> s, owner |-> o, checkpoint |-> NoCheckpoint]
<1>1. u \in Marks
  BY DEF Marks
<1>. HIDE DEF u
<1>2. R!UpdateTask(c, t, u)
  BY DEF Mark, u
<1>3. RP!UpdateTask(c, t, u)
  BY <1>2 DEF R!UpdateTask, R!CacheUpdate, R!View, R!Updated, R!fileVars,
              RP!UpdateTask, RP!CacheUpdate, RP!View, RP!Updated, RP!fileVars
<1>. QED BY <1>1, <1>3 DEF RP!Next, RP!Begin, Calls

LEMMA CallsAreOperations ==
  ASSUME NEW c \in Coro
  PROVE  /\ R!FlushClean(c) \/ R!FlushBegin(c) \/ R!FlushEnd(c) => RP!Next
         /\ R!SessionBegin(c, "session") => RP!Next
         /\ R!SessionEnd(c) => RP!Next
         /\ R!HandoffBegin(c) \/ R!HandoffEnd(c) => RP!Next
         /\ R!RunJob => RP!Next
         /\ R!JobFails => RP!Next
<1>1. R!FlushClean(c) => RP!FlushClean(c)
  BY DEF R!FlushClean, R!vars, R!cacheVars, R!fileVars,
         RP!FlushClean, RP!vars, RP!cacheVars, RP!fileVars
<1>. USE DEF R!cacheVars, R!fileVars, R!Start, R!Finish, R!EmptyTable, R!NoJob, R!PendingRow,
             RP!cacheVars, RP!fileVars, RP!Start, RP!Finish, RP!EmptyTable, RP!NoJob, RP!PendingRow
<1>2. R!FlushBegin(c) => RP!FlushBegin(c)
  BY DEF R!FlushBegin, RP!FlushBegin
<1>3. R!FlushEnd(c) => RP!FlushEnd(c)
  BY DEF R!FlushEnd, RP!FlushEnd
<1>4. R!SessionBegin(c, "session") => RP!SessionBegin(c, "session")
  BY DEF R!SessionBegin, RP!SessionBegin
<1>5. R!SessionEnd(c) => RP!SessionEnd(c)
  BY DEF R!SessionEnd, RP!SessionEnd
<1>6. R!HandoffBegin(c) => RP!HandoffBegin(c)
  BY DEF R!HandoffBegin, RP!HandoffBegin
<1>7. R!HandoffEnd(c) => RP!HandoffEnd(c)
  BY DEF R!HandoffEnd, RP!HandoffEnd, R!Invalidate, RP!Invalidate
<1>8. R!RunJob => RP!RunJob
  BY DEF R!RunJob, RP!RunJob, R!JobEffect, RP!JobEffect, R!Merge, RP!Merge
<1>9. R!JobFails => RP!JobFails
  BY DEF R!JobFails, RP!JobFails
<1>. QED BY <1>1, <1>2, <1>3, <1>4, <1>5, <1>6, <1>7, <1>8, <1>9 DEF RP!Next, RP!Begin, RP!End, Calls

\* While no coroutine has been cancelled the command calls nothing else.
LEMMA StepIsCall ==
  ASSUME TypeInv, Busy, Steady, orphans = {}, [Next]_vars
  PROVE  (RP!Next \/ UNCHANGED registryVars) /\ orphans' = {}
<1>. Main \in Coro /\ Worker \subseteq Coro
  BY ExecutorAssumption DEF Coro
<1>. DEFINE Call == (RP!Next \/ UNCHANGED registryVars) /\ orphans' = {}
<1>1. CASE PlanWave \/ PlanEnds \/ WaveDone \/ WaveRaised \/ LoopCloses
  BY <1>1 DEF PlanWave, PlanEnds, WaveDone, WaveRaised, LoopCloses
<1>2. ASSUME NEW c \in Coro, NEW l, NEW step, Flush(c, l, step), UNCHANGED orphans PROVE Call
  BY <1>2, CallsAreOperations DEF Flush
<1>3. ASSUME NEW c \in Coro, Shutdown(c) PROVE Call
  <2>1. CASE EnterShutdown(c) \/ LookForInProgress(c)
    BY <2>1 DEF EnterShutdown, LookForInProgress
  <2>2. CASE MarkInterrupted(c)
    <3>1. PICK t \in toMark : Mark(c, t, "interrupted", NoOwner)
      BY <2>2 DEF MarkInterrupted
    <3>2. t \in Task
      BY <3>1 DEF TypeInv, TypeOK
    <3>. QED BY <2>2, <3>1, <3>2, MarkIsUpdate DEF MarkInterrupted, R!Status
  <2>3. CASE FlushInterrupted(c)
    BY <1>2, <2>3 DEF FlushInterrupted, Flush
  <2>4. CASE Handoff(c)
    BY <2>4, CallsAreOperations DEF Handoff
  <2>. QED BY <1>3, <2>1, <2>2, <2>3, <2>4 DEF Shutdown
<1>4. ASSUME NEW w \in Worker, Work(w) PROVE Call
  <2>0. pc[w] \in {"claim", "run", "failing"} => doing[w] \in Task
    BY DEF Busy, AtTask
  <2>1. CASE StartWorker(w) \/ Spend(w) \/ Fail(w)
    BY <2>1 DEF StartWorker, Spend, Fail
  <2>2. CASE Claim(w) \/ Stage(w) \/ Finish(w) \/ Validate(w) \/ MarkError(w) \/ Overrun(w)
    <3>1. \E s \in {"in_progress", "awaiting-review", "completed", "error", "interrupted"},
            o \in Owner \cup {NoOwner} : Mark(w, doing[w], s, o)
      BY <2>2 DEF Claim, Stage, Finish, Validate, MarkError, Overrun, MarkOwn
    <3>2. pc[w] \in {"claim", "run", "failing"} /\ UNCHANGED orphans
      BY <2>2 DEF Claim, Stage, Finish, Validate, MarkError, Overrun, At
    <3>. QED BY <2>0, <3>1, <3>2, MarkIsUpdate DEF R!Status
  <2>3. CASE ToolUpdate(w)
    <3>1. PICK t \in Task, s \in ToolStatus : Mark(w, t, s, NoOwner)
      BY <2>3 DEF ToolUpdate
    <3>. QED BY <2>3, <3>1, MarkIsUpdate, RowAssumption DEF ToolUpdate
  <2>4. CASE LogSession(w)
    BY <2>4, CallsAreOperations DEF LogSession
  <2>5. CASE Save(w) \/ Cleanup(w) \/ LastFlush(w)
    BY <1>2, <2>5 DEF Save, Cleanup, LastFlush, Flush
  <2>6. CASE Unwind(w)
    BY <2>6 DEF Unwind, Steady
  <2>. QED BY <1>3, <1>4, <2>1, <2>2, <2>3, <2>4, <2>5, <2>6 DEF Work
<1>5. CASE RunJob
  BY <1>5, CallsAreOperations DEF RunJob
<1>6. CASE RunOrphan \/ UNCHANGED vars
  BY <1>6 DEF RunOrphan, vars
<1>7. ASSUME NEW c \in Coro, JobBreaks(c) PROVE Call
  BY <1>7, BreakMoves, CallsAreOperations
<1>. QED BY <1>1, <1>3, <1>4, <1>5, <1>6, <1>7 DEF Next, Command

\* A cancelled coroutine stays cancelled.
LEMMA SteadyBefore ==
  ASSUME TypeInv, pc[Main] = "plan" => Idle, [Next]_vars, Steady'
  PROVE  Steady
<1>. DEFINE Gone == {"unwinding", "cancelled"}
<1>. USE DEF At, Flush
<1>. Standing /\ Main \in Coro /\ Worker \subseteq Coro /\ Main \notin Worker
  BY ExecutorAssumption DEF Coro, TypeInv
<1>. SUFFICES ASSUME NEW v \in Worker, v \in cancelled \/ pc[v] \in Gone
              PROVE  v \in cancelled' \/ pc'[v] \in Gone
  BY DEF Steady, TypeInv, TypeOK
<1>1. CASE PlanWave
  BY <1>1 DEF PlanWave, Idle
<1>2. CASE PlanEnds \/ WaveDone \/ WaveRaised \/ LoopCloses
  BY <1>2, Moves DEF PlanEnds, WaveDone, WaveRaised, LoopCloses
<1>3. ASSUME NEW c \in Coro, Shutdown(c) PROVE v \in cancelled' \/ pc'[v] \in Gone
  BY <1>3, Moves
  DEF Shutdown, EnterShutdown, LookForInProgress, MarkInterrupted, FlushInterrupted, Handoff,
    AfterShutdown, coroVars
<1>4. ASSUME NEW w \in Worker, TakeNext(w), pc[w] \in {"born", "cleanup"}
      PROVE  v \in cancelled' \/ pc'[v] \in Gone
  BY <1>4, Moves DEF TakeNext
<1>5. ASSUME NEW w \in Worker,
             StartWorker(w) \/ Claim(w) \/ LogSession(w) \/ Stage(w) \/ ToolUpdate(w) \/ Spend(w)
               \/ Finish(w) \/ Validate(w) \/ Fail(w) \/ MarkError(w) \/ Overrun(w)
      PROVE  v \in cancelled' \/ pc'[v] \in Gone
  BY <1>4, <1>5, Moves DEF StartWorker, Claim, LogSession, Stage, ToolUpdate, Spend, Finish, Validate,
    Fail, MarkError, Overrun, coroVars
<1>6. ASSUME NEW w \in Worker, Save(w) \/ Cleanup(w) \/ LastFlush(w) \/ Unwind(w)
      PROVE  v \in cancelled' \/ pc'[v] \in Gone
  BY <1>4, <1>6, Moves DEF Save, Cleanup, LastFlush, Unwind, coroVars
<1>7. CASE RunJob \/ RunOrphan \/ UNCHANGED vars
  BY <1>7 DEF RunJob, RunOrphan, vars, coroVars
<1>8. ASSUME NEW c \in Coro, JobBreaks(c) PROVE v \in cancelled' \/ pc'[v] \in Gone
  <2>1. PICK l \in Breaking : pc[c] = l /\ Goto(c, IF c = Main THEN "end" ELSE OnFailure[l])
    BY <1>8, BreakMoves
  <2>2. c = v => l = "unwinding" \/ v \in cancelled
    BY <2>1 DEF Breaking
  <2>3. pc'[v] = IF c = v THEN OnFailure[l] ELSE pc[v]
    BY <2>1, Moves
  <2>. QED BY <1>8, <2>2, <2>3, BreakMoves, FailurePlaces
<1>. QED BY <1>1, <1>2, <1>3, <1>5, <1>6, <1>7, <1>8 DEF Next, Command, Work, Coro

\* A worker at a task has one, from the moment it takes it.
LEMMA BusyKept == TypeInv /\ Busy /\ [Next]_vars => Busy'
<1>. SUFFICES ASSUME TypeInv, Busy, [Next]_vars PROVE Busy'
  OBVIOUS
<1>. USE DEF At, Flush, Busy, AtTask, ShutdownAwait
<1>. Standing /\ Main \in Coro /\ Worker \subseteq Coro /\ Main \notin Worker
  BY ExecutorAssumption DEF Coro, TypeInv
<1>0. doing = [c \in Coro |-> doing[c]]
  BY DEF TypeInv, TypeOK
<1>1. CASE PlanWave
  BY <1>1 DEF PlanWave
<1>2. CASE PlanEnds \/ WaveDone \/ WaveRaised \/ LoopCloses
  BY <1>2, Moves DEF PlanEnds, WaveDone, WaveRaised, LoopCloses
<1>3. ASSUME NEW c \in Coro, Shutdown(c) PROVE Busy'
  BY <1>3, Moves
  DEF Shutdown, EnterShutdown, LookForInProgress, MarkInterrupted, FlushInterrupted, Handoff,
    AfterShutdown, coroVars
<1>4. ASSUME NEW w \in Worker, TakeNext(w) PROVE Busy'
  <2>1. queue # <<>> => Head(queue) \in Task
    BY QueueType DEF TypeInv, TypeOK
  <2>2. \A v \in Worker : v # w => doing'[v] = doing[v]
    BY <1>0, <1>4 DEF TakeNext
  <2>3. ASSUME NEW l, Goto(w, l), l \in AtTask => doing'[w] \in Task
        PROVE  Busy'
    BY <2>2, <2>3, Moves
  <2>4. CASE queue = <<>> \/ spent
    <3>1. Goto(w, "ended") \/ Goto(w, "raised")
      BY <1>4, <2>4 DEF TakeNext
    <3>. QED BY <2>3, <3>1
  <2>5. CASE queue # <<>> /\ ~spent
    <3>1. Goto(w, "claim") /\ doing' = [doing EXCEPT ![w] = Head(queue)]
      BY <1>4, <2>5 DEF TakeNext
    <3>2. doing'[w] \in Task
      BY <1>0, <2>1, <2>5, <3>1
    <3>. QED BY <2>3, <3>1, <3>2
  <2>. QED BY <2>4, <2>5
<1>5. ASSUME NEW w \in Worker,
             StartWorker(w) \/ Claim(w) \/ LogSession(w) \/ Stage(w) \/ ToolUpdate(w) \/ Spend(w)
               \/ Finish(w) \/ Validate(w) \/ Fail(w) \/ MarkError(w) \/ Overrun(w)
      PROVE  Busy'
  BY <1>4, <1>5, Moves DEF StartWorker, Claim, LogSession, Stage, ToolUpdate, Spend, Finish, Validate,
    Fail, MarkError, Overrun, coroVars
<1>6. ASSUME NEW w \in Worker, Save(w) \/ Cleanup(w) \/ LastFlush(w) \/ Unwind(w)
      PROVE  Busy'
  BY <1>4, <1>6, Moves DEF Save, Cleanup, LastFlush, Unwind, coroVars
<1>7. CASE RunJob \/ RunOrphan \/ UNCHANGED vars
  BY <1>7 DEF RunJob, RunOrphan, vars, coroVars
<1>8. ASSUME NEW c \in Coro, JobBreaks(c) PROVE Busy'
  <2>1. PICK l \in Breaking : pc[c] = l /\ Goto(c, IF c = Main THEN "end" ELSE OnFailure[l])
    BY <1>8, BreakMoves
  <2>2. UNCHANGED doing /\ \A v \in Worker : pc'[v] = IF c = v THEN OnFailure[l] ELSE pc[v]
    BY <1>8, <2>1, BreakMoves, Moves
  <2>3. OnFailure[l] \in AtTask => l \in AtTask
    BY FailurePlaces DEF Breaking
  <2>. QED BY <2>1, <2>2, <2>3
<1>. QED BY <1>1, <1>2, <1>3, <1>5, <1>6, <1>7, <1>8 DEF Next, Command, Work, Coro

LEMMA ClientInit == Init => ClientInv
<1>. SUFFICES ASSUME Init PROVE ClientInv
  OBVIOUS
<1>1. RP!Init
  BY DEF Init, R!Init, RP!Init, R!PendingRow, RP!PendingRow, R!NoJob, RP!NoJob,
         R!EmptyTable, RP!EmptyTable
<1>2. RP!IInv /\ RP!AckInv
  BY <1>1, RegistryAssumed, RP!InitIInv, RP!InitAckInv
<1>3. Busy
  BY ExecutorAssumption DEF Init, Busy, AtTask, ShutdownAwait, Coro
<1>. QED BY <1>2, <1>3 DEF ClientInv, Init

LEMMA ClientInductive == TypeInv /\ CalmInv /\ ClientInv /\ [Next]_vars => ClientInv'
<1>. SUFFICES ASSUME TypeInv, CalmInv, ClientInv, [Next]_vars, Steady'
              PROVE  orphans' = {} /\ RP!IInv' /\ RP!AckInv'
  BY BusyKept DEF ClientInv
<1>1. Steady
  BY SteadyBefore DEF CalmInv
<1>2. (RP!Next \/ UNCHANGED registryVars) /\ orphans' = {}
  BY <1>1, StepIsCall DEF ClientInv
<1>3. [RP!Next]_(RP!vars)
  BY <1>2 DEF RP!vars, registryVars
<1>. QED BY <1>1, <1>2, <1>3, RegistryAssumed, RP!NextIInv, RP!NextAckInv DEF ClientInv

LEMMA ClientAlways == Spec => [](TypeInv /\ CalmInv /\ ClientInv)
  BY InitTypes, TypesInductive, CalmInit, CalmInductive, ClientInit, ClientInductive, PTL DEF Spec

\* Until a coroutine is cancelled, every step of the execute command is a step
\* of the registry's own specification, for any tasks, workers and
\* dependencies: however its workers interleave, the command is a client the
\* registry's proofs speak of (state.py:385-446, 1082-1107, executor.py:246-311).
THEOREM CommandObeysRegistry == Spec => ObeysRegistry
<1>1. TypeInv /\ CalmInv /\ ClientInv /\ [Next]_vars
        => [Steady => RP!Next \/ UNCHANGED registryVars]_vars
  BY StepIsCall DEF ClientInv
<1>. QED BY <1>1, ClientAlways, PTL DEF Spec, ObeysRegistry

\* So it keeps the registry's promise: memory.md changes only by taking over
\* all that the process sees, and the process sees nothing else than its own
\* updates and memory.md.
THEOREM CommandKeepsPromise == Spec => PromiseThroughout
<1>1. TypeInv /\ CalmInv /\ ClientInv /\ [Next]_vars
        => [Steady => RP!Promise!Next \/ UNCHANGED <<RP!View, rows>>]_vars
  <2>. SUFFICES ASSUME TypeInv, CalmInv, ClientInv, [Next]_vars, Steady
                PROVE  RP!Promise!Next \/ UNCHANGED <<RP!View, rows>>
    OBVIOUS
  <2>1. [RP!Next]_(RP!vars)
    BY StepIsCall DEF ClientInv, RP!vars, registryVars
  <2>. QED BY <2>1, RegistryAssumed, RP!StepKeepsPromise DEF ClientInv
<1>. QED BY <1>1, ClientAlways, PTL DEF Spec, PromiseThroughout

\* And between two operations a clean cache is memory.md, a flush has written
\* the whole cache, and what a flush has written of any worker's updates is in
\* memory.md still.  An update no flush has written waits in the dirty cache,
\* unless a handoff summary threw it away: the shutdown of a worker that ran
\* over does that to its siblings' (state.py:1082-1094).
THEOREM CommandKeepsRegistry == Spec => []RegistryWhole
<1>1. ClientInv => RegistryWhole
  BY RegistryAssumed, RP!CacheAndFile, RP!AckInvSuffices DEF ClientInv, RegistryWhole
<1>. QED BY <1>1, ClientAlways, PTL
=============================================================================

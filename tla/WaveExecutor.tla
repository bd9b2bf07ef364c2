---------------------------- MODULE WaveExecutor ----------------------------
(***************************************************************************)
(* The execute command: the wave loop and its worker coroutines            *)
(* (core/executor.py), one task's life (core/task_executor.py) and the     *)
(* graceful shutdown (core/orchestrator.py), all of them on the task       *)
(* registry of TaskRegistry.                                               *)
(*                                                                         *)
(* A coroutine runs alone between two awaits, so one action reaches from   *)
(* one await to the next.  What a worker thread does (RunJob) and what     *)
(* other coroutines do happens in between.                                 *)
(***************************************************************************)
EXTENDS Naturals, Sequences, SequencesExt, FiniteSets

CONSTANTS
  Task,        \* the registered tasks
  Deps,        \* [Task -> SUBSET Task], the Depends cells
  Validation,  \* the tasks of type validation; the others are change tasks
  MayFail,     \* tasks whose execution may raise an Exception
  MayOverrun,  \* whether the token budget may be used up
  ToolStatus,  \* statuses a session sets by update_task_registry_row
  Faults,      \* {"io"} if writing memory.md may fail, {} if not
  Former,      \* rows earlier commands may have left in memory.md
  Worker,      \* the workers of the wave, w0, w1, ...
  Main,        \* the coroutine of the command itself
  NoOne,       \* "no coroutine" and "no task"
  Owner, NoOwner, NoCheckpoint

Coro == Worker \cup {Main}

ASSUME ExecutorAssumption ==
  /\ IsFiniteSet(Task) /\ IsFiniteSet(Worker) /\ Worker # {}
  /\ Deps \in [Task -> SUBSET Task]
  /\ Validation \subseteq Task /\ MayFail \subseteq Task
  /\ MayOverrun \in BOOLEAN
  /\ Faults \subseteq {"io"}
  /\ Main \notin Worker
  /\ NoOne \notin Coro \cup Task

VARIABLES
  loaded, cache, dirty, rows, log, lock, job, acked,  \* TaskRegistry
  foreign,    \* history: tasks whose row was last set by somebody they were
              \* not given to: left in progress by an aborted run, set by
              \* another task's session, or by a shutdown
  orphans,    \* jobs whose coroutine was cancelled while a thread ran them
  pc,         \* the await each coroutine stands at
  doing,      \* the task each coroutine works on
  cancelled,  \* coroutines with a CancelledError on its way
  queue,      \* the wave's asyncio.Queue
  wave,       \* the tasks of the wave
  spent,      \* estimated_tokens >= shutdown_threshold
  shutLock,   \* holder of _shutdown_lock
  shutFlag,   \* _is_shutting_down
  toMark      \* tasks the shutdown has still to mark interrupted

registryVars == <<loaded, cache, dirty, rows, log, lock, job, acked>>
waveVars == <<queue, wave, spent>>
shutVars == <<shutLock, shutFlag, toMark>>
coroVars == <<pc, doing, cancelled>>
vars == <<registryVars, foreign, orphans, coroVars, waveVars, shutVars>>

\* The rows of the Session Log are not told apart here.  Staging adds rows to
\* other tables; module DiffGate follows those.
R == INSTANCE TaskRegistry WITH
       Entry <- {"session"}, Checkpoint <- {}, Updates <- {}, Ops <- {}

ASSUME RowAssumption == Former \subseteq R!Row /\ ToolStatus \subseteq R!Status

Init ==
  /\ R!Init
  /\ DOMAIN rows = Task
  /\ foreign = {t \in Task : rows[t].status = "in_progress"}
  /\ orphans = {}
  /\ pc = [c \in Coro |-> IF c = Main THEN "plan" ELSE "unborn"]
  /\ doing = [c \in Coro |-> NoOne]
  /\ cancelled = {}
  /\ queue = <<>> /\ wave = {} /\ spent = FALSE
  /\ shutLock = NoOne /\ shutFlag = FALSE /\ toMark = {}
-----------------------------------------------------------------------------
Goto(c, l) == pc' = [pc EXCEPT ![c] = l]

\* c stands at await l and may resume normally.  The event loop runs what is
\* ready in order, so workers just created and coroutines just cancelled come
\* before whatever has to wait once more.
At(c, l) ==
  /\ pc[c] = l
  /\ cancelled = {}
  /\ l = "born" \/ \A w \in Worker : pc[w] # "born"

\* update_task_registry_row by c, without a checkpoint.
Mark(c, t, s, o) ==
  R!UpdateTask(c, t, [status |-> s, owner |-> o, checkpoint |-> NoCheckpoint])

\* The update of the task w works on, by w itself.
MarkOwn(w, s, o) == Mark(w, doing[w], s, o) /\ foreign' = foreign \ {doing[w]}

\* flush_task_registry at l, and on to where step goes.
Flush(c, l, step) ==
  /\ At(c, l)
  /\ UNCHANGED <<foreign, orphans>>
  /\ \/ R!FlushClean(c) /\ step
     \/ R!FlushBegin(c) /\ UNCHANGED <<coroVars, waveVars, shutVars>>
     \/ R!FlushEnd(c) /\ step
-----------------------------------------------------------------------------
(* The wave loop.                                                          *)

StatusOf(s) == {t \in Task : rows[t].status \in s}

Waiting == StatusOf({"pending", "error"})

Completed == StatusOf({"completed"})

\* The planner's first wave.  Conflicts over files are WavePlanner's matter:
\* here every task writes files of its own.
FirstWave == {t \in Waiting : Deps[t] \subseteq Completed}

\* DependencyGraphError: some waiting tasks cannot be scheduled, even after
\* all the others.
Unschedulable ==
  \E S \in SUBSET Waiting :
    S # {} /\ \A t \in S : ~(Deps[t] \subseteq Completed \cup (Waiting \ S))

\* get_pending_waves, then the queue and the workers of waves[0].
PlanWave ==
  /\ At(Main, "plan") /\ lock = NoOne
  /\ Waiting # {} /\ ~Unschedulable
  /\ wave' = FirstWave
  /\ queue' \in SetToSeqs(FirstWave)
  /\ \E W \in SUBSET Worker :
       /\ Cardinality(W) = IF Cardinality(Worker) < Cardinality(FirstWave)
                           THEN Cardinality(Worker) ELSE Cardinality(FirstWave)
       /\ pc' = [c \in Coro |-> IF c = Main THEN "wave"
                                ELSE IF c \in W THEN "born" ELSE "unborn"]
  /\ UNCHANGED <<registryVars, foreign, orphans, doing, cancelled, spent, shutVars>>

\* No wave is left, or DependencyGraphError ends the command.
PlanEnds ==
  /\ At(Main, "plan") /\ lock = NoOne
  /\ Waiting = {} \/ Unschedulable
  /\ Goto(Main, "end")
  /\ UNCHANGED <<registryVars, foreign, orphans, doing, cancelled, waveVars, shutVars>>

\* asyncio.wait returns: every worker has ended normally.  The review that
\* follows leaves the registry alone (see module DiffGate).
WaveDone ==
  /\ At(Main, "wave")
  /\ \A w \in Worker : pc[w] \in {"unborn", "ended"}
  /\ Goto(Main, "plan")
  /\ UNCHANGED <<registryVars, foreign, orphans, doing, cancelled, waveVars, shutVars>>

Alive(c) == pc[c] \notin {"unborn", "ended", "raised", "broken", "cancelled"}

\* FIRST_EXCEPTION: the other workers are cancelled, not awaited.  On a
\* BudgetExhaustedException the shutdown begins; any other exception leaves
\* execute_pending_waves and ends the command.
WaveRaised ==
  /\ At(Main, "wave")
  /\ \/ (\E w \in Worker : pc[w] = "raised") /\ Goto(Main, "shut")
     \/ (\E w \in Worker : pc[w] = "broken") /\ Goto(Main, "end")
  /\ cancelled' = {w \in Worker : Alive(w)}
  /\ UNCHANGED <<registryVars, foreign, orphans, doing, waveVars, shutVars>>

\* The command returns; asyncio.run cancels what still runs and waits for it.
LoopCloses ==
  /\ At(Main, "end")
  /\ cancelled' = cancelled \cup {w \in Worker : Alive(w)}
  /\ Goto(Main, "closed")
  /\ UNCHANGED <<registryVars, foreign, orphans, doing, waveVars, shutVars>>
-----------------------------------------------------------------------------
(* A worker and its task.                                                  *)

\* The head of the worker's loop: the queue is empty; the budget is gone, and
\* the queue is drained; or the next task is taken.
TakeNext(w) ==
  /\ UNCHANGED <<cancelled, wave, spent, shutVars>>
  /\ \/ /\ queue = <<>>
        /\ Goto(w, "ended") /\ doing' = [doing EXCEPT ![w] = NoOne]
        /\ UNCHANGED queue
     \/ /\ queue # <<>> /\ spent
        /\ Goto(w, "raised") /\ doing' = [doing EXCEPT ![w] = NoOne]
        /\ queue' = <<>>
     \/ /\ queue # <<>> /\ ~spent
        /\ Goto(w, "claim") /\ doing' = [doing EXCEPT ![w] = Head(queue)]
        /\ queue' = Tail(queue)

StartWorker(w) ==
  /\ At(w, "born")
  /\ TakeNext(w)
  /\ UNCHANGED <<registryVars, foreign, orphans>>

Claim(w) ==
  /\ At(w, "claim")
  /\ \E o \in Owner : MarkOwn(w, "in_progress", o)
  /\ Goto(w, "session")
  /\ UNCHANGED <<orphans, doing, cancelled, waveVars, shutVars>>

LogSession(w) ==
  /\ At(w, "session")
  /\ \/ R!SessionBegin(w, "session") /\ UNCHANGED pc
     \/ R!SessionEnd(w) /\ Goto(w, "run")
  /\ UNCHANGED <<foreign, orphans, doing, cancelled, waveVars, shutVars>>

\* The model stages a file: write_file_with_review clears the owner.
Stage(w) ==
  /\ At(w, "run") /\ doing[w] \notin Validation
  /\ MarkOwn(w, "in_progress", NoOwner)
  /\ UNCHANGED <<orphans, coroVars, waveVars, shutVars>>

\* The model calls update_task_registry_row: any task, its own or not.
ToolUpdate(w) ==
  /\ At(w, "run") /\ doing[w] \notin Validation
  /\ \E t \in Task, s \in ToolStatus :
       /\ Mark(w, t, s, NoOwner)
       /\ foreign' = IF t = doing[w] THEN foreign \ {t} ELSE foreign \cup {t}
  /\ UNCHANGED <<orphans, coroVars, waveVars, shutVars>>

\* A model call's tokens are counted, and reach the threshold.
Spend(w) ==
  /\ MayOverrun /\ ~spent
  /\ At(w, "run") /\ doing[w] \notin Validation
  /\ spent' = TRUE
  /\ UNCHANGED <<registryVars, foreign, orphans, coroVars, queue, wave, shutVars>>

\* Mutated form: a staged task is not marked for review.
Finish_NoMark(w) ==
  /\ At(w, "run") /\ doing[w] \notin Validation /\ ~spent
  /\ lock = NoOne
  /\ Goto(w, "save")
  /\ UNCHANGED <<registryVars, foreign, orphans, doing, cancelled, waveVars, shutVars>>

\* The tool loop of a change task ends within the budget.
Finish(w) ==
  /\ At(w, "run") /\ doing[w] \notin Validation /\ ~spent
  /\ MarkOwn(w, "awaiting-review", NoOwner)
  /\ Goto(w, "save")
  /\ UNCHANGED <<orphans, doing, cancelled, waveVars, shutVars>>

\* The test run of a validation task succeeds.
Validate(w) ==
  /\ At(w, "run") /\ doing[w] \in Validation
  /\ \E o \in Owner : MarkOwn(w, "completed", o)
  /\ Goto(w, "cleanup")
  /\ UNCHANGED <<orphans, doing, cancelled, waveVars, shutVars>>

\* Any other exception, from the sandbox's start, a provider or the tests.
Fail(w) ==
  /\ At(w, "claim") \/ At(w, "run")
  /\ doing[w] \in MayFail
  /\ Goto(w, "failing")
  /\ UNCHANGED <<registryVars, foreign, orphans, doing, cancelled, waveVars, shutVars>>

\* Mutated form: a failed task is left as it is.
MarkError_NoMark(w) ==
  /\ At(w, "failing") /\ lock = NoOne
  /\ Goto(w, "saveerror")
  /\ UNCHANGED <<registryVars, foreign, orphans, doing, cancelled, waveVars, shutVars>>

\* The worker's `except Exception`.
MarkError(w) ==
  /\ At(w, "failing")
  /\ MarkOwn(w, "error", NoOwner)
  /\ Goto(w, "saveerror")
  /\ UNCHANGED <<orphans, doing, cancelled, waveVars, shutVars>>

\* check_and_harvest raises inside or after the tool loop.
Overrun(w) ==
  /\ At(w, "run") /\ doing[w] \notin Validation /\ spent
  /\ MarkOwn(w, "interrupted", NoOwner)
  /\ Goto(w, "saveover")
  /\ UNCHANGED <<orphans, doing, cancelled, waveVars, shutVars>>

\* The flushes behind "awaiting-review" and "error", and behind "interrupted".
Save(w) ==
  \/ Flush(w, "save", Goto(w, "cleanup") /\ UNCHANGED <<doing, cancelled, waveVars, shutVars>>)
  \/ Flush(w, "saveerror", Goto(w, "cleanup") /\ UNCHANGED <<doing, cancelled, waveVars, shutVars>>)
  \/ Flush(w, "saveover", Goto(w, "shut") /\ UNCHANGED <<doing, cancelled, waveVars, shutVars>>)

\* Mutated form: the finally block does not flush.
Cleanup_NoFlush(w) ==
  /\ At(w, "cleanup")
  /\ TakeNext(w)
  /\ UNCHANGED <<registryVars, foreign, orphans>>

\* The finally block's flush, and the head of the loop.
Cleanup(w) == Flush(w, "cleanup", TakeNext(w))

\* The same flush while an exception is on its way out.
LastFlush(w) ==
  \/ Flush(w, "raising", Goto(w, "raised") /\ UNCHANGED <<doing, cancelled, waveVars, shutVars>>)
  \/ Flush(w, "breaking", Goto(w, "broken") /\ UNCHANGED <<doing, cancelled, waveVars, shutVars>>)
  \/ Flush(w, "unwinding", Goto(w, "cancelled") /\ UNCHANGED <<doing, cancelled, waveVars, shutVars>>)

\* Where a worker goes on whose thread could not write memory.md: a Session
\* Log row is given up silently, a flush or handoff under the worker's try ends
\* in its `except Exception`, one outside takes the worker down.
OnFailure ==
  [session |-> "run",
   save |-> "failing", saveover |-> "failing", mark |-> "failing", handoff |-> "failing",
   saveerror |-> "breaking",
   cleanup |-> "broken", raising |-> "broken", breaking |-> "broken",
   unwinding |-> "cancelled"]

\* Mutated form: the shutdown lock outlives a failing shutdown.
JobBreaks_KeepLock(c) ==
  /\ \E l \in DOMAIN OnFailure :
       At(c, l) /\ Goto(c, IF c = Main THEN "end" ELSE OnFailure[l])
  /\ lock = c /\ R!JobFails
  /\ UNCHANGED <<foreign, orphans, doing, cancelled, waveVars, shutVars>>

\* The thread c waits for fails, and c goes on with the exception.
JobBreaks(c) ==
  /\ \E l \in DOMAIN OnFailure :
       At(c, l) /\ Goto(c, IF c = Main THEN "end" ELSE OnFailure[l])
  /\ lock = c /\ R!JobFails
  /\ IF shutLock = c THEN shutLock' = NoOne /\ toMark' = {}
                     ELSE UNCHANGED <<shutLock, toMark>>
  /\ UNCHANGED <<foreign, orphans, doing, cancelled, waveVars, shutFlag>>

\* Mutated form: the shutdown lock is not released on the way out.
Unwind_KeepLock(w) ==
  /\ w \in cancelled
  /\ cancelled' = cancelled \ {w}
  /\ IF lock = w
     THEN /\ R!Finish
          /\ orphans' = IF job.ran THEN orphans ELSE orphans \cup {job}
     ELSE UNCHANGED <<lock, job, orphans>>
  /\ Goto(w, IF pc[w] \in {"born", "cleanup", "raising", "breaking", "unwinding"}
             THEN "cancelled" ELSE "unwinding")
  /\ UNCHANGED <<loaded, cache, dirty, rows, log, acked, foreign, doing,
                 waveVars, shutVars>>

\* CancelledError: locks are released on the way out while a thread the
\* coroutine waited for goes on; then the finally block, unless it was there
\* already or the task was never begun.
Unwind(w) ==
  /\ w \in cancelled
  /\ cancelled' = cancelled \ {w}
  /\ IF lock = w
     THEN /\ R!Finish
          /\ orphans' = IF job.ran THEN orphans ELSE orphans \cup {job}
     ELSE UNCHANGED <<lock, job, orphans>>
  /\ IF shutLock = w THEN shutLock' = NoOne /\ toMark' = {}
                     ELSE UNCHANGED <<shutLock, toMark>>
  /\ Goto(w, IF pc[w] \in {"born", "cleanup", "raising", "breaking", "unwinding"}
             THEN "cancelled" ELSE "unwinding")
  /\ UNCHANGED <<loaded, cache, dirty, rows, log, acked, foreign, doing,
                 waveVars, shutFlag>>
-----------------------------------------------------------------------------
(* _graceful_shutdown, by the worker that ran over or by the command.       *)

\* Mutated form: the worker's exception ends in its shutdown.
AfterShutdown_Swallow(c) == Goto(c, "end") /\ UNCHANGED queue

\* Mutated form: the queue is not drained before the exception is raised on.
AfterShutdown_NoDrain(c) ==
  Goto(c, IF c = Main THEN "end" ELSE "raising") /\ UNCHANGED queue

\* Past the shutdown: a worker raises on, draining the queue; the command ends.
AfterShutdown(c) ==
  IF c = Main THEN Goto(c, "end") /\ UNCHANGED queue
              ELSE Goto(c, "raising") /\ queue' = <<>>

EnterShutdown(c) ==
  /\ At(c, "shut") /\ shutLock = NoOne
  /\ IF shutFlag THEN AfterShutdown(c) /\ UNCHANGED <<shutLock, shutFlag>>
     ELSE Goto(c, "look") /\ shutLock' = c /\ shutFlag' = TRUE /\ UNCHANGED queue
  /\ UNCHANGED <<registryVars, foreign, orphans, doing, cancelled, wave, spent, toMark>>

\* get_tasks reads memory.md, not the cache.
LookForInProgress(c) ==
  /\ At(c, "look") /\ lock = NoOne
  /\ toMark' = StatusOf({"in_progress"})
  /\ Goto(c, "mark")
  /\ UNCHANGED <<registryVars, foreign, orphans, doing, cancelled, waveVars, shutLock, shutFlag>>

MarkInterrupted(c) ==
  /\ At(c, "mark")
  /\ \E t \in toMark : /\ Mark(c, t, "interrupted", NoOwner)
                       /\ foreign' = foreign \cup {t}
                       /\ toMark' = toMark \ {t}
  /\ UNCHANGED <<orphans, coroVars, waveVars, shutLock, shutFlag>>

FlushInterrupted(c) ==
  /\ toMark = {}
  /\ Flush(c, "mark", Goto(c, "handoff") /\ UNCHANGED <<doing, cancelled, waveVars, shutVars>>)

\* append_handoff_summary, the end of the shutdown.
Handoff(c) ==
  /\ At(c, "handoff")
  /\ \/ R!HandoffBegin(c) /\ UNCHANGED <<pc, queue, shutLock>>
     \/ R!HandoffEnd(c) /\ AfterShutdown(c) /\ shutLock' = NoOne
  /\ UNCHANGED <<foreign, orphans, doing, cancelled, wave, spent, shutFlag, toMark>>

Shutdown(c) ==
  \/ EnterShutdown(c)
  \/ LookForInProgress(c)
  \/ MarkInterrupted(c)
  \/ FlushInterrupted(c)
  \/ Handoff(c)
-----------------------------------------------------------------------------
(* Threads.                                                                *)

RunJob == R!RunJob /\ UNCHANGED <<foreign, orphans, coroVars, waveVars, shutVars>>

\* A thread nobody waits for any more.  A flush reads the cache as it is by
\* then, and fails if there is none; any thread may fail to write.
RunOrphan ==
  \E j \in orphans :
    /\ orphans' = orphans \ {j}
    /\ \/ (j.kind = "flush" => loaded) /\ R!JobEffect(j)
       \/ /\ (j.kind = "flush" /\ ~loaded) \/ "io" \in Faults
          /\ UNCHANGED <<rows, log>>
    /\ UNCHANGED <<loaded, cache, dirty, lock, job, acked, foreign,
                   coroVars, waveVars, shutVars>>

Work(w) ==
  \/ StartWorker(w) \/ Claim(w) \/ LogSession(w) \/ Stage(w) \/ ToolUpdate(w)
  \/ Spend(w) \/ Finish(w) \/ Validate(w) \/ Fail(w) \/ MarkError(w)
  \/ Overrun(w) \/ Save(w) \/ Cleanup(w) \/ LastFlush(w) \/ Unwind(w)
  \/ Shutdown(w)

Command ==
  PlanWave \/ PlanEnds \/ WaveDone \/ WaveRaised \/ LoopCloses \/ Shutdown(Main)

Next ==
  \/ Command
  \/ \E w \in Worker : Work(w)
  \/ \E c \in Coro : JobBreaks(c)
  \/ RunJob
  \/ RunOrphan

Spec == Init /\ [][Next]_vars

\* Steps that bring a worker on.  Staging, updating and spending may repeat,
\* but max_iterations ends the tool loop.
Progress(w) ==
  \/ StartWorker(w) \/ Claim(w) \/ LogSession(w)
  \/ Finish(w) \/ Validate(w) \/ Fail(w) \/ MarkError(w) \/ Overrun(w)
  \/ Save(w) \/ Cleanup(w) \/ LastFlush(w) \/ Unwind(w) \/ Shutdown(w)

\* asyncio runs every ready coroutine and asyncio.Lock serves its waiters in
\* order, so a coroutine that finds the locks free again and again gets them;
\* threads run on.
Fairness ==
  /\ WF_vars(RunJob) /\ WF_vars(RunOrphan)
  /\ SF_vars(Command)
  /\ \A w \in Worker : SF_vars(Progress(w))

FairSpec == Spec /\ Fairness
-----------------------------------------------------------------------------
ShutdownAwait == {"shut", "look", "mark", "handoff"}

CommandAwait == {"plan", "wave", "end", "closed"} \cup ShutdownAwait

WorkerAwait == {"unborn", "born", "claim", "session", "run", "failing", "save",
                "saveerror", "saveover", "cleanup", "raising", "breaking",
                "unwinding", "ended", "raised", "broken", "cancelled"}
               \cup ShutdownAwait

TypeOK ==
  /\ DOMAIN pc = Coro
  /\ pc[Main] \in CommandAwait
  /\ \A w \in Worker : pc[w] \in WorkerAwait
  /\ doing \in [Coro -> Task \cup {NoOne}]
  /\ cancelled \subseteq Worker
  /\ queue \in BoundedSeq(Task, Cardinality(Task))
  /\ wave \subseteq Task /\ toMark \subseteq Task
  /\ spent \in BOOLEAN /\ shutFlag \in BOOLEAN
  /\ shutLock \in Coro \cup {NoOne}
  /\ DOMAIN rows = Task /\ foreign \subseteq Task

InFlight(t) ==
  \E w \in Worker : doing[w] = t /\ pc[w] \in {"claim", "session", "run"}

\* A wave that ends without an exception, and without a shutdown having begun,
\* leaves every one of its tasks settled in memory.md, where the planner will
\* look for the next wave: no status is only cached, whichever sessions and
\* saves failed, and none says in_progress unless another task's session has
\* said so last.
WaveSettled ==
  pc[Main] = "wave" /\ ~shutFlag /\ (\A w \in Worker : pc[w] \in {"unborn", "ended"}) =>
    /\ \A t \in wave \ foreign : rows[t].status \in {"awaiting-review", "completed", "error"}
    /\ ~dirty

\* While the wave loop runs and no shutdown has begun, a task the registry says
\* is in progress is in the hands of exactly one worker, unless an aborted run
\* or another task's session left it so; and a task in flight is in no other
\* worker's reach.
InProgressHasWorker ==
  pc[Main] \in {"plan", "wave"} /\ ~shutFlag =>
    \A t \in Task :
      /\ R!View[t].status = "in_progress" /\ t \notin foreign =>
           Cardinality({w \in Worker : doing[w] = t /\ pc[w] \in {"session", "run", "failing"}}) = 1
      /\ InFlight(t) => ~Contains(queue, t)

\* The queue is drained before a worker raises BudgetExhaustedException: when
\* it reaches the command, no sibling can take another task.
DrainedBeforeRaise ==
  (\E w \in Worker : pc[w] \in {"raising", "raised"}) => queue = <<>>

Over ==
  /\ pc[Main] = "closed" /\ orphans = {} /\ cancelled = {}
  /\ \A w \in Worker : ~Alive(w)

\* What the Graceful Shutdown Sequence of lib/budget-detection.md promises: when
\* the command is over, no task is in progress in memory.md.
NoneLeftInProgress == Over => StatusOf({"in_progress"}) = {}

\* The command ends, whatever runs over, fails or is cancelled on the way:
\* nobody waits for ever for the registry's locks or the shutdown's.  A task that
\* failed, or was set back by a session, is planned again with no limit, so
\* failures, saves that fail and sessions' updates must stop some time.
CommandEnds ==
  (\A w \in Worker : <>[][~(Fail(w) \/ JobBreaks(w) \/ ToolUpdate(w))]_vars) => <>Over
=============================================================================

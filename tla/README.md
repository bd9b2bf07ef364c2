# yani-engine in TLA+

TLA+ models of yani-engine's task registry, wave planner and executor, Diff-Gate,
audit loop, agent loop, and of whole commands with their sandboxes, circuit breaker,
task batches and archiver, checked with TLC on small instances and, where marked, proved
with TLAPS for all values of the constants. Paths below are relative to
`src/yani_engine/` unless they start with `src/`.

## 1. Inventory

yani-engine runs LLM agents over a list of tasks kept in `memory.md`. A command
is one process with one asyncio loop; several coroutines run in it, and slow
writes go to worker threads. Commands of different processes share only files.

| part | state | operations | interacts with |
|---|---|---|---|
| **task registry** (`core/state.py`, `core/locks.py`) | `memory.md` (Task Registry, Change Log, Checkpoint Registry, Session Log), the deferred cache with its dirty flag, a copy of the table in `.yani/state.json` | update, flush, append a row, register a batch, write a handoff, invalidate | everything |
| **wave planner** (`core/planner.py`) | pending tasks, finished ids, claimed files | `get_pending_waves` | reads the registry; called by the executor before each wave |
| **wave executor** (`core/executor.py`, `core/task_executor.py`) | queue, workers, one task in flight per worker | plan, take, claim, run, finish, fail, clean up | registry, planner, Diff-Gate, shutdown |
| **graceful shutdown** (`core/orchestrator.py`) | a flag and a lock, the budget | mark tasks interrupted, flush, write the handoff | called by a worker (or the audit) whose session overruns the budget |
| **Diff-Gate and checkpoints** (`core/state.py`, `core/review_ui.py`) | `.yani/tmp`, `.yani/rollbacks`, `.yani/checkpoints`, Change Log | stage a write in five steps, review a wave, apply or refuse, recover orphans | registry; project files |
| **rollback, resume** (`commands/handlers.py`, `commands/resume_handler.py`) | the same files | restore a task's files, requeue or defer interrupted tasks | Diff-Gate, registry |
| **audit** (`commands/audit_handler.py`) | `.yani/qa_attempts.json` and its FileLock | guard, evaluate, judge | registry; other audit processes |
| **agent loop**, LLM providers (`core/agent_loop.py`, `core/llm_provider.py`) | message history, token counts | turns, retries with backoff, tool dispatch, pruning | budget, registry tools |
| **command process** (`cli/main.py`, `core/orchestrator.py`) | the stage a process is at | start, connect, run the handler, archive, close the loop, exit hook | runs all of the others; may be killed |
| **circuit breaker** (`core/mcp_manager.py`) | `.yani/mcp_cb_<server>.json`: failures and the time of the last | `is_open`, `record_failure`, `record_success` around connecting | the same file in every process, without a lock |
| **sandbox** (`core/sandbox.py`) | containers and trees `.yani/shadow_<id>`, the thread that builds or removes them | warm, tear down, clean up all at exit | execute's workers; staged writes; the exit hooks of other commands |
| **task batches** (`register_task_batch` in `core/state.py`) | ids in the Task Registry | number, check, rewrite `memory.md` | registry; archiver |
| **archiver** (`core/archiver.py`) | `.yani/archive`, `memory.md` | select finished sessions, write their records, put `memory.md` back without them | whatever else writes `memory.md` |
| knowledge, status, report, start, iterate, docs, CLI, prompts, telemetry | none, or files of their own | | |

What is hard here:

- **Interleaving at awaits.** A flush leaves the event loop while a thread writes
  `memory.md`; cancelled coroutines leave such threads behind.
- **Acknowledged but not durable.** `update_task_registry_row` answers as soon as
  the cache has the row. Whoever reads `memory.md` meanwhile (the shutdown, the
  audit's verdict) sees old statuses; whoever rewrites `memory.md` and drops the
  cache (batch registration, handoff, the orphan scan) loses the update.
- **A protocol of files.** Staging a write takes a rollback copy, a ledger row, a
  checkpoint and a staged file, in this order; a crash may come anywhere, the ledger row may
  fail to be written without anybody noticing, and the files' names are not always read back as the path
  they were made from.
- **Starting on what others left.** `memory.md` has rows that an aborted run left in progress, and
  the files of its unfinished protocol.
- **Several processes.** The registry's locks are per process; the audit's
  counter has a lock between processes, `memory.md` in effect has none, the breaker's file
  neither. Containers and trees have the same names in every command, and the exit hook
  of any command removes those of all.
- **Threads and workers that outlive their waiter.** A cancelled worker leaves the thread that
  runs docker and git behind; only the end of the event loop waits for it. Ctrl-C takes the command
  out of its wait for the workers, which go on while it archives.
- **Retries and budgets.** Tasks that fail are planned again; a worker that runs
  over the budget has to stop its siblings. A request to a model is sent again
  after a rate limit, and its history is cut while calls are open.

What makes each part correct is stated by the properties of section 4;
`PROJECT.json` lists the hazards with their lines.

## 2. Modules

| module | models | extends / uses |
|---|---|---|
| `RegistryPromise` | what the registry promises: a current table, a durable one | |
| `TaskRegistry` | the cache, `memory.md`, the locks, the thread's job | implements `RegistryPromise` |
| `WavePlanner` | `get_pending_waves`, one turn of its loops per step | |
| `WaveExecutor` | the execute command: wave loop, workers, one task's life, shutdown | instantiates `TaskRegistry` |
| `DiffGate` | staging, review, orphan scan, rollback, resume, user edits, kills | statuses as `RegistryPromise`'s two tables |
| `AuditLoop` | the audit command in several processes | |
| `AgentLoop` | one run of the tool loop over a chat session | |
| `CommandProcess` | the life of a command: stages, start, end, kill | |
| `CircuitBreaker` | the breaker of one server and connecting to it | `CommandProcess` |
| `Sandbox` | containers, trees and the thread that makes them | `CommandProcess` |
| `BatchRegistration` | the ids of a batch, as texts and as they are read back, and what is rejected, as operators | |
| `SessionArchiver` | `memory.md` as a whole: sessions, batches, the archiver's copy | `CommandProcess`, `BatchRegistration` |
| `CommandRun` | commands from start to exit in several processes | the four above |
| `MC...` | the constants of TLC's instances | |
| `TaskRegistryProofs`, `WavePlannerProofs`, `WaveExecutorProofs`, `DiffGateProofs`, `AuditLoopProofs`, `AgentLoopProofs`, `CommandRunProofs` | theorems | the module they are named after |
| `SoloCommandProofs` | theorems about commands that run one at a time | `CommandRunProofs` |

Names ending in `_Something` (`UpdateTask_NoMutex`) are wrong variants of the
definition that follows them; no specification uses them. They are there to
try whether a property notices the difference.

### How the models correspond to the code

**TaskRegistry.** `loaded`, `cache`, `dirty` are `_cache` and `_dirty`; `rows`
the Task Registry in `memory.md`; `log` the tables that only grow; `lock` the
pair `_MEMORY_MUTEX`, `_REGISTRY_LOCK`, always taken in this order. An operation
without an await inside the locks is one action. Flush, session row, batch and
handoff hand a job to a thread: `...Begin`, `RunJob` (or `JobFails`), `...End`.
`Crash` keeps only the files. Cells the registry's callers do not tell apart
are opaque. `Former` are the rows earlier commands may have left. `acked` is a history variable with
two tables: the last row each caller was acknowledged, and what the last flush wrote of them. Throwing
the cache away (`Invalidate`) forgets the first where no flush has written it, and never the second. The table's
copy in `.yani/state.json` is left out: nothing reads it, and a failure to write it is a warning.

**WavePlanner.** A snapshot gives each row its status, dependencies, outputs and
the import relation between files. Rows are numbered, since the scan follows
their order. `Take` and `Pass` are the two outcomes of the inner loop's test,
`EndWave`, `Stuck` and `Return` the turns of the outer loop.

**WaveExecutor.** `pc` is the await at which a coroutine stands. A flush spans
three steps through `Flush`, so the thread, its orphan after a cancellation, and
every other coroutine can run in between. `Claim` to `Cleanup` is `execute_task` and the
`_worker` around it, including its two exception handlers; `ToolUpdate` is the session's own
`update_task_registry_row`, on any task; `EnterShutdown` to `Handoff` is `_graceful_shutdown`.
A thread that cannot write `memory.md` sends its coroutine on with the exception (`JobBreaks`, with
`OnFailure` for the handler it meets): under the worker's `try` the task becomes an error, outside it the worker
ends `broken`, its siblings are cancelled and the command ends. `foreign`, a history variable, has the tasks whose row was last
set by somebody they were not given to. `At` records what asyncio guarantees: coroutines that
are ready, the newly created and the newly cancelled among them, run before those that must
wait again.

**DiffGate.** A path `p` has the name `Encode[p]`, with `/` written `__`; several paths may have one
name. `<<t, n>>` is the staged file `{t}_{n}.tmp`; the rollback command's safety copies are
`{n}.tmp`. Names are read back by the review (`Shown`) and by the rollback command (`Restored`), which may
give another path: `src/__init__.py` is read back as `src//init/.py`. The review reads the task's id
as part of the path, which is why `<<t, n>>` is also a project path. `TailOf` says when
the scan's glob for one name catches the files of another. `LogRow` may fail to write a Change Log row,
and its callers go on (`core/state.py:283`, `483`); `unlogged` remembers the names this happened to.

**AuditLoop.** Each process has a cache, a copy of `memory.md` it may be about to
write back, and a place in `handle_audit`. The counter's file is truncated and
written in two steps. `sessions` and `torn` are history variables.

**AgentLoop.** `history` is the session's list of messages; `Messages` what a
payload adds to it, one message with all answers for Gemini, one for each answer
for the local provider. A call is named by the number of turns before it and its
position, an answer by its call. `attempt` is the loop variable of
`_send_message_with_backoff`, `turn` is `iteration_count`, `over` says that the
process's tokens have reached the threshold. A tool's step gives its answer, whichever:
the branches of the code differ in its text only. `overTurns` is a history variable.
The Gemini SDK is outside the repository; the model takes its session to commit a
payload together with the response, as the local provider's code does.

**CommandProcess** and the modules over it. `pc` says where in `LLMOrchestrator.run` a
process stands; the component that owns a stage has the actions that leave it. `world` is
chosen once and never changes: which commands are in use, whether connecting ever fails,
whether the project uses docker, what models ask to register. `overlap`, `killed`, `clashing`,
`logged`, `late` and `registered` are history variables. `Goto` and the components' own
variables keep every step a step of one component, which `CommandRun` composes; only
`ClaimTask`, where a worker's warm sandbox leads to a Session Log row, belongs to two.

**CircuitBreaker.** `failures` and `recent` are the file: its count, and whether its
`last_failure` is younger than the recovery window. Reading and replacing it are two steps in
`record_failure` and in the half-open case. The defaults in the code are 2 failures, 300 s and
`.yani/mcp_cb_<name>.json` (`core/mcp_manager.py:49-59`). The two servers are treated alike, each with a
file of its own, so there is one.

**Sandbox.** `at` is where the worker stands, apart from its command: the worker works on after
`Interrupt` (Ctrl-C), until the event loop cancels what is left (`CancelLeft`); when a sibling raises, it is
cancelled at once (`StopWave`). `job` is the next subprocess call of the thread a worker waits for. Each call is
a step, so that kills, cancellations and the exit hook of another command fall between any two.
A tree's content is HEAD, unless docker made the directory because it was gone, and the
drafts copied into it. The calls succeed except where a name is taken; `docker ps`'s filter is
taken to match the exact name, although it matches substrings, so that `w1` also finds `w10`
(workers are `w0` to `w2` with the default of three).

**SessionArchiver.** `memory` is what the models of this part need of `memory.md`: the ids in
the Task Registry, the outcome of each session, and the sessions whose ledger rows it has. The
archiver and `register_task_batch` edit a `copy` and put it back. The engine itself never
writes a terminal outcome into the Session Log; its agents' instructions do, hence the action
`CloseSession`. Task details are not part of it: the archiver looks for the heading
`### T-001` (`core/archiver.py:211`) where the engine writes `### T-001: title`
(`core/state.py:972`), so it never removes them.

**BatchRegistration.** An id is a text: its number, and whether it is padded to four digits (`T-0007`).
The payload admits three or four digits (`core/types.py:53`); automatic numbers have no limit. The registration finds the
first three or four digits of the ids in `memory.md`, takes their numbers (`ReadBack`) and compares the texts it
writes for these (`Known`) with the texts it is given, as `core/state.py:911-919` does: `T-10000` counts as
`T-1000`, `T-0007` as `T-007`. `Ordinary` are the ids that are found as they were written.

## 3. Bounds

| bound | where | why it is enough |
|---|---|---|
| 2 tasks, 2 coroutines, 2 ledger rows, any two rows of `MCFormer` at the start | `registry` | one coroutine in the middle of a job and one that comes between; a task in the cache and another only in the file |
| 3 registry rows, 2 files, 1 missing id | `planner` | chains, cycles, self-dependencies, a missing id, and a conflict with each of two earlier rows; row 3 is always in error so that both waiting statuses occur |
| 3 tasks, each fresh or left in progress, 2 workers, a change task that may fail and two validation tasks; sessions may set a task completed | `execute` | two workers already make a raising worker and a cancelled one, one that overruns or whose save fails while the other flushes, and a queue; a failed task gives a second wave. The code's default is 3 workers, which liveness makes too many for the run |
| 3 change tasks, 2 workers | `execute_shutdown` | enough for the violation |
| 2 tasks, 2 paths of one name that is read back as the second, `MaxRows` = 1 planned row, `MaxRuns` = 3 commands or edits | `diffgate` | both tasks may have written either path; a rollback of a file whose name is read back as another needs the write, its review or an update to completed, and the rollback. `MaxRows` stops only the beginning of a further write, so several writes that began early may add rows, as do failing ones, reviews and scans |
| 1 task, 2 paths with names, one of which is the other's end, `MaxRows` = 2, 1 command | `diffgate_apply` | enough for the violation |
| 2 tasks, 2 processes | `audit` | the processes can work on the same task, or one can write back what the other has changed |
| 7 turns, 2 calls per response, both providers | `agent` | a Gemini history is first pruned after 3 turns and then at each; two calls can be answered incompletely or out of order |
| 5 turns, the local provider | `agent_prune` | enough for the violation |
| 2 processes with one worker each, of the same name; 3 tasks and sessions, `MaxRows` = 3, `Keep` = 1 | `command` | two commands compete for one container, one breaker file and one `memory.md`; with three sessions two are archived in one go, or one after the other by different commands |
| 4 worlds, with batches that choose `T-002`, `T-0002` and `T-9999` | `command` | each brings together what interacts: the breaker with commands that only connect; execute with docker and a command that only runs the exit hook; batches with automatic, chosen, padded and last ids; execute and iterate without docker, with sessions that end meanwhile |
| 1 world: execute with docker | `sandbox_staged` | enough for the violation |

`MaxRows` guards `CopyForRollback` in `DiffGate` and `ReadForBatch` in `SessionArchiver`, `MaxRuns` the
commands of `DiffGate`, `MaxCalls` the responses of `AgentLoop`, whose `MaxIterations` is the code's parameter; there are no other bounds inside the modules. Coroutines, ledger rows, workers, and in `audit`
and `diffgate` tasks and processes are interchangeable, so these runs use symmetry;
the liveness runs do not.

## 4. Runs

Passing:

- `registry`: any mix of calls, crashes and failed writes. A clean cache is the
  file (`CleanCacheIsDisk`); a flush writes all of the cache (`FlushWritesWholeCache`);
  what a flush wrote of an acknowledged update stays in the file, whoever rewrites it, and what no flush has
  written waits in the dirty cache until that is thrown away (`AckedNotDropped`); no ledger row
  is lost although whole-file rewrites go on (`LedgerAppendOnly`); the registry refines
  `RegistryPromise` (`KeepsPromise`).
- `planner`: `DependenciesFirst`, `WavesConflictFree`, `ScheduledOnce`, `ErrorOnlyWhenStuck`,
  `WaveMaximal`, `PlanningEnds`.
- `execute`: from rows that an aborted run may have left in progress, with failing saves. Until a shutdown
  begins, a wave that ends without an exception leaves its tasks settled in `memory.md` and nothing
  unwritten (`WaveSettled`), and each task given out has exactly one worker (`InProgressHasWorker`), both
  apart from rows in `foreign`; the queue is drained before an overrun reaches the command
  (`DrainedBeforeRaise`); the command ends unless failures, failing saves or resets by sessions go on for
  ever (`CommandEnds`). 313,616 states.
- `diffgate`: a staged file has its checkpoint and its planned row, unless that row failed to be written
  (`StagedIsLogged`); the review after a wave leaves out nothing the wave staged, since nothing of
  earlier commands is left when a wave starts (`WaveReviewsAll`); a rollback puts each copy back where its name is read to
  point and deletes every other path the task touched (`RollbackExact`); `RollbackCopyKept`, `LedgerForward`.
  4,598,455 states.
- `audit`: `AuditedAtMostThrice`, `CounterWhole`, `DeferredAfterThree`.
- `agent`: whatever is retried, pruned or cancelled, the next request is a conversation
  that begins with the prompt and in which each call is answered once and in order
  (`CallsAnsweredOnce`); Gemini's history stays within 6 messages (`WindowHeld`); at most one turn
  begins over budget (`OneTurnOverBudget`); the run ends (`RunEnds`).

- `command`: once no command runs, no container and no tree is left, unless one was killed after the
  last cleanup began (`NoLeaks`); for commands that run one at a time, a task's container runs
  on a tree with the project in it, whatever a killed command left behind (`SandboxReady`), and no
  registered task or logged session is lost to a stale copy of `memory.md`, except a session that a worker Ctrl-C
  left running logs while its command archives (`AcksSurvive`); ledger rows
  are in `memory.md` until their archive record is in place, even with overlapping commands
  (`ArchivedIsFiled`); an ordinary id is given twice only by a batch that chose it itself
  (`OrdinaryIdsUnique`); a server that works again is used again
  (`Reconnects`). 944,148 states.

Violated, each with its finding in `PROJECT.json`:

- `execute_shutdown` (`NoneLeftInProgress`): after a graceful shutdown a task can still be
  `in_progress` in `memory.md`, where resume does not look for it.
- `diffgate_apply` (`ApprovedIsApplied`): an approved change is renamed to
  `T-001_src/app.py`, not to `src/app.py`.
- `audit_verdict` (`VerdictReported`): a task the evaluator completed is reported as failed.
- `agent_prune` (`PruneNeverGrows`): the local provider's prune repeats the prompt and drops
  nothing, since the prompt is the only user message of a run.
- `sandbox_staged` (`StagedReachesSandbox`): what a task stages is not in the tree its commands
  run on, which is named after the worker and not after the task.

Each module's `TypeOK` is checked in its first run. `audit` also lets other commands put tasks
back under review and kills either process at any step.

Disagreements and oddities the models contain without a run of their own:

- A task that always fails is planned for ever, since the planner takes error for pending:
  `CommandEnds` has the hypothesis that failures end. No document limits the retries.
- Batch registration and the handoff drop updates that were acknowledged but not flushed
  (`core/state.py:992`, `1094`; `src/docs/05-architecture.md:167` wants every mutation to go through
  update and flush). `AckedNotDropped` does not protect these, and the shutdown of one worker can drop a sibling's
  claim this way.
- The orphan scan at the start of execute and resume deletes the staged files of every planned row
  (`core/state.py:606-609`), before the review "of any orphaned .tmp files from a previous run"
  (`core/executor.py:77`) can offer them. `src/lib/checkpoint-protocol.md` keeps such files for the user to
  decide (lines 35 and 51, class O1). What is offered for review is what no planned row explains: `ReviewOld`
  shows what the scan left.
- Appending a Change Log row may fail and is not looked at (`core/state.py:283`, `314-315`, `483`), against
  `src/lib/checkpoint-protocol.md:26`, "Never silently swallow a failure": a file is then staged
  without its planned row (`StagedIsLogged` excepts `unlogged`), and the review of it records nothing.
- A rollback of a task that changed `src/__init__.py` puts the copy at `src//init/.py` and deletes the
  file itself, since no copy was put back there (`commands/handlers.py:545-548`, `571-574`). `RollbackExact` says
  that this is what happens.
- `src/lib/memory-schema.md` (Rule 7, lines 169-177) has every repeated id rejected. The code lets through an
  automatic id that the same batch chose for an earlier item (`core/state.py:917-926` compares chosen ids
  only), an id padded to four digits that is registered already, and the automatic ids that follow `T-9999`, which is
  where the numbers are read back short: `OrdinaryIdsUnique` excepts exactly these (`clashing`, `Ordinary`).
- After Ctrl-C the command archives while its workers still run (`core/executor.py:215`,
  `core/orchestrator.py:235-241`). A session one of them logs between the archiver's reading and its writing of
  `memory.md` is lost: `AcksSurvive` excepts `late`, and without the exception it is violated.
- With commands that overlap, the archiver and the registration lose what others write between
  their reading and their writing of `memory.md`, and the exit hook of one command removes the
  containers another uses: `AcksSurvive` and `SandboxReady` are about commands that run one at a
  time.
- `archive_keep_sessions: 0` archives nothing, since `[:-0]` is the empty list
  (`core/archiver.py:90`).

### Fairness

- `WavePlanner`: weak fairness of its step. One coroutine, nothing it waits for.
- `WaveExecutor` (`FairSpec`): weak fairness of the threads, since the operating system runs
  them; strong fairness of each coroutine's progress, since asyncio's locks are
  first-come-first-served, so a coroutine that finds them free again and again
  gets them. No fairness for the choice to fail, for a failing write, for a session's update or for a spend.
- `AgentLoop` (`FairSpec`): weak fairness of the run's own steps. Requests to the local provider
  (120 s), MCP calls (45 s) and commands in the sandbox have timeouts, and a Gemini request is
  taken to return. No fairness for a cancellation or for the others' spending, and none
  for success: every send may fail.

- `CommandRun` (`FairSpec`): weak fairness of connecting, since every connection attempt returns, and of
  time passing. Nobody has to start commands, a command may stay in its handler for ever, and kills
  and connection failures are free; `Reconnects` has as hypotheses that they end and that commands which
  connect keep being started.

### Deadlock

The deadlock check is on where the system never stops: `registry`, `audit`, `audit_verdict`,
`command`, `sandbox_staged`. It is off in the other runs: the planner returns or raises, the execute
command ends, a tool loop ends, and in `DiffGate` the bound on commands is reached.
`PlanningEnds`, `CommandEnds` and `RunEnds` show that the first three stop where they should.

## 5. Proofs

**TaskRegistryProofs.** The inductive invariant adds to `TypeOK`: the locks are held
exactly while there is a job; a job computed from `memory.md` still describes it
(`SnapshotCurrent`), which is what makes whole-file rewrites safe; the cache has the
file's tasks and, when clean, its cells; a flush in progress belongs to a dirty
cache. From it: `TypeCorrect`, `CleanCache`, `FlushComplete`, `LedgerKept`, and
`Refinement`, that every step is a step or stutter of `RegistryPromise`.
`AckedKept` has an invariant of its own (`AckInv`). `FlushedInv`: the file has every row that a flush
wrote of an acknowledged update; each rewrite of the file is shown to keep it, from `SnapshotCurrent`, as throwing the cache
away never takes a flushed row back. `LastInv`: what the process sees of a task is the row it last
acknowledged, and while nothing is unwritten the last flush had them all.

**WavePlannerProofs.** The inductive invariant describes a wave under
construction: claimed files are its outputs, its members are pending with all
dependencies done, they do not clash, and whatever was passed over before the cursor
lacks a dependency or clashes with an earlier member; and the waves already built partition
what is no longer pending. From it `DependenciesRespected`, `WavesIsolated`,
`NothingLostOrRepeated`, `ErrorJustified`, `WavesMaximal`, `TypeCorrect`.
A second one (`ScheduleInv`) makes them exact. Tasks that only each other, or nobody, could unblock
(`Starved`) are never scheduled, so the error is raised exactly when there are such tasks
(`ErrorIffStarved`); and every wave stays as full as the rows' order allows (`WavesStayFull`), so without
clashes the first wave is the ready tasks, neither more nor fewer (`FirstWaveIsReady`). That is what
`WaveExecutor` takes a plan to be. `TurnsBounded`: every step decreases `TurnsLeft`, at most
(waiting + 1) * (N + 1), the half of `PlanningEnds` that needs no fairness.

**WaveExecutorProofs.** For any finite sets of tasks and workers, any dependencies, any rows an earlier
command left, any statuses sessions set, with and without failing writes. `TypeCorrect`
and `DrainedFirst` hold whatever runs over the budget, fails or is cancelled. `SettledAtEnd` and `OneWorkerEach` are about
a wave loop in which no shutdown has begun, `Calm`. A shutdown is never taken back and the command never returns to its
wave loop, so a calm state has a calm past, and the inductive invariant (`CalmInv`) may say of calm
states what no other step could disturb (`Quiet`): the cache is `memory.md` unless it is dirty, and then a worker is
still to flush it (`Registry`); the locks are with a worker that flushes or logs its session (`Holder`); each
task of the wave is in the queue once, or with one worker whose place says what the task's status
is, or settled, or in `foreign` (`Hands`, `InLine`, `Accounted`), unless a worker was lost to a save that failed, in
which case the wave does not end normally.

The module also composes: `RP` instantiates `TaskRegistryProofs` with the command's own cache, locks and
job, and `CommandObeysRegistry` shows that a step of the command is a step of the registry or leaves
it alone. So the registry's theorems hold of it, however the workers interleave: `CommandKeepsPromise` (it
implements `RegistryPromise`) and `CommandKeepsRegistry` (a clean cache is `memory.md`, flushes write the
whole cache, what a flush wrote of an update stays; a handoff may drop what no flush has written). All three end where a coroutine is first cancelled
(`Steady`): a cancelled handoff leaves its thread behind, the locks are free again, and the thread puts
rows into `memory.md` that another worker has changed meanwhile. The registry alone has no such
step, and the promise is false after it.

**DiffGateProofs.** For any tasks, paths, names, contents and bounds, with kills between any two steps and
Change Log rows that fail to be written. The
inductive invariant (`StageInv`): a task inside the protocol belongs to the running wave, and what
its next step relies on is already there, the planned row (or its failure) before the checkpoint, the checkpoint
before the staged file; whatever is staged has both; a scan leaves only what has no planned row; between waves nothing
is staged, and during a review what is staged is still to be decided. From it `StagedExplained` and
`WavesReviewed`; from the types (`TypeCorrect`) alone `CopiesStay` and `LedgerIsHistory`. `RollbackRestores` says what a
rollback leaves: each copy is back at the path its name is read to point to, and every other path the task touched is
gone. Its invariant (`UndoInv`) says the same of the names that are no longer still to restore, and rests on
`GateAssumption`: no two names are read back as one path (a path read from a name has that name). A task
without any copy is left out, since the code then removes nothing.

**AuditLoopProofs.** The inductive invariant: the FileLock's holder is the process
between check and write; what it read is still in the file; attempts on file and
sessions granted are equal; every copy of the registry that says `deferred`, in a cache, in
a snapshot or in the file, says so of a task without attempts left
(`DeferredUsedUp`), which no write-back of a stale copy can break because attempts never go
down. From it `AttemptsCapped`, `CounterGuarded`, `NeverGivenUpEarly`, `TypeCorrect`.

**AgentLoopProofs.** Once a turn was begun over budget the loop never parses a
response again (`BudgetInv`): the flag is never cleared and the check after the turn raises. From
it `BudgetOvershoot`, whatever the history and the retries do. `AnsweredOnce` is about the whole
history. Its invariant (`ConvInv`) has it between responses as a conversation in which every call was
answered (`Conversation`), `Open` while the last response still waits for its answers; the payload is a
prefix of its calls and becomes all of them before it is sent. The lemmas say that answering
(`Replied`), a response (`Responded`) and a prune (`PrunedKeeps`) keep a conversation. A local provider's answers
spread over several messages, and `CallsAnsweredOnce` compares the calls with these messages' flattening,
about which no induction is possible here: the flattenings are compared at the least place at which they would
differ. `WindowKept` (`WindowInv`): with
Gemini messages alternate, a turn adds two, and a prune at the limit leaves as many as the turn found.
`RunBounded`: every step decreases `StepsLeft`, so a run takes at most
MaxIterations * TurnSteps + MaxRetries + 3 steps and has ended when none is left; the half of `RunEnds` that needs
no fairness.

**CommandRunProofs.** For any processes, worlds, tasks, workers, batches and bounds, with
overlapping commands and kills. `TypeInv` adds to `TypeOK` that a process between reading and
writing `memory.md` has a copy, and that this copy is sound and within the bound. On it stand four
invariants. `FiledInv`: in `memory.md` and in every copy, a session with an outcome has its ledger
rows there or a record in the archive; records are never removed, so putting any
copy back keeps it. `OrderInv`: any such version of `memory.md`, the oldest copy included, archives only
sessions that `archive_keep_sessions` finished ones follow, and has the rows of the others, so
an overlapping command that puts an old copy back may lose the newest sessions, but never leaves a
ledger without the rows of its own last ones. `UniqueInv`: two tasks in `memory.md` or in
a copy share an id only if it is not `Ordinary` or an accepted batch has it in `Clashes`; an automatic id is above all
numbers read back from the registered ones, so it is not among their ordinary ones, and a chosen id is compared with these.
Lemmas on maxima and on what concatenated sequences have twice establish it. `LeakInv`: a worker and its thread work only while their
process waits for them or has yet to close its loop (`JobsAwaited`), and a container or tree exists only while a
process is alive whose exit hook is still to remove it, or after a kill (`Covered`).
From them `TypeCorrect`, `ArchiveKeepsRows`, `RecentKept`, `IdsStayUnique`, `NothingLeaks`.

**SoloCommandProofs.** While `overlap` is false at most one process is alive (`Solo`). Then
the file and every copy to be put back keep what was acknowledged (`AcksInv`), since nobody
registers between reading and writing, and whoever logs a session then is a worker that Ctrl-C left running, which
`late` records: `SoloAcksSurvive`. And (`ReadyInv`) a container that a worker finds or starts stands on a tree with HEAD
in it: the tree is removed after its container, in the teardown as in the exit hook, so a kill leaves
at worst a tree without a container, which is purged: `SoloSandboxReady`.

The proofs rest on the modules' own assumptions only (`RegistryAssumption`, `PlannerAssumption`,
`ExecutorAssumption`, `RowAssumption`, `GateAssumption`, `NoIdAssumption`,
`AuditAssumption`, `AgentAssumption`, `KindsAssumption`, `BreakerAssumption`, `SandboxAssumption`,
`ArchiverAssumption`, `TaskAssumption`), which TLC evaluates in the runs.

Every safety and action property of the passing runs is a theorem. The formulas that only a proof
module states (the ones above that no run lists) were checked with TLC on the runs' instances before
they were proved.

Only model-checked: liveness (`PlanningEnds`, `CommandEnds`, `RunEnds`, `Reconnects`), which is beyond
the prover. Of `PlanningEnds` and `RunEnds` only that a step is taken while one is enabled is left to
TLC, by the bounds above.

## 6. Not modelled

Of the sandbox: commands in an ephemeral copy (which a kill leaves behind), image builds, and the
draining of outputs, which stops at a limit and leaves the command blocked on a full pipe until it is
killed (`core/sandbox.py:198`). Of the MCP connections: the wrappers around tools. The failures of
docker and git other than a taken name, and the timeouts of the exit hook. The text of `memory.md` (escaping, headings, column positions), the import analysis
behind `coupled`, the impact analysis before a staged write, diff display and prompts; the copy of the
registry in `.yani/state.json`; in `CommandRun`, Session Log rows that fail to be written, and the task statuses that
a cancelled worker's last flush writes while its command archives (statuses are `WaveExecutor`'s, the archiver's copy
`SessionArchiver`'s; together the copy put back would undo the statuses, as it does a late session);
rollback of all tasks at once; token counts beyond crossing the threshold. `record_knowledge`, which no command's tool list contains. The
components marked `not_modelled` in `PROJECT.json` are adapters, printing and text, or
planned below.

Abstractions a reader should know of: the audit's evaluator follows its prompt, it
completes a task or registers fix tasks; a crash ends the whole process, and the
next command starts with an empty cache; `os.replace` is atomic.

## 7. Plan

1. (done) `RegistryPromise`, `TaskRegistry` with proofs: everything else stands on it.
2. (done) `WavePlanner` with proofs, `WaveExecutor`.
3. (done) `DiffGate`; `AuditLoop` with proofs.
4. (done) `AgentLoop` with proofs of its safety properties for every number of turns.
5. (done) `BatchRegistration`, and `CommandRun` with `CircuitBreaker`, `Sandbox` and `SessionArchiver`:
   several commands on one project; proofs of its safety properties.
6. (done) `WaveExecutorProofs` with the composition with `TaskRegistryProofs`, `DiffGateProofs`.
7. (done) What the parts start on and what fails in them: rows of aborted runs and failing saves in
   `WaveExecutor`, path names and lost ledger rows in `DiffGate`, ids as texts in `BatchRegistration`, workers
   that outlive the wait for them in `Sandbox`.
8. Left: decreasing measures for `CommandEnds`; task statuses in `SessionArchiver`; two
   full registries side by side; the MCP wrapper's semaphore and timeout.

------------------------------ MODULE Sandbox ------------------------------
(***************************************************************************)
(* Containers and shadow trees of the execute command (core/sandbox.py).   *)
(* A worker warms a sandbox when it takes a task, keeps it for the next    *)
(* tasks of its wave, and removes it at the wave's end.  The hook that     *)
(* every command runs when it exits removes all there are.                 *)
(*                                                                         *)
(* docker and git run in worker threads, which outlive the coroutine that  *)
(* waits for them; the event loop joins them before it closes.  In each    *)
(* process one worker is followed.  Workers of different commands have the *)
(* same names, w0 to w2.  The daemon answers and nothing but the engine    *)
(* touches its containers.                                                 *)
(***************************************************************************)
EXTENDS CommandProcess

CONSTANTS
  Worker,    \* names of workers
  WorkerOf,  \* the worker followed in each process
  Task,      \* tasks
  NoTask,
  HEAD       \* the project's HEAD, as content of a tree

Id == Worker \cup Task  \* what sandboxes can be named after

\* A shadow tree holds the project's HEAD, unless docker has created it as an
\* empty mount point, and drafts of tasks.
Content == SUBSET ({HEAD} \cup Task)

\* docker: sandbox_mode is neither native nor compose.
ASSUME SandboxAssumption ==
  /\ \A w \in Worlds : w.docker \in BOOLEAN
  /\ WorkerOf \in [Proc -> Worker]
  /\ Worker \cap Task = {} /\ NoTask \notin Worker \cup Task
  /\ HEAD \notin Task

VARIABLES
  container,  \* ids with a running container
  tree,       \* the shadow directories .yani/shadow_<id> that exist, and their content
  job,        \* what the process's thread does next
  at,         \* where the worker is, "none" without one
  task,       \* the task in the worker's session
  staged      \* the task has a staged file

sandboxVars == <<container, tree, job, at, task, staged>>

SandboxInit ==
  /\ container = {} /\ tree = [i \in {} |-> {}]
  /\ job = [p \in Proc |-> "none"] /\ at = [p \in Proc |-> "none"]
  /\ task = [p \in Proc |-> NoTask] /\ staged = [p \in Proc |-> FALSE]
-----------------------------------------------------------------------------
TreeWith(i, content) ==
  [j \in DOMAIN tree \cup {i} |-> IF j = i THEN content ELSE tree[j]]

TreeWithout(ids) == [j \in DOMAIN tree \ ids |-> tree[j]]

(* _ensure_warm_sandbox and _teardown_warm_sandbox in their threads.       *)

Job(p, from, to) == job[p] = from /\ job' = [job EXCEPT ![p] = to]

\* The container runs already, perhaps since a command that was killed.
FindWarm(p) ==
  /\ Job(p, "check", "none")
  /\ WorkerOf[p] \in container
  /\ UNCHANGED <<processVars, container, tree, at, task, staged>>

\* It does not.
FindCold(p) ==
  /\ Job(p, "check", "purge")
  /\ WorkerOf[p] \notin container
  /\ UNCHANGED <<processVars, container, tree, at, task, staged>>

\* docker rm -f, then the old tree is removed.
Purge(p) ==
  /\ Job(p, "purge", "add")
  /\ container' = container \ {WorkerOf[p]}
  /\ tree' = TreeWithout({WorkerOf[p]})
  /\ UNCHANGED <<processVars, at, task, staged>>

\* git worktree add, or a copy of the project.
AddTree(p) ==
  /\ Job(p, "add", "run")
  /\ tree' = TreeWith(WorkerOf[p], {HEAD})
  /\ UNCHANGED <<processVars, container, at, task, staged>>

\* docker run, which creates a missing mount directory.
RunContainer(p) ==
  /\ Job(p, "run", "none")
  /\ WorkerOf[p] \notin container
  /\ container' = container \cup {WorkerOf[p]}
  /\ tree' = IF WorkerOf[p] \in DOMAIN tree THEN tree ELSE TreeWith(WorkerOf[p], {})
  /\ UNCHANGED <<processVars, at, task, staged>>

\* The name is taken meanwhile: "Docker infrastructure failure".
RunFails(p) ==
  /\ Job(p, "run", "failed")
  /\ WorkerOf[p] \in container
  /\ UNCHANGED <<processVars, container, tree, at, task, staged>>

\* Mutated form: the tree is removed and the container forgotten.
RemoveContainer_Forgotten(p) ==
  /\ Job(p, "remove", "untree")
  /\ tree' = TreeWithout({WorkerOf[p]})
  /\ UNCHANGED <<processVars, container, at, task, staged>>

RemoveContainer(p) ==
  /\ Job(p, "remove", "untree")
  /\ container' = container \ {WorkerOf[p]}
  /\ UNCHANGED <<processVars, tree, at, task, staged>>

RemoveTree(p) ==
  /\ Job(p, "untree", "none")
  /\ tree' = TreeWithout({WorkerOf[p]})
  /\ UNCHANGED <<processVars, container, at, task, staged>>

ThreadStep(p) ==
  \/ FindWarm(p) \/ FindCold(p) \/ Purge(p) \/ AddTree(p)
  \/ RunContainer(p) \/ RunFails(p) \/ RemoveContainer(p) \/ RemoveTree(p)
-----------------------------------------------------------------------------
(* A worker's loop and the tasks it executes.                              *)

Move(p, from, to) ==
  /\ at[p] = from /\ at' = [at EXCEPT ![p] = to]
  /\ UNCHANGED processVars

\* The workers of a wave are started.
StartWave(p) ==
  /\ command[p] = "execute" /\ Goto(p, "body", "wave")
  /\ at' = [at EXCEPT ![p] = "queue"]
  /\ UNCHANGED <<container, tree, job, task, staged>>

\* The worker takes a task from the queue; execute_task warms the sandbox
\* unless the mode is native or compose.
TakeTask(p) ==
  /\ Move(p, "queue", "warm")
  /\ job' = [job EXCEPT ![p] = IF world.docker THEN "check" ELSE "none"]
  /\ UNCHANGED <<container, tree, task, staged>>

\* The sandbox is warm and the task claimed.
EnterTask(p, t) ==
  /\ Move(p, "warm", "task")
  /\ job[p] = "none"
  /\ task' = [task EXCEPT ![p] = t]
  /\ UNCHANGED <<container, tree, job, staged>>

\* write_file_with_review: a file staged for the first time is also written
\* to the shadow tree named after the task, if there is one.
StageDraft(p) ==
  /\ at[p] = "task" /\ ~staged[p]
  /\ staged' = [staged EXCEPT ![p] = TRUE]
  /\ tree' = IF world.docker /\ task[p] \in DOMAIN tree
             THEN [tree EXCEPT ![task[p]] = @ \cup {task[p]}] ELSE tree
  /\ UNCHANGED <<processVars, container, job, at, task>>

\* The worker forgets the task it was in.
LeaveTask(p) ==
  /\ task' = [task EXCEPT ![p] = NoTask]
  /\ staged' = [staged EXCEPT ![p] = FALSE]

\* The task is finished or fails, at the latest because its sandbox did.
TaskEnds(p) ==
  /\ \/ Move(p, "warm", "queue") /\ job[p] \in {"none", "failed"}
     \/ Move(p, "task", "queue")
  /\ job' = [job EXCEPT ![p] = "none"]
  /\ LeaveTask(p)
  /\ UNCHANGED <<container, tree>>

\* The queue is empty: the worker tears its sandbox down ...
EndWorker(p) ==
  /\ Move(p, "queue", "unwarm")
  /\ job' = [job EXCEPT ![p] = IF world.docker THEN "remove" ELSE "none"]
  /\ UNCHANGED <<container, tree, task, staged>>

\* ... and returns.
WorkerDone(p) ==
  /\ Move(p, "unwarm", "none")
  /\ job[p] = "none"
  /\ UNCHANGED <<container, tree, job, task, staged>>

EndWave(p) ==
  /\ Goto(p, "wave", "body")
  /\ at[p] = "none"
  /\ UNCHANGED sandboxVars

\* A worker is cancelled at an await.  Its thread is not, and nothing is torn
\* down.  What its finally clause flushes is a matter of WaveExecutor.
Cancelled(p) ==
  /\ at' = [at EXCEPT ![p] = "none"]
  /\ LeaveTask(p)
  /\ UNCHANGED <<container, tree, job>>

\* A sibling raised, so that the wave's other workers are cancelled.
StopWave(p) == Goto(p, "wave", "archive") /\ Cancelled(p)

\* The user pressed Ctrl-C: the command leaves the wait for its workers, which
\* go on while it archives and closes.
Interrupt(p) == Goto(p, "wave", "archive") /\ UNCHANGED sandboxVars

\* asyncio.run cancels the tasks that are left.
CancelLeft(p) ==
  /\ pc[p] = "close" /\ at[p] # "none"
  /\ Cancelled(p)
  /\ UNCHANGED processVars
-----------------------------------------------------------------------------
(* The end of every command.                                               *)

\* Mutated form: threads are not joined.
LoopCloses_NoJoin(p) ==
  /\ Goto(p, "close", "clean") /\ at[p] = "none"
  /\ UNCHANGED sandboxVars

\* asyncio.run returns, after it has joined the threads of its workers.
LoopCloses(p) ==
  /\ Goto(p, "close", "clean")
  /\ at[p] = "none" /\ job[p] \in {"none", "failed"}
  /\ job' = [job EXCEPT ![p] = "none"]
  /\ UNCHANGED <<container, tree, at, task, staged>>

\* _cleanup_all_sandboxes, the exit hook: containers of the project, whichever
\* command uses them ...
CleanContainers(p) ==
  /\ pc[p] = "clean" /\ pc' = [pc EXCEPT ![p] = "sweep"]
  /\ container' = {}
  /\ killed' = FALSE
  /\ UNCHANGED <<world, command, overlap, tree, job, at, task, staged>>

\* ... and then all shadow trees.
SweepTrees(p) ==
  /\ pc[p] = "sweep" /\ pc' = [pc EXCEPT ![p] = "idle"]
  /\ command' = [command EXCEPT ![p] = "status"]
  /\ tree' = TreeWithout(Id)
  /\ UNCHANGED <<world, overlap, killed, container, job, at, task, staged>>

\* A killed process takes its thread along.
SandboxLost(p) ==
  /\ job' = [job EXCEPT ![p] = "none"] /\ at' = [at EXCEPT ![p] = "none"]
  /\ LeaveTask(p)
  /\ UNCHANGED <<container, tree>>

\* What the worker does of its own accord, waited for or left running.
WorkerStep(p) ==
  \/ TakeTask(p) \/ StageDraft(p) \/ TaskEnds(p) \/ EndWorker(p) \/ WorkerDone(p)

SandboxStep(p) ==
  \/ ThreadStep(p) \/ WorkerStep(p)
  \/ StartWave(p) \/ EndWave(p) \/ StopWave(p) \/ Interrupt(p)
  \/ CancelLeft(p) \/ LoopCloses(p) \/ CleanContainers(p) \/ SweepTrees(p)

Place == {"none", "queue", "warm", "task", "unwarm"}

Jobs == {"none", "check", "purge", "add", "run", "failed", "remove", "untree"}

SandboxTypeOK ==
  /\ container \subseteq Id
  /\ DOMAIN tree \subseteq Id /\ tree \in [DOMAIN tree -> Content]
  /\ job \in [Proc -> Jobs] /\ at \in [Proc -> Place]
  /\ task \in [Proc -> Task \cup {NoTask}] /\ staged \in [Proc -> BOOLEAN]
=============================================================================

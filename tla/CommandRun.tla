----------------------------- MODULE CommandRun -----------------------------
(***************************************************************************)
(* yani commands from start to exit, in several processes on one project:  *)
(* the circuit breaker, the sandboxes of execute, the tables of memory.md   *)
(* with the archiver, and processes killed at any step.                    *)
(***************************************************************************)
EXTENDS CircuitBreaker, Sandbox, SessionArchiver

\* A task's session has the task's number: each task is executed once.
ASSUME TaskAssumption == Task = Session

vars == <<processVars, breakerVars, sandboxVars, memoryVars>>

Init == ProcessInit /\ BreakerInit /\ SandboxInit /\ MemoryInit

\* The user starts a command where none runs.
StartCommand(p) ==
  /\ \E k \in Kind : Start(p, k)
  /\ UNCHANGED <<breakerVars, sandboxVars, memoryVars>>

\* execute_task claims a task: its session is logged once the sandbox is warm.
ClaimTask(p) ==
  /\ \E t \in Task : EnterTask(p, t) /\ LogSession(p, t)
  /\ UNCHANGED breakerVars

\* The process's memory is lost with it.
KillCommand(p) ==
  /\ Kill(p) /\ SandboxLost(p) /\ CopyLost(p)
  /\ seen' = [seen EXCEPT ![p] = 0]
  /\ UNCHANGED <<failures, recent>>

\* What a command does of its own accord.
Step(p) ==
  \/ EndBody(p) /\ UNCHANGED <<breakerVars, sandboxVars, memoryVars>>
  \/ ClaimTask(p)
  \/ BreakerStep(p) /\ UNCHANGED <<sandboxVars, memoryVars>>
  \/ SandboxStep(p) /\ UNCHANGED <<breakerVars, memoryVars>>
  \/ MemoryStep(p) /\ UNCHANGED <<breakerVars, sandboxVars>>

Next ==
  \/ \E p \in Proc : StartCommand(p) \/ Step(p) \/ KillCommand(p)
  \/ \E s \in Session : CloseSession(s) /\ UNCHANGED <<breakerVars, sandboxVars>>
  \/ WindowPasses /\ UNCHANGED <<sandboxVars, memoryVars>>

Spec == Init /\ [][Next]_vars

\* A command that is connecting goes on, and time passes.  Nobody has to start
\* commands, and a command may stay in its handler.
FairSpec ==
  /\ Spec
  /\ \A p \in Proc : WF_vars(BreakerStep(p) /\ UNCHANGED <<sandboxVars, memoryVars>>)
  /\ WF_vars(WindowPasses /\ UNCHANGED <<sandboxVars, memoryVars>>)
-----------------------------------------------------------------------------
TypeOK == ProcessTypeOK /\ BreakerTypeOK /\ SandboxTypeOK /\ MemoryTypeOK

\* "Running _cleanup_all_sandboxes on atexit ensures unpruned worktrees and
\* stale container instances are reliably recycled after interrupts"
\* (src/docs/05-architecture.md:266): once no command runs there is neither a
\* container nor a shadow tree, however commands overlapped and whatever a
\* cancelled worker's thread was doing, unless one was killed after the last
\* cleanup began (sandbox.py:146-171).
NoLeaks ==
  (\A p \in Proc : ~Alive(p)) /\ ~killed =>
    container = {} /\ DOMAIN tree = {}

\* As long as commands run one at a time, a task has a running container on a
\* tree with the project in it, also when the container was left behind by a
\* command that was killed while it built or removed it (sandbox.py:40-42).
SandboxReady ==
  ~overlap /\ world.docker =>
    \A p \in Proc : at[p] = "task" =>
      /\ WorkerOf[p] \in container
      /\ WorkerOf[p] \in DOMAIN tree /\ HEAD \in tree[WorkerOf[p]]

\* "Verify that file writes accurately sync to Docker shadow mounts"
\* (src/tests/test_split_brain_sandbox.py:5): what a task has staged is in the
\* tree its commands run on.
StagedReachesSandbox ==
  ~overlap /\ world.docker =>
    \A p \in Proc : at[p] = "task" /\ staged[p] => task[p] \in tree[WorkerOf[p]]

\* The ledger rows of a session are in memory.md until its archive record is
\* in place: whoever is killed between the record and memory.md, or puts a
\* stale copy back, the rows are in one of the two (archiver.py:233-272).
ArchivedIsFiled ==
  \A s \in Session :
    memory.outcome[s] # "none" => s \in memory.ledger \cup filed

\* As long as commands run one at a time, nothing that was acknowledged is lost
\* to the archiver's or the registration's copy of memory.md: a registered id
\* stays, a session's rows stay or are archived, whatever a Ctrl-C left running
\* or a kill cut short (archiver.py:45, 262-267, state.py:898, 991).  Only a
\* worker that Ctrl-C has left running may lose the session it logs while its
\* own command archives (executor.py:215, orchestrator.py:235-241).
AcksSurvive ==
  ~overlap => /\ registered \subseteq Range(memory.ids)
              /\ logged \ late \subseteq memory.ledger \cup filed

\* However many commands register at once, and whatever they put back, no two
\* tasks have one id, with the exceptions the code makes: one batch may choose
\* an id and number a later item with it, and an id that is not Ordinary (of
\* five digits, or padded to four) is not recognised when it comes again
\* (state.py:911-928).
OrdinaryIdsUnique ==
  \A i, j \in DOMAIN memory.ids :
    i # j /\ memory.ids[i] = memory.ids[j] /\ Ordinary(memory.ids[i]) =>
      memory.ids[i] \in clashing

\* A server that has recovered is used again: if connections and processes
\* fail no more and commands that connect keep coming, one of them connects
\* (mcp_manager.py:82-95).
Reconnects ==
  LET fails == \E p \in Proc : ConnectFails(p) \/ KillCommand(p)
      starts == \E p \in Proc, k \in Kind \ {"status"} : Start(p, k)
      connects == \E p \in Proc : ConnectSucceeds(p)
  IN <>[][~fails]_vars /\ []<><<starts>>_vars => []<><<connects>>_vars
=============================================================================

--------------------------- MODULE CommandProcess ---------------------------
(***************************************************************************)
(* The life of yani commands as processes (cli/main.py, LLMOrchestrator.run *)
(* in core/orchestrator.py): a command starts, connects its MCP servers,   *)
(* runs its handler, archives sessions, and leaves through the exit hook,  *)
(* unless it is killed.  Each process runs one command after the other.    *)
(*                                                                         *)
(* The modules that extend this one add what a command does at its stages: *)
(* CircuitBreaker, Sandbox and SessionArchiver; CommandRun composes them.  *)
(***************************************************************************)
EXTENDS Naturals

CONSTANTS
  Proc,    \* processes
  Worlds   \* projects and habits of users; each component reads fields of its own

\* Commands, told apart by what they change: execute runs tasks, iterate
\* (also start and audit) registers tasks, docs only talks to a model, status
\* (also report) only prints.
Kind == {"execute", "iterate", "docs", "status"}

\* kinds: the commands in use.
ASSUME KindsAssumption == \A w \in Worlds : w.kinds \subseteq Kind

VARIABLES
  world,    \* never changes
  pc,       \* the stage a process is at, "idle" without a command
  command,  \* the command a process runs
  overlap,  \* history: a command was started while another one ran
  killed    \* history: one was killed since containers were last cleaned up

processVars == <<world, pc, command, overlap, killed>>

ProcessInit ==
  /\ world \in Worlds
  /\ pc = [p \in Proc |-> "idle"]
  /\ command \in [Proc -> {"status"}]
  /\ overlap = FALSE /\ killed = FALSE
-----------------------------------------------------------------------------
Alive(p) == pc[p] # "idle"

\* p goes from one stage to another and nothing else happens to the process.
Goto(p, from, to) ==
  /\ pc[p] = from
  /\ pc' = [pc EXCEPT ![p] = to]
  /\ UNCHANGED <<world, command, overlap, killed>>

\* status, report and rollback connect no server, and the first two skip the
\* archiver as well.
Start(p, k) ==
  /\ ~Alive(p) /\ k \in world.kinds
  /\ pc' = [pc EXCEPT ![p] = IF k = "status" THEN "close" ELSE "connect?"]
  /\ command' = [command EXCEPT ![p] = k]
  /\ overlap' = (overlap \/ \E q \in Proc : Alive(q))
  /\ UNCHANGED <<world, killed>>

\* The handler returns or raises; run's finally clause comes next.
EndBody(p) == Goto(p, "body", "archive")

\* The process is gone, its exit hook with it (SIGKILL, SIGTERM).
Kill(p) ==
  /\ Alive(p)
  /\ pc' = [pc EXCEPT ![p] = "idle"]
  /\ command' = [command EXCEPT ![p] = "status"]
  /\ killed' = TRUE
  /\ UNCHANGED <<world, overlap>>

Stage ==
  {"idle", "connect?", "reset", "connect", "count", "body", "wave", "register",
   "archive", "file", "replace", "close", "clean", "sweep"}

ProcessTypeOK ==
  /\ world \in Worlds
  /\ pc \in [Proc -> Stage] /\ command \in [Proc -> Kind]
  /\ overlap \in BOOLEAN /\ killed \in BOOLEAN
=============================================================================

----------------------------- MODULE AuditLoop -----------------------------
(***************************************************************************)
(* The audit command (commands/audit_handler.py), run by several processes *)
(* on one project.  Each task under review gets an evaluator session; the  *)
(* file .yani/qa_attempts.json, guarded by a FileLock, counts the sessions *)
(* so that a task is given up after three.                                 *)
(*                                                                         *)
(* Within a process only one coroutine runs, so its registry cache is      *)
(* reduced to the statuses (TaskRegistry has the rest).  Between the       *)
(* processes nothing but memory.md, the counter and its lock is shared.    *)
(* The evaluator follows its prompt: it completes the task or registers    *)
(* fix tasks, which are left out, for they are not reviewed before         *)
(* another command has worked on them.  No task is deferred at             *)
(* first, and no other command defers one.                                 *)
(***************************************************************************)
EXTENDS Naturals

CONSTANTS
  Task,    \* tasks of the registry
  Proc,    \* processes that may run the audit command
  NoOne,   \* the FileLock's holder when it is free
  Unread   \* a cache, an attempts dictionary or a snapshot not read yet

Status == {"awaiting-review", "completed", "deferred"}

Statuses == [Task -> Status]

\* The cap of audit_handler.py on attempts.
Cap == 3

ASSUME AuditAssumption ==
  /\ NoOne \notin Proc
  /\ Unread \notin Statuses \cup [Task -> 0 .. Cap]

VARIABLES
  durable,   \* statuses in memory.md
  attempts,  \* qa_attempts.json as last written
  whole,     \* whether that file is complete, not just truncated
  qaLock,    \* holder of qa_attempts.json.lock
  pc,        \* where each process is, "off" if it does not run
  cache, dirty,  \* its TaskRegistryCache
  snap,      \* content of memory.md it is about to write back
  todo,      \* review_tasks it has not come to
  task,      \* the task it audits
  seen,      \* the attempts dictionary it read
  said,      \* what the task's evaluator decided last
  report,    \* the task's row of results_summary
  sessions,  \* history: evaluator sessions granted per task
  torn       \* history: a process was killed while it wrote the counter

fileVars == <<durable, attempts, whole>>
ownVars == <<cache, dirty, snap, todo, task, seen, said, report>>
vars == <<fileVars, qaLock, pc, ownVars, sessions, torn>>

Init ==
  /\ durable \in [Task -> {"awaiting-review", "completed"}]
  /\ attempts = [t \in Task |-> 0] /\ whole = TRUE
  /\ qaLock = NoOne
  /\ pc = [p \in Proc |-> "off"]
  /\ cache = [p \in Proc |-> Unread] /\ dirty = [p \in Proc |-> FALSE]
  /\ snap = [p \in Proc |-> Unread] /\ seen = [p \in Proc |-> Unread]
  /\ todo = [p \in Proc |-> {}] /\ task \in [Proc -> Task]
  /\ said = [p \in Proc |-> "nothing"] /\ report = [p \in Proc |-> "none"]
  /\ sessions = [t \in Task |-> 0] /\ torn = FALSE
-----------------------------------------------------------------------------
Goto(p, from, to) == pc[p] = from /\ pc' = [pc EXCEPT ![p] = to]

Release(p) == qaLock' = IF qaLock = p THEN NoOne ELSE qaLock

\* The process ends: its memory is gone and the system frees its file lock.
Leave(p) ==
  /\ pc' = [pc EXCEPT ![p] = "off"]
  /\ Release(p)
  /\ cache' = [cache EXCEPT ![p] = Unread] /\ dirty' = [dirty EXCEPT ![p] = FALSE]
  /\ snap' = [snap EXCEPT ![p] = Unread] /\ seen' = [seen EXCEPT ![p] = Unread]
  /\ todo' = [todo EXCEPT ![p] = {}]
  /\ said' = [said EXCEPT ![p] = "nothing"] /\ report' = [report EXCEPT ![p] = "none"]
  /\ UNCHANGED <<task, sessions>>

\* update_task_registry_row: cached, in a cache filled from memory.md.
Cached(p, s) ==
  /\ cache' = [cache EXCEPT ![p] =
                 [IF cache[p] = Unread THEN durable ELSE cache[p]
                    EXCEPT ![task[p]] = s]]
  /\ dirty' = [dirty EXCEPT ![p] = TRUE]

\* A rewrite of memory.md from an earlier copy; the cache is dropped.
WriteBack(p) ==
  /\ durable' = snap[p]
  /\ snap' = [snap EXCEPT ![p] = Unread]
  /\ cache' = [cache EXCEPT ![p] = Unread] /\ dirty' = [dirty EXCEPT ![p] = FALSE]

\* The orphan scan that comes first reads memory.md,
ReadForScan(p) ==
  /\ Goto(p, "off", "scan")
  /\ snap' = [snap EXCEPT ![p] = durable]
  /\ UNCHANGED <<fileVars, qaLock, cache, dirty, todo, task, seen, said, report, sessions, torn>>

\* and writes it back when it has resolved a planned change.
WriteScan(p) ==
  /\ Goto(p, "scan", "scanned")
  /\ WriteBack(p)
  /\ UNCHANGED <<attempts, whole, qaLock, todo, task, seen, said, report, sessions, torn>>

\* The tasks under review are listed, after a scan or where it had no work.
StartAudit(p) ==
  /\ pc[p] \in {"off", "scanned"} /\ pc' = [pc EXCEPT ![p] = "next"]
  /\ todo' = [todo EXCEPT ![p] = {t \in Task : durable[t] = "awaiting-review"}]
  /\ UNCHANGED <<fileVars, qaLock, cache, dirty, snap, task, seen, said, report, sessions, torn>>

NextTask(p) ==
  /\ Goto(p, "next", "guard")
  /\ \E t \in todo[p] :
       /\ task' = [task EXCEPT ![p] = t]
       /\ todo' = [todo EXCEPT ![p] = @ \ {t}]
  /\ said' = [said EXCEPT ![p] = "nothing"] /\ report' = [report EXCEPT ![p] = "none"]
  /\ UNCHANGED <<fileVars, qaLock, cache, dirty, snap, seen, sessions, torn>>

EndAudit(p) ==
  /\ pc[p] = "next" /\ todo[p] = {}
  /\ Leave(p)
  /\ UNCHANGED <<fileVars, torn>>
-----------------------------------------------------------------------------
(* The attempt guard.                                                      *)

\* Mutated form: the counter is read without its lock.
AcquireGuard_NoLock(p) ==
  /\ Goto(p, "guard", "check")
  /\ qaLock' = p
  /\ UNCHANGED <<fileVars, ownVars, sessions, torn>>

AcquireGuard(p) ==
  /\ qaLock = NoOne
  /\ Goto(p, "guard", "check")
  /\ qaLock' = p
  /\ UNCHANGED <<fileVars, ownVars, sessions, torn>>

\* filelock's Timeout after 30 s: nobody catches it.
GuardTimesOut(p) ==
  /\ pc[p] = "guard" /\ qaLock # NoOne
  /\ Leave(p)
  /\ UNCHANGED <<fileVars, torn>>

\* json.load fails on a truncated file, and ends the command.
Unreadable(p) ==
  /\ pc[p] = "check" /\ ~whole
  /\ Leave(p)
  /\ UNCHANGED <<fileVars, torn>>

\* Mutated form: one attempt more.
GivenUp_Late(t) == attempts[t] > Cap

\* Mutated form: one attempt fewer.
GivenUp_Early(t) == attempts[t] >= Cap - 1

GivenUp(t) == attempts[t] >= Cap

\* Three attempts are used up: deferred, and flushed under the lock.
GiveUp(p) ==
  /\ Goto(p, "check", "defer")
  /\ whole /\ GivenUp(task[p])
  /\ Cached(p, "deferred")
  /\ UNCHANGED <<fileVars, qaLock, snap, todo, task, seen, said, report, sessions, torn>>

\* The flush writes every cached row over memory.md's.
Defer(p) ==
  /\ Goto(p, "defer", "next")
  /\ durable' = cache[p]
  /\ dirty' = [dirty EXCEPT ![p] = FALSE]
  /\ Release(p)
  /\ UNCHANGED <<attempts, whole, cache, snap, todo, task, seen, said, report, sessions, torn>>

\* The file is opened for writing, and so truncated,
Truncate(p) ==
  /\ Goto(p, "check", "count")
  /\ whole /\ ~GivenUp(task[p])
  /\ whole' = FALSE
  /\ seen' = [seen EXCEPT ![p] = attempts]
  /\ UNCHANGED <<durable, attempts, qaLock, cache, dirty, snap, todo, task, said, report, sessions, torn>>

\* then written; the lock is released and the evaluator's session begins.
Count(p) ==
  /\ Goto(p, "count", "tools")
  /\ attempts' = [seen[p] EXCEPT ![task[p]] = @ + 1]
  /\ whole' = TRUE
  /\ Release(p)
  /\ seen' = [seen EXCEPT ![p] = Unread]
  /\ sessions' = [sessions EXCEPT ![task[p]] = @ + 1]
  /\ UNCHANGED <<durable, cache, dirty, snap, todo, task, said, report, torn>>
-----------------------------------------------------------------------------
(* The evaluator's session.                                                *)

\* Mutated form: a status the schema does not know.
MarkCompleted_Unknown(p) ==
  /\ pc[p] = "tools"
  /\ Cached(p, "passed")
  /\ said' = [said EXCEPT ![p] = "completed"]
  /\ UNCHANGED <<fileVars, qaLock, pc, snap, todo, task, seen, report, sessions, torn>>

\* The task passes: the update_task_registry_row tool.
MarkCompleted(p) ==
  /\ pc[p] = "tools"
  /\ Cached(p, "completed")
  /\ said' = [said EXCEPT ![p] = "completed"]
  /\ UNCHANGED <<fileVars, qaLock, pc, snap, todo, task, seen, report, sessions, torn>>

\* It fails: register_task_batch reads memory.md,
ReadForBatch(p) ==
  /\ Goto(p, "tools", "batch")
  /\ snap' = [snap EXCEPT ![p] = durable]
  /\ UNCHANGED <<fileVars, qaLock, cache, dirty, todo, task, seen, said, report, sessions, torn>>

\* and writes it back with the fix tasks.
WriteBatch(p) ==
  /\ Goto(p, "batch", "tools")
  /\ WriteBack(p)
  /\ said' = [said EXCEPT ![p] = "fix"]
  /\ UNCHANGED <<attempts, whole, qaLock, todo, task, seen, report, sessions, torn>>

\* The session ends; the status is looked up in memory.md.
Judge(p) ==
  /\ Goto(p, "tools", "next")
  /\ report' = [report EXCEPT ![p] = IF durable[task[p]] = "completed" THEN "PASSED" ELSE "FAILED"]
  /\ UNCHANGED <<fileVars, qaLock, cache, dirty, snap, todo, task, seen, said, sessions, torn>>

\* Any exception: a row in the report, and the next task.
EvaluatorFails(p) ==
  /\ Goto(p, "tools", "next")
  /\ report' = [report EXCEPT ![p] = "ERROR"]
  /\ UNCHANGED <<fileVars, qaLock, cache, dirty, snap, todo, task, seen, said, sessions, torn>>

\* BudgetExhaustedException: _graceful_shutdown flushes what is cached,
Overrun(p) ==
  /\ Goto(p, "tools", "handoff")
  /\ IF dirty[p] THEN durable' = cache[p] ELSE UNCHANGED durable
  /\ dirty' = [dirty EXCEPT ![p] = FALSE]
  /\ UNCHANGED <<attempts, whole, qaLock, cache, snap, todo, task, seen, said, report, sessions, torn>>

\* reads memory.md again for the handoff summary,
ReadForHandoff(p) ==
  /\ Goto(p, "handoff", "summary")
  /\ snap' = [snap EXCEPT ![p] = durable]
  /\ UNCHANGED <<fileVars, qaLock, cache, dirty, todo, task, seen, said, report, sessions, torn>>

\* and writes it; the command returns.
WriteHandoff(p) ==
  /\ pc[p] = "summary"
  /\ durable' = snap[p]
  /\ Leave(p)
  /\ UNCHANGED <<attempts, whole, torn>>
-----------------------------------------------------------------------------
\* The process is killed.
Kill(p) ==
  /\ pc[p] # "off"
  /\ Leave(p)
  /\ torn' = (torn \/ pc[p] = "count")
  /\ UNCHANGED fileVars

\* Another command puts a task up for review again.
Resubmit(t) ==
  /\ durable[t] # "awaiting-review"
  /\ durable' = [durable EXCEPT ![t] = "awaiting-review"]
  /\ UNCHANGED <<attempts, whole, qaLock, pc, ownVars, sessions, torn>>

Guard(p) ==
  \/ AcquireGuard(p) \/ GuardTimesOut(p) \/ Unreadable(p)
  \/ GiveUp(p) \/ Defer(p) \/ Truncate(p) \/ Count(p)

Evaluate(p) == MarkCompleted(p) \/ ReadForBatch(p) \/ WriteBatch(p)

Conclude(p) ==
  \/ Judge(p) \/ EvaluatorFails(p)
  \/ Overrun(p) \/ ReadForHandoff(p) \/ WriteHandoff(p)

Next ==
  \/ \E p \in Proc :
       \/ ReadForScan(p) \/ WriteScan(p)
       \/ StartAudit(p) \/ NextTask(p) \/ EndAudit(p)
       \/ Guard(p) \/ Evaluate(p) \/ Conclude(p) \/ Kill(p)
  \/ \E t \in Task : Resubmit(t)

Spec == Init /\ [][Next]_vars
-----------------------------------------------------------------------------
Place == {"off", "scan", "scanned", "next", "guard", "check", "defer", "count", "tools", "batch",
          "handoff", "summary"}

TypeOK ==
  /\ durable \in Statuses
  /\ attempts \in [Task -> Nat] /\ sessions \in [Task -> Nat]
  /\ whole \in BOOLEAN /\ torn \in BOOLEAN
  /\ qaLock \in Proc \cup {NoOne}
  /\ pc \in [Proc -> Place]
  /\ cache \in [Proc -> Statuses \cup {Unread}] /\ dirty \in [Proc -> BOOLEAN]
  /\ snap \in [Proc -> Statuses \cup {Unread}]
  /\ seen \in [Proc -> [Task -> Nat] \cup {Unread}]
  /\ todo \in [Proc -> SUBSET Task] /\ task \in [Proc -> Task]
  /\ said \in [Proc -> {"nothing", "completed", "fix"}]
  /\ report \in [Proc -> {"none", "PASSED", "FAILED", "ERROR"}]

\* However many audits run side by side, are killed or run again, and however
\* often a task comes back for review, no task gets more than three evaluator
\* sessions.
AuditedAtMostThrice == \A t \in Task : sessions[t] <= Cap

\* A task is never given up early: when memory.md comes to say deferred, its
\* attempts are used up, whosever stale cache or snapshot is written back.
DeferredAfterThree ==
  [][\A t \in Task :
       durable[t] # "deferred" /\ durable'[t] = "deferred" => attempts[t] >= Cap]_durable

\* Concurrent audits do not corrupt qa_attempts.json: it is incomplete only
\* while the lock's holder writes it, unless a writer was killed.
CounterWhole == whole \/ torn \/ (qaLock # NoOne /\ pc[qaLock] = "count")

\* "Detect what the LLM decided by reloading tasks" (audit_handler.py): an
\* evaluator that ends its session after completing the task is reported as
\* such.
VerdictReported ==
  [][\A p \in Proc :
       pc[p] = "tools" /\ said[p] = "completed" /\ pc'[p] = "next"
         => report'[p] \in {"PASSED", "ERROR"}]_vars
=============================================================================

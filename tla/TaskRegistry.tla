---------------------------- MODULE TaskRegistry ----------------------------
(***************************************************************************)
(* The task registry of one yani-engine process: the deferred cache        *)
(* (core/state.py, TaskRegistryCache) and the file memory.md behind it.    *)
(* The JSON mirror .yani/state.json is left out: nothing reads it, and a   *)
(* failure to write it is a warning.                                       *)
(*                                                                         *)
(* Every operation runs on one asyncio loop inside _MEMORY_MUTEX and       *)
(* _REGISTRY_LOCK (always taken in that order, so one variable, lock,      *)
(* stands for the pair).  An operation without an await inside the locks   *)
(* is one action.  The others hand a job to a worker thread                *)
(* (asyncio.to_thread) and are split there: begin, the thread, end.        *)
(***************************************************************************)
EXTENDS Naturals

CONSTANTS
  Task,        \* task ids that may ever be registered
  Coro,        \* coroutines that call the registry
  NoOne,       \* the lock's holder when it is free
  Entry,       \* rows of the append-only tables (Change Log, Checkpoint
               \* Registry, Session Log) that may ever be appended
  Owner,       \* session ids
  NoOwner,     \* the cell "—"
  Checkpoint,  \* checkpoint ids
  NoCheckpoint,\* the cell "none"
  Former,      \* rows earlier commands may have left in memory.md
  Updates,     \* arguments of the update calls the code makes
  Ops,         \* operations the running command may call
  Faults       \* faults injected: "crash", "io"

Status == {"pending", "in_progress", "interrupted", "blocked", "completed",
           "deferred", "awaiting-review", "error", "abandoned"}

\* A Task Registry row, the cells a flush writes back.
Row == [status : Status,
        owner : Owner \cup {NoOwner},
        checkpoint : Checkpoint \cup {NoCheckpoint}]

ASSUME RegistryAssumption ==
  /\ NoOne \notin Coro
  /\ Former \subseteq Row
  /\ Updates \subseteq Row
  /\ Ops \subseteq {"update", "flush", "append", "session", "batch", "handoff"}
  /\ Faults \subseteq {"crash", "io"}

VARIABLES
  loaded,  \* _cache is not None
  cache,   \* _cache, meaningful when loaded
  dirty,   \* _dirty
  rows,    \* Task Registry rows (and Task Details) of memory.md
  log,     \* rows of the append-only tables of memory.md
  lock,    \* holder of _MEMORY_MUTEX and _REGISTRY_LOCK
  job,     \* what the holder's worker thread was asked to do
  acked    \* history: the last row each acknowledged update produced (last),
           \* and those among them a flush has written (flushed)

cacheVars == <<loaded, cache, dirty>>
fileVars == <<rows, log>>
vars == <<loaded, cache, dirty, rows, log, lock, job, acked>>

\* Registry tables: task ids to rows, defined for the registered ids only.
Table == UNION {[S -> Row] : S \in SUBSET Task}

PendingRow == [status |-> "pending", owner |-> NoOwner, checkpoint |-> NoCheckpoint]

EmptyTable == [t \in {} |-> PendingRow]

NoJob == [kind |-> "none", ran |-> FALSE, rows |-> EmptyTable, log |-> {}]

Init ==
  /\ \E S \in SUBSET Task : rows \in [S -> Former]
  /\ log = {}
  /\ loaded = FALSE /\ cache = EmptyTable /\ dirty = FALSE
  /\ lock = NoOne /\ job = NoJob
  /\ acked = [last |-> EmptyTable, flushed |-> EmptyTable]
-----------------------------------------------------------------------------
\* What update_task and load see: the cache, read from disk on first use.
View == IF loaded THEN cache ELSE rows

\* The row after an update: status and owner always, checkpoint if given.
Updated(row, u) ==
  [status |-> u.status, owner |-> u.owner,
   checkpoint |-> IF u.checkpoint = NoCheckpoint THEN row.checkpoint
                                                 ELSE u.checkpoint]

\* The cached part of an update of a registered task.
CacheUpdate(t, u) ==
  /\ t \in DOMAIN View
  /\ loaded' = TRUE
  /\ cache' = [View EXCEPT ![t] = Updated(@, u)]
  /\ dirty' = TRUE
  /\ acked' = [acked EXCEPT !.last =
                 [s \in DOMAIN @ \cup {t} |-> IF s = t THEN cache'[t] ELSE @[s]]]
  /\ UNCHANGED <<fileVars, lock, job>>

\* Mutated form: the update does not wait for the locks.
UpdateTask_NoMutex(c, t, u) == CacheUpdate(t, u)

\* update_task_registry_row on a registered task: cached only.
UpdateTask(c, t, u) == lock = NoOne /\ CacheUpdate(t, u)

\* update_task_registry_row on an unknown id: an error, but the cache is loaded.
UpdateUnknown(c, t) ==
  /\ lock = NoOne
  /\ t \notin DOMAIN View
  /\ loaded' = TRUE
  /\ cache' = View
  /\ UNCHANGED <<dirty, fileVars, lock, job, acked>>

Start(c, kind, r, l) ==
  /\ lock = NoOne
  /\ lock' = c
  /\ job' = [kind |-> kind, ran |-> FALSE, rows |-> r, log |-> l]

Finish == lock' = NoOne /\ job' = NoJob

\* flush_task_registry with nothing to write.
FlushClean(c) ==
  /\ lock = NoOne
  /\ ~(loaded /\ dirty)
  /\ UNCHANGED vars

FlushBegin(c) ==
  /\ loaded /\ dirty
  /\ Start(c, "flush", EmptyTable, {})
  /\ UNCHANGED <<cacheVars, fileVars, acked>>

FlushEnd(c) ==
  /\ lock = c /\ job.kind = "flush" /\ job.ran
  /\ dirty' = FALSE
  /\ Finish
  /\ UNCHANGED <<loaded, cache, fileVars, acked>>

\* Mutated form: the append does not wait for the locks.
AppendRow_NoMutex(c, e) ==
  /\ log' = log \cup {e}
  /\ UNCHANGED <<cacheVars, rows, lock, job, acked>>

\* append_to_markdown_table on the loop's own thread: Change Log and
\* Checkpoint Registry rows.  A failed write returns False, which no caller
\* looks at.
AppendRow(c, e) ==
  /\ lock = NoOne
  /\ \/ log' = log \cup {e}
     \/ "io" \in Faults /\ UNCHANGED log
  /\ UNCHANGED <<cacheVars, rows, lock, job, acked>>

\* append_session_log_row: the whole read and write happens in the thread.
SessionBegin(c, e) ==
  /\ Start(c, "session", EmptyTable, {e})
  /\ UNCHANGED <<cacheVars, fileVars, acked>>

SessionEnd(c) ==
  /\ lock = c /\ job.kind = "session" /\ job.ran
  /\ Finish
  /\ UNCHANGED <<cacheVars, fileVars, acked>>

\* Mutated form: new tasks get a status the schema does not know.
BatchBegin_UnknownStatus(c, new) ==
  /\ new # {} /\ new \cap DOMAIN rows = {}
  /\ Start(c, "batch",
           [t \in DOMAIN rows \cup new |->
              IF t \in DOMAIN rows THEN rows[t]
              ELSE [PendingRow EXCEPT !.status = "registered"]],
           log)
  /\ UNCHANGED <<cacheVars, fileVars, acked>>

\* Mutated form: the registry is written anew, every task pending again.
BatchBegin_Reset(c, new) ==
  /\ new # {} /\ new \cap DOMAIN rows = {}
  /\ Start(c, "batch", [t \in DOMAIN rows \cup new |-> PendingRow], log)
  /\ UNCHANGED <<cacheVars, fileVars, acked>>

\* register_task_batch: memory.md is read, the new content is computed, the
\* thread replaces the file with it.
BatchBegin(c, new) ==
  /\ new # {} /\ new \cap DOMAIN rows = {}
  /\ Start(c, "batch",
           [t \in DOMAIN rows \cup new |->
              IF t \in DOMAIN rows THEN rows[t] ELSE PendingRow],
           log)
  /\ UNCHANGED <<cacheVars, fileVars, acked>>

\* _REGISTRY_CACHE.invalidate: the updates since the last flush go with the
\* cache.  The history falls back to what that flush had written, whatever
\* memory.md says now.
Invalidate ==
  /\ loaded' = FALSE
  /\ cache' = EmptyTable
  /\ dirty' = FALSE
  /\ acked' = [acked EXCEPT !.last = acked.flushed]

\* Mutated form: the cache survives the rewrite of memory.md.
BatchEnd_NoInvalidate(c) ==
  /\ lock = c /\ job.kind = "batch" /\ job.ran
  /\ Finish
  /\ UNCHANGED <<cacheVars, fileVars, acked>>

BatchEnd(c) ==
  /\ lock = c /\ job.kind = "batch" /\ job.ran
  /\ Invalidate
  /\ Finish
  /\ UNCHANGED fileVars

\* append_handoff_summary: the same shape; the registry rows are copied.
HandoffBegin(c) ==
  /\ Start(c, "handoff", rows, log)
  /\ UNCHANGED <<cacheVars, fileVars, acked>>

HandoffEnd(c) ==
  /\ lock = c /\ job.kind = "handoff" /\ job.ran
  /\ Invalidate
  /\ Finish
  /\ UNCHANGED fileVars

\* _sync_to_markdown_unlocked reads memory.md again and overwrites the rows
\* of the cached tasks; rows the cache does not know are left alone.
Merge(file, cached) ==
  [t \in DOMAIN file |-> IF t \in DOMAIN cached THEN cached[t] ELSE file[t]]

\* What the worker thread makes of memory.md, one os.replace.
JobEffect(j) ==
  \/ j.kind = "flush" /\ rows' = Merge(rows, cache) /\ UNCHANGED log
  \/ j.kind = "session" /\ log' = log \cup j.log /\ UNCHANGED rows
  \/ j.kind \in {"batch", "handoff"} /\ rows' = j.rows /\ log' = j.log

RunJob ==
  /\ job.kind # "none" /\ ~job.ran
  /\ JobEffect(job)
  /\ job' = [job EXCEPT !.ran = TRUE]
  /\ acked' = IF job.kind = "flush" THEN [acked EXCEPT !.flushed = acked.last] ELSE acked
  /\ UNCHANGED <<cacheVars, lock>>

\* The thread fails before os.replace: the exception leaves the locks, and
\* neither _dirty nor the cache is touched.  (append_session_log_row does not
\* see it: append_to_markdown_table returned False.)
JobFails ==
  /\ "io" \in Faults
  /\ job.kind # "none" /\ ~job.ran
  /\ Finish
  /\ UNCHANGED <<cacheVars, fileVars, acked>>

\* The process is killed: only the files stay.  The next command is a new
\* process with an empty cache.
Crash ==
  /\ "crash" \in Faults
  /\ Invalidate
  /\ Finish
  /\ UNCHANGED fileVars
-----------------------------------------------------------------------------
Begin(c) ==
  \/ "update" \in Ops /\ \E t \in Task, u \in Updates : UpdateTask(c, t, u)
  \/ "update" \in Ops /\ \E t \in Task : UpdateUnknown(c, t)
  \/ "flush" \in Ops /\ FlushClean(c)
  \/ "flush" \in Ops /\ FlushBegin(c)
  \/ "append" \in Ops /\ \E e \in Entry : AppendRow(c, e)
  \/ "session" \in Ops /\ \E e \in Entry : SessionBegin(c, e)
  \/ "batch" \in Ops /\ \E new \in SUBSET Task : BatchBegin(c, new)
  \/ "handoff" \in Ops /\ HandoffBegin(c)

End(c) == FlushEnd(c) \/ SessionEnd(c) \/ BatchEnd(c) \/ HandoffEnd(c)

Next ==
  \/ \E c \in Coro : Begin(c) \/ End(c)
  \/ RunJob
  \/ JobFails
  \/ Crash

Spec == Init /\ [][Next]_vars
-----------------------------------------------------------------------------
JobKind == {"none", "flush", "session", "batch", "handoff"}

TypeOK ==
  /\ loaded \in BOOLEAN /\ dirty \in BOOLEAN
  /\ cache \in Table /\ rows \in Table /\ acked \in [last : Table, flushed : Table]
  /\ log \subseteq Entry
  /\ lock \in Coro \cup {NoOne}
  /\ job \in [kind : JobKind, ran : BOOLEAN, rows : Table, log : SUBSET Entry]

\* Whenever no operation is in progress, a clean cache says exactly what
\* memory.md says: no task is missing from it and no cell is stale.  This is
\* what every later update builds on, since update_task never rereads a file
\* it has loaded.
CleanCacheIsDisk ==
  lock = NoOne /\ loaded /\ ~dirty => cache = rows

\* When flush's thread is done and _dirty is about to be cleared, memory.md
\* holds every cached update; an update that slipped in behind the thread, or
\* a task the cache does not know, would be lost or forgotten here.
FlushWritesWholeCache ==
  job.kind = "flush" /\ job.ran => rows = cache

\* An appended Change Log, Checkpoint Registry or Session Log row never
\* disappears from memory.md, although batch registration and the handoff
\* summary replace the whole file with content they computed earlier.
LedgerAppendOnly == [][log \subseteq log']_log

\* The registry keeps the promise of RegistryPromise, through the process's own
\* view of the table and the table in memory.md.
Promise == INSTANCE RegistryPromise WITH current <- View, durable <- rows,
                                         Fresh <- PendingRow

KeepsPromise == Promise!Spec

\* What a flush wrote of an acknowledged update stays in memory.md, whoever
\* rewrites the file afterwards and whatever fails; what no flush has written
\* yet waits in the dirty cache.  Only throwing the cache away (a crash, a batch
\* registration, a handoff summary) drops an update, and only an unwritten one.
AckedNotDropped ==
  /\ \A t \in DOMAIN acked.flushed :
       t \in DOMAIN rows /\ rows[t] = acked.flushed[t]
  /\ \A t \in DOMAIN acked.last :
       \/ t \in DOMAIN acked.flushed /\ acked.flushed[t] = acked.last[t]
       \/ loaded /\ dirty /\ cache[t] = acked.last[t]
=============================================================================

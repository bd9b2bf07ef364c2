--------------------------- MODULE MCTaskRegistry ---------------------------
(* Small instances of TaskRegistry.  The update arguments are those of the  *)
(* code's calls: a claim (task_executor.py), a staged write                 *)
(* (write_file_with_review) and the end of a task.                          *)
EXTENDS TaskRegistryProofs, TLC

CONSTANTS s1, k1

MCUpdates ==
  {[status |-> "in_progress", owner |-> s1, checkpoint |-> NoCheckpoint],
   [status |-> "in_progress", owner |-> NoOwner, checkpoint |-> k1],
   [status |-> "awaiting-review", owner |-> NoOwner, checkpoint |-> NoCheckpoint]}

\* A fresh row, and one an aborted run left behind.
MCFormer == {PendingRow, [status |-> "in_progress", owner |-> s1, checkpoint |-> NoCheckpoint]}

AllOps == {"update", "flush", "append", "session", "batch", "handoff"}

AllFaults == {"crash", "io"}

\* Coroutines and ledger rows are interchangeable: neither Updates nor any
\* property names one.
Symmetry == Permutations(Coro) \cup Permutations(Entry)
=============================================================================

--------------------------- MODULE MCWaveExecutor ---------------------------
(* Small instances of WaveExecutor: two workers and three tasks.            *)
EXTENDS WaveExecutor, TLC

CONSTANTS t1, t2, t3, t4, w0, w1, w2

\* Everything fits one wave.
Independent == [t \in Task |-> {}]

\* Every task is fresh.
Fresh == {[status |-> "pending", owner |-> NoOwner, checkpoint |-> NoCheckpoint]}

\* A task is fresh, or an aborted run left it in progress.
LeftOver ==
  {[status |-> s, owner |-> NoOwner, checkpoint |-> NoCheckpoint] : s \in {"pending", "in_progress"}}

Symmetry == Permutations(Worker)
=============================================================================

---------------------------- MODULE MCCommandRun ----------------------------
(* Small instances of CommandRun: two processes, whose workers have the     *)
(* same name, and worlds in which they compete for the breaker, for         *)
(* sandboxes, for task ids, and for memory.md as a whole.                   *)
EXTENDS CommandRun

CONSTANTS p, q, w0

OneWorker == [r \in Proc |-> w0]

One(i, d) == [id |-> i, deps |-> d]

T1 == Numbered(1)
T2 == Numbered(2)
Padded2 == [n |-> 2, padded |-> TRUE]

\* Automatic ids, ids of the caller's, both in one batch, a dependency on a
\* task that need not be there, and ids that are read back as others or after
\* which the numbers run out of digits.
AllBatches ==
  {<<One(NoId, {})>>, <<One(T2, {})>>, <<One(T2, {}), One(NoId, {})>>,
   <<One(Padded2, {T1})>>, <<One(Numbered(LastId), {})>>}

OneBatch == {<<One(NoId, {}), One(NoId, {T1})>>}

MCWorlds ==
  {[kinds |-> {"docs"}, flaky |-> TRUE, docker |-> FALSE,
    batches |-> {}, finished |-> 0, closes |-> FALSE],
   [kinds |-> {"execute", "status"}, flaky |-> FALSE, docker |-> TRUE,
    batches |-> {}, finished |-> 1, closes |-> FALSE],
   [kinds |-> {"iterate"}, flaky |-> FALSE, docker |-> FALSE,
    batches |-> AllBatches, finished |-> 0, closes |-> FALSE],
   [kinds |-> {"execute", "iterate"}, flaky |-> FALSE, docker |-> FALSE,
    batches |-> OneBatch, finished |-> 2, closes |-> TRUE]}

DockerWorld ==
  {[kinds |-> {"execute"}, flaky |-> FALSE, docker |-> TRUE,
    batches |-> {}, finished |-> 0, closes |-> FALSE]}
=============================================================================

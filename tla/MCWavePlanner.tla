--------------------------- MODULE MCWavePlanner ---------------------------
(* Snapshots of three rows: any dependencies of up to one id per row (two   *)
(* for the last), also on itself, later rows and a row that is gone, and    *)
(* every combination of outputs and coupling of two files.                  *)
EXTENDS WavePlanner, FiniteSets

CONSTANTS f1, f2, gone

UpTo(k) == {S \in SUBSET (Task \cup Foreign) : Cardinality(S) <= k}

MCSnapshots ==
  {s \in [status : {st \in [Task -> {"pending", "completed", "awaiting-review", "error"}] :
                     st[N] = "error" /\ \A t \in 1 .. N - 1 : st[t] # "error"},
          deps : [Task -> UpTo(2)],
          outputs : [Task -> {{}, {f1}, {f2}}],
          coupled : {{}, {<<f1, f2>>}}] :
     \A t \in Task : t < N => Cardinality(s.deps[t]) <= 1}
=============================================================================

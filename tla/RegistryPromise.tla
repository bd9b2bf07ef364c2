--------------------------- MODULE RegistryPromise ---------------------------
(***************************************************************************)
(* What the task registry promises its callers, with neither locks nor     *)
(* threads nor files: a table as the process sees it, and a table that     *)
(* survives the process.  The durable table changes only by taking over    *)
(* the current one as a whole, or by gaining freshly registered tasks; the *)
(* current one departs from it only by updates, and never falls back to    *)
(* anything but the durable one.                                           *)
(***************************************************************************)
CONSTANTS Task, Row, Fresh  \* Fresh: the row of a task just registered

VARIABLES current, durable

vars == <<current, durable>>

Init ==
  /\ \E S \in SUBSET Task : durable \in [S -> Row]
  /\ current = durable

Update(t, row) ==
  /\ t \in DOMAIN current
  /\ current' = [current EXCEPT ![t] = row]
  /\ UNCHANGED durable

Persist ==
  /\ DOMAIN current = DOMAIN durable
  /\ durable' = current
  /\ UNCHANGED current

Register(new) ==
  /\ new \cap DOMAIN durable = {}
  /\ durable' = [t \in DOMAIN durable \cup new |->
                   IF t \in DOMAIN durable THEN durable[t] ELSE Fresh]
  /\ current' \in {current, durable'}

\* A crash, or a rewrite of memory.md that drops the cache.
Revert ==
  /\ current' = durable
  /\ UNCHANGED durable

Next ==
  \/ \E t \in Task, row \in Row : Update(t, row)
  \/ Persist
  \/ \E new \in SUBSET Task : Register(new)
  \/ Revert

Spec == Init /\ [][Next]_vars
=============================================================================

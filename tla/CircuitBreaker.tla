--------------------------- MODULE CircuitBreaker ---------------------------
(***************************************************************************)
(* The circuit breaker of one MCP server (core/mcp_manager.py), a file      *)
(* .yani/mcp_cb_<name>.json that commands share and read and write without *)
(* a lock.  connect_mcp treats its two servers alike, each with a breaker  *)
(* of its own, so one is modelled.                                         *)
(***************************************************************************)
EXTENDS CommandProcess

CONSTANT Threshold  \* failures that open the breaker

\* flaky: whether connecting to the server ever fails.
ASSUME BreakerAssumption ==
  Threshold \in Nat \ {0} /\ \A w \in Worlds : w.flaky \in BOOLEAN

VARIABLES
  failures,  \* in the breaker's file, 0 without one; Threshold stands for more
  recent,    \* its last_failure lies within the recovery window
  seen       \* the failures a process read before it counts its own

breakerVars == <<failures, recent, seen>>

BreakerInit ==
  /\ failures = 0 /\ recent = FALSE
  /\ seen = [p \in Proc |-> 0]
-----------------------------------------------------------------------------
\* is_open: the server is skipped.
SkipServer(p) ==
  /\ Goto(p, "connect?", "body")
  /\ failures = Threshold /\ recent
  /\ UNCHANGED breakerVars

\* is_open finds too few failures, or an open breaker whose window is over.
TryServer(p) ==
  /\ \/ failures < Threshold /\ Goto(p, "connect?", "connect")
     \/ failures = Threshold /\ ~recent /\ Goto(p, "connect?", "reset")
  /\ UNCHANGED breakerVars

\* Mutated form: the half-open breaker keeps its count and lets nobody pass.
HalfOpen_Refuse(p) ==
  /\ Goto(p, "reset", "body")
  /\ failures' = Threshold /\ recent' = TRUE
  /\ UNCHANGED seen

\* Mutated form: what is left of the threshold is counted twice.
HalfOpen_Twice(p) ==
  /\ Goto(p, "reset", "connect")
  /\ failures' = Threshold - 1 - failures /\ recent' = TRUE
  /\ UNCHANGED seen

\* Half-open: the next failure opens the breaker again.
HalfOpen(p) ==
  /\ Goto(p, "reset", "connect")
  /\ failures' = Threshold - 1 /\ recent' = TRUE
  /\ UNCHANGED seen

\* The tools are listed in time; record_success removes the file.
ConnectSucceeds(p) ==
  /\ Goto(p, "connect", "body")
  /\ failures' = 0 /\ recent' = FALSE
  /\ UNCHANGED seen

\* A timeout or an error; record_failure reads the file.
ConnectFails(p) ==
  /\ world.flaky
  /\ Goto(p, "connect", "count")
  /\ seen' = [seen EXCEPT ![p] = failures]
  /\ UNCHANGED <<failures, recent>>

\* record_failure replaces the file.
RecordFailure(p) ==
  /\ Goto(p, "count", "body")
  /\ failures' = IF seen[p] < Threshold THEN seen[p] + 1 ELSE Threshold
  /\ recent' = TRUE
  /\ seen' = [seen EXCEPT ![p] = 0]

\* The recovery window of the last failure passes.
WindowPasses ==
  /\ recent /\ recent' = FALSE
  /\ UNCHANGED <<processVars, failures, seen>>

BreakerStep(p) ==
  \/ SkipServer(p) \/ TryServer(p) \/ HalfOpen(p)
  \/ ConnectSucceeds(p) \/ ConnectFails(p) \/ RecordFailure(p)

BreakerTypeOK ==
  /\ failures \in 0 .. Threshold /\ recent \in BOOLEAN
  /\ seen \in [Proc -> 0 .. Threshold]
=============================================================================

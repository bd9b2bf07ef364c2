-------------------------- MODULE AuditLoopProofs --------------------------
(* Proofs about AuditLoop, for every set of tasks and of processes.         *)
EXTENDS AuditLoop, TLAPS

\* The counter's lock is held by the process that works on the counter.
LockHeld == \A p \in Proc : pc[p] \in {"check", "defer", "count"} <=> qaLock = p

\* What the writer of the counter read is what the file said before, and an
\* attempt was left.
CountReady ==
  \A p \in Proc : pc[p] = "count" => seen[p] = attempts /\ attempts[task[p]] < Cap

\* The sessions granted are the attempts on file, up to the cap.
SessionsCounted == sessions = attempts /\ \A t \in Task : attempts[t] <= Cap

\* Whatever says deferred, memory.md, a cache or a copy about to be written
\* back, says so of a task whose attempts are used up.
UsedUp(table) == \A t \in Task : table[t] = "deferred" => attempts[t] >= Cap

DeferredUsedUp ==
  /\ UsedUp(durable)
  /\ \A p \in Proc : cache[p] # Unread => UsedUp(cache[p])
  /\ \A p \in Proc : snap[p] # Unread => UsedUp(snap[p])

\* A process about to write back a table has one.
TablesRead ==
  \A p \in Proc : /\ pc[p] = "defer" \/ dirty[p] => cache[p] # Unread
                  /\ pc[p] \in {"scan", "batch", "summary"} => snap[p] # Unread

IInv ==
  /\ TypeOK
  /\ LockHeld
  /\ CountReady
  /\ SessionsCounted
  /\ DeferredUsedUp
  /\ TablesRead
  /\ CounterWhole
-----------------------------------------------------------------------------
LEMMA UnreadIsNoTable == Unread \notin Statuses
BY AuditAssumption

LEMMA InitIInv == Init => IInv
<1>. SUFFICES ASSUME Init PROVE IInv
  OBVIOUS
<1>1. TypeOK
  BY DEF Init, TypeOK, Statuses, Status, Place
<1>2. LockHeld /\ CountReady /\ TablesRead /\ CounterWhole
  BY AuditAssumption DEF Init, LockHeld, CountReady, TablesRead, CounterWhole
<1>3. SessionsCounted
  BY DEF Init, SessionsCounted, Cap
<1>4. DeferredUsedUp
  BY DEF Init, DeferredUsedUp, UsedUp
<1>. QED BY <1>1, <1>2, <1>3, <1>4 DEF IInv

\* The process ends; memory.md stays, or becomes the copy it had read.
LEMMA LeaveIInv ==
  ASSUME IInv, NEW p \in Proc, pc[p] # "off", Leave(p),
         UNCHANGED <<attempts, whole>>,
         \/ durable' = durable
         \/ pc[p] = "summary" /\ durable' = snap[p],
         \/ torn' = torn /\ pc[p] # "count"
         \/ torn' = (torn \/ pc[p] = "count")
  PROVE  IInv'
<1>. USE DEF IInv, Leave, Release
<1>1. TypeOK'
  BY DEF TypeOK, TablesRead, Place
<1>2. LockHeld'
  BY AuditAssumption DEF LockHeld, TypeOK
<1>3. CountReady' /\ SessionsCounted' /\ TablesRead'
  BY DEF CountReady, SessionsCounted, TablesRead, TypeOK
<1>4. DeferredUsedUp'
  BY DEF DeferredUsedUp, UsedUp, TablesRead, TypeOK
<1>5. CounterWhole'
  BY DEF CounterWhole, TypeOK, LockHeld
<1>. QED BY <1>1, <1>2, <1>3, <1>4, <1>5

\* A step of p that leaves the counter, its lock and all tables alone.
LEMMA MoveIInv ==
  ASSUME IInv, NEW p \in Proc, NEW from, NEW to, Goto(p, from, to),
         from \notin {"check", "defer", "count"},
         to \in Place \ {"check", "defer", "count", "scan", "batch", "summary"},
         UNCHANGED <<durable, attempts, whole, qaLock, cache, dirty, snap, seen, sessions, torn>>,
         \A q \in Proc : q # p => task'[q] = task[q],
         TypeOK'
  PROVE  IInv'
<1>. USE DEF IInv, Goto
<1>2. LockHeld'
  BY DEF LockHeld, TypeOK
<1>3. CountReady' /\ SessionsCounted' /\ TablesRead'
  BY DEF CountReady, SessionsCounted, TablesRead, TypeOK
<1>4. DeferredUsedUp'
  BY DEF DeferredUsedUp, UsedUp
<1>5. CounterWhole'
  BY DEF CounterWhole, TypeOK, LockHeld
<1>. QED BY <1>2, <1>3, <1>4, <1>5

LEMMA CommandIInv ==
  ASSUME IInv, NEW p \in Proc,
         ReadForScan(p) \/ WriteScan(p) \/ StartAudit(p) \/ NextTask(p) \/ EndAudit(p)
  PROVE  IInv'
<1>1. CASE StartAudit(p)
  <2>1. TypeOK'
    BY <1>1 DEF IInv, TypeOK, StartAudit, Place, fileVars
  <2>2. Goto(p, pc[p], "next") /\ pc[p] \in {"off", "scanned"}
    BY <1>1 DEF StartAudit, Goto
  <2>. QED BY <1>1, <2>1, <2>2, MoveIInv DEF StartAudit, fileVars, Place
<1>2. CASE NextTask(p)
  <2>1. TypeOK'
    BY <1>2 DEF IInv, TypeOK, NextTask, Goto, Place, fileVars
  <2>2. \A q \in Proc : q # p => task'[q] = task[q]
    BY <1>2 DEF IInv, TypeOK, NextTask
  <2>. QED BY <1>2, <2>1, <2>2, MoveIInv DEF NextTask, fileVars, Place
<1>3. CASE EndAudit(p)
  <2>1. pc[p] = "next" /\ Leave(p) /\ UNCHANGED <<durable, attempts, whole, torn>>
    BY <1>3 DEF EndAudit, fileVars
  <2>. QED BY <2>1, LeaveIInv
<1>4. CASE ReadForScan(p)
  <2>. USE <1>4 DEF ReadForScan, Goto, fileVars, IInv
  <2>1. TypeOK'
    BY DEF TypeOK, Place
  <2>2. LockHeld' /\ CountReady' /\ SessionsCounted' /\ CounterWhole'
    BY DEF LockHeld, CountReady, SessionsCounted, CounterWhole, TypeOK
  <2>3. DeferredUsedUp' /\ TablesRead'
    BY UnreadIsNoTable DEF DeferredUsedUp, UsedUp, TablesRead, TypeOK
  <2>. QED BY <2>1, <2>2, <2>3
<1>5. CASE WriteScan(p)
  <2>. USE <1>5 DEF WriteScan, WriteBack, Goto, IInv
  <2>1. snap[p] \in Statuses /\ UsedUp(snap[p])
    BY DEF TypeOK, TablesRead, DeferredUsedUp
  <2>2. TypeOK'
    BY <2>1 DEF TypeOK, Place
  <2>3. LockHeld' /\ CountReady' /\ SessionsCounted' /\ CounterWhole'
    BY DEF LockHeld, CountReady, SessionsCounted, CounterWhole, TypeOK
  <2>4. DeferredUsedUp' /\ TablesRead'
    BY <2>1 DEF DeferredUsedUp, UsedUp, TablesRead, TypeOK
  <2>. QED BY <2>2, <2>3, <2>4
<1>. QED BY <1>1, <1>2, <1>3, <1>4, <1>5

\* The attempt guard: only the lock's holder goes past AcquireGuard.
LEMMA GuardIInv ==
  ASSUME IInv, NEW p \in Proc, Guard(p)
  PROVE  IInv'
<1>. USE DEF IInv
<1>1. CASE AcquireGuard(p)
  <2>1. TypeOK'
    BY <1>1 DEF AcquireGuard, Goto, TypeOK, fileVars, ownVars, Place
  <2>2. LockHeld'
    BY <1>1, AuditAssumption DEF AcquireGuard, Goto, LockHeld, TypeOK
  <2>3. CountReady' /\ SessionsCounted' /\ DeferredUsedUp' /\ TablesRead' /\ CounterWhole'
    BY <1>1 DEF AcquireGuard, Goto, fileVars, ownVars, CountReady, SessionsCounted,
                DeferredUsedUp, UsedUp, TablesRead, CounterWhole, TypeOK
  <2>. QED BY <2>1, <2>2, <2>3
<1>2. CASE GuardTimesOut(p)
  <2>1. pc[p] = "guard" /\ Leave(p) /\ UNCHANGED <<durable, attempts, whole, torn>>
    BY <1>2 DEF GuardTimesOut, fileVars
  <2>. QED BY <2>1, LeaveIInv
<1>3. CASE Unreadable(p)
  <2>1. pc[p] = "check" /\ Leave(p) /\ UNCHANGED <<durable, attempts, whole, torn>>
    BY <1>3 DEF Unreadable, fileVars
  <2>. QED BY <2>1, LeaveIInv
<1>4. CASE GiveUp(p)
  <2>. USE <1>4 DEF GiveUp, Goto, Cached, GivenUp, fileVars
  <2>1. cache[p] # Unread => cache[p] \in Statuses
    BY DEF TypeOK
  <2>2. cache'[p] \in Statuses /\ cache'[p] # Unread /\ UsedUp(cache'[p])
    BY <2>1, UnreadIsNoTable DEF DeferredUsedUp, UsedUp, TypeOK, Statuses, Status
  <2>3. \A q \in Proc : q # p => cache'[q] = cache[q]
    BY DEF TypeOK
  <2>4. TypeOK'
    BY <2>2 DEF TypeOK, Place
  <2>5. LockHeld' /\ CountReady' /\ SessionsCounted' /\ CounterWhole'
    BY DEF LockHeld, CountReady, SessionsCounted, CounterWhole, TypeOK
  <2>6. DeferredUsedUp' /\ TablesRead'
    BY <2>2, <2>3 DEF DeferredUsedUp, UsedUp, TablesRead, TypeOK
  <2>. QED BY <2>4, <2>5, <2>6
<1>5. CASE Defer(p)
  <2>. USE <1>5 DEF Defer, Goto, Release
  <2>1. cache[p] \in Statuses /\ UsedUp(cache[p])
    BY DEF TypeOK, TablesRead, DeferredUsedUp
  <2>2. TypeOK'
    BY <2>1 DEF TypeOK, Place
  <2>3. LockHeld'
    BY AuditAssumption DEF LockHeld, TypeOK
  <2>4. CountReady' /\ SessionsCounted' /\ CounterWhole'
    BY DEF LockHeld, CountReady, SessionsCounted, CounterWhole, TypeOK
  <2>5. DeferredUsedUp' /\ TablesRead'
    BY <2>1 DEF DeferredUsedUp, UsedUp, TablesRead, TypeOK
  <2>. QED BY <2>2, <2>3, <2>4, <2>5
<1>6. CASE Truncate(p)
  <2>. USE <1>6 DEF Truncate, Goto
  <2>1. TypeOK'
    BY DEF TypeOK, Place
  <2>2. LockHeld' /\ CounterWhole'
    BY AuditAssumption DEF LockHeld, CounterWhole, TypeOK
  <2>3. CountReady' /\ SessionsCounted'
    BY DEF CountReady, SessionsCounted, GivenUp, LockHeld, TypeOK, Cap
  <2>4. DeferredUsedUp' /\ TablesRead'
    BY DEF DeferredUsedUp, UsedUp, TablesRead, TypeOK
  <2>. QED BY <2>1, <2>2, <2>3, <2>4
<1>7. CASE Count(p)
  <2>1. /\ attempts' = [attempts EXCEPT ![task[p]] = @ + 1]
        /\ attempts[task[p]] < Cap /\ task[p] \in Task
    BY <1>7 DEF Count, Goto, CountReady, TypeOK
  <2>2. /\ attempts \in [Task -> Nat] /\ sessions = attempts
        /\ sessions' = [sessions EXCEPT ![task[p]] = @ + 1]
        /\ \A t \in Task : attempts[t] <= Cap
    BY <1>7 DEF Count, TypeOK, SessionsCounted
  <2>. HIDE DEF IInv
  <2>3. attempts' \in [Task -> Nat] /\ sessions' \in [Task -> Nat]
    BY <2>1, <2>2
  <2>4. sessions' = attempts'
    BY <2>1, <2>2
  <2>5. \A t \in Task : attempts'[t] <= Cap /\ attempts[t] <= attempts'[t]
    BY <2>1, <2>2 DEF Cap
  <2>. USE <1>7 DEF Count, Goto, Release, IInv
  <2>6. TypeOK'
    BY <2>3 DEF TypeOK, Place
  <2>7. LockHeld' /\ CounterWhole'
    BY AuditAssumption DEF LockHeld, CounterWhole, TypeOK
  <2>8. CountReady'
    BY DEF CountReady, LockHeld, TypeOK
  <2>10. SessionsCounted'
    BY <2>4, <2>5 DEF SessionsCounted
  <2>9. \A t \in Task : attempts[t] >= Cap => attempts'[t] >= Cap
    BY <2>1, <2>2, <2>3, <2>5 DEF Cap
  <2>11. DeferredUsedUp' /\ TablesRead'
    BY <2>9 DEF DeferredUsedUp, UsedUp, TablesRead, TypeOK
  <2>. QED BY <2>6, <2>7, <2>8, <2>11, <2>10
<1>. QED BY <1>1, <1>2, <1>3, <1>4, <1>5, <1>6, <1>7 DEF Guard

\* The evaluator's tools touch p's cache and copy, and memory.md.
LEMMA EvaluateIInv ==
  ASSUME IInv, NEW p \in Proc, Evaluate(p)
  PROVE  IInv'
<1>. USE DEF IInv
<1>1. CASE MarkCompleted(p)
  <2>. USE <1>1 DEF MarkCompleted, Cached, fileVars
  <2>1. cache'[p] \in Statuses /\ cache'[p] # Unread /\ UsedUp(cache'[p])
    BY UnreadIsNoTable DEF DeferredUsedUp, UsedUp, TypeOK, Statuses, Status
  <2>2. \A q \in Proc : q # p => cache'[q] = cache[q]
    BY DEF TypeOK
  <2>3. TypeOK'
    BY <2>1 DEF TypeOK
  <2>4. LockHeld' /\ CountReady' /\ SessionsCounted' /\ CounterWhole'
    BY DEF LockHeld, CountReady, SessionsCounted, CounterWhole
  <2>5. DeferredUsedUp' /\ TablesRead'
    BY <2>1, <2>2 DEF DeferredUsedUp, UsedUp, TablesRead, TypeOK
  <2>. QED BY <2>3, <2>4, <2>5
<1>2. CASE ReadForBatch(p)
  <2>. USE <1>2 DEF ReadForBatch, Goto, fileVars
  <2>1. TypeOK'
    BY DEF TypeOK, Place
  <2>2. LockHeld' /\ CountReady' /\ SessionsCounted' /\ CounterWhole'
    BY DEF LockHeld, CountReady, SessionsCounted, CounterWhole, TypeOK
  <2>3. DeferredUsedUp' /\ TablesRead'
    BY UnreadIsNoTable DEF DeferredUsedUp, UsedUp, TablesRead, TypeOK
  <2>. QED BY <2>1, <2>2, <2>3
<1>3. CASE WriteBatch(p)
  <2>. USE <1>3 DEF WriteBatch, WriteBack, Goto
  <2>1. snap[p] \in Statuses /\ UsedUp(snap[p])
    BY DEF TypeOK, TablesRead, DeferredUsedUp
  <2>2. TypeOK'
    BY <2>1 DEF TypeOK, Place
  <2>3. LockHeld' /\ CountReady' /\ SessionsCounted' /\ CounterWhole'
    BY DEF LockHeld, CountReady, SessionsCounted, CounterWhole, TypeOK
  <2>4. DeferredUsedUp' /\ TablesRead'
    BY <2>1 DEF DeferredUsedUp, UsedUp, TablesRead, TypeOK
  <2>. QED BY <2>2, <2>3, <2>4
<1>. QED BY <1>1, <1>2, <1>3 DEF Evaluate

LEMMA ConcludeIInv ==
  ASSUME IInv, NEW p \in Proc, Conclude(p)
  PROVE  IInv'
<1>1. CASE Judge(p) \/ EvaluatorFails(p)
  <2>1. TypeOK'
    BY <1>1 DEF IInv, TypeOK, Judge, EvaluatorFails, Goto, Place, fileVars
  <2>. QED BY <1>1, <2>1, MoveIInv DEF Judge, EvaluatorFails, fileVars, Place
<1>2. CASE Overrun(p)
  <2>. USE <1>2 DEF Overrun, Goto, IInv
  <2>1. dirty[p] => cache[p] \in Statuses /\ UsedUp(cache[p])
    BY DEF TypeOK, TablesRead, DeferredUsedUp
  <2>2. TypeOK'
    BY <2>1 DEF TypeOK, Place
  <2>3. LockHeld' /\ CountReady' /\ SessionsCounted' /\ CounterWhole'
    BY DEF LockHeld, CountReady, SessionsCounted, CounterWhole, TypeOK
  <2>4. DeferredUsedUp' /\ TablesRead'
    BY <2>1 DEF DeferredUsedUp, UsedUp, TablesRead, TypeOK
  <2>. QED BY <2>2, <2>3, <2>4
<1>3. CASE ReadForHandoff(p)
  <2>. USE <1>3 DEF ReadForHandoff, Goto, fileVars, IInv
  <2>1. TypeOK'
    BY DEF TypeOK, Place
  <2>2. LockHeld' /\ CountReady' /\ SessionsCounted' /\ CounterWhole'
    BY DEF LockHeld, CountReady, SessionsCounted, CounterWhole, TypeOK
  <2>3. DeferredUsedUp' /\ TablesRead'
    BY UnreadIsNoTable DEF DeferredUsedUp, UsedUp, TablesRead, TypeOK
  <2>. QED BY <2>1, <2>2, <2>3
<1>4. CASE WriteHandoff(p)
  <2>1. /\ pc[p] = "summary" /\ Leave(p) /\ durable' = snap[p]
        /\ UNCHANGED <<attempts, whole, torn>>
    BY <1>4 DEF WriteHandoff
  <2>. QED BY <2>1, LeaveIInv
<1>. QED BY <1>1, <1>2, <1>3, <1>4 DEF Conclude

LEMMA NextIInv == IInv /\ [Next]_vars => IInv'
<1>. SUFFICES ASSUME IInv, [Next]_vars PROVE IInv'
  OBVIOUS
<1>1. ASSUME NEW p \in Proc, Kill(p) PROVE IInv'
  <2>1. /\ pc[p] # "off" /\ Leave(p) /\ torn' = (torn \/ pc[p] = "count")
        /\ UNCHANGED <<durable, attempts, whole>>
    BY <1>1 DEF Kill, fileVars
  <2>. QED BY <2>1, LeaveIInv
<1>2. ASSUME NEW t \in Task, Resubmit(t) PROVE IInv'
  <2>. USE <1>2 DEF Resubmit, ownVars, IInv
  <2>1. TypeOK'
    BY DEF TypeOK, Statuses, Status
  <2>2. LockHeld' /\ CountReady' /\ SessionsCounted' /\ CounterWhole' /\ TablesRead'
    BY DEF LockHeld, CountReady, SessionsCounted, CounterWhole, TablesRead
  <2>3. DeferredUsedUp'
    BY DEF DeferredUsedUp, UsedUp, TypeOK, Statuses
  <2>. QED BY <2>1, <2>2, <2>3
<1>3. CASE UNCHANGED vars
  BY <1>3 DEF vars, fileVars, ownVars, IInv, TypeOK, LockHeld, CountReady, SessionsCounted,
              DeferredUsedUp, UsedUp, TablesRead, CounterWhole
<1>. QED BY <1>1, <1>2, <1>3, CommandIInv, GuardIInv, EvaluateIInv, ConcludeIInv DEF Next
-----------------------------------------------------------------------------
\* The audit's inductive invariant holds in every state.
THEOREM Invariance == Spec => []IInv
BY InitIInv, NextIInv, PTL DEF Spec

\* Types are kept.
THEOREM TypeCorrect == Spec => []TypeOK
<1>1. IInv => TypeOK
  BY DEF IInv
<1>. QED BY <1>1, Invariance, PTL

\* No task ever gets a fourth evaluator session, whoever audits and whatever is
\* killed in between.
THEOREM AttemptsCapped == Spec => []AuditedAtMostThrice
<1>1. IInv => AuditedAtMostThrice
  BY DEF IInv, SessionsCounted, AuditedAtMostThrice
<1>. QED BY <1>1, Invariance, PTL

\* No audit finds the counter half-written by another.
THEOREM CounterGuarded == Spec => []CounterWhole
<1>1. IInv => CounterWhole
  BY DEF IInv
<1>. QED BY <1>1, Invariance, PTL

\* memory.md comes to say deferred of no task with an attempt left.
THEOREM NeverGivenUpEarly == Spec => DeferredAfterThree
<1>1. IInv /\ IInv' /\ [Next]_vars =>
        [\A t \in Task :
           durable[t] # "deferred" /\ durable'[t] = "deferred" => attempts[t] >= Cap]_durable
  <2>. SUFFICES ASSUME IInv, IInv', [Next]_vars, NEW t \in Task,
                       durable[t] # "deferred", durable'[t] = "deferred"
                PROVE  attempts[t] >= Cap
    OBVIOUS
  <2>1. attempts'[t] >= Cap
    BY DEF IInv, DeferredUsedUp, UsedUp
  <2>2. ASSUME NEW p \in Proc, Count(p) PROVE attempts[t] >= Cap
    BY <2>2 DEF Count
  <2>3. CASE \A p \in Proc : ~Count(p)
    BY <2>1, <2>3
       DEF Next, ReadForScan, WriteScan, StartAudit, NextTask, EndAudit, Guard, AcquireGuard, GuardTimesOut,
           Unreadable, GiveUp, Defer, Truncate, Evaluate, MarkCompleted, ReadForBatch,
           WriteBatch, Conclude, Judge, EvaluatorFails, Overrun, ReadForHandoff,
           WriteHandoff, Kill, Resubmit, vars, fileVars
  <2>. QED BY <2>2, <2>3
<1>. QED BY <1>1, Invariance, PTL DEF Spec, DeferredAfterThree
=============================================================================

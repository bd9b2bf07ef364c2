------------------------- MODULE TaskRegistryProofs -------------------------
(* Proofs about TaskRegistry: typing, the inductive invariant, and the      *)
(* safety properties that follow from it, for every set of tasks,           *)
(* coroutines, entries, operations and faults.                              *)
EXTENDS TaskRegistry, TLAPS

\* One operation at a time: the locks are held exactly while a job is there.
LockMatchesJob == lock = NoOne <=> job.kind = "none"

\* A job computed from memory.md still describes memory.md when it runs: its
\* ledger is the file's, its old rows are the file's, its new rows pending.
SnapshotCurrent ==
  job.kind \in {"batch", "handoff"} /\ ~job.ran =>
    /\ job.log = log
    /\ DOMAIN rows \subseteq DOMAIN job.rows
    /\ \A t \in DOMAIN job.rows :
         job.rows[t] = IF t \in DOMAIN rows THEN rows[t] ELSE PendingRow
    /\ job.kind = "handoff" => DOMAIN job.rows = DOMAIN rows

\* The cache covers the file, except behind a batch write that is about to
\* invalidate it, and equals it when clean.
CacheCoversDisk ==
  loaded /\ ~(job.kind = "batch" /\ job.ran) =>
    /\ DOMAIN cache = DOMAIN rows
    /\ ~dirty => cache = rows

\* A flush in progress works for a loaded dirty cache and, once its thread is
\* done, has made the file equal to it.
FlushInProgress ==
  job.kind = "flush" => /\ loaded /\ dirty
                        /\ job.ran => rows = cache

NotLoadedNotDirty == ~loaded => ~dirty

IInv ==
  /\ TypeOK
  /\ LockMatchesJob
  /\ SnapshotCurrent
  /\ CacheCoversDisk
  /\ FlushInProgress
  /\ NotLoadedNotDirty
-----------------------------------------------------------------------------
LEMMA TableIff ==
  \A f : f \in Table <=> f \in [DOMAIN f -> Row] /\ DOMAIN f \subseteq Task
<1> SUFFICES ASSUME NEW f
             PROVE  f \in Table <=> f \in [DOMAIN f -> Row] /\ DOMAIN f \subseteq Task
  OBVIOUS
<1>1. ASSUME f \in Table
      PROVE  f \in [DOMAIN f -> Row] /\ DOMAIN f \subseteq Task
  <2>1. PICK S \in SUBSET Task : f \in [S -> Row]
    BY <1>1 DEF Table
  <2>2. DOMAIN f = S
    BY <2>1
  <2>3. QED
    BY <2>1, <2>2
<1>2. ASSUME f \in [DOMAIN f -> Row], DOMAIN f \subseteq Task
      PROVE  f \in Table
  BY <1>2 DEF Table
<1>3. QED
  BY <1>1, <1>2

LEMMA PendingRowIsRow == PendingRow \in Row
  BY DEF PendingRow, Row, Status

LEMMA EmptyTableIsTable == EmptyTable \in Table
<1>1. EmptyTable \in [{} -> Row]
  BY DEF EmptyTable
<1>2. QED
  BY <1>1 DEF Table

LEMMA NoJobType == NoJob \in [kind : JobKind, ran : BOOLEAN, rows : Table, log : SUBSET Entry]
  BY EmptyTableIsTable DEF NoJob, JobKind

\* An update of a row by one of the code's calls yields a row.
LEMMA UpdatedIsRow ==
  ASSUME NEW row \in Row, NEW u \in Updates
  PROVE  Updated(row, u) \in Row
  BY RegistryAssumption DEF Updated, Row

\* Writing the cache over the file yields a table with the file's tasks.
LEMMA MergeType ==
  ASSUME NEW file \in Table, NEW cached \in Table
  PROVE  /\ Merge(file, cached) \in Table
         /\ DOMAIN Merge(file, cached) = DOMAIN file
<1>1. /\ file \in [DOMAIN file -> Row] /\ DOMAIN file \subseteq Task
      /\ cached \in [DOMAIN cached -> Row]
  BY TableIff
<1>2. Merge(file, cached) \in [DOMAIN file -> Row]
  BY <1>1 DEF Merge
<1>3. QED
  BY <1>1, <1>2 DEF Merge, Table

\* A flush of a cache that covers the file makes the file equal to the cache.
LEMMA MergeCovering ==
  ASSUME NEW file \in Table, NEW cached \in Table, DOMAIN cached = DOMAIN file
  PROVE  Merge(file, cached) = cached
<1>1. cached \in [DOMAIN file -> Row]
  BY TableIff
<1>2. QED
  BY <1>1 DEF Merge

\* The table an update leaves in the cache.
LEMMA UpdateType ==
  ASSUME NEW f \in Table, NEW t \in DOMAIN f, NEW u \in Updates
  PROVE  /\ [f EXCEPT ![t] = Updated(@, u)] \in Table
         /\ DOMAIN [f EXCEPT ![t] = Updated(@, u)] = DOMAIN f
<1>1. f \in [DOMAIN f -> Row] /\ DOMAIN f \subseteq Task
  BY TableIff
<1>2. Updated(f[t], u) \in Row
  BY <1>1, UpdatedIsRow
<1>3. [f EXCEPT ![t] = Updated(@, u)] \in [DOMAIN f -> Row]
  BY <1>1, <1>2
<1>4. QED
  BY <1>1, <1>3 DEF Table

\* The content a batch registration computes.
LEMMA BatchTableType ==
  ASSUME NEW f \in Table, NEW new \in SUBSET Task
  PROVE  [t \in DOMAIN f \cup new |-> IF t \in DOMAIN f THEN f[t] ELSE PendingRow] \in Table
<1>1. f \in [DOMAIN f -> Row] /\ DOMAIN f \subseteq Task
  BY TableIff
<1>2. [t \in DOMAIN f \cup new |-> IF t \in DOMAIN f THEN f[t] ELSE PendingRow]
        \in [DOMAIN f \cup new -> Row]
  BY <1>1, PendingRowIsRow
<1>3. QED
  BY <1>1, <1>2 DEF Table

\* What the history variable becomes when an update is acknowledged.
LEMMA AckedType ==
  ASSUME NEW f \in Table, NEW t \in Task, NEW row \in Row
  PROVE  [s \in DOMAIN f \cup {t} |-> IF s = t THEN row ELSE f[s]] \in Table
<1>1. f \in [DOMAIN f -> Row] /\ DOMAIN f \subseteq Task
  BY TableIff
<1>2. [s \in DOMAIN f \cup {t} |-> IF s = t THEN row ELSE f[s]]
        \in [DOMAIN f \cup {t} -> Row]
  BY <1>1
<1>3. QED
  BY <1>1, <1>2 DEF Table

\* The steps of the history: an acknowledgement, a flush, a lost cache.
LEMMA HistoryType ==
  ASSUME acked \in [last : Table, flushed : Table]
  PROVE  /\ acked.last \in Table /\ acked.flushed \in Table
         /\ [acked EXCEPT !.last = acked.flushed] \in [last : Table, flushed : Table]
         /\ [acked EXCEPT !.flushed = acked.last] \in [last : Table, flushed : Table]
         /\ \A f \in Table : [acked EXCEPT !.last = f] \in [last : Table, flushed : Table]
  OBVIOUS
-----------------------------------------------------------------------------
LEMMA InitType == Init => TypeOK
<1> SUFFICES ASSUME Init PROVE TypeOK
  OBVIOUS
<1>1. PICK S \in SUBSET Task : rows \in [S -> Former]
  BY DEF Init
<1>2. rows \in Table
  <2>1. rows \in [S -> Row]
    BY <1>1, RegistryAssumption
  <2>2. QED
    BY <2>1 DEF Table
<1>3. QED
  BY <1>2, EmptyTableIsTable, NoJobType DEF Init, TypeOK

LEMMA ViewType == TypeOK => View \in Table
  BY DEF TypeOK, View

LEMMA UpdateTaskType ==
  ASSUME TypeOK, NEW c \in Coro, NEW t \in Task, NEW u \in Updates, UpdateTask(c, t, u)
  PROVE  TypeOK'
<1>1. /\ t \in DOMAIN View
      /\ cache' = [View EXCEPT ![t] = Updated(@, u)]
  BY DEF UpdateTask, CacheUpdate
<1>2. cache' \in Table /\ DOMAIN cache' = DOMAIN View
  BY <1>1, ViewType, UpdateType
<1>3. cache'[t] \in Row
  BY <1>1, <1>2, TableIff
<1>4. acked' \in [last : Table, flushed : Table]
  <2>1. [s \in DOMAIN acked.last \cup {t} |-> IF s = t THEN cache'[t] ELSE acked.last[s]] \in Table
    BY <1>3, AckedType, HistoryType DEF TypeOK
  <2>2. acked' = [acked EXCEPT !.last =
                    [s \in DOMAIN acked.last \cup {t} |-> IF s = t THEN cache'[t] ELSE acked.last[s]]]
    BY DEF UpdateTask, CacheUpdate, TypeOK
  <2>. QED BY <2>1, <2>2, HistoryType DEF TypeOK
<1>5. QED
  BY <1>2, <1>4 DEF UpdateTask, CacheUpdate, TypeOK, fileVars

\* Taking the locks for a well-formed job, and letting them go.
LEMMA StartType ==
  ASSUME NEW c \in Coro, NEW kind \in JobKind, NEW r \in Table, NEW l \in SUBSET Entry,
         Start(c, kind, r, l)
  PROVE  /\ lock' \in Coro \cup {NoOne}
         /\ job' \in [kind : JobKind, ran : BOOLEAN, rows : Table, log : SUBSET Entry]
  BY DEF Start

LEMMA FinishType ==
  Finish => /\ lock' \in Coro \cup {NoOne}
            /\ job' \in [kind : JobKind, ran : BOOLEAN, rows : Table, log : SUBSET Entry]
  BY NoJobType DEF Finish

LEMMA BeginType ==
  ASSUME TypeOK, NEW c \in Coro, Begin(c)
  PROVE  TypeOK'
<1> USE DEF cacheVars, fileVars
<1>1. ASSUME NEW t \in Task, NEW u \in Updates, UpdateTask(c, t, u) PROVE TypeOK'
  BY <1>1, UpdateTaskType
<1>2. ASSUME NEW t \in Task, UpdateUnknown(c, t) PROVE TypeOK'
  BY <1>2, ViewType DEF UpdateUnknown, TypeOK
<1>3. ASSUME FlushClean(c) PROVE TypeOK'
  BY <1>3 DEF FlushClean, TypeOK, vars
<1>4. ASSUME FlushBegin(c) PROVE TypeOK'
  BY <1>4, StartType, EmptyTableIsTable DEF FlushBegin, TypeOK, JobKind
<1>5. ASSUME NEW e \in Entry, AppendRow(c, e) PROVE TypeOK'
  BY <1>5 DEF AppendRow, TypeOK
<1>6. ASSUME NEW e \in Entry, SessionBegin(c, e) PROVE TypeOK'
  BY <1>6, StartType, EmptyTableIsTable DEF SessionBegin, TypeOK, JobKind
<1>7. ASSUME NEW new \in SUBSET Task, BatchBegin(c, new) PROVE TypeOK'
  <2>1. [t \in DOMAIN rows \cup new |-> IF t \in DOMAIN rows THEN rows[t] ELSE PendingRow]
          \in Table
    BY BatchTableType DEF TypeOK
  <2>2. QED
    BY <1>7, <2>1, StartType DEF BatchBegin, TypeOK, JobKind
<1>8. ASSUME HandoffBegin(c) PROVE TypeOK'
  BY <1>8, StartType DEF HandoffBegin, TypeOK, JobKind
<1>9. QED
  BY <1>1, <1>2, <1>3, <1>4, <1>5, <1>6, <1>7, <1>8 DEF Begin

LEMMA EndType ==
  ASSUME TypeOK, NEW c \in Coro, End(c)
  PROVE  TypeOK'
<1> USE FinishType, EmptyTableIsTable, HistoryType DEF cacheVars, fileVars
<1>1. ASSUME FlushEnd(c) PROVE TypeOK'
  BY <1>1 DEF FlushEnd, TypeOK
<1>2. ASSUME SessionEnd(c) PROVE TypeOK'
  BY <1>2 DEF SessionEnd, TypeOK
<1>3. ASSUME BatchEnd(c) PROVE TypeOK'
  BY <1>3 DEF BatchEnd, Invalidate, TypeOK
<1>4. ASSUME HandoffEnd(c) PROVE TypeOK'
  BY <1>4 DEF HandoffEnd, Invalidate, TypeOK
<1>5. QED
  BY <1>1, <1>2, <1>3, <1>4 DEF End

LEMMA NextType == TypeOK /\ [Next]_vars => TypeOK'
<1> SUFFICES ASSUME TypeOK, [Next]_vars PROVE TypeOK'
  OBVIOUS
<1>1. ASSUME NEW c \in Coro, Begin(c) \/ End(c) PROVE TypeOK'
  BY <1>1, BeginType, EndType
<1>2. ASSUME RunJob PROVE TypeOK'
  <2>1. Merge(rows, cache) \in Table
    BY MergeType DEF TypeOK
  <2>2. rows' \in Table /\ log' \subseteq Entry
    BY <1>2, <2>1 DEF RunJob, JobEffect, TypeOK
  <2>3. job' \in [kind : JobKind, ran : BOOLEAN, rows : Table, log : SUBSET Entry]
    BY <1>2 DEF RunJob, TypeOK
  <2>4. acked' \in [last : Table, flushed : Table]
    BY <1>2, HistoryType DEF RunJob, TypeOK
  <2>5. QED
    BY <1>2, <2>2, <2>3, <2>4 DEF RunJob, TypeOK, cacheVars
<1>3. ASSUME JobFails PROVE TypeOK'
  BY <1>3, FinishType DEF JobFails, TypeOK, cacheVars, fileVars
<1>4. ASSUME Crash PROVE TypeOK'
  BY <1>4, FinishType, EmptyTableIsTable, HistoryType DEF Crash, Invalidate, TypeOK, fileVars
<1>5. ASSUME UNCHANGED vars PROVE TypeOK'
  BY <1>5 DEF vars, TypeOK
<1>6. QED
  BY <1>1, <1>2, <1>3, <1>4, <1>5 DEF Next

\* The registry's state keeps its types.
THEOREM TypeCorrect == Spec => []TypeOK
<1>1. Init => TypeOK
  BY InitType
<1>2. TypeOK /\ [Next]_vars => TypeOK'
  BY NextType
<1>3. QED
  BY <1>1, <1>2, PTL DEF Spec
-----------------------------------------------------------------------------
LEMMA InitIInv == Init => IInv
<1> SUFFICES ASSUME Init PROVE IInv
  OBVIOUS
<1>1. TypeOK
  BY InitType
<1>2. QED
  BY <1>1 DEF Init, IInv, NoJob, LockMatchesJob, SnapshotCurrent, CacheCoversDisk,
              FlushInProgress, NotLoadedNotDirty

\* An update changes the cache only, keeps its domain and makes it dirty.
LEMMA UpdateTaskIInv ==
  ASSUME IInv, NEW c \in Coro, NEW t \in Task, NEW u \in Updates, UpdateTask(c, t, u)
  PROVE  IInv'
<1>1. TypeOK'
  BY UpdateTaskType DEF IInv
<1>2. DOMAIN View = DOMAIN rows
  BY DEF IInv, View, CacheCoversDisk, UpdateTask, LockMatchesJob
<1>3. DOMAIN cache' = DOMAIN rows
  BY <1>2, ViewType, UpdateType DEF UpdateTask, CacheUpdate, IInv
<1>4. QED
  BY <1>1, <1>3 DEF IInv, UpdateTask, CacheUpdate, fileVars, LockMatchesJob, SnapshotCurrent,
                    CacheCoversDisk, FlushInProgress, NotLoadedNotDirty

LEMMA BeginIInv ==
  ASSUME IInv, NEW c \in Coro, Begin(c)
  PROVE  IInv'
<1>1. TypeOK'
  BY BeginType DEF IInv
<1> USE RegistryAssumption DEF IInv, cacheVars, fileVars, LockMatchesJob, SnapshotCurrent,
          CacheCoversDisk, FlushInProgress, NotLoadedNotDirty
<1>2. ASSUME NEW t \in Task, NEW u \in Updates, UpdateTask(c, t, u) PROVE IInv'
  BY <1>2, UpdateTaskIInv
<1>3. ASSUME NEW t \in Task, UpdateUnknown(c, t) PROVE IInv'
  BY <1>1, <1>3 DEF UpdateUnknown, View
<1>4. ASSUME FlushClean(c) PROVE IInv'
  BY <1>1, <1>4 DEF FlushClean, vars
<1>5. ASSUME FlushBegin(c) PROVE IInv'
  BY <1>1, <1>5 DEF FlushBegin, Start
<1>6. ASSUME NEW e \in Entry, AppendRow(c, e) PROVE IInv'
  BY <1>1, <1>6 DEF AppendRow
<1>7. ASSUME NEW e \in Entry, SessionBegin(c, e) PROVE IInv'
  BY <1>1, <1>7 DEF SessionBegin, Start
<1>8. ASSUME NEW new \in SUBSET Task, BatchBegin(c, new) PROVE IInv'
  BY <1>1, <1>8 DEF BatchBegin, Start
<1>9. ASSUME HandoffBegin(c) PROVE IInv'
  BY <1>1, <1>9 DEF HandoffBegin, Start
<1>10. QED
  BY <1>2, <1>3, <1>4, <1>5, <1>6, <1>7, <1>8, <1>9 DEF Begin

LEMMA EndIInv ==
  ASSUME IInv, NEW c \in Coro, End(c)
  PROVE  IInv'
<1>1. TypeOK'
  BY EndType DEF IInv
<1> USE DEF IInv, cacheVars, fileVars, Finish, NoJob, LockMatchesJob, SnapshotCurrent,
          CacheCoversDisk, FlushInProgress, NotLoadedNotDirty
<1>2. ASSUME FlushEnd(c) PROVE IInv'
  BY <1>1, <1>2 DEF FlushEnd
<1>3. ASSUME SessionEnd(c) PROVE IInv'
  BY <1>1, <1>3 DEF SessionEnd
<1>4. ASSUME BatchEnd(c) PROVE IInv'
  BY <1>1, <1>4 DEF BatchEnd, Invalidate
<1>5. ASSUME HandoffEnd(c) PROVE IInv'
  BY <1>1, <1>5 DEF HandoffEnd, Invalidate
<1>6. QED
  BY <1>2, <1>3, <1>4, <1>5 DEF End

\* What the thread writes: a flush makes the file equal to the cache, and a
\* rewrite leaves every old row as it was.
LEMMA RunJobRows ==
  ASSUME IInv, RunJob
  PROVE  /\ job.kind = "flush" => rows' = cache
         /\ job.kind = "session" => rows' = rows
         /\ job.kind = "handoff" => rows' = rows
<1>1. ASSUME job.kind = "flush" PROVE rows' = cache
  <2>1. Merge(rows, cache) = cache
    BY <1>1, MergeCovering DEF IInv, TypeOK, CacheCoversDisk, FlushInProgress
  <2>2. QED
    BY <1>1, <2>1 DEF RunJob, JobEffect
<1>2. ASSUME job.kind = "handoff" PROVE rows' = rows
  <2>1. rows' = job.rows
    BY <1>2 DEF RunJob, JobEffect
  <2>2. /\ DOMAIN job.rows = DOMAIN rows
        /\ \A t \in DOMAIN job.rows : job.rows[t] = rows[t]
    BY <1>2 DEF IInv, SnapshotCurrent, RunJob
  <2>3. job.rows \in [DOMAIN job.rows -> Row] /\ rows \in [DOMAIN rows -> Row]
    BY TableIff DEF IInv, TypeOK
  <2>4. QED
    BY <2>1, <2>2, <2>3
<1>3. QED
  BY <1>1, <1>2 DEF RunJob, JobEffect

LEMMA RunJobIInv ==
  ASSUME IInv, RunJob
  PROVE  IInv'
<1>1. TypeOK'
  BY NextType DEF IInv, Next
<1>2. /\ job'.kind = job.kind /\ job'.ran
      /\ UNCHANGED <<loaded, cache, dirty, lock>>
  BY DEF RunJob, IInv, TypeOK, cacheVars
<1>3. LockMatchesJob' /\ SnapshotCurrent' /\ NotLoadedNotDirty'
  BY <1>2 DEF IInv, LockMatchesJob, SnapshotCurrent, NotLoadedNotDirty
<1>4. CacheCoversDisk' /\ FlushInProgress'
  BY <1>2, RunJobRows DEF IInv, CacheCoversDisk, FlushInProgress, RunJob, JobEffect
<1>5. QED
  BY <1>1, <1>3, <1>4 DEF IInv

LEMMA NextIInv == IInv /\ [Next]_vars => IInv'
<1> SUFFICES ASSUME IInv, [Next]_vars PROVE IInv'
  OBVIOUS
<1>1. TypeOK'
  BY NextType DEF IInv
<1>2. ASSUME NEW c \in Coro, Begin(c) \/ End(c) PROVE IInv'
  BY <1>2, BeginIInv, EndIInv
<1>3. ASSUME RunJob PROVE IInv'
  BY <1>3, RunJobIInv
<1> USE DEF IInv, cacheVars, fileVars, NoJob, Finish, LockMatchesJob, SnapshotCurrent,
          CacheCoversDisk, FlushInProgress, NotLoadedNotDirty
<1>4. ASSUME JobFails PROVE IInv'
  BY <1>1, <1>4 DEF JobFails
<1>5. ASSUME Crash PROVE IInv'
  BY <1>1, <1>5 DEF Crash, Invalidate
<1>6. ASSUME UNCHANGED vars PROVE IInv'
  BY <1>1, <1>6 DEF vars
<1>7. QED
  BY <1>2, <1>3, <1>4, <1>5, <1>6 DEF Next

THEOREM Invariance == Spec => []IInv
<1>1. IInv /\ [Next]_vars => IInv'
  BY NextIInv
<1>2. QED
  BY InitIInv, <1>1, PTL DEF Spec

LEMMA CacheAndFile == IInv => CleanCacheIsDisk /\ FlushWritesWholeCache
  BY DEF IInv, CleanCacheIsDisk, CacheCoversDisk, LockMatchesJob,
         FlushWritesWholeCache, FlushInProgress

\* A clean cache equals memory.md whenever no operation is in progress
\* (TaskRegistryCache._dirty, invalidate).
THEOREM CleanCache == Spec => []CleanCacheIsDisk
  BY Invariance, CacheAndFile, PTL

\* flush clears _dirty only over a file that holds the whole cache.
THEOREM FlushComplete == Spec => []FlushWritesWholeCache
  BY Invariance, CacheAndFile, PTL

\* No step takes a row out of the append-only tables.
LEMMA LogGrows == IInv /\ [Next]_vars => log \subseteq log'
<1> SUFFICES ASSUME IInv, [Next]_vars PROVE log \subseteq log'
  OBVIOUS
<1> USE DEF fileVars
<1>1. ASSUME NEW c \in Coro, Begin(c) PROVE log \subseteq log'
  BY <1>1 DEF Begin, UpdateTask, CacheUpdate, UpdateUnknown, FlushClean, FlushBegin,
              AppendRow, SessionBegin, BatchBegin, HandoffBegin, vars
<1>2. ASSUME NEW c \in Coro, End(c) PROVE log \subseteq log'
  BY <1>2 DEF End, FlushEnd, SessionEnd, BatchEnd, HandoffEnd
<1>3. ASSUME RunJob PROVE log \subseteq log'
  BY <1>3 DEF RunJob, JobEffect, IInv, SnapshotCurrent
<1>4. ASSUME JobFails \/ Crash \/ UNCHANGED vars PROVE log \subseteq log'
  BY <1>4 DEF JobFails, Crash, vars
<1>5. QED
  BY <1>1, <1>2, <1>3, <1>4 DEF Next

\* Change Log, Checkpoint Registry and Session Log rows are never lost
\* (append_to_markdown_table against the whole-file rewrites).
THEOREM LedgerKept == Spec => LedgerAppendOnly
<1>1. IInv /\ [Next]_vars => [log \subseteq log']_log
  BY LogGrows
<1>2. QED
  BY Invariance, <1>1, PTL DEF Spec, LedgerAppendOnly
-----------------------------------------------------------------------------
(* The acknowledged updates.                                               *)

\* What a flush wrote stays in memory.md.
FlushedInv ==
  \A t \in DOMAIN acked.flushed : t \in DOMAIN rows /\ rows[t] = acked.flushed[t]

\* What the process sees of a task is the last row it was acknowledged, and
\* while no update is unwritten the last flush had them all.
LastInv ==
  /\ DOMAIN acked.last \subseteq DOMAIN rows
  /\ \A t \in DOMAIN acked.last : View[t] = acked.last[t]
  /\ ~dirty \/ (job.kind = "flush" /\ job.ran) => acked.last = acked.flushed

\* The inductive form of AckedNotDropped.
AckInv == FlushedInv /\ LastInv

\* No step of the code takes back what a flush wrote.
LEMMA UpdateAckInv ==
  ASSUME IInv, AckInv, NEW c \in Coro, NEW t \in Task, NEW u \in Updates,
         UpdateTask(c, t, u)
  PROVE  AckInv'
<1>1. DOMAIN View = DOMAIN rows /\ job.kind = "none"
  BY DEF IInv, View, CacheCoversDisk, UpdateTask, LockMatchesJob
<1>2. /\ loaded' /\ dirty'
      /\ UNCHANGED <<rows, job>>
      /\ t \in DOMAIN View
      /\ cache' = [View EXCEPT ![t] = Updated(@, u)]
  BY DEF UpdateTask, CacheUpdate, fileVars
<1>3. /\ acked'.flushed = acked.flushed
      /\ acked'.last = [s \in DOMAIN acked.last \cup {t} |->
                          IF s = t THEN cache'[t] ELSE acked.last[s]]
  BY DEF UpdateTask, CacheUpdate, IInv, TypeOK
<1>4. DOMAIN acked'.last \subseteq DOMAIN rows'
  BY <1>1, <1>2, <1>3 DEF AckInv, LastInv
<1>5. ASSUME NEW s \in DOMAIN acked'.last
      PROVE  cache'[s] = acked'.last[s]
  <2>1. CASE s = t
    BY <1>3, <2>1
  <2>2. CASE s # t
    <3>1. s \in DOMAIN acked.last /\ acked'.last[s] = acked.last[s] /\ s \in DOMAIN View
      BY <1>1, <1>3, <1>5, <2>2 DEF AckInv, LastInv
    <3>2. View \in [DOMAIN View -> Row]
      BY ViewType, TableIff DEF IInv
    <3>3. cache'[s] = View[s]
      BY <1>2, <2>2, <3>1, <3>2
    <3>4. QED
      BY <3>1, <3>3 DEF AckInv, LastInv
  <2>3. QED
    BY <2>1, <2>2
<1>6. View' = cache'
  BY <1>2 DEF View
<1>7. FlushedInv'
  BY <1>2, <1>3 DEF AckInv, FlushedInv
<1>8. LastInv'
  BY <1>1, <1>2, <1>4, <1>5, <1>6 DEF LastInv
<1>. QED BY <1>7, <1>8 DEF AckInv

\* Throwing the cache away leaves what the last flush wrote.
LEMMA InvalidateAckInv ==
  ASSUME IInv, AckInv, Invalidate, UNCHANGED rows
  PROVE  AckInv'
<1>1. acked'.last = acked.flushed /\ acked'.flushed = acked.flushed
  BY DEF Invalidate, IInv, TypeOK
<1>2. FlushedInv'
  BY <1>1 DEF AckInv, FlushedInv
<1>3. View' = rows
  BY DEF Invalidate, View
<1>. QED BY <1>1, <1>2, <1>3 DEF AckInv, FlushedInv, LastInv

\* A step that changes neither what is on disk nor what is cached.
LEMMA StutterAckInv ==
  ASSUME AckInv, UNCHANGED <<loaded, cache, dirty, rows, acked>>,
         job'.kind = "flush" => ~job'.ran
  PROVE  AckInv'
  BY DEF AckInv, FlushedInv, LastInv, View

\* What the thread writes.
LEMMA RunJobAckInv ==
  ASSUME IInv, AckInv, RunJob
  PROVE  AckInv'
<1>1. /\ UNCHANGED <<loaded, cache, dirty>> /\ ~job.ran
      /\ job'.kind = job.kind /\ acked'.last = acked.last
      /\ acked'.flushed = IF job.kind = "flush" THEN acked.last ELSE acked.flushed
  BY DEF RunJob, cacheVars, IInv, TypeOK
<1>2. CASE job.kind = "flush"
  <2>1. rows' = cache /\ loaded /\ DOMAIN cache = DOMAIN rows
    BY <1>2, RunJobRows DEF IInv, FlushInProgress, CacheCoversDisk
  <2>. QED BY <1>1, <1>2, <2>1 DEF AckInv, FlushedInv, LastInv, View
<1>3. CASE job.kind \in {"session", "handoff"}
  BY <1>1, <1>3, RunJobRows DEF AckInv, FlushedInv, LastInv, View
<1>4. CASE job.kind = "batch"
  <2>1. /\ rows' = job.rows
        /\ DOMAIN rows \subseteq DOMAIN job.rows
        /\ \A t \in DOMAIN rows : job.rows[t] = rows[t]
    BY <1>4 DEF RunJob, JobEffect, IInv, SnapshotCurrent
  <2>2. FlushedInv'
    BY <1>1, <1>4, <2>1 DEF AckInv, FlushedInv
  <2>3. LastInv'
    BY <1>1, <1>4, <2>1 DEF AckInv, LastInv, View
  <2>. QED BY <2>2, <2>3 DEF AckInv
<1>. QED BY <1>2, <1>3, <1>4 DEF RunJob, JobEffect

LEMMA NextAckInv == IInv /\ AckInv /\ [Next]_vars => AckInv'
<1> SUFFICES ASSUME IInv, AckInv, [Next]_vars PROVE AckInv'
  OBVIOUS
<1> USE DEF cacheVars, fileVars, Start, Finish, NoJob
<1>1. ASSUME NEW c \in Coro, Begin(c) PROVE AckInv'
  <2>1. ASSUME NEW t \in Task, NEW u \in Updates, UpdateTask(c, t, u) PROVE AckInv'
    BY <2>1, UpdateAckInv
  <2>2. ASSUME NEW t \in Task, UpdateUnknown(c, t) PROVE AckInv'
    BY <2>2 DEF UpdateUnknown, AckInv, FlushedInv, LastInv, View
  <2>3. ASSUME FlushClean(c) PROVE AckInv'
    BY <2>3 DEF FlushClean, vars, AckInv, FlushedInv, LastInv, View
  <2>4. ASSUME FlushBegin(c) PROVE AckInv'
    BY <2>4, StutterAckInv DEF FlushBegin
  <2>5. ASSUME NEW e \in Entry, AppendRow(c, e) PROVE AckInv'
    BY <2>5 DEF AppendRow, AckInv, FlushedInv, LastInv, View
  <2>6. ASSUME NEW e \in Entry, SessionBegin(c, e) PROVE AckInv'
    BY <2>6, StutterAckInv DEF SessionBegin
  <2>7. ASSUME NEW new \in SUBSET Task, BatchBegin(c, new) PROVE AckInv'
    BY <2>7, StutterAckInv DEF BatchBegin
  <2>8. ASSUME HandoffBegin(c) PROVE AckInv'
    BY <2>8, StutterAckInv DEF HandoffBegin
  <2>9. QED
    BY <1>1, <2>1, <2>2, <2>3, <2>4, <2>5, <2>6, <2>7, <2>8 DEF Begin
<1>2. ASSUME NEW c \in Coro, FlushEnd(c) PROVE AckInv'
  BY <1>2 DEF FlushEnd, AckInv, FlushedInv, LastInv, View
<1>3. ASSUME NEW c \in Coro, SessionEnd(c) PROVE AckInv'
  BY <1>3, StutterAckInv DEF SessionEnd
<1>4. ASSUME RunJob PROVE AckInv'
  BY <1>4, RunJobAckInv
<1>5. ASSUME JobFails PROVE AckInv'
  BY <1>5, StutterAckInv DEF JobFails
<1>6. ASSUME NEW c \in Coro, BatchEnd(c) \/ HandoffEnd(c) PROVE AckInv'
  BY <1>6, InvalidateAckInv DEF BatchEnd, HandoffEnd
<1>7. ASSUME Crash PROVE AckInv'
  BY <1>7, InvalidateAckInv DEF Crash
<1>8. ASSUME UNCHANGED vars PROVE AckInv'
  BY <1>8 DEF vars, AckInv, FlushedInv, LastInv, View
<1>9. QED
  BY <1>1, <1>2, <1>3, <1>4, <1>5, <1>6, <1>7, <1>8 DEF Next, End

LEMMA InitAckInv == Init => AckInv
  BY DEF Init, AckInv, FlushedInv, LastInv, NoJob, EmptyTable

LEMMA AckInvSuffices == IInv /\ AckInv => AckedNotDropped
<1>. SUFFICES ASSUME IInv, AckInv, NEW t \in DOMAIN acked.last, ~(loaded /\ dirty)
              PROVE  t \in DOMAIN acked.flushed /\ acked.flushed[t] = acked.last[t]
  BY DEF AckInv, FlushedInv, LastInv, AckedNotDropped, View
<1>1. ~dirty
  BY DEF IInv, NotLoadedNotDirty
<1>. QED BY <1>1 DEF AckInv, LastInv

\* What a flush wrote of an update stays in memory.md, whatever rewrites the
\* file later and whatever fails, and an update no flush has written waits in
\* the dirty cache until the cache is thrown away (update_task_registry_row,
\* flush, invalidate).
THEOREM AckedKept == Spec => []AckedNotDropped
<1>1. IInv /\ AckInv /\ [Next]_vars => AckInv'
  BY NextAckInv
<1>2. QED
  BY Invariance, InitAckInv, <1>1, AckInvSuffices, PTL DEF Spec
-----------------------------------------------------------------------------
\* Every step of the registry is a step of its promise, or changes neither
\* table.
LEMMA BeginKeepsPromise ==
  ASSUME IInv, NEW c \in Coro, Begin(c)
  PROVE  Promise!Next \/ UNCHANGED <<View, rows>>
<1> USE DEF cacheVars, fileVars, View
<1>1. ASSUME NEW t \in Task, NEW u \in Updates, UpdateTask(c, t, u) PROVE Promise!Next
  <2>1. View[t] \in Row
    BY <1>1, ViewType, TableIff DEF IInv, UpdateTask, CacheUpdate
  <2>2. Updated(View[t], u) \in Row
    BY <2>1, UpdatedIsRow
  <2>3. Promise!Update(t, Updated(View[t], u))
    BY <1>1 DEF Promise!Update, UpdateTask, CacheUpdate
  <2>4. QED
    BY <2>2, <2>3 DEF Promise!Next
<1>2. ASSUME NEW t \in Task, UpdateUnknown(c, t) PROVE UNCHANGED <<View, rows>>
  BY <1>2 DEF UpdateUnknown
<1>3. ASSUME FlushClean(c) \/ FlushBegin(c) PROVE UNCHANGED <<View, rows>>
  BY <1>3 DEF FlushClean, FlushBegin, vars
<1>4. ASSUME NEW e \in Entry, AppendRow(c, e) \/ SessionBegin(c, e)
      PROVE UNCHANGED <<View, rows>>
  BY <1>4 DEF AppendRow, SessionBegin
<1>5. ASSUME NEW new \in SUBSET Task, BatchBegin(c, new) PROVE UNCHANGED <<View, rows>>
  BY <1>5 DEF BatchBegin
<1>6. ASSUME HandoffBegin(c) PROVE UNCHANGED <<View, rows>>
  BY <1>6 DEF HandoffBegin
<1>7. QED
  BY <1>1, <1>2, <1>3, <1>4, <1>5, <1>6 DEF Begin

LEMMA RunJobKeepsPromise ==
  ASSUME IInv, RunJob
  PROVE  Promise!Next \/ UNCHANGED <<View, rows>>
<1>1. UNCHANGED <<loaded, cache>>
  BY DEF RunJob, cacheVars
<1>2. CASE job.kind = "flush"
  <2>1. Promise!Persist
    BY <1>1, <1>2, RunJobRows
       DEF Promise!Persist, View, IInv, FlushInProgress, CacheCoversDisk
  <2>2. QED
    BY <2>1 DEF Promise!Next
<1>3. CASE job.kind \in {"session", "handoff"}
  BY <1>1, <1>3, RunJobRows DEF View
<1>4. CASE job.kind = "batch"
  <2> DEFINE new == DOMAIN job.rows \ DOMAIN rows
  <2>1. /\ rows' = job.rows
        /\ DOMAIN rows \subseteq DOMAIN job.rows
        /\ \A t \in DOMAIN job.rows :
             job.rows[t] = IF t \in DOMAIN rows THEN rows[t] ELSE PendingRow
    BY <1>4 DEF RunJob, JobEffect, IInv, SnapshotCurrent
  <2>2. job.rows \in [DOMAIN job.rows -> Row] /\ DOMAIN job.rows \subseteq Task
    BY TableIff DEF IInv, TypeOK
  <2>3. rows' = [t \in DOMAIN rows \cup new |->
                   IF t \in DOMAIN rows THEN rows[t] ELSE PendingRow]
    BY <2>1, <2>2
  <2>4. View' \in {View, rows'}
    BY <1>1 DEF View
  <2>5. Promise!Register(new)
    BY <2>3, <2>4 DEF Promise!Register
  <2>6. new \in SUBSET Task
    BY <2>2
  <2>7. QED
    BY <2>5, <2>6 DEF Promise!Next
<1>5. QED
  BY <1>2, <1>3, <1>4 DEF RunJob, JobEffect

LEMMA EndKeepsPromise ==
  ASSUME IInv, NEW c \in Coro, End(c)
  PROVE  Promise!Next \/ UNCHANGED <<View, rows>>
<1> USE DEF cacheVars, fileVars, View
<1>1. ASSUME FlushEnd(c) \/ SessionEnd(c) PROVE UNCHANGED <<View, rows>>
  BY <1>1 DEF FlushEnd, SessionEnd
<1>2. ASSUME BatchEnd(c) \/ HandoffEnd(c) PROVE Promise!Revert
  BY <1>2 DEF BatchEnd, HandoffEnd, Invalidate, Promise!Revert
<1>3. QED
  BY <1>1, <1>2 DEF End, Promise!Next

LEMMA StepKeepsPromise ==
  ASSUME IInv, [Next]_vars
  PROVE  Promise!Next \/ UNCHANGED <<View, rows>>
<1>1. ASSUME NEW c \in Coro, Begin(c) \/ End(c)
      PROVE  Promise!Next \/ UNCHANGED <<View, rows>>
  BY <1>1, BeginKeepsPromise, EndKeepsPromise
<1>2. ASSUME RunJob PROVE Promise!Next \/ UNCHANGED <<View, rows>>
  BY <1>2, RunJobKeepsPromise
<1>3. ASSUME JobFails PROVE UNCHANGED <<View, rows>>
  BY <1>3 DEF JobFails, View, cacheVars, fileVars
<1>4. ASSUME Crash PROVE Promise!Next
  BY <1>4 DEF Crash, Invalidate, View, fileVars, Promise!Revert, Promise!Next
<1>5. ASSUME UNCHANGED vars PROVE UNCHANGED <<View, rows>>
  BY <1>5 DEF vars, View
<1>6. QED
  BY <1>1, <1>2, <1>3, <1>4, <1>5 DEF Next

\* The cached, threaded registry implements the atomic table with deferred
\* persistence that its callers rely on.
THEOREM Refinement == Spec => KeepsPromise
<1>1. Init => Promise!Init
  <2>. SUFFICES ASSUME Init PROVE Promise!Init
    OBVIOUS
  <2>1. PICK S \in SUBSET Task : rows \in [S -> Former]
    BY DEF Init
  <2>2. rows \in [S -> Row]
    BY <2>1, RegistryAssumption
  <2>. QED BY <2>2 DEF Init, Promise!Init, View
<1>2. IInv /\ [Next]_vars => [Promise!Next]_(Promise!vars)
  BY StepKeepsPromise DEF Promise!vars
<1>3. QED
  BY Invariance, <1>1, <1>2, PTL DEF Spec, KeepsPromise, Promise!Spec
=============================================================================

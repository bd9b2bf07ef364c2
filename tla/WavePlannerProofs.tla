-------------------------- MODULE WavePlannerProofs --------------------------
(***************************************************************************)
(* For any number of registry rows, any dependencies (cycles and missing   *)
(* ids included), any outputs and any import coupling: the waves of        *)
(* WavePlanner respect dependencies, are free of conflicts, schedule every *)
(* waiting task once, and an error is raised only when nothing can run.    *)
(* The waves are the ones a definition without loops asks for, and the     *)
(* loops end.                                                              *)
(***************************************************************************)
EXTENDS WavePlanner, FiniteSetTheorems, TLAPS

\* The wave under construction holds pending tasks the scan has passed, whose
\* dependencies are met; its claims are their outputs, and it is free of
\* conflicts.
WaveSound ==
  /\ wave \subseteq pending
  /\ claimed = UNION {snap.outputs[t] : t \in wave}
  /\ \A t \in wave : snap.deps[t] \subseteq done /\ t < cursor
  /\ WaveConflictFree(wave)

\* A pending task the scan has passed is out of the wave for a reason.
PassedForAReason ==
  \A t \in pending \ wave :
    t < cursor /\ snap.deps[t] \subseteq done => \E u \in wave : u < t /\ Clash(t, u)

DoneIsScheduled == done = InitiallyDone(snap) \cup Scheduled

IInv ==
  /\ TypeOK
  /\ WaveSound
  /\ PassedForAReason
  /\ DoneIsScheduled
  /\ DependenciesFirst
  /\ WavesConflictFree
  /\ ScheduledOnce
  /\ ErrorOnlyWhenStuck

\* What the rest needs to know of a snapshot.
LEMMA SnapshotTyped ==
  ASSUME TypeOK
  PROVE  /\ N \in Nat
         /\ snap.deps \in [Task -> SUBSET (Task \cup Foreign)]
         /\ snap.outputs \in [Task -> SUBSET File]
  BY PlannerAssumption DEF TypeOK, Snapshot

\* A clash is a claim on a file of the wave, or a coupling with one.
LEMMA ConflictIsClash ==
  ASSUME TypeOK, NEW W \in SUBSET Task, NEW t \in Task,
         NEW files, files = UNION {snap.outputs[u] : u \in W}
  PROVE  NoConflict(t, files) <=> \A u \in W : ~Clash(t, u)
<1>1. \A a : a \in files <=> \E u \in W : a \in snap.outputs[u]
  OBVIOUS
<1>2. NoConflict(t, files) <=>
        \A b \in snap.outputs[t], a \in files : b # a /\ ~ImportCoupled(a, b)
  BY DEF NoConflict
<1>3. ASSUME NEW u
      PROVE  Clash(t, u) <=>
               \E b \in snap.outputs[t], a \in snap.outputs[u] : b = a \/ ImportCoupled(a, b)
  BY DEF Clash, ImportCoupled
<1>. QED BY <1>1, <1>2, <1>3

LEMMA ClashSymmetric ==
  ASSUME NEW t, NEW u, Clash(t, u)
  PROVE  Clash(u, t)
  BY DEF Clash

\* Clashes depend on the snapshot alone.
LEMMA ClashUnchanged ==
  ASSUME snap' = snap, NEW w
  PROVE  (\A t, u \in w : t # u => ~Clash(t, u)') <=> WaveConflictFree(w)
<1>1. ASSUME NEW t, NEW u PROVE Clash(t, u)' <=> Clash(t, u)
  BY DEF Clash
<1>. QED BY <1>1 DEF WaveConflictFree

\* A finished wave is the last of the waves.
LEMMA Appended ==
  ASSUME TypeOK, waves' = Append(waves, wave), snap' = snap
  PROVE  /\ Len(waves) \in Nat
         /\ DOMAIN waves = 1 .. Len(waves)
         /\ DOMAIN waves' = 1 .. Len(waves) + 1
         /\ \A k \in DOMAIN waves : waves'[k] = waves[k]
         /\ waves'[Len(waves) + 1] = wave
         /\ Scheduled' = Scheduled \cup wave
         /\ \A k \in DOMAIN waves : DoneBefore(k)' = DoneBefore(k)
         /\ \A k : k = Len(waves) + 1 =>
              DoneBefore(k)' = InitiallyDone(snap) \cup Scheduled
<1>1. /\ Len(waves) \in Nat
      /\ DOMAIN waves = 1 .. Len(waves)
      /\ DOMAIN waves' = 1 .. Len(waves) + 1
      /\ \A k \in DOMAIN waves : waves'[k] = waves[k]
      /\ waves'[Len(waves) + 1] = wave
  BY DEF TypeOK
<1>2. DOMAIN waves' = DOMAIN waves \cup {Len(waves) + 1}
  BY <1>1
<1>3. Scheduled' = Scheduled \cup wave
  BY <1>1, <1>2 DEF Scheduled
<1>4. ASSUME NEW k \in DOMAIN waves
      PROVE  DoneBefore(k)' = DoneBefore(k)
  <2>1. {i \in DOMAIN waves' : i < k} = {i \in DOMAIN waves : i < k}
    BY <1>1, <1>2
  <2>2. {waves'[j] : j \in {i \in DOMAIN waves' : i < k}}
          = {waves[j] : j \in {i \in DOMAIN waves : i < k}}
    BY <1>1, <2>1
  <2>. QED BY <2>2 DEF DoneBefore, InitiallyDone
<1>5. ASSUME NEW k, k = Len(waves) + 1
      PROVE  DoneBefore(k)' = InitiallyDone(snap) \cup Scheduled
  <2>1. {i \in DOMAIN waves' : i < k} = DOMAIN waves
    BY <1>1, <1>2, <1>5
  <2>2. {waves'[j] : j \in {i \in DOMAIN waves' : i < k}} = {waves[j] : j \in DOMAIN waves}
    BY <1>1, <2>1
  <2>. QED BY <2>2 DEF DoneBefore, InitiallyDone, Scheduled
<1>. QED BY <1>1, <1>3, <1>4, <1>5

LEMMA InitInv == Init => IInv
<1>. SUFFICES ASSUME Init PROVE IInv
  OBVIOUS
<1>1. TypeOK
  BY PlannerAssumption DEF Init, TypeOK, InitiallyPending, InitiallyDone, Snapshot
<1>2. DOMAIN waves = {} /\ Scheduled = {}
  BY DEF Init, Scheduled
<1>3. WaveSound /\ PassedForAReason /\ DoneIsScheduled
  BY <1>1, <1>2, PlannerAssumption
     DEF Init, WaveSound, PassedForAReason, DoneIsScheduled, WaveConflictFree, TypeOK,
         InitiallyPending, Task
<1>4. DependenciesFirst /\ WavesConflictFree /\ ScheduledOnce /\ ErrorOnlyWhenStuck
  BY <1>2 DEF Init, DependenciesFirst, WavesConflictFree, ScheduledOnce, ErrorOnlyWhenStuck
<1>. QED BY <1>1, <1>3, <1>4 DEF IInv

\* A step that leaves the waves and what they depend on alone.
LEMMA WavesUnchanged ==
  ASSUME IInv, UNCHANGED <<snap, pending, done, waves>>,
         result' # "planned" \/ pending = {}
  PROVE  /\ DoneIsScheduled' /\ DependenciesFirst' /\ WavesConflictFree' /\ ScheduledOnce'
<1>1. DoneIsScheduled'
  BY DEF IInv, DoneIsScheduled, InitiallyDone, Scheduled
<1>2. DependenciesFirst'
  BY DEF IInv, DependenciesFirst, DoneBefore, InitiallyDone
<1>3. WavesConflictFree'
  <2>1. \A k \in DOMAIN waves : WaveConflictFree(waves[k])
    BY DEF IInv, WavesConflictFree
  <2>. QED BY <2>1, ClashUnchanged DEF WavesConflictFree, WaveConflictFree
<1>4. ScheduledOnce'
  BY DEF IInv, ScheduledOnce, Scheduled, InitiallyPending
<1>. QED BY <1>1, <1>2, <1>3, <1>4

LEMMA TakeInv == IInv /\ Take => IInv'
<1>. SUFFICES ASSUME IInv, Take PROVE IInv'
  OBVIOUS
<1>. USE DEF IInv
<1>1. N \in Nat /\ snap.outputs \in [Task -> SUBSET File]
  BY SnapshotTyped
<1>2. TypeOK'
  BY <1>1 DEF TypeOK, Take, Scanning, Task
<1>3. WaveSound'
  <2>1. wave' \subseteq pending'
    BY DEF Take, Eligible, WaveSound
  <2>2. claimed' = UNION {snap'.outputs[t] : t \in wave'}
    BY <1>1 DEF Take, WaveSound, TypeOK
  <2>3. \A t \in wave' : snap'.deps[t] \subseteq done' /\ t < cursor'
    <3>1. wave \subseteq 1 .. N /\ cursor \in Nat
      BY <1>1 DEF TypeOK, Task, Take
    <3>. QED BY <1>1, <3>1 DEF Take, Eligible, WaveSound
  <2>4. \A u \in wave : ~Clash(cursor, u)
    <3>1. /\ NoConflict(cursor, claimed) /\ cursor \in Task
          /\ wave \in SUBSET Task /\ claimed = UNION {snap.outputs[u] : u \in wave}
      BY DEF Take, Eligible, WaveSound, TypeOK
    <3>. QED BY <3>1, ConflictIsClash
  <2>5. \A u \in wave : ~Clash(u, cursor)
    BY <2>4, ClashSymmetric
  <2>6. \A t, u \in wave' : t # u => ~Clash(t, u)
    BY <2>4, <2>5 DEF Take, WaveSound, WaveConflictFree
  <2>7. WaveConflictFree(wave)'
    BY <2>6 DEF WaveConflictFree, Clash, Take
  <2>. QED BY <2>1, <2>2, <2>3, <2>7 DEF WaveSound
<1>4. PassedForAReason'
  <2>. SUFFICES ASSUME NEW t \in pending \ wave', t < cursor + 1, snap.deps[t] \subseteq done
                PROVE  \E u \in wave' : u < t /\ Clash(t, u)
    BY DEF PassedForAReason, Take, Clash
  <2>1. t \in Task /\ t # cursor /\ t \notin wave
    BY DEF Take, TypeOK
  <2>2. t < cursor
    BY <1>1, <2>1 DEF Task, TypeOK, Take
  <2>. QED BY <2>1, <2>2 DEF PassedForAReason, Take
<1>5. ErrorOnlyWhenStuck'
  BY DEF ErrorOnlyWhenStuck, Take, Scanning
<1>. QED BY <1>2, <1>3, <1>4, <1>5, WavesUnchanged DEF Take, Scanning

LEMMA PassInv == IInv /\ Pass => IInv'
<1>. SUFFICES ASSUME IInv, Pass PROVE IInv'
  OBVIOUS
<1>. USE DEF IInv
<1>1. N \in Nat
  BY SnapshotTyped
<1>2. TypeOK'
  BY <1>1 DEF TypeOK, Pass, Scanning, Task
<1>3. WaveSound'
  <2>0. wave \subseteq 1 .. N /\ cursor \in Nat
    BY <1>1 DEF TypeOK, Task, Pass
  <2>1. \A t \in wave : t < cursor'
    BY <1>1, <2>0 DEF Pass, WaveSound
  <2>2. WaveConflictFree(wave)'
    BY DEF WaveSound, WaveConflictFree, Clash, Pass
  <2>. QED BY <2>1, <2>2 DEF Pass, WaveSound
<1>4. PassedForAReason'
  <2>. SUFFICES ASSUME NEW t \in pending \ wave, t < cursor + 1, snap.deps[t] \subseteq done
                PROVE  \E u \in wave : u < t /\ Clash(t, u)
    BY DEF PassedForAReason, Pass, Clash
  <2>1. t \in Task
    BY DEF TypeOK
  <2>2. CASE t = cursor
    <3>1. ~NoConflict(t, claimed)
      BY <2>2 DEF Pass, Eligible
    <3>2. PICK u \in wave : Clash(t, u)
      BY <2>1, <3>1, ConflictIsClash DEF WaveSound, TypeOK
    <3>. QED BY <2>2, <3>2 DEF WaveSound
  <2>3. CASE t # cursor
    BY <1>1, <2>1, <2>3 DEF PassedForAReason, TypeOK, Task
  <2>. QED BY <2>2, <2>3
<1>5. ErrorOnlyWhenStuck'
  BY DEF ErrorOnlyWhenStuck, Pass, Scanning
<1>. QED BY <1>2, <1>3, <1>4, <1>5, WavesUnchanged DEF Pass, Scanning

LEMMA EndWaveInv == IInv /\ EndWave => IInv'
<1>. SUFFICES ASSUME IInv, EndWave PROVE IInv'
  OBVIOUS
<1>. USE DEF IInv
<1>1. N \in Nat
  BY SnapshotTyped
<1>2. TypeOK'
  BY <1>1 DEF TypeOK, EndWave, Scanning
<1>3. WaveSound' /\ PassedForAReason'
  BY <1>2, <1>1 DEF WaveSound, PassedForAReason, WaveConflictFree, EndWave, TypeOK, Task
<1>4. DoneIsScheduled'
  BY Appended DEF DoneIsScheduled, EndWave, InitiallyDone
<1>5. DependenciesFirst'
  <2>. SUFFICES ASSUME NEW k \in DOMAIN waves', NEW t \in waves'[k]
                PROVE  snap.deps[t] \subseteq DoneBefore(k)'
    BY DEF DependenciesFirst, EndWave
  <2>1. CASE k \in DOMAIN waves
    BY <2>1, Appended DEF DependenciesFirst, EndWave
  <2>2. CASE k = Len(waves) + 1
    BY <2>2, Appended DEF WaveSound, DoneIsScheduled, EndWave
  <2>. QED BY <2>1, <2>2, Appended DEF EndWave
<1>6. WavesConflictFree'
  <2>. SUFFICES ASSUME NEW k \in DOMAIN waves' PROVE WaveConflictFree(waves'[k])
    BY DEF WavesConflictFree, WaveConflictFree, Clash, EndWave
  <2>1. CASE k \in DOMAIN waves
    BY <2>1, Appended DEF WavesConflictFree, EndWave
  <2>2. CASE k = Len(waves) + 1
    BY <2>2, Appended DEF WaveSound, EndWave
  <2>. QED BY <2>1, <2>2, Appended DEF EndWave
<1>7. ScheduledOnce'
  <2>1. Scheduled' = Scheduled \cup wave /\ wave \subseteq pending
    BY Appended DEF WaveSound, EndWave
  <2>2. \A k \in DOMAIN waves : waves[k] \cap wave = {}
    BY <2>1 DEF ScheduledOnce, Scheduled
  <2>3. \A j, k \in DOMAIN waves' : j # k => waves'[j] \cap waves'[k] = {}
    BY <2>2, Appended DEF ScheduledOnce, EndWave
  <2>4. /\ (Scheduled \cup pending)' = InitiallyPending(snap)
        /\ (Scheduled \cap pending)' = {}
    BY <2>1 DEF ScheduledOnce, EndWave
  <2>. QED BY <2>3, <2>4 DEF ScheduledOnce, EndWave, Scanning, InitiallyPending
<1>8. ErrorOnlyWhenStuck'
  BY DEF ErrorOnlyWhenStuck, EndWave, Scanning
<1>. QED BY <1>2, <1>3, <1>4, <1>5, <1>6, <1>7, <1>8

LEMMA StuckInv == IInv /\ Stuck => IInv'
<1>. SUFFICES ASSUME IInv, Stuck PROVE IInv'
  OBVIOUS
<1>. USE DEF IInv
<1>1. TypeOK'
  BY DEF TypeOK, Stuck
<1>2. WaveSound' /\ PassedForAReason'
  BY DEF WaveSound, PassedForAReason, WaveConflictFree, Clash, Stuck
<1>3. ErrorOnlyWhenStuck'
  BY SnapshotTyped DEF ErrorOnlyWhenStuck, PassedForAReason, Stuck, Scanning, TypeOK, Task
<1>. QED BY <1>1, <1>2, <1>3, WavesUnchanged DEF Stuck

LEMMA ReturnInv == IInv /\ Return => IInv'
<1>. SUFFICES ASSUME IInv, Return PROVE IInv'
  OBVIOUS
<1>. USE DEF IInv
<1>1. TypeOK' /\ WaveSound' /\ PassedForAReason' /\ ErrorOnlyWhenStuck'
  BY DEF TypeOK, WaveSound, PassedForAReason, WaveConflictFree, Clash, ErrorOnlyWhenStuck, Return
<1>. QED BY <1>1, WavesUnchanged DEF Return

LEMMA StutterInv == IInv /\ UNCHANGED vars => IInv'
<1>. SUFFICES ASSUME IInv, UNCHANGED vars PROVE IInv'
  OBVIOUS
<1>. USE DEF IInv, vars
<1>1. TypeOK'
  BY DEF TypeOK
<1>2. WaveSound' /\ PassedForAReason'
  <2>1. WaveConflictFree(wave)'
    BY ClashUnchanged DEF WaveSound, WaveConflictFree
  <2>2. PassedForAReason'
    BY DEF PassedForAReason, Clash
  <2>. QED BY <2>1, <2>2 DEF WaveSound
<1>3. ErrorOnlyWhenStuck'
  BY DEF ErrorOnlyWhenStuck
<1>4. UNCHANGED <<snap, waves, pending, done>> /\ (result' = "planned" => pending = {})
  BY DEF ScheduledOnce
<1>. QED BY <1>1, <1>2, <1>3, <1>4, WavesUnchanged

LEMMA InvariantStep == IInv /\ [Next]_vars => IInv'
  BY TakeInv, PassInv, EndWaveInv, StuckInv, ReturnInv, StutterInv DEF Next

\* The planner's invariant holds in every state.
THEOREM Invariance == Spec => []IInv
  BY InitInv, InvariantStep, PTL DEF Spec

\* Types are kept.
THEOREM TypeCorrect == Spec => []TypeOK
<1>1. IInv => TypeOK
  BY DEF IInv
<1>. QED BY <1>1, Invariance, PTL

\* Every task's dependencies are completed or in a strictly earlier wave.
THEOREM DependenciesRespected == Spec => []DependenciesFirst
<1>1. IInv => DependenciesFirst
  BY DEF IInv
<1>. QED BY <1>1, Invariance, PTL

\* No two tasks of a wave write a common file or coupled files.
THEOREM WavesIsolated == Spec => []WavesConflictFree
<1>1. IInv => WavesConflictFree
  BY DEF IInv
<1>. QED BY <1>1, Invariance, PTL

\* Every waiting task is scheduled, and once.
THEOREM NothingLostOrRepeated == Spec => []ScheduledOnce
<1>1. IInv => ScheduledOnce
  BY DEF IInv
<1>. QED BY <1>1, Invariance, PTL

\* DependencyGraphError means that no remaining task has its dependencies met.
THEOREM ErrorJustified == Spec => []ErrorOnlyWhenStuck
<1>1. IInv => ErrorOnlyWhenStuck
  BY DEF IInv
<1>. QED BY <1>1, Invariance, PTL

\* A finished wave leaves out no task that could have joined it.
THEOREM WavesMaximal == Spec => []WaveMaximal
<1>1. IInv => WaveMaximal
  BY SnapshotTyped DEF IInv, WaveMaximal, PassedForAReason, TypeOK, Task
<1>. QED BY <1>1, Invariance, PTL
-----------------------------------------------------------------------------
(* What the planner decides, against the definition of a schedule.  The     *)
(* execute command of WaveExecutor rests on it: its PlanWave takes the      *)
(* first wave and its PlanEnds the error from such definitions, not from    *)
(* the planner's loops.                                                     *)

\* The tasks of S wait for each other, or for what will never be completed:
\* not even all the other waiting tasks would do.
Starved(S) ==
  /\ S \subseteq InitiallyPending(snap)
  /\ \A t \in S : ~(snap.deps[t] \subseteq
                      InitiallyDone(snap) \cup (InitiallyPending(snap) \ S))

\* The planner gives up if and only if there are such tasks, and with them.
ErrorExact ==
  /\ result = "planned" => \A S \in SUBSET Task : Starved(S) => S = {}
  /\ result = "error" => pending # {} /\ Starved(pending)

\* No wave, once planned, leaves out a task that could have joined it.
WavesFull ==
  \A k \in DOMAIN waves, t \in InitiallyPending(snap) :
    (\A j \in 1 .. k : t \notin waves[j]) /\ snap.deps[t] \subseteq DoneBefore(k) =>
      \E u \in waves[k] : u < t /\ Clash(t, u)

\* The first wave is what is ready, if no two waiting tasks clash.
FirstWaveExact ==
  waves # <<>> /\ WaveConflictFree(InitiallyPending(snap)) =>
    waves[1] = {t \in InitiallyPending(snap) : snap.deps[t] \subseteq InitiallyDone(snap)}

\* Turns of the planner's loops that are left at most: a pass over the rows
\* for each waiting task, the pass that is on, and the end.
TurnsLeft ==
  Cardinality(pending) * (N + 1) + (N + 1 - cursor) + (IF result = "planning" THEN 1 ELSE 0)

TurnsDecrease == [][TurnsLeft' < TurnsLeft]_vars

\* Tasks that can never run are never scheduled.
NeverStarved == \A S \in SUBSET Task : Starved(S) => S \subseteq pending

ScheduleInv == NeverStarved /\ WavesFull

\* What waited at first is scheduled or waits still.
LEMMA Outstanding ==
  ASSUME IInv
  PROVE  /\ InitiallyPending(snap) \subseteq Task /\ pending \subseteq InitiallyPending(snap)
         /\ Scheduled = InitiallyPending(snap) \ pending
         /\ done = InitiallyDone(snap) \cup (InitiallyPending(snap) \ pending)
<1>1. InitiallyPending(snap) \subseteq Task
  BY DEF InitiallyPending
<1>. QED BY <1>1 DEF IInv, ScheduledOnce, DoneIsScheduled

\* The snapshot stays, and with it all that is defined by it.
LEMMA SnapStays ==
  ASSUME [Next]_vars
  PROVE  /\ snap' = snap
         /\ \A S : Starved(S)' <=> Starved(S)
         /\ EndWave \/ UNCHANGED <<pending, done, waves>>
<1>1. snap' = snap
  BY DEF Next, Take, Pass, EndWave, Stuck, Return, vars
<1>2. ASSUME NEW S PROVE Starved(S)' <=> Starved(S)
  BY <1>1 DEF Starved, InitiallyPending, InitiallyDone
<1>3. EndWave \/ UNCHANGED <<pending, done, waves>>
  BY DEF Next, Take, Pass, Stuck, Return, vars
<1>. QED BY <1>1, <1>2, <1>3

LEMMA ScheduleInit == Init => ScheduleInv
<1>. SUFFICES ASSUME Init PROVE ScheduleInv
  OBVIOUS
<1>1. NeverStarved
  BY DEF Init, NeverStarved, Starved
<1>2. WavesFull
  BY DEF Init, WavesFull
<1>. QED BY <1>1, <1>2 DEF ScheduleInv

LEMMA ScheduleStep == IInv /\ ScheduleInv /\ [Next]_vars => ScheduleInv'
<1>. SUFFICES ASSUME IInv, ScheduleInv, [Next]_vars PROVE ScheduleInv'
  OBVIOUS
<1>0. snap' = snap /\ \A S : Starved(S)' <=> Starved(S)
  BY SnapStays
<1>1. CASE UNCHANGED <<pending, done, waves>>
  <2>1. NeverStarved'
    BY <1>0, <1>1 DEF ScheduleInv, NeverStarved
  <2>2. WavesFull'
    BY <1>0, <1>1 DEF ScheduleInv, WavesFull, InitiallyPending, InitiallyDone, DoneBefore, Clash
  <2>. QED BY <2>1, <2>2 DEF ScheduleInv
<1>2. CASE EndWave
  <2>1. pending' = pending \ wave /\ waves' = Append(waves, wave) /\ cursor = N + 1
    BY <1>2 DEF EndWave
  <2>2. ASSUME NEW S \in SUBSET Task, Starved(S) PROVE S \subseteq pending'
    <3>1. S \subseteq pending
      BY <2>2 DEF ScheduleInv, NeverStarved
    <3>2. \A t \in wave : snap.deps[t] \subseteq
                            InitiallyDone(snap) \cup (InitiallyPending(snap) \ pending)
      BY Outstanding DEF IInv, WaveSound
    <3>3. S \cap wave = {}
      BY <2>2, <3>1, <3>2 DEF Starved
    <3>. QED BY <2>1, <3>1, <3>3
  <2>3. NeverStarved'
    BY <1>0, <2>2 DEF NeverStarved
  <2>4. ASSUME NEW k \in DOMAIN waves', NEW t \in InitiallyPending(snap),
               \A j \in 1 .. k : t \notin waves'[j], snap.deps[t] \subseteq DoneBefore(k)'
        PROVE  \E u \in waves'[k] : u < t /\ Clash(t, u)
    <3>. DEFINE n == Len(waves)
    <3>1. TypeOK /\ waves' = Append(waves, wave) /\ snap' = snap
      BY <1>0, <2>1 DEF IInv
    <3>2. /\ n \in Nat /\ DOMAIN waves = 1 .. n /\ DOMAIN waves' = 1 .. n + 1
          /\ \A j \in 1 .. n : waves'[j] = waves[j]
          /\ waves'[n + 1] = wave
          /\ \A j \in 1 .. n : DoneBefore(j)' = DoneBefore(j)
      BY <3>1, Appended
    <3>3. \A j : j = n + 1 => DoneBefore(j)' = InitiallyDone(snap) \cup Scheduled
      BY <3>1, Appended
    <3>. HIDE DEF n
    <3>4. CASE k \in 1 .. n
      <4>1. \A j \in 1 .. k : j \in 1 .. n
        BY <3>2, <3>4
      <4>2. \A j \in 1 .. k : t \notin waves[j]
        BY <2>4, <3>2, <4>1
      <4>. QED BY <2>4, <3>2, <3>4, <4>2 DEF ScheduleInv, WavesFull
    <3>5. CASE k = n + 1
      <4>1. t \notin wave /\ \A j \in 1 .. n : t \notin waves[j]
        BY <2>4, <3>2, <3>5
      <4>2. t \in pending \ wave
        BY <3>2, <4>1 DEF IInv, ScheduledOnce, Scheduled
      <4>3. snap.deps[t] \subseteq done
        <5>1. DoneBefore(k)' = done
          BY <3>5, <3>3 DEF IInv, DoneIsScheduled
        <5>. QED BY <2>4, <5>1
      <4>4. t < cursor
        BY <2>1, SnapshotTyped DEF IInv, InitiallyPending, Task
      <4>. QED BY <3>2, <3>5, <4>2, <4>3, <4>4 DEF IInv, PassedForAReason
    <3>. QED BY <3>2, <3>4, <3>5
  <2>5. WavesFull'
    <3>1. snap' = snap
      BY <1>0
    <3>2. InitiallyPending(snap)' = InitiallyPending(snap)
      BY <3>1 DEF InitiallyPending
    <3>3. \A t, u : Clash(t, u)' <=> Clash(t, u)
      BY <3>1 DEF Clash
    <3>. QED BY <2>4, <3>1, <3>2, <3>3, Zenon DEF WavesFull
  <2>. QED BY <2>3, <2>5 DEF ScheduleInv
<1>. QED BY <1>1, <1>2, SnapStays

LEMMA ScheduleAlways == Spec => [](IInv /\ ScheduleInv)
  BY InitInv, InvariantStep, ScheduleInit, ScheduleStep, PTL DEF Spec

\* DependencyGraphError is raised exactly when some waiting tasks could not be
\* scheduled in any order: dependencies in a circle or on tasks that nobody
\* will complete (planner.py:97-104).
THEOREM ErrorIffStarved == Spec => []ErrorExact
<1>1. IInv /\ ScheduleInv => ErrorExact
  <2>. SUFFICES ASSUME IInv, ScheduleInv PROVE ErrorExact
    OBVIOUS
  <2>1. result = "planned" => \A S \in SUBSET Task : Starved(S) => S = {}
    BY DEF ScheduleInv, NeverStarved, IInv, ScheduledOnce
  <2>2. result = "error" => pending # {} /\ Starved(pending)
    BY Outstanding DEF IInv, ErrorOnlyWhenStuck, Starved
  <2>. QED BY <2>1, <2>2 DEF ErrorExact
<1>. QED BY <1>1, ScheduleAlways, PTL

\* Every wave is as full as the rows' order allows, for good: a later task
\* whose dependencies were met clashes with an earlier row of the wave.
THEOREM WavesStayFull == Spec => []WavesFull
<1>1. ScheduleInv => WavesFull
  BY DEF ScheduleInv
<1>. QED BY <1>1, ScheduleAlways, PTL

\* Without clashes the first wave is exactly the waiting tasks whose
\* dependencies are completed.
THEOREM FirstWaveIsReady == Spec => []FirstWaveExact
<1>1. IInv /\ ScheduleInv => FirstWaveExact
  <2>. SUFFICES ASSUME IInv, ScheduleInv, waves # <<>>,
                       WaveConflictFree(InitiallyPending(snap))
                PROVE  waves[1] = {t \in InitiallyPending(snap) :
                                     snap.deps[t] \subseteq InitiallyDone(snap)}
    BY DEF FirstWaveExact
  <2>1. 1 \in DOMAIN waves
    BY DEF IInv, TypeOK
  <2>2. DoneBefore(1) = InitiallyDone(snap)
    <3>1. {i \in DOMAIN waves : i < 1} = {}
      BY DEF IInv, TypeOK
    <3>. QED BY <3>1 DEF DoneBefore
  <2>3. waves[1] \subseteq InitiallyPending(snap)
    BY <2>1, Outstanding DEF Scheduled
  <2>4. \A t \in waves[1] : snap.deps[t] \subseteq InitiallyDone(snap)
    BY <2>1, <2>2 DEF IInv, DependenciesFirst
  <2>5. ASSUME NEW t \in InitiallyPending(snap), snap.deps[t] \subseteq InitiallyDone(snap),
               t \notin waves[1]
        PROVE  FALSE
    <3>1. \A j \in 1 .. 1 : t \notin waves[j]
      BY <2>5
    <3>2. PICK u \in waves[1] : u < t /\ Clash(t, u)
      BY <2>1, <2>2, <2>5, <3>1 DEF ScheduleInv, WavesFull
    <3>3. u # t
      BY <2>5
    <3>. QED BY <2>3, <3>2, <3>3 DEF WaveConflictFree
  <2>. QED BY <2>3, <2>4, <2>5
<1>. QED BY <1>1, ScheduleAlways, PTL

\* Each turn leaves fewer turns to take, so the planner ends after at most
\* (waiting + 1) * (N + 1) of them, whatever the dependencies: the half of
\* PlanningEnds that needs no fairness.
THEOREM TurnsBounded == Spec => [](TurnsLeft \in Nat) /\ TurnsDecrease
<1>. DEFINE c == Cardinality(pending)
<1>0. IInv => N \in Nat /\ pending \subseteq 1 .. N /\ cursor \in 1 .. N + 1
  BY SnapshotTyped DEF IInv, TypeOK, Task
<1>1. IInv => IsFiniteSet(pending)
  <2>. SUFFICES ASSUME IInv PROVE IsFiniteSet(pending)
    OBVIOUS
  <2>1. 1 \in Int /\ N \in Int /\ pending \subseteq 1 .. N
    BY <1>0
  <2>2. IsFiniteSet(1 .. N)
    BY <2>1, FS_Interval
  <2>. QED BY <2>1, <2>2, FS_Subset
<1>2. IInv => c \in Nat
  BY <1>1, FS_CardinalityType
<1>3. IInv => TurnsLeft \in Nat
  BY <1>0, <1>2 DEF TurnsLeft
<1>4. IInv /\ [Next]_vars => [TurnsLeft' < TurnsLeft]_vars
  <2>. SUFFICES ASSUME IInv, Next PROVE TurnsLeft' < TurnsLeft
    OBVIOUS
  <2>1. N \in Nat /\ cursor \in 1 .. N + 1 /\ c \in Nat
    BY <1>0, <1>2
  <2>2. CASE Take \/ Pass
    <3>1. cursor' = cursor + 1 /\ pending' = pending /\ result' = result
      BY <2>2 DEF Take, Pass
    <3>2. \A x \in Int : x + (N + 1 - (cursor + 1)) < x + (N + 1 - cursor)
      BY <2>1
    <3>. QED BY <2>1, <3>1, <3>2 DEF TurnsLeft
  <2>3. CASE Stuck \/ Return
    <3>1. pending' = pending /\ cursor' = cursor /\ result = "planning" /\ result' # "planning"
      BY <2>3 DEF Stuck, Return, Scanning
    <3>. QED BY <2>1, <3>1 DEF TurnsLeft
  <2>4. CASE EndWave
    <3>1. /\ pending' = pending \ wave /\ wave # {} /\ wave \subseteq pending
          /\ cursor = N + 1 /\ cursor' = 1 /\ result' = result
      BY <2>4 DEF EndWave, IInv, WaveSound
    <3>2. Cardinality(pending') \in Nat /\ Cardinality(pending') < c
      <4>1. IsFiniteSet(pending)
        BY <1>1
      <4>. QED BY <3>1, <4>1, FS_Subset, FS_CardinalityType
    <3>. DEFINE d == Cardinality(pending')
    <3>. HIDE DEF c, d
    <3>3. d * (N + 1) + N < c * (N + 1)
      <4>1. d + 1 <= c /\ d \in Nat
        BY <2>1, <3>2 DEF d
      <4>2. (d + 1) * (N + 1) <= c * (N + 1)
        BY <2>1, <4>1
      <4>3. (d + 1) * (N + 1) = d * (N + 1) + N + 1
        BY <2>1, <4>1
      <4>. QED BY <2>1, <4>1, <4>2, <4>3
    <3>. QED BY <2>1, <3>1, <3>2, <3>3 DEF TurnsLeft, c, d
  <2>. QED BY <2>2, <2>3, <2>4 DEF Next
<1>. QED BY <1>3, <1>4, Invariance, PTL DEF Spec, TurnsDecrease
=============================================================================

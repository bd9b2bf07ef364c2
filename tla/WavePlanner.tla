---------------------------- MODULE WavePlanner ----------------------------
(***************************************************************************)
(* WavePlanner.get_pending_waves (core/planner.py): the pending tasks of   *)
(* one snapshot of the registry are cut into waves whose tasks run in      *)
(* parallel.  Tasks are numbered by their row in the registry, the order   *)
(* in which the planner looks at them; one step is one turn of its loops.  *)
(***************************************************************************)
EXTENDS Naturals, Sequences

CONSTANTS
  N,         \* number of registry rows
  Foreign,   \* ids a Depends cell may name although no row has them
  File,      \* cells of the Outputs lists
  StartAt,   \* start_at_index
  Snapshots  \* what load_tasks may return

Task == 1 .. N

TaskStatus == {"pending", "error", "completed", "awaiting-review", "in_progress",
               "interrupted", "deferred", "blocked", "abandoned"}

Snapshot == [status : [Task -> TaskStatus],
             deps : [Task -> SUBSET (Task \cup Foreign)],
             outputs : [Task -> SUBSET File],
             coupled : SUBSET (File \X File)]

ASSUME PlannerAssumption ==
  /\ N \in Nat /\ StartAt \in Nat
  /\ Foreign \cap Task = {}
  /\ Snapshots \subseteq Snapshot

VARIABLES
  snap,     \* the loaded tasks, and which files import which
  pending,  \* pending_tasks
  done,     \* completed_task_ids
  cursor,   \* next row of the scan that builds a wave
  wave,     \* current_wave
  claimed,  \* claimed_files_in_wave
  waves,    \* waves
  result    \* "planning", "planned" (return) or "error" (DependencyGraphError)

vars == <<snap, pending, done, cursor, wave, claimed, waves, result>>

\* A task waits for a wave while its status is pending or error.
InitiallyPending(s) == {t \in Task : s.status[t] \in {"pending", "error"} /\ t >= StartAt}

InitiallyDone(s) == {t \in Task : s.status[t] = "completed"}

Init ==
  /\ snap \in Snapshots
  /\ pending = InitiallyPending(snap)
  /\ done = InitiallyDone(snap)
  /\ cursor = 1 /\ wave = {} /\ claimed = {}
  /\ waves = <<>>
  /\ result = "planning"
-----------------------------------------------------------------------------
\* Mutated form: coupling is looked up in one direction only.
ImportCoupled_OneWay(a, b) == <<a, b>> \in snap.coupled

\* _files_are_import_coupled: one of the two imports the other.
ImportCoupled(a, b) == <<a, b>> \in snap.coupled \/ <<b, a>> \in snap.coupled

\* No output of t is claimed, or coupled with a claimed file.
NoConflict(t, files) ==
  /\ snap.outputs[t] \cap files = {}
  /\ \A a \in files, b \in snap.outputs[t] : ~ImportCoupled(a, b)

\* Mutated form: a dependency in the wave under construction counts as met.
Eligible_SameWave(t) ==
  /\ t \in pending
  /\ snap.deps[t] \subseteq done \cup wave
  /\ NoConflict(t, claimed)

\* The test a pending task must pass to join the wave.
Eligible(t) ==
  /\ t \in pending
  /\ snap.deps[t] \subseteq done
  /\ NoConflict(t, claimed)

Scanning == result = "planning" /\ pending # {}

Take ==
  /\ Scanning /\ cursor \in Task /\ Eligible(cursor)
  /\ wave' = wave \cup {cursor}
  /\ claimed' = claimed \cup snap.outputs[cursor]
  /\ cursor' = cursor + 1
  /\ UNCHANGED <<snap, pending, done, waves, result>>

\* Mutated form: the scan stays where it is.
Pass_Stay ==
  /\ Scanning /\ cursor \in Task /\ ~Eligible(cursor)
  /\ UNCHANGED vars

\* Mutated form: the scan does not stop at the last row.
Pass_Beyond ==
  /\ Scanning /\ ~Eligible(cursor)
  /\ cursor' = cursor + 1
  /\ UNCHANGED <<snap, pending, done, wave, claimed, waves, result>>

Pass ==
  /\ Scanning /\ cursor \in Task /\ ~Eligible(cursor)
  /\ cursor' = cursor + 1
  /\ UNCHANGED <<snap, pending, done, wave, claimed, waves, result>>

\* Mutated form: the wave's tasks stay pending.
EndWave_KeepPending ==
  /\ Scanning /\ cursor = N + 1 /\ wave # {} /\ Len(waves) < N
  /\ waves' = Append(waves, wave)
  /\ done' = done \cup wave
  /\ cursor' = 1 /\ wave' = {} /\ claimed' = {}
  /\ UNCHANGED <<snap, pending, result>>

\* Mutated form: the claims of a wave survive it.
EndWave_KeepClaims ==
  /\ Scanning /\ cursor = N + 1 /\ wave # {}
  /\ waves' = Append(waves, wave)
  /\ pending' = pending \ wave
  /\ done' = done \cup wave
  /\ cursor' = 1 /\ wave' = {}
  /\ UNCHANGED <<snap, claimed, result>>

EndWave ==
  /\ Scanning /\ cursor = N + 1 /\ wave # {}
  /\ waves' = Append(waves, wave)
  /\ pending' = pending \ wave
  /\ done' = done \cup wave
  /\ cursor' = 1 /\ wave' = {} /\ claimed' = {}
  /\ UNCHANGED <<snap, result>>

\* Nothing can be scheduled: DependencyGraphError.
Stuck ==
  /\ Scanning /\ cursor = N + 1 /\ wave = {}
  /\ result' = "error"
  /\ UNCHANGED <<snap, pending, done, cursor, wave, claimed, waves>>

Return ==
  /\ result = "planning" /\ pending = {}
  /\ result' = "planned"
  /\ UNCHANGED <<snap, pending, done, cursor, wave, claimed, waves>>

Next == Take \/ Pass \/ EndWave \/ Stuck \/ Return

\* The planner is one coroutine nobody waits for: it runs on.
Spec == Init /\ [][Next]_vars /\ WF_vars(Next)
-----------------------------------------------------------------------------
TypeOK ==
  /\ snap \in Snapshots
  /\ pending \subseteq Task /\ done \subseteq Task /\ wave \subseteq Task
  /\ cursor \in 1 .. N + 1
  /\ claimed \subseteq File
  /\ waves \in Seq(SUBSET Task)
  /\ result \in {"planning", "planned", "error"}

Scheduled == UNION {waves[k] : k \in DOMAIN waves}

\* What the planner has promised to finish before wave k starts.
DoneBefore(k) ==
  InitiallyDone(snap) \cup UNION {waves[j] : j \in {i \in DOMAIN waves : i < k}}

\* A task never shares a wave with a task it depends on, nor runs before one:
\* each dependency is completed already or scheduled in a strictly earlier
\* wave.
DependenciesFirst ==
  \A k \in DOMAIN waves : \A t \in waves[k] : snap.deps[t] \subseteq DoneBefore(k)

\* t and u cannot run side by side: they write a common file, or a file of one
\* imports a file of the other.
Clash(t, u) ==
  \E a \in snap.outputs[t], b \in snap.outputs[u] :
    a = b \/ <<a, b>> \in snap.coupled \/ <<b, a>> \in snap.coupled

WaveConflictFree(w) == \A t, u \in w : t # u => ~Clash(t, u)

\* No two tasks of one wave clash.
WavesConflictFree == \A k \in DOMAIN waves : WaveConflictFree(waves[k])

\* Every pending task of the snapshot is scheduled exactly once, and nothing
\* else is: the waves are disjoint and, with what is left, make up the tasks
\* that waited.
ScheduledOnce ==
  /\ \A j, k \in DOMAIN waves : j # k => waves[j] \cap waves[k] = {}
  /\ Scheduled \cup pending = InitiallyPending(snap)
  /\ Scheduled \cap pending = {}
  /\ result = "planned" => pending = {}

\* DependencyGraphError is raised only when no order of the remaining tasks
\* could have gone on: each of them still lacks a dependency, whatever files
\* they claim.
ErrorOnlyWhenStuck ==
  result = "error" => /\ pending # {}
                      /\ \A t \in pending : ~(snap.deps[t] \subseteq done)

\* No needless waiting: a task left out of a wave although its dependencies
\* were met conflicts with an earlier row that is in it.
WaveMaximal ==
  Scanning /\ cursor = N + 1 =>
    \A t \in pending \ wave :
      snap.deps[t] \subseteq done =>
        \E u \in wave : u < t /\ Clash(t, u)

\* Planning ends, with waves or with an error.
PlanningEnds == <>(result # "planning")
=============================================================================

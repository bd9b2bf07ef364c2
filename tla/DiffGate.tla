------------------------------ MODULE DiffGate ------------------------------
(***************************************************************************)
(* How a change reaches a project file: the checkpoint protocol of         *)
(* write_file_with_review (core/state.py), the Diff-Gate review            *)
(* (core/review_ui.py), the orphan recovery scan (core/state.py), and the  *)
(* rollback and resume commands.                                           *)
(*                                                                         *)
(* Copies of a file are named after its path with "/" written "__" and ":" *)
(* "__colon__", the name Encode[p].  Several paths share a name ("a/b" and *)
(* "a__b"), so reading a name back may give another path than it was made  *)
(* from: src/__init__.py is named src____init__.py, which the rollback     *)
(* command reads back as src//init/.py.  Restored is what that command     *)
(* reads, Shown what the review reads.                                     *)
(*                                                                         *)
(* Task t stages name n in the file {t}_{n}.tmp, the pair <<t, n>> below;  *)
(* the rollback command leaves safety copies {n}.tmp, plain n below.  The  *)
(* review reads a staged file's name back with its task, so <<t, n>> is    *)
(* also a path, "{t}_{n}", which the Change Log does not name.             *)
(*                                                                         *)
(* The registry is reduced to statuses, in the two tables RegistryPromise  *)
(* speaks of: current is what the process sees, durable what memory.md     *)
(* says.                                                                   *)
(***************************************************************************)
EXTENDS Naturals, Sequences, SequencesExt

CONSTANTS
  Task,     \* registered tasks
  Path,     \* project paths
  Name,     \* path names
  Encode,   \* the name of a path
  Restored, \* the path the rollback command reads from a name
  Shown,    \* the path the review reads from a name
  Text,     \* contents of a file
  Draft,    \* contents the model stages
  Absent,   \* no such file
  TailOf,   \* <<n, m>>: the name m ends in "_" and the name n
  MaxRows,  \* bound: rows of the Change Log
  MaxRuns   \* bound: commands and edits

Staged == Task \X Name        \* .yani/tmp/{t}_{n}.tmp
TmpName == Staged \cup Name   \* the names in .yani/tmp
File == Path \cup Staged      \* project paths, and the names the review derives

Status == {"pending", "in_progress", "awaiting-review", "completed", "error", "deferred"}

RowStatus == {"planned", "applied", "rolled-back", "unknown"}

Row == [task : Task, path : File, status : RowStatus]

Content == Text \cup {Absent}

ASSUME GateAssumption ==
  /\ Absent \notin Text /\ Draft \subseteq Text
  /\ (Path \cup Name) \cap Staged = {}
  /\ Encode \in [Path -> Name] /\ Restored \in [Name -> Path] /\ Shown \in [Name -> Path]
  /\ \A n \in Name : Encode[Restored[n]] = n
  /\ TailOf \subseteq Name \X Name
  /\ MaxRows \in Nat /\ MaxRuns \in Nat

VARIABLES
  files,     \* the project's files
  tmp,       \* .yani/tmp
  rollback,  \* .yani/rollbacks/{task}/{name}
  ledger,    \* the Change Log
  unlogged,  \* history: staged names whose last planned row was not written
  chk,       \* checkpoint JSONs
  current, durable,  \* task statuses
  phase,     \* where the running command is
  wave,      \* tasks of the wave whose workers still run
  step,      \* where each task is in the checkpoint protocol
  before,    \* before_tmps
  todo,      \* tmp files the review has still to decide
  rejected,  \* the ones to reject, and whether a scan follows
  verdict,   \* the reviewed file's task, path and status, until recorded
  undo,      \* the rollback command's task and its files still to restore
  runs       \* commands begun, and edits between them

logVars == <<ledger, unlogged>>
diskVars == <<files, tmp, rollback, logVars, chk>>
regVars == <<current, durable>>
reviewVars == <<before, todo, rejected, verdict>>
vars == <<diskVars, regVars, phase, wave, step, reviewVars, undo, runs>>

NoStep == [at |-> "none"]
NoReject == [names |-> {}, scan |-> FALSE]
NoVerdict == [task |-> Absent]
NoUndo == [task |-> Absent, left |-> {}]

Init ==
  /\ files \in [File -> Content] /\ \A n \in Staged : files[n] = Absent
  /\ tmp = [n \in TmpName |-> Absent]
  /\ rollback = [n \in Staged |-> Absent]
  /\ ledger = <<>> /\ unlogged = {} /\ chk = {}
  /\ durable = [t \in Task |-> "pending"] /\ current = durable
  /\ phase = "idle" /\ wave = {} /\ step = [t \in Task |-> NoStep]
  /\ before = {} /\ todo = {} /\ rejected = NoReject /\ verdict = NoVerdict
  /\ undo = NoUndo /\ runs = 0
-----------------------------------------------------------------------------
Tmps == {n \in TmpName : tmp[n] # Absent}

Write(f, n, text) == [f EXCEPT ![n] = text]

\* update_task_registry_row, and with flush_task_registry.
Mark(t, s) == current' = [current EXCEPT ![t] = s] /\ UNCHANGED durable

MarkFlushed(T, s) ==
  /\ current' = [t \in Task |-> IF t \in T THEN s ELSE current[t]]
  /\ durable' = current'

Planned(row) == row.status = "planned"

\* The path the review reads from a file's name, and writes.
Target(n) == IF n \in Staged THEN n ELSE Shown[n]

\* The task of the first planned row for that path.
Claimants(n) == {i \in DOMAIN ledger : Planned(ledger[i]) /\ ledger[i].path = Target(n)}

FirstClaimant(n) == ledger[CHOOSE i \in Claimants(n) : \A j \in Claimants(n) : i <= j].task

\* Mutated form: a new row is put at the top of the table.
LogRow_First(row) == ledger' \in {<<row>> \o ledger, ledger}

\* append_to_markdown_table on the Change Log.  It may fail, which its callers
\* do not look at.
LogRow(row) == ledger' \in {Append(ledger, row), ledger}
-----------------------------------------------------------------------------
(* The checkpoint protocol of task t, one await at a time.                 *)

Working(t) == phase = "work" /\ t \in wave

Steps(t, s) == step' = [step EXCEPT ![t] = s]

\* The name the write under way stages.
StepName(t) == <<t, Encode[step[t].path]>>

\* A worker takes its task.
Claim(t) ==
  /\ Working(t) /\ step[t] = NoStep /\ durable[t] \in {"pending", "error"}
  /\ current[t] # "in_progress"
  /\ Mark(t, "in_progress")
  /\ UNCHANGED <<diskVars, phase, wave, step, reviewVars, undo, runs>>

\* A second write to a staged name replaces the staged text, nothing else.
Restage(t, p, text) ==
  /\ Working(t) /\ step[t] = NoStep /\ current[t] = "in_progress"
  /\ tmp[<<t, Encode[p]>>] # Absent
  /\ tmp' = Write(tmp, <<t, Encode[p]>>, text)
  /\ UNCHANGED <<files, rollback, logVars, chk, regVars, phase, wave, step, reviewVars, undo, runs>>

\* Mutated form: an older rollback copy is overwritten.
CopyForRollback_Overwrite(t, p, text) ==
  /\ Working(t) /\ step[t] = NoStep /\ current[t] = "in_progress"
  /\ tmp[<<t, Encode[p]>>] = Absent /\ Len(ledger) < MaxRows
  /\ rollback' = Write(rollback, <<t, Encode[p]>>, files[p])
  /\ Steps(t, [at |-> "copied", path |-> p, text |-> text])
  /\ UNCHANGED <<files, tmp, logVars, chk, regVars, phase, wave, reviewVars, undo, runs>>

\* Step 1, write_rollback_copy: the first copy stays, a new file has none.
CopyForRollback(t, p, text) ==
  /\ Working(t) /\ step[t] = NoStep /\ current[t] = "in_progress"
  /\ tmp[<<t, Encode[p]>>] = Absent /\ Len(ledger) < MaxRows
  /\ rollback' = IF rollback[<<t, Encode[p]>>] = Absent
                 THEN Write(rollback, <<t, Encode[p]>>, files[p]) ELSE rollback
  /\ Steps(t, [at |-> "copied", path |-> p, text |-> text])
  /\ UNCHANGED <<files, tmp, logVars, chk, regVars, phase, wave, reviewVars, undo, runs>>

\* Mutated form: the change is not logged before it is staged.
LogPlanned_Skip(t) ==
  /\ Working(t) /\ step[t].at = "copied"
  /\ Steps(t, [step[t] EXCEPT !.at = "logged"])
  /\ UNCHANGED <<diskVars, regVars, phase, wave, reviewVars, undo, runs>>

\* Step 2, log_planned_change.  The protocol goes on without the row as well.
LogPlanned(t) ==
  /\ Working(t) /\ step[t].at = "copied"
  /\ LogRow([task |-> t, path |-> step[t].path, status |-> "planned"])
  /\ unlogged' = IF ledger' = ledger THEN unlogged \cup {StepName(t)}
                 ELSE unlogged \ {StepName(t)}
  /\ Steps(t, [step[t] EXCEPT !.at = "logged"])
  /\ UNCHANGED <<files, tmp, rollback, chk, regVars, phase, wave, reviewVars, undo, runs>>

\* Step 3, write_checkpoint_json.  Its Checkpoint Registry row, which may fail
\* to be written too, is read by nothing.
WriteCheckpoint(t) ==
  /\ Working(t) /\ step[t].at = "logged"
  /\ chk' = chk \cup {StepName(t)}
  /\ Steps(t, [step[t] EXCEPT !.at = "checkpointed"])
  /\ UNCHANGED <<files, tmp, rollback, logVars, regVars, phase, wave, reviewVars, undo, runs>>

\* Mutated form: the task gets a status the schema does not know.
StageTmp_UnknownStatus(t) ==
  /\ Working(t) /\ step[t].at = "checkpointed"
  /\ Mark(t, "staged")
  /\ tmp' = Write(tmp, StepName(t), step[t].text)
  /\ Steps(t, NoStep)
  /\ UNCHANGED <<files, rollback, logVars, chk, phase, wave, reviewVars, undo, runs>>

\* The checkpoint is linked to the task, and step 4, the staged file.
StageTmp(t) ==
  /\ Working(t) /\ step[t].at = "checkpointed"
  /\ Mark(t, "in_progress")
  /\ tmp' = Write(tmp, StepName(t), step[t].text)
  /\ Steps(t, NoStep)
  /\ UNCHANGED <<files, rollback, logVars, chk, phase, wave, reviewVars, undo, runs>>

\* The task ends: for review, or with an error, which other staged files
\* share the fate of; or the model itself says "completed" with the
\* update_task_registry_row tool before it ends.
EndTask(t, s) ==
  /\ Working(t) /\ step[t] = NoStep /\ current[t] = "in_progress"
  /\ MarkFlushed({t}, s)
  /\ wave' = wave \ {t}
  /\ UNCHANGED <<diskVars, phase, step, reviewVars, undo, runs>>
-----------------------------------------------------------------------------
(* The execute command.                                                    *)

Begin(first) ==
  /\ phase = "idle" /\ runs < MaxRuns
  /\ runs' = runs + 1
  /\ phase' = first

StartExecute ==
  /\ Begin("scan")
  /\ UNCHANGED <<diskVars, regVars, wave, step, reviewVars, undo>>

\* The rollback copy the scan compares with: the row's own, or another task's.
CopiesFor(row) ==
  LET n == Encode[row.path]
  IN  IF rollback[<<row.task, n>>] # Absent THEN {rollback[<<row.task, n>>]}
      ELSE {rollback[<<t, n>>] : t \in Task} \ {Absent}

\* What the scan may make of a planned row.
Resolutions(row) ==
  IF CopiesFor(row) = {} THEN {"unknown"}
  ELSE {IF files[row.path] = c THEN "rolled-back" ELSE "planned" : c \in CopiesFor(row)}

\* Files the scan deletes for a row, whatever becomes of it: the glob
\* *_{name}.tmp.
Swept(row) ==
  LET name == Encode[row.path]
  IN  {n \in Staged : n[2] = name \/ <<name, n[2]>> \in TailOf}
        \cup {n \in Name : <<name, n>> \in TailOf}

PlannedRows == {ledger[i] : i \in {j \in DOMAIN ledger : Planned(ledger[j])}}

SweepTmps ==
  tmp' = [n \in TmpName |->
            IF \E row \in PlannedRows : n \in Swept(row) THEN Absent ELSE tmp[n]]

\* The fast path: nothing staged, no checkpoint and no rollback copy.
NothingToScan == Tmps = {} /\ chk = {} /\ \A n \in Staged : rollback[n] = Absent

\* OrphanRecoveryScanner.run: the tmp files of planned rows are deleted; then
\* the rows are rewritten.
ScanSweep(here, there, over) ==
  /\ phase = here
  /\ SweepTmps
  /\ phase' = IF NothingToScan THEN over ELSE there
  /\ UNCHANGED <<files, rollback, logVars, chk, regVars, wave, step, reviewVars, undo, runs>>

\* An unwritten status in the cache goes with the cache.
ScanResolve(here, there) ==
  /\ phase = here
  /\ \E status \in [DOMAIN ledger -> RowStatus] :
       /\ \A i \in DOMAIN ledger :
            status[i] \in IF Planned(ledger[i]) THEN Resolutions(ledger[i])
                         ELSE {ledger[i].status}
       /\ ledger' = [i \in DOMAIN ledger |-> [ledger[i] EXCEPT !.status = status[i]]]
  /\ current' = IF ledger' # ledger THEN durable ELSE current
  /\ phase' = there
  /\ UNCHANGED <<files, tmp, rollback, unlogged, chk, durable, wave, step, reviewVars, undo, runs>>

\* Mutated form: what an earlier run left staged is not reviewed.
ReviewOld_Skip ==
  /\ phase = "old"
  /\ phase' = "plan"
  /\ UNCHANGED <<diskVars, regVars, wave, step, reviewVars, undo, runs>>

\* "Found unreviewed files from a previous run": whatever the scan left.
ReviewOld ==
  /\ phase = "old"
  /\ todo' = Tmps
  /\ phase' = IF Tmps = {} THEN "plan" ELSE "choose"
  /\ UNCHANGED <<diskVars, regVars, wave, step, before, rejected, verdict, undo, runs>>

Waiting == {t \in Task : durable[t] \in {"pending", "error"}}

\* A wave of waiting tasks (see WavePlanner), or the end of the command.
PlanWave ==
  /\ phase = "plan"
  /\ \E W \in SUBSET Waiting :
       /\ W # {} \/ Waiting = {}
       /\ wave' = W
       /\ phase' = IF W = {} THEN "exit" ELSE "work"
  /\ before' = Tmps
  /\ UNCHANGED <<diskVars, regVars, step, todo, rejected, verdict, undo, runs>>

\* after_tmps - before_tmps goes to the review.
WaveEnds ==
  /\ phase = "work" /\ wave = {}
  /\ todo' = Tmps \ before
  /\ phase' = IF todo' = {} THEN "plan" ELSE "choose"
  /\ UNCHANGED <<diskVars, regVars, wave, step, before, rejected, verdict, undo, runs>>

\* Y, N or S.  A name typed as the review shows it matches no file, but is
\* enough for the scan that follows a rejection.
Choose ==
  /\ phase = "choose"
  /\ \E names \in SUBSET todo, scan \in BOOLEAN :
       /\ names # {} => scan
       /\ rejected' = [names |-> names, scan |-> scan]
  /\ phase' = "review"
  /\ UNCHANGED <<diskVars, regVars, wave, step, before, todo, verdict, undo, runs>>

Apply(n) ==
  /\ files' = Write(files, Target(n), tmp[n])
  /\ tmp' = Write(tmp, n, Absent)

Refuse(n) ==
  LET copy == <<FirstClaimant(n), Encode[Target(n)]>>
  IN  /\ tmp' = Write(tmp, n, Absent)
      /\ files' = Write(files, Target(n),
                       IF Claimants(n) # {} /\ rollback[copy] # Absent
                       THEN rollback[copy] ELSE Absent)

\* One turn of Phase D.
ReviewFile(n) ==
  /\ phase = "review" /\ n \in todo
  /\ IF n \in rejected.names THEN Refuse(n) ELSE Apply(n)
  /\ todo' = todo \ {n}
  /\ IF Claimants(n) = {} THEN UNCHANGED <<phase, verdict>>
     ELSE /\ verdict' = [task |-> FirstClaimant(n), path |-> Target(n),
                         status |-> IF n \in rejected.names THEN "pending" ELSE "completed"]
          /\ phase' = "verdict"
  /\ UNCHANGED <<rollback, logVars, chk, regVars, wave, step, before, rejected, undo, runs>>

\* Its task is marked and flushed,
RecordVerdict ==
  /\ phase = "verdict"
  /\ MarkFlushed({verdict.task}, verdict.status)
  /\ phase' = IF verdict.status = "completed" THEN "record" ELSE "review"
  /\ verdict' = IF verdict.status = "completed" THEN verdict ELSE NoVerdict
  /\ UNCHANGED <<diskVars, wave, step, before, todo, rejected, undo, runs>>

\* and an applied change is logged: log_applied_change.
LogApplied ==
  /\ phase = "record"
  /\ LogRow([task |-> verdict.task, path |-> verdict.path, status |-> "applied"])
  /\ phase' = "review" /\ verdict' = NoVerdict
  /\ UNCHANGED <<files, tmp, rollback, unlogged, chk, regVars, wave, step, before, todo, rejected,
                 undo, runs>>

ReviewEnds ==
  /\ phase = "review" /\ todo = {}
  /\ phase' = IF rejected.scan THEN "rescan" ELSE "plan"
  /\ rejected' = NoReject
  /\ UNCHANGED <<diskVars, regVars, wave, step, before, todo, verdict, undo, runs>>
-----------------------------------------------------------------------------
(* The resume and rollback commands.                                       *)

StartResume ==
  /\ Begin("resume")
  /\ UNCHANGED <<diskVars, regVars, wave, step, reviewVars, undo>>

Interrupted == {t \in Task : durable[t] \in {"in_progress", "error"}}

\* R, B or S.  The checkpoint JSONs have no "files", so R restores nothing and
\* goes on with execute.
ResumeChoice ==
  /\ phase = "resumed"
  /\ \/ /\ Interrupted = {}
        /\ phase' = "exit" /\ UNCHANGED regVars
     \/ /\ Interrupted # {}
        /\ \/ MarkFlushed(Interrupted, "pending") /\ phase' \in {"scan", "exit"}
           \/ MarkFlushed(Interrupted, "deferred") /\ phase' = "exit"
  /\ UNCHANGED <<diskVars, wave, step, reviewVars, undo, runs>>

CopiesOf(t) == {n \in Name : rollback[<<t, n>>] # Absent}

StartRollback(t) ==
  /\ durable[t] = "completed"
  /\ Begin("undo")
  /\ undo' = [task |-> t, left |-> CopiesOf(t)]
  /\ UNCHANGED <<diskVars, regVars, wave, step, reviewVars>>

\* A copy is put back where its name is read to point; what that path held is
\* kept in .yani/tmp.
RestoreFile(n) ==
  /\ phase = "undo" /\ n \in undo.left
  /\ tmp' = IF files[Restored[n]] # Absent THEN Write(tmp, n, files[Restored[n]]) ELSE tmp
  /\ files' = Write(files, Restored[n], rollback[<<undo.task, n>>])
  /\ undo' = [undo EXCEPT !.left = @ \ {n}]
  /\ UNCHANGED <<rollback, logVars, chk, regVars, phase, wave, step, reviewVars, runs>>

\* The paths a rollback of t has put copies back to.
RestoredFiles(t) == {Restored[n] : n \in CopiesOf(t)}

\* Mutated form: every path the task touched is deleted.
FinishRollback_All ==
  LET t == undo.task
      mine == {i \in DOMAIN ledger : ledger[i].task = t}
      created == {ledger[i].path : i \in mine}
  IN /\ phase = "undo" /\ undo.left = {}
     /\ IF CopiesOf(t) = {} THEN UNCHANGED <<files, ledger>>
        ELSE /\ files' = [n \in File |-> IF n \in created THEN Absent ELSE files[n]]
             /\ ledger' = [i \in DOMAIN ledger |->
                             IF i \in mine /\ ledger[i].status = "applied"
                             THEN [ledger[i] EXCEPT !.status = "rolled-back"] ELSE ledger[i]]
     /\ phase' = "undone"
     /\ UNCHANGED <<tmp, rollback, unlogged, chk, regVars, wave, step, reviewVars, undo, runs>>

\* Paths the task touched and nothing was put back to are deleted, and
\* memory.md is written; neither happens for a task without rollback copies.
FinishRollback ==
  LET t == undo.task
      mine == {i \in DOMAIN ledger : ledger[i].task = t}
      created == {ledger[i].path : i \in mine} \ RestoredFiles(t)
  IN /\ phase = "undo" /\ undo.left = {}
     /\ IF CopiesOf(t) = {} THEN UNCHANGED <<files, ledger>>
        ELSE /\ files' = [n \in File |-> IF n \in created THEN Absent ELSE files[n]]
             /\ ledger' = [i \in DOMAIN ledger |->
                             IF i \in mine /\ ledger[i].status = "applied"
                             THEN [ledger[i] EXCEPT !.status = "rolled-back"] ELSE ledger[i]]
     /\ phase' = "undone"
     /\ UNCHANGED <<tmp, rollback, unlogged, chk, regVars, wave, step, reviewVars, undo, runs>>

RollbackMarks ==
  /\ phase = "undone"
  /\ MarkFlushed({undo.task}, "pending")
  /\ undo' = NoUndo
  /\ phase' = "exit"
  /\ UNCHANGED <<diskVars, wave, step, reviewVars, runs>>
-----------------------------------------------------------------------------
\* The process ends, or is killed at any point: what was only cached is lost.
Stop ==
  /\ phase # "idle"
  /\ phase' = "idle"
  /\ current' = durable
  /\ wave' = {} /\ step' = [t \in Task |-> NoStep]
  /\ before' = {} /\ todo' = {} /\ rejected' = NoReject
  /\ verdict' = NoVerdict /\ undo' = NoUndo
  /\ UNCHANGED <<diskVars, durable, runs>>

\* The user changes a project file.
Edit(p, text) ==
  /\ phase = "idle" /\ text # files[p] /\ runs < MaxRuns
  /\ runs' = runs + 1
  /\ files' = Write(files, p, text)
  /\ UNCHANGED <<tmp, rollback, logVars, chk, regVars, phase, wave, step, reviewVars, undo>>

Protocol(t) ==
  \/ Claim(t)
  \/ \E p \in Path, text \in Draft : Restage(t, p, text) \/ CopyForRollback(t, p, text)
  \/ LogPlanned(t) \/ WriteCheckpoint(t) \/ StageTmp(t)
  \/ \E s \in {"awaiting-review", "completed", "error"} : EndTask(t, s)

Execute ==
  \/ StartExecute
  \/ ScanSweep("scan", "scanned", "old") \/ ScanResolve("scanned", "old")
  \/ ReviewOld \/ PlanWave \/ WaveEnds \/ Choose
  \/ \E n \in TmpName : ReviewFile(n)
  \/ RecordVerdict \/ LogApplied \/ ReviewEnds
  \/ ScanSweep("rescan", "rescanned", "plan") \/ ScanResolve("rescanned", "plan")

Resume ==
  \/ StartResume
  \/ ScanSweep("resume", "resuming", "resumed") \/ ScanResolve("resuming", "resumed")
  \/ ResumeChoice

Rollback ==
  \/ \E t \in Task : StartRollback(t)
  \/ \E n \in Name : RestoreFile(n)
  \/ FinishRollback \/ RollbackMarks

Next ==
  \/ \E t \in Task : Protocol(t)
  \/ Execute \/ Resume \/ Rollback
  \/ Stop
  \/ \E p \in Path, text \in Content : Edit(p, text)

Spec == Init /\ [][Next]_vars
-----------------------------------------------------------------------------
Phase == {"idle", "scan", "scanned", "old", "plan", "work", "choose", "review",
          "verdict", "record",
          "rescan", "rescanned", "exit", "resume", "resuming", "resumed",
          "undo", "undone"}

TypeOK ==
  /\ files \in [File -> Content] /\ tmp \in [TmpName -> Content]
  /\ rollback \in [Staged -> Content]
  /\ ledger \in Seq(Row)
  /\ chk \subseteq Staged /\ unlogged \subseteq Staged
  /\ current \in [Task -> Status] /\ durable \in [Task -> Status]
  /\ phase \in Phase /\ wave \subseteq Task
  /\ before \subseteq TmpName /\ todo \subseteq TmpName /\ rejected.names \subseteq TmpName
  /\ verdict.task \in Task \cup {Absent} /\ runs \in 0 .. MaxRuns

\* Whatever is staged can be explained, or its planned row failed to be written:
\* a file {t}_{n}.tmp stands in .yani/tmp only with the checkpoint of its change,
\* and with a planned row of t for a path named n unless log_planned_change lost
\* it, through crashes between any two steps of the protocol, scans cut short,
\* rejections and rollbacks.
StagedIsLogged ==
  \A n \in Staged :
    tmp[n] # Absent =>
      /\ n \in chk
      /\ n \in unlogged \/ \E row \in PlannedRows : row.task = n[1] /\ Encode[row.path] = n[2]

\* The first rollback copy of a task's file is never overwritten, by a later
\* write, a scan or a rollback (lib/checkpoint-protocol.md, Invariant).
RollbackCopyKept ==
  [][\A n \in Staged : rollback[n] # Absent => rollback'[n] = rollback[n]]_rollback

\* The review after a wave leaves nothing out: it takes the files that are in
\* .yani/tmp after the wave and were not before, and none that the wave's workers
\* have staged or staged again was there before, whatever a killed run, an
\* unlogged change or a refused one left behind.
WaveReviewsAll ==
  phase = "work" => \A n \in Staged : tmp[n] # Absent => n \notin before

\* Once a rollback is through with the files, and before it marks the task, each
\* rollback copy of the task is back at the path its name is read to point to,
\* and every other path the task touched is gone, unless there was no copy at
\* all.  A path its name is read back to has its copy again, whatever other
\* tasks wrote to it, the user edited or a killed rollback had restored; one it
\* is not, like src/__init__.py, is deleted.
RollbackExact ==
  phase = "undone" =>
    /\ \A n \in CopiesOf(undo.task) : files[Restored[n]] = rollback[<<undo.task, n>>]
    /\ CopiesOf(undo.task) # {} =>
         \A i \in DOMAIN ledger :
           ledger[i].task = undo.task /\ ledger[i].path \notin RestoredFiles(undo.task)
             => files[ledger[i].path] = Absent

\* The Change Log is a history: rows keep their place, task and path, and a
\* status moves only from planned to what became of it, or from applied to
\* rolled-back.
LedgerForward ==
  [][/\ DOMAIN ledger \subseteq DOMAIN ledger'
     /\ \A i \in DOMAIN ledger :
          \/ ledger'[i] = ledger[i]
          \/ /\ ledger'[i] \in {[ledger[i] EXCEPT !.status = s] : s \in RowStatus}
             /\ \/ ledger[i].status = "planned" /\ ledger'[i].status \in {"rolled-back", "unknown"}
                \/ ledger[i].status = "applied" /\ ledger'[i].status = "rolled-back"
    ]_ledger

\* docs/05-architecture.md on the Diff-Gate: an approved change is renamed to
\* its target.  A staged file that leaves the review unrefused is what its
\* path then holds.
ApprovedIsApplied ==
  [][\A n \in todo \cap Staged :
       n \notin todo' \cup rejected.names /\ phase = "review" /\ phase' # "idle"
         => \E p \in Path : Encode[p] = n[2] /\ files'[p] = tmp[n]]_vars
=============================================================================

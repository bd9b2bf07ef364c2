--------------------------- MODULE DiffGateProofs ---------------------------
(* Proofs about DiffGate, for any tasks, paths, contents and number of       *)
(* commands, killed at any point.                                            *)
EXTENDS DiffGate, WellFoundedInduction, TLAPS

(* Types.                                                                  *)

\* Rows name project paths only, never a name the review derives.
PathRow == [task : Task, path : Path, status : RowStatus]

Verdicts == [task : Task, path : Path, status : {"pending", "completed"}]

Pending == [at : {"copied", "logged", "checkpointed"}, path : Path, text : Draft]

TypeInv ==
  /\ TypeOK
  /\ ledger \in Seq(PathRow)
  /\ step \in [Task -> Pending \cup {NoStep}]
  /\ phase \in {"verdict", "record"} => verdict \in Verdicts
  /\ rejected = [names |-> rejected.names, scan |-> rejected.scan]
  /\ undo = [task |-> undo.task, left |-> undo.left]
  /\ undo.left \subseteq Name /\ (undo.left # {} => undo.task \in Task)

\* A name of .yani/tmp with claimants has a first one, and is read as a path
\* of the Change Log.
LEMMA Claimed ==
  ASSUME NEW n, ledger \in Seq(PathRow), Claimants(n) # {}
  PROVE  FirstClaimant(n) \in Task /\ Target(n) \in Path
<1>1. Claimants(n) \in SUBSET Nat /\ Claimants(n) \subseteq DOMAIN ledger
  BY DEF Claimants
<1>. DEFINE Less == OpToRel(<, Nat)
<1>2. \E i \in Claimants(n) : \A j \in Claimants(n) : i <= j
  <2>1. Less = {ij \in Nat \X Nat : ij[1] < ij[2]}
    BY DEF OpToRel
  <2>2. IsWellFoundedOn(Less, Nat)
    BY NatLessThanWellFounded
  <2>. HIDE DEF Less
  <2>3. PICK i \in Claimants(n) : \A j \in Claimants(n) : ~(<<j, i>> \in Less)
    BY <1>1, <2>2, WFMin
  <2>4. \A j \in Claimants(n) : j \in Nat /\ i \in Nat /\ ~(j < i)
    BY <1>1, <2>1, <2>3
  <2>. QED BY <2>4
<1>. DEFINE i == CHOOSE k \in Claimants(n) : \A j \in Claimants(n) : k <= j
<1>3. i \in Claimants(n)
  BY <1>2
<1>4. ledger[i] \in PathRow /\ ledger[i].path = Target(n)
  BY <1>1, <1>3 DEF Claimants
<1>. QED BY <1>4 DEF FirstClaimant, PathRow

\* A ledger of project paths is a ledger.
LEMMA RowTypes == \A s : s \in Seq(PathRow) => s \in Seq(Row)
<1>. PathRow \subseteq Row
  BY DEF PathRow, Row, File
<1>. QED OBVIOUS

\* A row written to the Change Log, or lost.
LEMMA RowLogged ==
  ASSUME ledger \in Seq(PathRow), NEW row \in PathRow, LogRow(row)
  PROVE  ledger' \in Seq(PathRow)
<1>1. CASE ledger' = Append(ledger, row)
  BY <1>1
<1>2. CASE ledger' = ledger
  BY <1>2
<1>. QED BY <1>1, <1>2 DEF LogRow

\* No more than the statuses of the rows change.
LEMMA Restated ==
  ASSUME ledger \in Seq(PathRow), NEW st, \A i \in DOMAIN ledger : st[i] \in RowStatus
  PROVE  /\ [i \in DOMAIN ledger |-> [ledger[i] EXCEPT !.status = st[i]]] \in Seq(PathRow)
         /\ \A i \in DOMAIN ledger :
              [ledger[i] EXCEPT !.status = st[i]] =
                [task |-> ledger[i].task, path |-> ledger[i].path, status |-> st[i]]
<1>. DEFINE new == [i \in DOMAIN ledger |-> [ledger[i] EXCEPT !.status = st[i]]]
<1>1. Len(ledger) \in Nat /\ DOMAIN ledger = 1 .. Len(ledger)
  OBVIOUS
<1>2. \A i \in DOMAIN ledger :
        /\ [ledger[i] EXCEPT !.status = st[i]] \in PathRow
        /\ [ledger[i] EXCEPT !.status = st[i]] =
             [task |-> ledger[i].task, path |-> ledger[i].path, status |-> st[i]]
  <2>. SUFFICES ASSUME NEW i \in DOMAIN ledger
                PROVE  /\ [ledger[i] EXCEPT !.status = st[i]] \in PathRow
                       /\ [ledger[i] EXCEPT !.status = st[i]] =
                            [task |-> ledger[i].task, path |-> ledger[i].path, status |-> st[i]]
    OBVIOUS
  <2>1. ledger[i] \in PathRow /\ st[i] \in RowStatus
    BY <1>1
  <2>. QED BY <2>1 DEF PathRow
<1>3. new \in [1 .. Len(ledger) -> PathRow]
  BY <1>1, <1>2
<1>4. new \in Seq(PathRow)
  BY <1>1, <1>3
<1>. QED BY <1>2, <1>4

\* The types hold at the start,
LEMMA TypeInit == Init => TypeInv
<1>. SUFFICES ASSUME Init PROVE TypeInv
  OBVIOUS
<1>1. TypeOK
  BY GateAssumption DEF Init, TypeOK, NoReject, NoVerdict, Phase, Status, Content
<1>. QED BY <1>1 DEF Init, TypeInv, NoReject, NoUndo

\* What the registry's operations do to the statuses.
LEMMA Marked ==
  ASSUME TypeOK, NEW s \in Status
  PROVE  /\ \A t : Mark(t, s) => current' \in [Task -> Status] /\ durable' \in [Task -> Status]
         /\ \A T : MarkFlushed(T, s) => current' \in [Task -> Status] /\ durable' \in [Task -> Status]
  BY DEF TypeOK, Mark, MarkFlushed

\* and every step keeps them.
LEMMA TypeStep == TypeInv /\ [Next]_vars => TypeInv'
<1>. SUFFICES ASSUME TypeInv, [Next]_vars PROVE TypeInv'
  OBVIOUS
<1>. USE DEF TypeInv, TypeOK, diskVars, logVars, regVars, reviewVars
<1>. Draft \subseteq Text /\ Text \subseteq Content /\ Absent \in Content
     /\ Staged \subseteq TmpName /\ Name \subseteq TmpName /\ Path \subseteq File
     /\ \A t \in Task, p \in Path : <<t, Encode[p]>> \in Staged
     /\ \A u \in Task, n \in Name : <<u, n>> \in Staged
     /\ \A l \in Name : Restored[l] \in File
     /\ Encode \in [Path -> Name] /\ Restored \in [Name -> Path]
  BY GateAssumption DEF Content, File, TmpName, Staged
<1>. \A n \in TmpName : Target(n) \in File
  BY GateAssumption DEF Target, TmpName, File
<1>0. files \in [File -> Content] /\ rollback \in [Staged -> Content]
  OBVIOUS
<1>1. ASSUME NEW t \in Task, Claim(t) PROVE TypeInv'
  BY <1>1, Marked DEF Claim, Status
<1>2. ASSUME NEW t \in Task, NEW p \in Path, NEW text \in Draft, Restage(t, p, text) PROVE TypeInv'
  BY <1>2 DEF Restage, Write
<1>3. ASSUME NEW t \in Task, NEW p \in Path, NEW text \in Draft, CopyForRollback(t, p, text) PROVE TypeInv'
  <2>1. [at |-> "copied", path |-> p, text |-> text] \in Pending
    BY DEF Pending
  <2>2. step' \in [Task -> Pending \cup {NoStep}]
    BY <1>3, <2>1 DEF CopyForRollback, Steps
  <2>3. rollback' \in [Staged -> Content]
    BY <1>3 DEF CopyForRollback, Write
  <2>. QED BY <1>3, <2>2, <2>3 DEF CopyForRollback
<1>4. ASSUME NEW t \in Task, LogPlanned(t) \/ WriteCheckpoint(t) \/ StageTmp(t) PROVE TypeInv'
  <2>1. step[t] \in Pending
    BY <1>4 DEF LogPlanned, WriteCheckpoint, StageTmp, NoStep
  <2>2. \A l \in {"copied", "logged", "checkpointed"} : [step[t] EXCEPT !.at = l] \in Pending
    BY <2>1 DEF Pending
  <2>3. step[t].path \in Path /\ step[t].text \in Draft /\ StepName(t) \in Staged
    BY <2>1 DEF Pending, StepName
  <2>4. step' \in [Task -> Pending \cup {NoStep}]
    BY <1>4, <2>2 DEF LogPlanned, WriteCheckpoint, StageTmp, Steps
  <2>5. CASE LogPlanned(t)
    <3>1. [task |-> t, path |-> step[t].path, status |-> "planned"] \in PathRow
      BY <2>3 DEF PathRow, RowStatus
    <3>2. ledger' \in Seq(PathRow)
      BY <2>5, <3>1, RowLogged DEF LogPlanned
    <3>3. unlogged' \subseteq Staged
      BY <2>3, <2>5 DEF LogPlanned
    <3>. QED BY <2>4, <2>5, <3>2, <3>3, RowTypes DEF LogPlanned
  <2>6. CASE WriteCheckpoint(t)
    BY <2>3, <2>4, <2>6 DEF WriteCheckpoint
  <2>7. CASE StageTmp(t)
    BY <2>3, <2>4, <2>7, Marked DEF StageTmp, Write, Status
  <2>. QED BY <1>4, <2>5, <2>6, <2>7
<1>5. ASSUME NEW t \in Task, NEW s \in {"awaiting-review", "completed", "error"}, EndTask(t, s) PROVE TypeInv'
  BY <1>5, Marked DEF EndTask, Status
<1>6. ASSUME NEW here, NEW there \in Phase, NEW over \in Phase, ScanSweep(here, there, over),
             {there, over} \cap {"verdict", "record"} = {}
      PROVE TypeInv'
  BY <1>6 DEF ScanSweep, SweepTmps
<1>7. ASSUME NEW here, NEW there \in Phase \ {"verdict", "record"}, ScanResolve(here, there) PROVE TypeInv'
  <2>1. ledger' \in Seq(PathRow)
    <3>1. PICK st \in [DOMAIN ledger -> RowStatus] :
            ledger' = [i \in DOMAIN ledger |-> [ledger[i] EXCEPT !.status = st[i]]]
      BY <1>7 DEF ScanResolve
    <3>. QED BY <3>1, Restated
  <2>. QED BY <1>7, <2>1, RowTypes DEF ScanResolve
<1>8. CASE StartExecute \/ ReviewOld \/ PlanWave \/ WaveEnds \/ ReviewEnds \/ StartResume
  BY <1>8, GateAssumption
  DEF StartExecute, ReviewOld, PlanWave, WaveEnds, ReviewEnds, StartResume, Begin, Tmps, Waiting,
    Phase, NoReject
<1>9. CASE Choose
  BY <1>9 DEF Choose, Phase
<1>10. ASSUME NEW n \in TmpName, ReviewFile(n) PROVE TypeInv'
  <2>1. files' \in [File -> Content] /\ tmp' \in [TmpName -> Content]
    <3>1. CASE Apply(n)
      BY <3>1 DEF Apply, Write
    <3>2. CASE Refuse(n)
      <4>. DEFINE copy == <<FirstClaimant(n), Encode[Target(n)]>>
      <4>1. CASE Claimants(n) # {} /\ rollback[copy] # Absent
        <5>1. rollback[copy] \in Content
          BY <4>1, Claimed
        <5>. QED BY <3>2, <4>1, <5>1 DEF Refuse, Write
      <4>. QED BY <3>2, <4>1 DEF Refuse, Write
    <3>. QED BY <1>10, <3>1, <3>2 DEF ReviewFile
  <2>2. Claimants(n) # {} =>
          \A s \in {"pending", "completed"} : [task |-> FirstClaimant(n), path |-> Target(n), status |-> s] \in Verdicts
    BY Claimed DEF Verdicts
  <2>3. /\ phase' \in Phase /\ verdict'.task \in Task \cup {Absent}
        /\ phase' \in {"verdict", "record"} => verdict' \in Verdicts
    BY <1>10, <2>2 DEF ReviewFile, Phase, Verdicts
  <2>. QED BY <1>10, <2>1, <2>3 DEF ReviewFile
<1>11. CASE RecordVerdict
  <2>1. verdict \in Verdicts /\ verdict.status \in Status
    BY <1>11 DEF RecordVerdict, Verdicts, Status
  <2>. QED BY <1>11, <2>1, Marked DEF RecordVerdict, Phase, NoVerdict
<1>12. CASE LogApplied
  <2>1. [task |-> verdict.task, path |-> verdict.path, status |-> "applied"] \in PathRow
    BY <1>12 DEF LogApplied, Verdicts, PathRow, RowStatus
  <2>2. ledger' \in Seq(PathRow)
    BY <1>12, <2>1, RowLogged DEF LogApplied
  <2>. QED BY <1>12, <2>2, RowTypes DEF LogApplied, Phase, NoVerdict
<1>13. CASE ResumeChoice
  BY <1>13, Marked DEF ResumeChoice, Phase, Status
<1>14. ASSUME NEW t \in Task, StartRollback(t) PROVE TypeInv'
  <2>1. undo' = [task |-> t, left |-> CopiesOf(t)] /\ CopiesOf(t) \subseteq Name
    BY <1>14 DEF StartRollback, CopiesOf
  <2>2. phase' = "undo" /\ runs' \in 0 .. MaxRuns
    BY <1>14, GateAssumption DEF StartRollback, Begin
  <2>. QED BY <1>14, <2>1, <2>2 DEF StartRollback, Phase
<1>15. ASSUME NEW n \in Name, RestoreFile(n) PROVE TypeInv'
  <2>0. undo.task \in Task
    BY <1>15 DEF RestoreFile
  <2>1. <<undo.task, n>> \in Staged /\ Restored[n] \in File
    BY ONLY <2>0, n \in Name, GateAssumption DEF Staged, File
  <2>4. rollback[<<undo.task, n>>] \in Content
    BY ONLY <1>0, <2>1
  <2>5. files[Restored[n]] \in Content
    BY ONLY <1>0, <2>1
  <2>2. files' \in [File -> Content] /\ tmp' \in [TmpName -> Content]
    BY <1>15, <2>1, <2>4, <2>5 DEF RestoreFile, Write
  <2>3. undo' = [task |-> undo.task, left |-> undo.left \ {n}]
    BY <1>15 DEF RestoreFile
  <2>. QED BY <1>15, <2>2, <2>3 DEF RestoreFile
<1>16. CASE FinishRollback
  <2>1. files' \in [File -> Content]
    BY <1>16 DEF FinishRollback
  <2>2. ledger' \in Seq(PathRow)
    <3>. DEFINE mine == {i \in DOMAIN ledger : ledger[i].task = undo.task}
                st == [i \in DOMAIN ledger |->
                         IF i \in mine /\ ledger[i].status = "applied"
                         THEN "rolled-back" ELSE ledger[i].status]
    <3>0. \A i \in DOMAIN ledger : ledger[i] \in PathRow
      OBVIOUS
    <3>1. \A i \in DOMAIN ledger : st[i] \in RowStatus
      BY <3>0 DEF PathRow, RowStatus
    <3>2. \A i \in DOMAIN ledger :
            [ledger[i] EXCEPT !.status = st[i]] =
              IF i \in mine /\ ledger[i].status = "applied"
              THEN [ledger[i] EXCEPT !.status = "rolled-back"] ELSE ledger[i]
      BY <3>0 DEF PathRow
    <3>. HIDE DEF st
    <3>3. [i \in DOMAIN ledger |-> [ledger[i] EXCEPT !.status = st[i]]] \in Seq(PathRow)
      BY <3>1, Restated
    <3>4. \/ UNCHANGED ledger
          \/ ledger' = [i \in DOMAIN ledger |->
                          IF i \in mine /\ ledger[i].status = "applied"
                          THEN [ledger[i] EXCEPT !.status = "rolled-back"] ELSE ledger[i]]
      BY <1>16 DEF FinishRollback
    <3>. HIDE DEF mine
    <3>. QED BY <3>2, <3>3, <3>4
  <2>. QED BY <1>16, <2>1, <2>2, RowTypes DEF FinishRollback, Phase
<1>17. CASE RollbackMarks
  BY <1>17, Marked DEF RollbackMarks, Phase, Status, NoUndo
<1>18. CASE Stop
  BY <1>18 DEF Stop, Phase, NoReject, NoVerdict, NoUndo
<1>19. ASSUME NEW p \in Path, NEW text \in Content, Edit(p, text) PROVE TypeInv'
  BY <1>19, GateAssumption DEF Edit, Write
<1>20. CASE UNCHANGED vars
  BY <1>20 DEF vars
<1>. QED
  BY <1>1, <1>2, <1>3, <1>4, <1>5, <1>6, <1>7, <1>8, <1>9, <1>10, <1>11, <1>12, <1>13, <1>14, <1>15,
    <1>16, <1>17, <1>18, <1>19, <1>20
  DEF Next, Protocol, Execute, Resume, Rollback, Phase

\* Every variable keeps its type: statuses and rows are the ones the code
\* knows, and no file is written under a name that is none.
THEOREM TypeCorrect == Spec => []TypeOK
<1>1. TypeInv => TypeOK
  BY DEF TypeInv
<1>. QED BY <1>1, TypeInit, TypeStep, PTL DEF Spec
-----------------------------------------------------------------------------
(* Staged files.                                                           *)

\* What the Change Log has planned, or was told to and has not.
Plans == {<<row.task, Encode[row.path]>> : row \in PlannedRows} \cup unlogged

Bare == \A n \in Staged : tmp[n] = Absent

\* What a sweep leaves staged.
Unswept == \A n \in Staged : tmp[n] # Absent => n \in unlogged

\* A task inside the protocol is the wave's, and what it will stage is already
\* logged and checkpointed; a scan leaves only what is not logged, nothing is
\* staged between waves, and in a review what is staged is still to be decided.
StageInv ==
  /\ \A t \in Task :
       /\ step[t] # NoStep => phase = "work" /\ t \in wave
       /\ step[t].at \in {"logged", "checkpointed"} => StepName(t) \in Plans
       /\ step[t].at = "checkpointed" => StepName(t) \in chk
  /\ StagedIsLogged
  /\ phase \in {"scanned", "resuming"} => Unswept
  /\ phase \in {"plan", "rescan", "rescanned"} => Bare
  /\ phase = "work" => before \cap Staged = {}
  /\ phase \in {"choose", "review", "verdict", "record"} => Tmps \cap Staged \subseteq todo

\* A row added to the ledger, and one rolled back after it was applied, leave
\* the planned ones.
LEMMA PlannedStay ==
  ASSUME ledger \in Seq(PathRow)
  PROVE  /\ \A row \in PathRow : ledger' = Append(ledger, row) =>
              /\ PlannedRows \subseteq PlannedRows'
              /\ row.status = "planned" => row \in PlannedRows'
         /\ FinishRollback => PlannedRows \subseteq PlannedRows'
<1>. USE DEF PlannedRows, Planned
<1>1. ASSUME NEW row \in PathRow, ledger' = Append(ledger, row)
      PROVE  /\ PlannedRows \subseteq PlannedRows'
             /\ row.status = "planned" => row \in PlannedRows'
  <2>1. /\ \A i \in DOMAIN ledger : i \in DOMAIN ledger' /\ ledger'[i] = ledger[i]
        /\ Len(ledger) + 1 \in DOMAIN ledger' /\ ledger'[Len(ledger) + 1] = row
    BY <1>1
  <2>. QED BY <2>1
<1>2. ASSUME FinishRollback PROVE PlannedRows \subseteq PlannedRows'
  <2>1. \A i \in DOMAIN ledger :
          i \in DOMAIN ledger' /\ (ledger[i].status = "planned" => ledger'[i] = ledger[i])
    BY <1>2 DEF FinishRollback
  <2>. QED BY <2>1
<1>. QED BY <1>1, <1>2

\* What is staged is in the plans.
LEMMA InPlans ==
  /\ StagedIsLogged <=> \A n \in Staged : tmp[n] # Absent => n \in chk /\ n \in Plans
  /\ StagedIsLogged' <=> \A n \in Staged : tmp'[n] # Absent => n \in chk' /\ n \in Plans'
<1>1. \A n \in Staged : n = <<n[1], n[2]>>
  BY DEF Staged
<1>2. \A n \in Staged :
        n \in Plans <=> n \in unlogged \/ \E row \in PlannedRows : row.task = n[1] /\ Encode[row.path] = n[2]
  BY <1>1 DEF Plans
<1>3. \A n \in Staged :
        n \in Plans' <=> n \in unlogged' \/ \E row \in PlannedRows' : row.task = n[1] /\ Encode[row.path] = n[2]
  BY <1>1 DEF Plans
<1>4. StagedIsLogged <=> \A n \in Staged : tmp[n] # Absent => n \in chk /\ n \in Plans
  BY <1>2 DEF StagedIsLogged
<1>5. StagedIsLogged' <=> \A n \in Staged : tmp'[n] # Absent => n \in chk' /\ n \in Plans'
  BY <1>3 DEF StagedIsLogged
<1>. QED BY <1>4, <1>5

\* After the scan's sweep what is staged has no planned row.
LEMMA SweepLeaves ==
  ASSUME TypeInv, StagedIsLogged, SweepTmps, UNCHANGED unlogged
  PROVE  Unswept' /\ (Bare => Bare')
<1>. SUFFICES ASSUME NEW n \in Staged, tmp'[n] # Absent PROVE n \in unlogged /\ tmp[n] # Absent
  BY DEF Unswept, Bare
<1>1. n \in TmpName
  BY DEF TmpName
<1>2. tmp[n] # Absent /\ \A row \in PlannedRows : n \notin Swept(row)
  BY <1>1 DEF SweepTmps
<1>3. \A row \in PlannedRows : Encode[row.path] # n[2]
  BY <1>2 DEF Swept
<1>. QED BY <1>2, <1>3 DEF StagedIsLogged

\* A step that stages nothing and forgets no plan or checkpoint.
LEMMA StagedKept ==
  ASSUME StagedIsLogged, Plans \subseteq Plans', chk \subseteq chk',
         \A n \in Staged : tmp'[n] = Absent \/ tmp[n] # Absent
  PROVE  StagedIsLogged'
  BY InPlans

\* Rows added and kept keep the plans.
LEMMA PlansKept ==
  ASSUME PlannedRows \subseteq PlannedRows', UNCHANGED unlogged
  PROVE  Plans \subseteq Plans'
  BY DEF Plans

\* The invariant holds at the start.
LEMMA StageInit == Init => StageInv
<1>. SUFFICES ASSUME Init PROVE StageInv
  OBVIOUS
<1>1. \A n \in Staged : tmp[n] = Absent
  BY DEF Init, TmpName
<1>. QED BY <1>1 DEF Init, StageInv, StagedIsLogged, Bare, Tmps, NoStep

\* A step of the protocol: the task's own progress, and what it stages.
LEMMA ProtocolStages ==
  ASSUME TypeInv, StageInv, NEW t \in Task, Protocol(t)
  PROVE  StageInv'
<1>. USE DEF TypeInv, TypeOK, Working, diskVars, logVars, regVars, reviewVars
<1>. DEFINE At(u) == <<u, Encode[step'[u].path]>>
            Kept(u) == /\ step'[u] # NoStep => u \in wave'
                       /\ step'[u].at \in {"logged", "checkpointed"} => At(u) \in Plans'
                       /\ step'[u].at = "checkpointed" => At(u) \in chk'
<1>0. phase = "work" /\ t \in wave /\ UNCHANGED <<phase, before, todo>>
  BY DEF Protocol, Claim, Restage, CopyForRollback, LogPlanned, WriteCheckpoint, StageTmp, EndTask
<1>1. ASSUME \A u \in Task : Kept(u), StagedIsLogged' PROVE StageInv'
  BY <1>0, <1>1 DEF StageInv, StepName
<1>2. ASSUME NEW u \in Task, step'[u] = step[u], u \in wave => u \in wave', Plans \subseteq Plans', chk \subseteq chk'
      PROVE  Kept(u)
  BY <1>2 DEF StageInv, StepName
<1>3. ASSUME Claim(t) \/ (\E s \in {"awaiting-review", "completed", "error"} : EndTask(t, s))
      PROVE  StageInv'
  <2>1. /\ UNCHANGED <<tmp, ledger, unlogged, chk, step>> /\ step[t] = NoStep
        /\ wave \ {t} \subseteq wave'
    BY <1>3 DEF Claim, EndTask
  <2>2. Plans \subseteq Plans'
    BY <2>1, PlansKept DEF PlannedRows
  <2>3. \A u \in Task : Kept(u)
    BY <1>2, <2>1, <2>2 DEF NoStep
  <2>. QED BY <1>1, <2>1, <2>2, <2>3, StagedKept DEF StageInv
<1>4. ASSUME NEW p \in Path, NEW text \in Draft, Restage(t, p, text) PROVE StageInv'
  <2>. DEFINE name == <<t, Encode[p]>>
  <2>1. UNCHANGED <<ledger, unlogged, chk, step, wave>> /\ tmp[name] # Absent
        /\ \A n \in Staged : n # name => tmp'[n] = tmp[n]
    BY <1>4 DEF Restage, Write
  <2>2. Plans \subseteq Plans'
    BY <2>1, PlansKept DEF PlannedRows
  <2>3. StagedIsLogged'
    BY <2>1, <2>2, StagedKept DEF StageInv
  <2>4. \A u \in Task : Kept(u)
    BY <1>2, <2>1, <2>2
  <2>. QED BY <1>1, <2>3, <2>4
<1>5. ASSUME NEW p \in Path, NEW text \in Draft, CopyForRollback(t, p, text) PROVE StageInv'
  <2>1. /\ UNCHANGED <<ledger, unlogged, chk, wave, tmp>> /\ step'[t].at = "copied"
        /\ \A u \in Task : u # t => step'[u] = step[u]
    BY <1>5 DEF CopyForRollback, Steps
  <2>2. Plans \subseteq Plans'
    BY <2>1, PlansKept DEF PlannedRows
  <2>3. \A u \in Task : Kept(u)
    BY <1>0, <1>2, <2>1, <2>2
  <2>. QED BY <1>1, <2>1, <2>2, <2>3, StagedKept DEF StageInv
<1>6. ASSUME LogPlanned(t) \/ WriteCheckpoint(t) \/ StageTmp(t) PROVE StageInv'
  <2>. DEFINE p == step[t].path
              name == <<t, Encode[p]>>
  <2>1. step[t] \in Pending /\ p \in Path /\ StepName(t) = name
    BY <1>6 DEF LogPlanned, WriteCheckpoint, StageTmp, NoStep, Pending, StepName
  <2>2. \A l : [step[t] EXCEPT !.at = l].at = l /\ [step[t] EXCEPT !.at = l].path = p
    BY <2>1 DEF Pending
  <2>. HIDE DEF p
  <2>3. CASE LogPlanned(t)
    <3>. DEFINE row == [task |-> t, path |-> p, status |-> "planned"]
    <3>1. /\ UNCHANGED <<chk, wave, tmp>> /\ LogRow(row)
          /\ unlogged' = IF ledger' = ledger THEN unlogged \cup {name} ELSE unlogged \ {name}
          /\ step' = [step EXCEPT ![t] = [step[t] EXCEPT !.at = "logged"]]
      BY <2>1, <2>3 DEF LogPlanned, Steps, p
    <3>2. row \in PathRow
      BY <2>1 DEF PathRow, RowStatus
    <3>3. name \in Plans' /\ Plans \subseteq Plans'
      <4>1. CASE ledger' = ledger
        <5>1. UNCHANGED PlannedRows /\ unlogged' = unlogged \cup {name}
          BY <3>1, <4>1 DEF PlannedRows
        <5>. QED BY <5>1 DEF Plans
      <4>2. CASE ledger' # ledger
        <5>1. ledger' = Append(ledger, row) /\ unlogged' = unlogged \ {name}
          BY <3>1, <4>2 DEF LogRow
        <5>2. PlannedRows \subseteq PlannedRows' /\ row \in PlannedRows'
          BY <3>2, <5>1, PlannedStay
        <5>3. name \in Plans'
          BY <5>2 DEF Plans
        <5>. QED BY <5>1, <5>2, <5>3 DEF Plans
      <4>. QED BY <4>1, <4>2
    <3>5. step'[t].at = "logged" /\ step'[t].path = p /\ \A u \in Task : u # t => step'[u] = step[u]
      BY <2>2, <3>1
    <3>6. \A u \in Task : Kept(u)
      BY <1>0, <1>2, <3>1, <3>3, <3>5
    <3>. QED BY <1>1, <3>1, <3>3, <3>6, StagedKept DEF StageInv
  <2>4. CASE WriteCheckpoint(t)
    <3>1. /\ UNCHANGED <<ledger, unlogged, wave, tmp>> /\ chk' = chk \cup {name} /\ step[t].at = "logged"
          /\ step' = [step EXCEPT ![t] = [step[t] EXCEPT !.at = "checkpointed"]]
      BY <2>1, <2>4 DEF WriteCheckpoint, Steps, p
    <3>2. Plans \subseteq Plans'
      BY <3>1, PlansKept DEF PlannedRows
    <3>3. /\ step'[t].at = "checkpointed" /\ step'[t].path = p
          /\ \A u \in Task : u # t => step'[u] = step[u]
      BY <2>2, <3>1
    <3>4. name \in Plans
      BY <2>1, <3>1 DEF StageInv
    <3>5. \A u \in Task : Kept(u)
      <4>1. Kept(t)
        BY ONLY <1>0, <3>1, <3>2, <3>3, <3>4
      <4>2. chk \subseteq chk' /\ wave' = wave
        BY <3>1
      <4>. HIDE DEF Kept
      <4>. QED BY ONLY <1>2, <3>2, <3>3, <4>1, <4>2
    <3>6. StagedIsLogged /\ chk \subseteq chk' /\ tmp' = tmp
      BY <3>1 DEF StageInv
    <3>7. StagedIsLogged'
      BY ONLY <3>2, <3>6, StagedKept
    <3>. QED BY <1>1, <3>5, <3>7
  <2>5. CASE StageTmp(t)
    <3>1. /\ UNCHANGED <<ledger, unlogged, wave, chk>> /\ step[t].at = "checkpointed"
          /\ step' = [step EXCEPT ![t] = NoStep]
          /\ \A n \in Staged : n # name => tmp'[n] = tmp[n]
      BY <2>1, <2>5 DEF StageTmp, Steps, Write, p
    <3>2. Plans \subseteq Plans'
      BY <3>1, PlansKept DEF PlannedRows
    <3>3. name \in Plans /\ name \in chk
      BY <2>1, <3>1 DEF StageInv
    <3>4. StagedIsLogged'
      BY <3>1, <3>2, <3>3, InPlans DEF StageInv
    <3>5. \A u \in Task : Kept(u)
      BY <1>2, <3>1, <3>2 DEF NoStep
    <3>. QED BY <1>1, <3>4, <3>5
  <2>. QED BY <1>6, <2>3, <2>4, <2>5
<1>. QED BY <1>3, <1>4, <1>5, <1>6 DEF Protocol

\* A step outside the protocol: tasks at rest stay at rest.
LEMMA AtRest ==
  ASSUME StageInv, UNCHANGED step, StagedIsLogged',
         \/ phase # "work"
         \/ UNCHANGED <<wave, logVars, chk>> /\ phase' = "work",
         phase' \in {"scanned", "resuming"} => Unswept',
         phase' \in {"plan", "rescan", "rescanned"} => Bare',
         phase' = "work" => before' \cap Staged = {},
         phase' \in {"choose", "review", "verdict", "record"} => Tmps' \cap Staged \subseteq todo'
  PROVE  StageInv'
<1>1. CASE phase # "work"
  BY <1>1 DEF StageInv, NoStep
<1>2. CASE UNCHANGED <<wave, logVars, chk>> /\ phase' = "work" /\ phase = "work"
  <2>1. UNCHANGED Plans
    BY <1>2 DEF Plans, PlannedRows, logVars
  <2>. QED BY <1>2, <2>1 DEF StageInv, StepName
<1>. QED BY <1>1, <1>2

\* A step that leaves the staged files, the ledger and the checkpoints alone.
LEMMA SameStaged ==
  ASSUME StageInv, UNCHANGED <<tmp, logVars, chk>>
  PROVE  StagedIsLogged' /\ (Bare => Bare') /\ (Unswept => Unswept') /\ Tmps' = Tmps
<1>1. Plans \subseteq Plans'
  BY PlansKept DEF PlannedRows, logVars
<1>. QED BY <1>1, StagedKept DEF StageInv, Bare, Unswept, Tmps, logVars

\* The recovery scan sweeps,
LEMMA SweepStages ==
  ASSUME TypeInv, StageInv, NEW here, NEW there, NEW over, ScanSweep(here, there, over),
         here # "work", {there, over} \cap {"work", "choose", "review", "verdict", "record"} = {},
         over \notin {"scanned", "resuming"},
         {there, over} \cap {"plan", "rescan", "rescanned"} # {} => here = "rescan"
  PROVE  StageInv'
<1>1. SweepTmps /\ UNCHANGED <<logVars, chk, step>> /\ phase # "work" /\ phase' \in {there, over}
  BY DEF ScanSweep, diskVars, regVars, reviewVars
<1>2. Unswept' /\ (Bare => Bare')
  BY <1>1, SweepLeaves DEF StageInv, logVars
<1>3. StagedIsLogged'
  <2>1. Plans \subseteq Plans'
    BY <1>1, PlansKept DEF PlannedRows, logVars
  <2>2. \A n \in Staged : tmp'[n] = Absent \/ tmp[n] # Absent
    BY <1>1 DEF SweepTmps, TmpName
  <2>. QED BY <1>1, <2>1, <2>2, StagedKept DEF StageInv
<1>4. phase' \in {"plan", "rescan", "rescanned"} => Bare'
  BY <1>1, <1>2 DEF ScanSweep, StageInv
<1>. QED BY <1>1, <1>2, <1>3, <1>4, AtRest

\* and rewrites the rows.
LEMMA ResolveStages ==
  ASSUME TypeInv, StageInv,
         NEW here \in {"scanned", "rescanned", "resuming"}, NEW there, ScanResolve(here, there),
         there \in {"old", "plan", "resumed"}, there = "plan" => here = "rescanned"
  PROVE  StageInv'
<1>1. UNCHANGED <<tmp, unlogged, chk, step>> /\ phase # "work" /\ phase' = there
  BY DEF ScanResolve, reviewVars
<1>2. Unswept /\ (there = "plan" => Bare)
  BY DEF ScanResolve, StageInv, Bare, Unswept
<1>3. StagedIsLogged'
  BY <1>1, <1>2 DEF StagedIsLogged, Unswept, StageInv
<1>4. there = "plan" => Bare'
  BY <1>1, <1>2 DEF Bare
<1>. QED BY <1>1, <1>3, <1>4, AtRest

\* Every step keeps the invariant, a kill in the middle of another included.
LEMMA StageStep == TypeInv /\ StageInv /\ [Next]_vars => StageInv'
<1>. SUFFICES ASSUME TypeInv, StageInv, [Next]_vars PROVE StageInv'
  OBVIOUS
<1>. USE DEF diskVars, logVars, regVars, reviewVars
<1>. tmp \in [TmpName -> Content] /\ ledger \in Seq(PathRow)
  BY DEF TypeInv, TypeOK
<1>1. ASSUME NEW t \in Task, Protocol(t) PROVE StageInv'
  BY <1>1, ProtocolStages
<1>2. CASE StartExecute \/ StartResume \/ ResumeChoice \/ (\E t \in Task : StartRollback(t)) \/ RollbackMarks
           \/ Choose \/ (\E p \in Path, text \in Content : Edit(p, text))
  <2>1. UNCHANGED <<tmp, logVars, chk, step>> /\ phase # "work"
    BY <1>2 DEF StartExecute, StartResume, ResumeChoice, StartRollback, RollbackMarks, Choose, Edit, Begin
  <2>2. \/ phase' \in {"scan", "resume", "exit", "undo", "idle"}
        \/ phase = "choose" /\ phase' = "review" /\ UNCHANGED todo
    BY <1>2 DEF StartExecute, StartResume, ResumeChoice, StartRollback, RollbackMarks, Choose, Edit, Begin
  <2>3. phase' \in {"choose", "review", "verdict", "record"} => Tmps' \cap Staged \subseteq todo'
    BY <2>1, <2>2, SameStaged DEF StageInv
  <2>. QED BY <2>1, <2>2, <2>3, SameStaged, AtRest
<1>3. CASE ReviewOld
  <2>1. UNCHANGED <<tmp, logVars, chk, step>> /\ phase # "work" /\ todo' = Tmps
        /\ phase' = IF Tmps = {} THEN "plan" ELSE "choose"
    BY <1>3 DEF ReviewOld
  <2>2. Tmps = {} => Bare
    BY DEF Bare, Tmps, TmpName
  <2>3. StagedIsLogged' /\ (Bare => Bare') /\ Tmps' = Tmps
    BY <2>1, SameStaged
  <2>. QED BY ONLY StageInv, <2>1, <2>2, <2>3, AtRest
<1>11. CASE PlanWave \/ ReviewEnds
  <2>1. UNCHANGED <<tmp, logVars, chk, step>> /\ phase # "work"
    BY <1>11 DEF PlanWave, ReviewEnds
  <2>2. Bare
    BY <1>11 DEF PlanWave, ReviewEnds, StageInv, Tmps, Bare, TmpName
  <2>3. Tmps \cap Staged = {}
    BY <2>2 DEF Bare, Tmps
  <2>4. phase' = "work" => before' \cap Staged = {}
    BY <1>11, <2>3 DEF PlanWave, ReviewEnds
  <2>5. phase' \in {"work", "exit", "rescan", "plan"}
    BY <1>11 DEF PlanWave, ReviewEnds
  <2>6. StagedIsLogged' /\ Bare'
    BY <2>1, <2>2, SameStaged
  <2>. QED BY ONLY StageInv, <2>1, <2>4, <2>5, <2>6, AtRest
<1>4. CASE WaveEnds
  <2>1. UNCHANGED <<tmp, logVars, chk, step, before>> /\ phase = "work" /\ wave = {}
        /\ todo' = Tmps \ before /\ phase' = IF todo' = {} THEN "plan" ELSE "choose"
    BY <1>4 DEF WaveEnds
  <2>2. \A t \in Task : step[t] = NoStep
    BY <2>1 DEF StageInv
  <2>3. Tmps \cap Staged \subseteq todo'
    BY <2>1 DEF StageInv
  <2>4. todo' = {} => Bare
    BY <2>3 DEF Tmps, Bare, TmpName
  <2>. QED BY <2>1, <2>2, <2>3, <2>4, SameStaged DEF StageInv, NoStep
<1>5. ASSUME NEW n \in TmpName, ReviewFile(n) PROVE StageInv'
  <2>1. /\ UNCHANGED <<logVars, chk, step>> /\ phase = "review"
        /\ tmp' = [tmp EXCEPT ![n] = Absent] /\ todo' = todo \ {n} /\ phase' \in {"review", "verdict"}
    BY <1>5 DEF ReviewFile, Refuse, Apply, Write
  <2>2. Plans \subseteq Plans'
    BY <2>1, PlansKept DEF PlannedRows
  <2>3. StagedIsLogged'
    BY <2>1, <2>2, StagedKept DEF StageInv, TmpName
  <2>4. Tmps' \cap Staged \subseteq todo'
    BY <2>1 DEF StageInv, Tmps
  <2>. QED BY <2>1, <2>3, <2>4, AtRest
<1>6. CASE RecordVerdict \/ LogApplied
  <2>1. /\ UNCHANGED <<tmp, unlogged, chk, step, todo>> /\ phase \in {"verdict", "record"}
        /\ phase' \in {"review", "record"}
        /\ \/ UNCHANGED ledger
           \/ LogApplied
    BY <1>6 DEF RecordVerdict, LogApplied
  <2>2. PlannedRows \subseteq PlannedRows'
    <3>1. CASE LogApplied /\ ledger' # ledger
      <4>1. [task |-> verdict.task, path |-> verdict.path, status |-> "applied"] \in PathRow
        BY <3>1 DEF LogApplied, TypeInv, Verdicts, PathRow, RowStatus
      <4>. QED BY <3>1, <4>1, PlannedStay DEF LogApplied, LogRow
    <3>. QED BY <2>1, <3>1 DEF PlannedRows
  <2>3. StagedIsLogged'
    BY <2>1, <2>2, PlansKept, StagedKept DEF StageInv
  <2>. QED BY <2>1, <2>3, AtRest DEF StageInv, Tmps
<1>7. CASE ScanSweep("scan", "scanned", "old") \/ ScanResolve("scanned", "old")
           \/ ScanSweep("rescan", "rescanned", "plan") \/ ScanResolve("rescanned", "plan")
           \/ ScanSweep("resume", "resuming", "resumed") \/ ScanResolve("resuming", "resumed")
  <2>1. CASE ScanSweep("scan", "scanned", "old")
    BY <2>1, SweepStages
  <2>2. CASE ScanSweep("rescan", "rescanned", "plan")
    BY <2>2, SweepStages
  <2>3. CASE ScanSweep("resume", "resuming", "resumed")
    BY <2>3, SweepStages
  <2>4. CASE ScanResolve("scanned", "old")
    BY <2>4, ResolveStages
  <2>5. CASE ScanResolve("rescanned", "plan")
    BY <2>5, ResolveStages
  <2>6. CASE ScanResolve("resuming", "resumed")
    BY <2>6, ResolveStages
  <2>. QED BY <1>7, <2>1, <2>2, <2>3, <2>4, <2>5, <2>6
<1>8. CASE (\E n \in Name : RestoreFile(n)) \/ FinishRollback
  <2>1. /\ UNCHANGED <<unlogged, chk, step>> /\ phase = "undo" /\ phase' \in {"undo", "undone"}
        /\ \/ \E n \in Name : /\ tmp' \in {tmp, [tmp EXCEPT ![n] = files[Restored[n]]]}
                               /\ UNCHANGED ledger
           \/ UNCHANGED tmp /\ FinishRollback
    BY <1>8 DEF RestoreFile, FinishRollback, Write
  <2>2. PlannedRows \subseteq PlannedRows'
    BY <2>1, PlannedStay DEF PlannedRows
  <2>3. \A n \in Staged : tmp'[n] = tmp[n]
    <3>1. \A n \in Staged : n \in TmpName /\ n \notin Name
      BY GateAssumption DEF TmpName
    <3>. QED BY <2>1, <3>1
  <2>4. StagedIsLogged'
    BY <2>1, <2>2, <2>3, PlansKept, StagedKept DEF StageInv
  <2>. QED BY <2>1, <2>4, AtRest
<1>9. CASE Stop
  <2>1. UNCHANGED <<tmp, logVars, chk>> /\ phase' = "idle" /\ step' = [t \in Task |-> NoStep]
    BY <1>9 DEF Stop
  <2>2. \A t \in Task : step'[t] = NoStep
    BY <2>1
  <2>. QED BY <2>1, <2>2, SameStaged DEF StageInv, NoStep
<1>10. CASE UNCHANGED vars
  <2>1. UNCHANGED <<tmp, logVars, chk, step, phase, wave, before, todo>>
    BY <1>10 DEF vars
  <2>2. UNCHANGED Plans
    BY <2>1 DEF Plans, PlannedRows
  <2>. QED BY <2>1, <2>2, SameStaged DEF StageInv, StepName
<1>. QED
  BY <1>1, <1>2, <1>3, <1>4, <1>5, <1>6, <1>7, <1>8, <1>9, <1>10, <1>11 DEF Next, Execute, Resume, Rollback

\* What holds at every step.
LEMMA StagedAlways == Spec => [](TypeInv /\ StageInv)
  BY TypeInit, TypeStep, StageInit, StageStep, PTL DEF Spec

\* Every staged file has its checkpoint, and its planned row unless that failed to
\* be written, wherever the protocol, a scan, a review or a rollback was killed.
THEOREM StagedExplained == Spec => []StagedIsLogged
<1>1. StageInv => StagedIsLogged
  BY DEF StageInv
<1>. QED BY <1>1, StagedAlways, PTL

\* Nothing staged before a wave is there while it works, so its review takes
\* everything the wave staged.
THEOREM WavesReviewed == Spec => []WaveReviewsAll
<1>1. StageInv => WaveReviewsAll
  BY DEF StageInv, WaveReviewsAll
<1>. QED BY <1>1, StagedAlways, PTL
-----------------------------------------------------------------------------
(* What is never rewritten.                                                *)

\* The first rollback copy of a task's file stays, whatever is written, scanned,
\* restored or killed.
THEOREM CopiesStay == Spec => RollbackCopyKept
<1>1. ASSUME TypeInv, [Next]_vars PROVE \A n \in Staged : rollback[n] # Absent => rollback'[n] = rollback[n]
  <2>. USE DEF diskVars, logVars
  <2>1. ASSUME NEW t \in Task, NEW p \in Path, NEW text \in Draft, CopyForRollback(t, p, text)
        PROVE  \A n \in Staged : rollback[n] # Absent => rollback'[n] = rollback[n]
    BY <2>1 DEF CopyForRollback, Write, TypeInv, TypeOK
  <2>2. CASE ~\E t \in Task, p \in Path, text \in Draft : CopyForRollback(t, p, text)
    BY <1>1, <2>2 DEF Next, Protocol, Execute, Resume, Rollback, Claim, Restage, LogPlanned, WriteCheckpoint,
      StageTmp, EndTask, StartExecute, ScanSweep, ScanResolve, ReviewOld, PlanWave, WaveEnds, Choose,
      ReviewFile, RecordVerdict, LogApplied, ReviewEnds, StartResume, ResumeChoice, StartRollback,
      RestoreFile, FinishRollback, RollbackMarks, Stop, Edit, vars
  <2>. QED BY <2>1, <2>2
<1>. QED BY <1>1, TypeInit, TypeStep, PTL DEF Spec, RollbackCopyKept

\* The Change Log is a history: rows keep their place, task and path, and only
\* planned and applied ones change status, once.
THEOREM LedgerIsHistory == Spec => LedgerForward
<1>. DEFINE Forward ==
       /\ DOMAIN ledger \subseteq DOMAIN ledger'
       /\ \A i \in DOMAIN ledger :
            \/ ledger'[i] = ledger[i]
            \/ /\ ledger'[i] \in {[ledger[i] EXCEPT !.status = s] : s \in RowStatus}
               /\ \/ ledger[i].status = "planned" /\ ledger'[i].status \in {"rolled-back", "unknown"}
                  \/ ledger[i].status = "applied" /\ ledger'[i].status = "rolled-back"
<1>1. ASSUME TypeInv, [Next]_vars PROVE [Forward]_ledger
  <2>. ledger \in Seq(PathRow)
    BY <1>1 DEF TypeInv
  <2>1. \A i \in DOMAIN ledger : ledger[i] \in PathRow
    OBVIOUS
  <2>2. ASSUME NEW row, ledger' = Append(ledger, row) PROVE Forward
    BY <2>2
  <2>3. ASSUME NEW here, NEW there, ScanResolve(here, there) PROVE Forward
    <3>1. PICK st \in [DOMAIN ledger -> RowStatus] :
            /\ \A i \in DOMAIN ledger :
                 st[i] \in IF Planned(ledger[i]) THEN Resolutions(ledger[i]) ELSE {ledger[i].status}
            /\ ledger' = [i \in DOMAIN ledger |-> [ledger[i] EXCEPT !.status = st[i]]]
      BY <2>3 DEF ScanResolve
    <3>2. ASSUME NEW i \in DOMAIN ledger
          PROVE  \/ st[i] = ledger[i].status
                 \/ ledger[i].status = "planned" /\ st[i] \in {"rolled-back", "unknown"}
      BY <3>1 DEF Planned, Resolutions
    <3>3. \A i \in DOMAIN ledger :
            /\ ledger'[i] = [ledger[i] EXCEPT !.status = st[i]] /\ ledger'[i].status = st[i]
            /\ st[i] = ledger[i].status => ledger'[i] = ledger[i]
      BY <2>1, <3>1 DEF PathRow
    <3>. QED BY <3>1, <3>2, <3>3
  <2>4. ASSUME FinishRollback PROVE Forward
    <3>1. CASE UNCHANGED ledger
      BY <3>1
    <3>2. CASE ~UNCHANGED ledger
      <4>1. /\ DOMAIN ledger' = DOMAIN ledger
            /\ \A i \in DOMAIN ledger :
                 \/ ledger'[i] = ledger[i]
                 \/ ledger[i].status = "applied" /\ ledger'[i] = [ledger[i] EXCEPT !.status = "rolled-back"]
        BY <2>4, <3>2 DEF FinishRollback
      <4>. QED BY <2>1, <4>1 DEF PathRow, RowStatus
    <3>. QED BY <3>1, <3>2
  <2>. HIDE DEF Forward
  <2>5. CASE ~\/ FinishRollback \/ LogApplied \/ (\E t \in Task : LogPlanned(t))
              \/ ScanResolve("scanned", "old") \/ ScanResolve("rescanned", "plan")
              \/ ScanResolve("resuming", "resumed")
    BY <1>1, <2>5 DEF Next, Protocol, Execute, Resume, Rollback, Claim, Restage, CopyForRollback, WriteCheckpoint,
      StageTmp, EndTask, StartExecute, ScanSweep, ReviewOld, PlanWave, WaveEnds, Choose,
      ReviewFile, RecordVerdict, ReviewEnds, StartResume, ResumeChoice, StartRollback,
      RestoreFile, RollbackMarks, Stop, Edit, vars, diskVars, logVars
  <2>. QED BY <2>2, <2>3, <2>4, <2>5 DEF LogApplied, LogPlanned, LogRow
<1>. QED BY <1>1, TypeInit, TypeStep, PTL DEF Spec, LedgerForward
-----------------------------------------------------------------------------
(* What a rollback leaves.                                                 *)

\* The paths the Change Log names for t.
Touched(t) == {ledger[i].path : i \in {j \in DOMAIN ledger : ledger[j].task = t}}

\* A rollback works on a task's own copies: what is not still to restore holds
\* its copy, as no two names are read as one path.
UndoInv ==
  phase \in {"undo", "undone"} =>
    /\ undo.task \in Task /\ undo.left \subseteq CopiesOf(undo.task)
    /\ phase = "undone" => undo.left = {}
    /\ \A n \in CopiesOf(undo.task) \ undo.left : files[Restored[n]] = rollback[<<undo.task, n>>]
    /\ phase = "undone" /\ CopiesOf(undo.task) # {} =>
         \A p \in Touched(undo.task) \ RestoredFiles(undo.task) : files[p] = Absent

\* Only the rollback's own steps, and what ends it, are taken in its phases.
LEMMA UndoFrame ==
  ASSUME [Next]_vars, phase' \in {"undo", "undone"}
  PROVE  \/ \E t \in Task : StartRollback(t)
         \/ \E n \in Name : RestoreFile(n)
         \/ FinishRollback
         \/ UNCHANGED <<phase, undo, files, rollback, ledger>>
<1>. USE DEF diskVars, logVars, reviewVars
<1>1. CASE \E t \in Task : Protocol(t)
  BY <1>1 DEF Protocol, Claim, Restage, CopyForRollback, LogPlanned, WriteCheckpoint, StageTmp,
    EndTask, Working
<1>2. CASE Execute
  BY <1>2 DEF Execute, StartExecute, Begin, ScanSweep, ScanResolve, ReviewOld, PlanWave, WaveEnds,
    Choose, ReviewFile, RecordVerdict, LogApplied, ReviewEnds
<1>3. CASE Resume
  BY <1>3 DEF Resume, StartResume, Begin, ScanSweep, ScanResolve, ResumeChoice
<1>4. CASE RollbackMarks \/ Stop \/ \E p \in Path, text \in Content : Edit(p, text)
  BY <1>4 DEF RollbackMarks, Stop, Edit
<1>. QED BY <1>1, <1>2, <1>3, <1>4 DEF Next, Rollback, vars

LEMMA UndoStep == TypeInv /\ UndoInv /\ [Next]_vars => UndoInv'
<1>. SUFFICES ASSUME TypeInv, UndoInv, [Next]_vars, phase' \in {"undo", "undone"} PROVE UndoInv'
  BY DEF UndoInv
<1>. USE DEF CopiesOf, RestoredFiles
<1>0. /\ files \in [File -> Content] /\ Path \subseteq File /\ ledger \in Seq(PathRow)
      /\ \A n, l \in Name : Restored[n] \in File /\ (Restored[n] = Restored[l] => n = l)
  BY GateAssumption DEF TypeInv, TypeOK, File
<1>1. ASSUME NEW t \in Task, StartRollback(t) PROVE UndoInv'
  <2>1. /\ phase' = "undo" /\ UNCHANGED <<files, rollback>>
        /\ undo' = [task |-> t, left |-> CopiesOf(t)]
    BY <1>1 DEF StartRollback, Begin, diskVars
  <2>. QED BY <2>1 DEF UndoInv
<1>2. ASSUME NEW l \in Name, RestoreFile(l) PROVE UndoInv'
  <2>1. /\ phase = "undo" /\ phase' = "undo" /\ l \in undo.left /\ rollback' = rollback
        /\ files' = [files EXCEPT ![Restored[l]] = rollback[<<undo.task, l>>]]
    BY <1>2 DEF RestoreFile, Write
  <2>2. undo'.task = undo.task /\ undo'.left = undo.left \ {l}
    BY <1>2 DEF RestoreFile, TypeInv
  <2>3. undo.task \in Task /\ undo.left \subseteq CopiesOf(undo.task)
    BY <2>1 DEF UndoInv
  <2>4. ASSUME NEW n \in CopiesOf(undo.task), n \notin undo'.left
        PROVE  files'[Restored[n]] = rollback[<<undo.task, n>>]
    <3>1. CASE n = l
      BY <1>0, <2>1, <3>1
    <3>2. CASE n # l
      <4>1. files[Restored[n]] = rollback[<<undo.task, n>>]
        BY <2>1, <2>2, <2>4, <3>2 DEF UndoInv
      <4>. QED BY <1>0, <2>1, <3>2, <4>1
    <3>. QED BY <3>1, <3>2
  <2>. QED BY <2>1, <2>2, <2>3, <2>4 DEF UndoInv
<1>3. CASE FinishRollback
  <2>. DEFINE gone == Touched(undo.task) \ RestoredFiles(undo.task)
  <2>1. /\ phase = "undo" /\ phase' = "undone" /\ undo.left = {} /\ UNCHANGED <<rollback, undo>>
        /\ undo.task \in Task
        /\ \A n \in CopiesOf(undo.task) : files[Restored[n]] = rollback[<<undo.task, n>>]
    BY <1>3 DEF FinishRollback, UndoInv
  <2>2. CASE CopiesOf(undo.task) = {}
    BY <2>1, <2>2 DEF UndoInv
  <2>3. CASE CopiesOf(undo.task) # {}
    <3>1. files' = [f \in File |-> IF f \in gone THEN Absent ELSE files[f]]
      BY <1>3, <2>3 DEF FinishRollback, Touched
    <3>2. Touched(undo.task)' = Touched(undo.task)
      <4>1. /\ DOMAIN ledger' = DOMAIN ledger
            /\ \A i \in DOMAIN ledger :
                 ledger'[i].task = ledger[i].task /\ ledger'[i].path = ledger[i].path
        <5>1. \A i \in DOMAIN ledger : ledger[i] \in PathRow
          BY <1>0
        <5>2. /\ DOMAIN ledger' = DOMAIN ledger
              /\ \A i \in DOMAIN ledger :
                   ledger'[i] \in {ledger[i], [ledger[i] EXCEPT !.status = "rolled-back"]}
          BY <1>3, <2>3 DEF FinishRollback
        <5>. QED BY <5>1, <5>2 DEF PathRow
      <4>. QED BY <2>1, <4>1 DEF Touched
    <3>3. gone \subseteq File /\ \A n \in CopiesOf(undo.task) : Restored[n] \in File \ gone
      <4>1. \A i \in DOMAIN ledger : ledger[i].path \in Path
        <5>1. \A i \in DOMAIN ledger : ledger[i] \in PathRow
          BY <1>0
        <5>. QED BY <5>1 DEF PathRow
      <4>. QED BY <1>0, <4>1 DEF Touched
    <3>4. \A n \in CopiesOf(undo.task) : files'[Restored[n]] = rollback[<<undo.task, n>>]
      BY <2>1, <3>1, <3>3
    <3>5. \A p \in gone : files'[p] = Absent
      BY <3>1, <3>3
    <3>. QED BY <2>1, <3>2, <3>4, <3>5 DEF UndoInv
  <2>. QED BY <2>2, <2>3
<1>4. CASE UNCHANGED <<phase, undo, files, rollback, ledger>>
  BY <1>4 DEF UndoInv, Touched
<1>. QED BY <1>1, <1>2, <1>3, <1>4, UndoFrame

\* A rollback that gets through its files leaves each of the task's copies at the
\* path its name is read as, and no other path the task touched.
THEOREM RollbackRestores == Spec => []RollbackExact
<1>1. Init => UndoInv
  BY DEF Init, UndoInv
<1>2. UndoInv => RollbackExact
  BY DEF UndoInv, RollbackExact, Touched
<1>. QED BY <1>1, <1>2, UndoStep, TypeInit, TypeStep, PTL DEF Spec
=============================================================================

-------------------------- MODULE SessionArchiver --------------------------
(***************************************************************************)
(* What commands do to the tables of memory.md: execute logs sessions,     *)
(* iterate registers tasks, and at its end a command archives finished     *)
(* sessions (core/archiver.py).  The archiver and the registration each    *)
(* read the whole file, edit a copy and put it back; the locks in between  *)
(* are those of one process.                                               *)
(***************************************************************************)
EXTENDS CommandProcess, BatchRegistration

CONSTANTS
  Sessions,  \* sessions that may be logged
  Keep,      \* archive_keep_sessions
  MaxRows,   \* bound: tasks in the registry
  NoCopy

\* Sessions in the order of the Session Log.
Session == 1 .. Sessions

Outcome == {"none", "open", "terminal", "archived"}

\* memory.md: the ids in its Task Registry, the outcome of each session, and
\* the sessions whose Change Log and Checkpoint Registry rows it has.
Memory == [ids : Seq(TaskId), outcome : [Session -> Outcome], ledger : SUBSET Session]

\* batches: what the models ask to register; finished: how many sessions
\* memory.md has from the days before; closes: whether sessions get outcomes.
ASSUME ArchiverAssumption ==
  /\ \A w \in Worlds :
       w.batches \subseteq Seq(Item) /\ w.finished \in 0 .. Sessions /\ w.closes \in BOOLEAN
  /\ Sessions \in Nat /\ Keep \in Nat /\ MaxRows \in Nat
  /\ NoCopy \notin Memory

VARIABLES
  memory,  \* memory.md
  filed,   \* sessions with a record in .yani/archive
  copy,    \* the copy of memory.md a process edits
  clashing,  \* history: the Clashes of the batches that were accepted
  logged, registered,  \* history: sessions and ids acknowledged to a caller
  late     \* history: sessions logged by workers their command had left

memoryVars == <<memory, filed, copy, clashing, logged, registered, late>>

MemoryInit ==
  /\ logged = 1 .. world.finished /\ registered = {} /\ late = {}
  /\ memory = [ids |-> <<>>,
               outcome |-> [s \in Session |-> IF s \in logged THEN "terminal" ELSE "none"],
               ledger |-> logged]
  /\ filed = {} /\ copy = [p \in Proc |-> NoCopy]
  /\ clashing = {}
-----------------------------------------------------------------------------
(* Sessions and batches.                                                   *)

\* append_session_log_row, in one step under the FileLock; the session's
\* ledger rows follow it.  p's worker is late if p no longer waits for it.
LogSession(p, s) ==
  /\ s \notin logged /\ \A r \in Session : r < s => r \in logged
  /\ memory' = [memory EXCEPT !.outcome[s] = "open", !.ledger = @ \cup {s}]
  /\ logged' = logged \cup {s}
  /\ late' = IF pc[p] = "wave" THEN late ELSE late \cup {s}
  /\ UNCHANGED <<filed, copy, clashing, registered>>

\* The session's row gets its outcome.  No code of the engine writes it: an
\* agent or the user does.
CloseSession(s) ==
  /\ world.closes
  /\ memory.outcome[s] = "open"
  /\ memory' = [memory EXCEPT !.outcome[s] = "terminal"]
  /\ UNCHANGED <<processVars, filed, copy, clashing, logged, registered, late>>

\* register_task_batch reads memory.md and accepts the batch.  A rejected one
\* changes nothing.
ReadForBatch(p) ==
  /\ command[p] = "iterate" /\ Goto(p, "body", "register")
  /\ \E batch \in world.batches :
       /\ Len(memory.ids) + Len(batch) <= MaxRows
       /\ Accepted(memory.ids, batch)
       /\ copy' = [copy EXCEPT ![p] = [memory EXCEPT !.ids = @ \o Ids(@, batch)]]
       /\ clashing' = clashing \cup Clashes(memory.ids, batch)
  /\ UNCHANGED <<memory, filed, logged, registered, late>>

\* It replaces memory.md and answers with the ids.  A prompt registers at
\* most one batch.
WriteBatch(p) ==
  /\ Goto(p, "register", "archive")
  /\ memory' = copy[p]
  /\ copy' = [copy EXCEPT ![p] = NoCopy]
  /\ registered' = registered \cup Range(copy[p].ids)
  /\ UNCHANGED <<filed, clashing, logged, late>>
-----------------------------------------------------------------------------
(* archive_stale_sessions.                                                 *)

Terminal(m) == {s \in Session : m.outcome[s] = "terminal"}

\* terminal_sessions[:-keep], which is empty for keep = 0.
ToArchive(m) ==
  {s \in Terminal(m) :
     Keep > 0 /\ Cardinality({r \in Terminal(m) : r > s}) >= Keep}

\* Mutated form: the rows of all finished sessions go.
Archived_AllRows(m, s) ==
  [m EXCEPT !.outcome[s] = "archived", !.ledger = @ \ Terminal(m)]

\* The copy without the session's rows, its outcome marked.
Archived(m, s) ==
  [m EXCEPT !.outcome[s] = "archived", !.ledger = @ \ {s}]

\* Phases 1 to 6: read memory.md under the locks, leave them, select.
ReadMemory(p) ==
  /\ IF ToArchive(memory) = {}
     THEN Goto(p, "archive", "close") /\ UNCHANGED copy
     ELSE Goto(p, "archive", "file") /\ copy' = [copy EXCEPT ![p] = memory]
  /\ UNCHANGED <<memory, filed, clashing, logged, registered, late>>

\* Mutated form: the record stays under its temporary name.
WriteRecord_NoRename(p) ==
  LET s == Min(ToArchive(copy[p]))
      edited == Archived(copy[p], s)
  IN /\ Goto(p, "file", IF ToArchive(edited) = {} THEN "replace" ELSE "file")
     /\ copy' = [copy EXCEPT ![p] = edited]
     /\ UNCHANGED <<memory, filed, clashing, logged, registered, late>>

\* Phase 7 for the next session: its record is written under a temporary name
\* and renamed, and the copy is edited.
WriteRecord(p) ==
  LET s == Min(ToArchive(copy[p]))
      edited == Archived(copy[p], s)
  IN /\ Goto(p, "file", IF ToArchive(edited) = {} THEN "replace" ELSE "file")
     /\ filed' = filed \cup {s}
     /\ copy' = [copy EXCEPT ![p] = edited]
     /\ UNCHANGED <<memory, clashing, logged, registered, late>>

\* Phase 8: memory.md becomes the edited copy.
ReplaceMemory(p) ==
  /\ Goto(p, "replace", "close")
  /\ memory' = copy[p]
  /\ copy' = [copy EXCEPT ![p] = NoCopy]
  /\ UNCHANGED <<filed, clashing, logged, registered, late>>

\* A killed process takes its copy along.
CopyLost(p) ==
  /\ copy' = [copy EXCEPT ![p] = NoCopy]
  /\ UNCHANGED <<memory, filed, clashing, logged, registered, late>>

MemoryStep(p) ==
  \/ ReadForBatch(p) \/ WriteBatch(p)
  \/ ReadMemory(p) \/ WriteRecord(p) \/ ReplaceMemory(p)

MemoryTypeOK ==
  /\ memory \in Memory /\ Len(memory.ids) <= MaxRows
  /\ copy \in [Proc -> Memory \cup {NoCopy}]
  /\ filed \subseteq Session /\ logged \subseteq Session
  /\ clashing \subseteq TaskId /\ registered \subseteq TaskId /\ late \subseteq Session
=============================================================================

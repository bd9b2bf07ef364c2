------------------------- MODULE BatchRegistration -------------------------
(***************************************************************************)
(* How register_task_batch (core/state.py) numbers a batch of new tasks    *)
(* and which batches it rejects.  It compares ids as texts, but the ids it *)
(* finds in memory.md only after it has read them as numbers.              *)
(***************************************************************************)
EXTENDS Integers, Sequences, FiniteSetsExt, Functions

CONSTANT NoId  \* an item without an id of its own

\* The text of a task id: its number is written with at least three digits
\* ("T-007", "T-10000"), or padded to four ("T-0007").
TaskId == [n : Nat, padded : BOOLEAN]

LastId == 9999  \* the last id of four digits

\* What a batch may ask for: three or four digits.
ChosenId == {id \in TaskId : id.n <= LastId /\ (id.padded => id.n < 1000)}

ASSUME NoIdAssumption == NoId \notin TaskId

\* A batch is a sequence of items: an id or NoId, and the ids it depends on.
Item == [id : ChosenId \cup {NoId}, deps : SUBSET TaskId]

Numbered(n) == [n |-> n, padded |-> FALSE]

\* The number found in an id of memory.md: of "T-10000" the first four digits.
ReadBack(id) == IF id.n <= LastId THEN id.n ELSE id.n \div 10

\* The texts that count as registered.
Known(ids) == {Numbered(ReadBack(id)) : id \in Range(ids)}

\* Those of them that are ids of memory.md as they stand there.
Ordinary(id) == id = Numbered(ReadBack(id))

Highest(ids) == IF ids = <<>> THEN 0 ELSE Max({ReadBack(id) : id \in Range(ids)})

\* Mutated form: automatic ids count the registered tasks.
Ids_ByCount(ids, batch) ==
  [i \in DOMAIN batch |->
     IF batch[i].id = NoId THEN Numbered(Len(ids) + i) ELSE batch[i].id]

\* The ids of a batch: an automatic one is numbered by the item's position.
Ids(ids, batch) ==
  [i \in DOMAIN batch |->
     IF batch[i].id = NoId THEN Numbered(Highest(ids) + i) ELSE batch[i].id]

\* An id of the caller's is registered or has been given to an earlier item.
Repeats(ids, batch) ==
  \E i \in DOMAIN batch :
    /\ batch[i].id # NoId
    /\ \/ batch[i].id \in Known(ids)
       \/ \E j \in 1 .. i - 1 : Ids(ids, batch)[j] = batch[i].id

\* A dependency is neither registered nor in the batch.
Dangling(ids, batch) ==
  \E i \in DOMAIN batch :
    ~(batch[i].deps \subseteq Known(ids) \cup Range(Ids(ids, batch)))

Accepted(ids, batch) == ~Repeats(ids, batch) /\ ~Dangling(ids, batch)

\* Automatic ids of a batch that the caller had chosen for an earlier item of
\* it: these two are not compared.
Clashes(ids, batch) ==
  {Ids(ids, batch)[j] : j \in {j \in DOMAIN batch :
     /\ batch[j].id = NoId
     /\ \E i \in 1 .. j - 1 : batch[i].id = Ids(ids, batch)[j]}}
=============================================================================

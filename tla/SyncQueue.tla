------------------------------ MODULE SyncQueue ------------------------------
(***************************************************************************)
(* rs_driver's SyncQueue between one thread that pushes and one that pops: *)
(* a ring whose two indices are its only synchronisation.  Each action is  *)
(* one atomic load or store, or the reading or writing of one slot.  The   *)
(* items pushed are numbered from 1.                                       *)
(***************************************************************************)
EXTENDS Integers, Sequences

CONSTANTS
  Capacity,   \* slots of the ring, one of them always empty: 102400
  Batch,      \* items of one popBatch, 1 for pop and popWait
  MaxPush     \* bound: items pushed

ASSUME QueueAssumption ==
  /\ Capacity \in Nat \ {0, 1} /\ Batch \in Nat \ {0} /\ MaxPush \in Nat

VARIABLES
  buffer, head, tail,  \* buffer_, head_, tail_
  producer,            \* where push is
  pushed,              \* items pushed
  consumer,            \* where popBatch is
  count, batch,        \* its real_count, and what it has copied
  taken                \* the last item popBatch returned
queueVars == <<buffer, head, tail, producer, pushed, consumer, count, batch, taken>>

Slots == 0..Capacity - 1
Plus(slot, n) == IF slot + n < Capacity THEN slot + n ELSE slot + n - Capacity
size == IF tail >= head THEN tail - head ELSE Capacity - head + tail

QueueInit ==
  /\ buffer = [s \in Slots |-> 0] /\ head = 0 /\ tail = 0
  /\ producer = "idle" /\ pushed = 0
  /\ consumer = "idle" /\ count = 0 /\ batch = <<>> /\ taken = 0

-----------------------------------------------------------------------------
\* push: the load of head_ and the test.  Mutant: no slot is left empty.
PushLoadLast ==
  /\ producer = "idle" /\ pushed < MaxPush
  /\ producer' = "write"
  /\ UNCHANGED <<buffer, head, tail, pushed, consumer, count, batch, taken>>
PushLoad ==
  /\ producer = "idle" /\ pushed < MaxPush
  /\ producer' = IF Plus(tail, 1) # head THEN "write" ELSE "refused"
  /\ UNCHANGED <<buffer, head, tail, pushed, consumer, count, batch, taken>>

PushWrite ==
  /\ producer = "write"
  /\ buffer' = [buffer EXCEPT ![tail] = pushed + 1]
  /\ producer' = "store"
  /\ UNCHANGED <<head, tail, pushed, consumer, count, batch, taken>>

PushStore ==
  /\ producer = "store"
  /\ tail' = Plus(tail, 1)
  /\ pushed' = pushed + 1
  /\ producer' = "idle"
  /\ UNCHANGED <<buffer, head, consumer, count, batch, taken>>

\* push returns -1, and the item is dropped: putPointCloud.
PushDrop ==
  /\ producer = "refused"
  /\ producer' = "idle"
  /\ UNCHANGED <<buffer, head, tail, pushed, consumer, count, batch, taken>>

-----------------------------------------------------------------------------
\* popBatch: the loads of head_ and tail_.  When the queue is empty it waits.
PopLoad ==
  /\ consumer = "idle" /\ head # tail
  /\ count' = IF Batch < size THEN Batch ELSE size
  /\ consumer' = "read"
  /\ UNCHANGED <<buffer, head, tail, producer, pushed, batch, taken>>

\* Its copy of one slot; Len(batch) is the loop's i.
PopRead ==
  /\ consumer = "read" /\ Len(batch) < count
  /\ batch' = Append(batch, buffer[Plus(head, Len(batch))])
  /\ UNCHANGED <<buffer, head, tail, producer, pushed, consumer, count, taken>>

\* The store of head_, and the return.
PopStore ==
  /\ consumer = "read" /\ Len(batch) = count
  /\ head' = Plus(head, count)
  /\ taken' = batch[count]
  /\ batch' = <<>> /\ count' = 0
  /\ consumer' = "idle"
  /\ UNCHANGED <<buffer, tail, producer, pushed>>

QueueNext ==
  \/ PushLoad \/ PushWrite \/ PushStore \/ PushDrop
  \/ PopLoad \/ PopRead \/ PopStore

QueueSpec == QueueInit /\ [][QueueNext]_queueVars

-----------------------------------------------------------------------------
\* The batch that popBatch collects is the next items in the order they were
\* pushed, however the producer goes on meanwhile (popBatch, push).
InOrder == \A i \in 1..Len(batch) : batch[i] = taken + i

\* The queue hands every item over, once, in order, with a slot to spare.
Abstract == INSTANCE Handover WITH Room <- Capacity - 1, put <- pushed
HandsOver == Abstract!HandoverSpec
=============================================================================

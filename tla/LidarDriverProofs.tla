-------------------------- MODULE LidarDriverProofs --------------------------
(***************************************************************************)
(* rs_driver, part by part.  The queue between two threads hands over      *)
(* every item once and in order, for every capacity and every size of a    *)
(* batch.  The three threads never hold the same buffer or cloud, and lose *)
(* no packet, for every size of the pool and of a batch.  Datagrams come   *)
(* out of a capture whole, for every number of fragments and of ids.  The  *)
(* clouds of the solid-state decoders are frames of the lidar, for every   *)
(* number of packets in a frame.                                           *)
(***************************************************************************)
EXTENDS RsDriver, SyncQueue, LidarInput, MemsDecoding, Lemmas, TLAPS, FiniteSetTheorems,
        SequenceTheorems

\* The values of the variables of the queue.
QueueTypes ==
  /\ buffer \in [Slots -> Nat] /\ head \in Slots /\ tail \in Slots
  /\ producer \in {"idle", "write", "store", "refused"} /\ pushed \in Nat
  /\ consumer \in {"idle", "read"} /\ count \in Nat
  /\ batch \in Seq(Nat) /\ taken \in Nat

\* The slots between the indices hold the items after the last one taken.
Queued ==
  /\ pushed = taken + size
  /\ \A n \in 0..size - 1 : buffer[Plus(head, n)] = taken + n + 1

\* A push that passed its test keeps its room, and what it wrote.
Pushing ==
  /\ producer \in {"write", "store"} => Plus(tail, 1) # head
  /\ producer = "store" => buffer[tail] = pushed + 1

\* A pop copies no more than was there, and what it copied is in order.
Popping ==
  /\ consumer = "idle" => batch = <<>> /\ count = 0
  /\ consumer = "read" => count \in 1..size /\ count <= Batch /\ Len(batch) <= count

QueueInv == QueueTypes /\ Queued /\ Pushing /\ Popping /\ InOrder

-----------------------------------------------------------------------------
\* Slots that are ahead of a slot are slots.
LEMMA PlusType == ASSUME NEW s \in Slots, NEW n \in 0..Capacity - 1 PROVE Plus(s, n) \in Slots
  BY QueueAssumption DEF Plus, Slots

\* Slots at different distances are different.
LEMMA PlusInjective ==
  ASSUME NEW s \in Slots, NEW m \in 0..Capacity - 1, NEW n \in 0..Capacity - 1,
         Plus(s, m) = Plus(s, n)
  PROVE  m = n
  BY QueueAssumption DEF Plus, Slots

\* The tail is as far from the head as the queue is long.
LEMMA SizeType == ASSUME QueueTypes PROVE size \in 0..Capacity - 1 /\ Plus(head, size) = tail
  BY QueueAssumption DEF QueueTypes, Slots, size, Plus

\* The queue is empty at first.
LEMMA QueueInitInv == QueueInit => QueueInv
  <1> SUFFICES ASSUME QueueInit PROVE QueueInv OBVIOUS
  <1> USE DEF QueueInit
  <1>1. QueueTypes BY QueueAssumption DEF QueueTypes, Slots
  <1>2. size = 0 BY DEF size
  <1>3. Queued BY <1>2 DEF Queued
  <1>4. Pushing /\ Popping /\ InOrder BY DEF Pushing, Popping, InOrder
  <1> QED BY <1>1, <1>3, <1>4 DEF QueueInv

\* Every step of the two threads keeps the invariant.
LEMMA QueueNextInv == QueueInv /\ [QueueNext]_queueVars => QueueInv'
  <1> SUFFICES ASSUME QueueInv, [QueueNext]_queueVars PROVE QueueInv' OBVIOUS
  <1>t. QueueTypes /\ Queued /\ Pushing /\ Popping /\ InOrder BY DEF QueueInv
  <1>s. size \in 0..Capacity - 1 /\ Plus(head, size) = tail BY <1>t, SizeType
  <1>c. CASE UNCHANGED <<buffer, head, tail, pushed, consumer, count, batch, taken>>
             /\ producer' \in {"idle", "write", "refused"}
             /\ (producer' = "write" => Plus(tail, 1) # head \/ producer = "write")
    <2> USE <1>c
    <2>1. size' = size /\ UNCHANGED Plus(tail, 1) BY DEF size, Plus
    <2>2. \A n : UNCHANGED Plus(head, n) BY DEF Plus
    <2>3. QueueTypes' BY <1>t DEF QueueTypes
    <2>4. Queued' BY <1>t, <2>1, <2>2 DEF Queued
    <2>5. Pushing' BY <1>t, <2>1 DEF Pushing
    <2>6. Popping' BY <1>t, <2>1 DEF Popping
    <2>7. InOrder' BY <1>t DEF InOrder
    <2> QED BY <2>3, <2>4, <2>5, <2>6, <2>7 DEF QueueInv
  <1>1. CASE PushLoad
    <2>1. producer' \in {"write", "refused"} /\ (producer' = "write" => Plus(tail, 1) # head)
      BY <1>1 DEF PushLoad
    <2> QED BY <1>1, <1>c, <2>1 DEF PushLoad
  <1>2. CASE PushWrite
    <2> USE <1>2 DEF PushWrite
    <2>1. size' = size /\ UNCHANGED Plus(tail, 1) BY DEF size, Plus
    <2>2. QueueTypes' BY <1>t DEF QueueTypes
    <2>3. \A n \in 0..size - 1 : Plus(head, n) \in Slots /\ Plus(head, n) # tail
      <3>1. SUFFICES ASSUME NEW n \in 0..size - 1
                     PROVE  Plus(head, n) \in Slots /\ Plus(head, n) # tail
        OBVIOUS
      <3>2. head \in Slots BY <1>t DEF QueueTypes
      <3>3. n \in 0..Capacity - 1 /\ n # size BY <1>s, QueueAssumption
      <3> QED BY <1>s, <3>2, <3>3, PlusType, PlusInjective
    <2>4. \A n : UNCHANGED Plus(head, n) BY DEF Plus
    <2>5. Queued' BY <1>t, <2>1, <2>3, <2>4 DEF Queued, QueueTypes
    <2>6. Pushing' BY <1>t, <2>1 DEF Pushing, QueueTypes
    <2>7. Popping' BY <1>t, <2>1 DEF Popping
    <2>8. InOrder' BY <1>t DEF InOrder
    <2> QED BY <2>2, <2>5, <2>6, <2>7, <2>8 DEF QueueInv
  <1>3. CASE PushStore
    <2> USE <1>3 DEF PushStore
    <2>1. size + 1 < Capacity /\ size' = size + 1
      BY <1>t, QueueAssumption DEF QueueTypes, Slots, Pushing, Plus, size
    <2>2. QueueTypes'
      <3>1. Plus(tail, 1) \in Slots BY <1>t, QueueAssumption, PlusType DEF QueueTypes
      <3>2. pushed' \in Nat BY <1>t DEF QueueTypes
      <3> QED BY <1>t, <3>1, <3>2 DEF QueueTypes
    <2>3. \A n : UNCHANGED Plus(head, n) BY DEF Plus
    <2>4. Queued'
      <3>1. pushed' = taken' + size' BY <1>t, <1>s, <2>1 DEF Queued, QueueTypes
      <3>2. ASSUME NEW n \in 0..size PROVE buffer[Plus(head, n)] = taken + n + 1
        <4>1. CASE n = size BY <4>1, <1>t, <1>s DEF Queued, Pushing
        <4>2. CASE n \in 0..size - 1 BY <4>2, <1>t DEF Queued
        <4> QED BY <1>s, <4>1, <4>2
      <3>3. 0..size' - 1 = 0..size BY <1>s, <2>1
      <3> QED BY <2>3, <3>1, <3>2, <3>3 DEF Queued
    <2>5. Pushing' BY DEF Pushing
    <2>6. Popping' BY <1>t, <1>s, <2>1 DEF Popping, QueueTypes
    <2>7. InOrder' BY <1>t DEF InOrder
    <2> QED BY <2>2, <2>4, <2>5, <2>6, <2>7 DEF QueueInv
  <1>4. CASE PushDrop BY <1>4, <1>c DEF PushDrop
  <1>5. CASE PopLoad
    <2> USE <1>5 DEF PopLoad
    <2>1. size' = size /\ UNCHANGED Plus(tail, 1) BY DEF size, Plus
    <2>2. size > 0 BY <1>t, QueueAssumption DEF QueueTypes, Slots, size
    <2>3. count' \in 1..size /\ count' <= Batch BY <1>s, <2>2, QueueAssumption
    <2>4. QueueTypes' BY <1>t, <1>s, <2>3 DEF QueueTypes
    <2>5. \A n : UNCHANGED Plus(head, n) BY DEF Plus
    <2>6. Queued' BY <1>t, <2>1, <2>5 DEF Queued
    <2>7. Pushing' BY <1>t, <2>1 DEF Pushing
    <2>8. Popping' BY <1>t, <1>s, <2>1, <2>3 DEF Popping
    <2>9. InOrder' BY <1>t DEF InOrder
    <2> QED BY <2>4, <2>6, <2>7, <2>8, <2>9 DEF QueueInv
  <1>6. CASE PopRead
    <2> USE <1>6 DEF PopRead
    <2>1. size' = size /\ UNCHANGED Plus(tail, 1) BY DEF size, Plus
    <2>2. Len(batch) \in 0..size - 1 /\ Len(batch) + 1 <= count
      BY <1>t, <1>s DEF Popping, QueueTypes
    <2>3. buffer[Plus(head, Len(batch))] = taken + Len(batch) + 1 BY <1>t, <2>2 DEF Queued
    <2>4. batch' = Append(batch, taken + Len(batch) + 1) BY <2>3
    <2>5. QueueTypes' BY <1>t, <2>2, <2>4 DEF QueueTypes
    <2>6. \A n : UNCHANGED Plus(head, n) BY DEF Plus
    <2>7. Queued' BY <1>t, <2>1, <2>6 DEF Queued
    <2>8. Pushing' BY <1>t, <2>1 DEF Pushing
    <2>9. Popping' BY <1>t, <2>1, <2>2, <2>4 DEF Popping, QueueTypes
    <2>10. InOrder' BY <1>t, <2>4, SMTT(20) DEF InOrder, QueueTypes
    <2> QED BY <2>5, <2>7, <2>8, <2>9, <2>10 DEF QueueInv
  <1>7. CASE PopStore
    <2> USE <1>7 DEF PopStore
    <2>1. count \in 1..size /\ taken' = taken + count /\ Len(batch) = count
      BY <1>t DEF Popping, InOrder, QueueTypes
    <2>2. head' \in Slots /\ size' = size - count
      BY <1>t, <1>s, <2>1, QueueAssumption DEF QueueTypes, Slots, Plus, size
    <2>3. QueueTypes' BY <1>t, <2>1, <2>2 DEF QueueTypes
    <2>4. \A n \in 0..size - count - 1 : Plus(head', n) = Plus(head, n + count)
      BY <1>t, <1>s, <2>1, QueueAssumption DEF QueueTypes, Slots, Plus
    <2>5. Queued'
      <3>1. pushed' = taken' + size' BY <1>t, <1>s, <2>1, <2>2 DEF Queued, QueueTypes
      <3>2. ASSUME NEW n \in 0..size - count - 1
            PROVE  buffer[Plus(head', n)] = taken' + n + 1
        <4>1. n + count \in 0..size - 1 BY <1>s, <2>1
        <4>2. buffer[Plus(head, n + count)] = taken + (n + count) + 1 BY <1>t, <4>1 DEF Queued
        <4> QED BY <1>t, <1>s, <2>1, <2>4, <4>2 DEF QueueTypes
      <3> QED BY <3>1, <3>2, <2>2 DEF Queued
    <2>6. Pushing'
      <3>1. UNCHANGED Plus(tail, 1) BY DEF Plus
      <3>2. producer \in {"write", "store"} => Plus(tail, 1) # head'
        BY <1>t, <1>s, <2>1, QueueAssumption DEF QueueTypes, Slots, Plus, size, Pushing
      <3> QED BY <1>t, <3>1, <3>2 DEF Pushing
    <2>7. Popping' /\ InOrder' BY DEF Popping, InOrder
    <2> QED BY <2>3, <2>5, <2>6, <2>7 DEF QueueInv
  <1>8. CASE UNCHANGED queueVars
    <2> USE <1>8 DEF queueVars
    <2>1. size' = size /\ UNCHANGED Plus(tail, 1) BY DEF size, Plus
    <2>2. \A n : UNCHANGED Plus(head, n) BY DEF Plus
    <2>3. QueueTypes' BY <1>t DEF QueueTypes
    <2>4. Queued' BY <1>t, <2>1, <2>2 DEF Queued
    <2>5. Pushing' BY <1>t, <2>1 DEF Pushing
    <2>6. Popping' BY <1>t, <2>1 DEF Popping
    <2>7. InOrder' BY <1>t DEF InOrder
    <2> QED BY <2>3, <2>4, <2>5, <2>6, <2>7 DEF QueueInv
  <1> QED BY <1>1, <1>2, <1>3, <1>4, <1>5, <1>6, <1>7, <1>8 DEF QueueNext

\* Whatever the capacity and the size of a batch, popBatch returns the next
\* items in the order they were pushed.
THEOREM QueueInOrder == QueueSpec => []InOrder
  <1>1. QueueInit => QueueInv BY QueueInitInv
  <1>2. QueueInv /\ [QueueNext]_queueVars => QueueInv' BY QueueNextInv
  <1>3. QueueInv => InOrder BY DEF QueueInv
  <1> QED BY <1>1, <1>2, <1>3, PTL DEF QueueSpec

-----------------------------------------------------------------------------
\* A step of the queue is a step of the handover, or changes nothing it knows.
LEMMA QueueStep ==
  QueueInv /\ [QueueNext]_queueVars => [Abstract!HandoverNext]_<<pushed, taken>>
  <1> SUFFICES ASSUME QueueInv, [QueueNext]_queueVars
               PROVE  [Abstract!HandoverNext]_<<pushed, taken>>
    OBVIOUS
  <1>t. QueueTypes /\ Queued /\ Pushing /\ Popping /\ InOrder BY DEF QueueInv
  <1>s. size \in 0..Capacity - 1 BY <1>t, SizeType
  <1>1. CASE PushStore
    <2>1. size + 1 < Capacity
      BY <1>1, <1>t, QueueAssumption DEF PushStore, QueueTypes, Slots, Pushing, Plus, size
    <2>2. pushed - taken < Capacity - 1
      BY <1>s, <1>t, <2>1, QueueAssumption DEF Queued, QueueTypes
    <2> QED BY <1>1, <2>2 DEF PushStore, Abstract!HandoverNext, Abstract!Put
  <1>2. CASE PopStore
    <2>1. count \in 1..Batch /\ taken' = taken + count
      BY <1>2, <1>t DEF PopStore, Popping, InOrder, QueueTypes
    <2>2. taken' <= pushed
      BY <1>2, <1>s, <1>t, <2>1 DEF PopStore, Popping, Queued, QueueTypes
    <2> QED BY <1>2, <2>1, <2>2 DEF PopStore, Abstract!HandoverNext, Abstract!Take
  <1>3. CASE PushLoad \/ PushWrite \/ PushDrop \/ PopLoad \/ PopRead \/ UNCHANGED queueVars
    BY <1>3 DEF PushLoad, PushWrite, PushDrop, PopLoad, PopRead, queueVars
  <1> QED BY <1>1, <1>2, <1>3 DEF QueueNext

\* The ring hands over as Handover promises, for every capacity and batch.
THEOREM QueueHandsOver == QueueSpec => HandsOver
  <1>1. QueueInit => QueueInv BY QueueInitInv
  <1>2. QueueInv /\ [QueueNext]_queueVars => QueueInv' BY QueueNextInv
  <1>3. QueueInv /\ [QueueNext]_queueVars => [Abstract!HandoverNext]_<<pushed, taken>>
    BY QueueStep
  <1>4. QueueInit => Abstract!HandoverInit BY DEF QueueInit, Abstract!HandoverInit
  <1> QED BY <1>1, <1>2, <1>3, <1>4, PTL DEF QueueSpec, HandsOver, Abstract!HandoverSpec

-----------------------------------------------------------------------------
\* What the ends of a sequence hold: the queues' pops, pushes and batches.
LEMMA TailHolds ==
  ASSUME NEW S, NEW s \in Seq(S), s # <<>>
  PROVE  /\ Head(s) = s[1] /\ Head(s) \in S /\ Tail(s) \in Seq(S) /\ Len(Tail(s)) = Len(s) - 1
         /\ Len(s) \in Nat \ {0}
         /\ \A i \in 1..Len(s) - 1 : Tail(s)[i] = s[i + 1]
         /\ Head(s) \in ToSet(s) /\ ToSet(Tail(s)) \subseteq ToSet(s)
         /\ IsInjective(s) => IsInjective(Tail(s)) /\ Head(s) \notin ToSet(Tail(s))
<1>1. /\ Head(s) = s[1] /\ Head(s) \in S /\ Tail(s) \in Seq(S) /\ Len(Tail(s)) = Len(s) - 1
      /\ Len(s) \in Nat \ {0} /\ DOMAIN s = 1..Len(s) /\ DOMAIN Tail(s) = 1..Len(s) - 1
  OBVIOUS
<1>2. \A i \in 1..Len(s) - 1 : Tail(s)[i] = s[i + 1]
  OBVIOUS
<1> DEFINE t == Tail(s)
<1>3. /\ DOMAIN t = 1..Len(s) - 1 /\ \A i \in 1..Len(s) - 1 : t[i] = s[i + 1]
  BY <1>1, <1>2
<1> HIDE DEF t
<1>4. Head(s) \in ToSet(s)
  BY <1>1 DEF ToSet
<1>5. ToSet(t) \subseteq ToSet(s)
  BY <1>1, <1>3 DEF ToSet
<1>6. ASSUME IsInjective(s)  PROVE IsInjective(t) /\ s[1] \notin ToSet(t)
  <2>1. \A i, j \in 1..Len(s) : s[i] = s[j] => i = j
    BY <1>1, <1>6 DEF IsInjective
  <2>2. IsInjective(t)
    BY <1>1, <1>3, <2>1 DEF IsInjective
  <2>3. s[1] \notin ToSet(t)
    BY <1>1, <1>3, <2>1 DEF ToSet
  <2>4. QED  BY <2>2, <2>3
<1>7. QED
  BY <1>1, <1>2, <1>4, <1>5, <1>6 DEF t

\* An item that is appended joins those that are there.
LEMMA AppendHolds ==
  ASSUME NEW S, NEW s \in Seq(S), NEW x \in S
  PROVE  /\ Append(s, x) \in Seq(S) /\ Len(Append(s, x)) = Len(s) + 1 /\ Len(s) \in Nat
         /\ \A i \in 1..Len(s) : Append(s, x)[i] = s[i]
         /\ Append(s, x)[Len(s) + 1] = x
         /\ ToSet(Append(s, x)) = ToSet(s) \cup {x}
         /\ IsInjective(s) /\ x \notin ToSet(s) => IsInjective(Append(s, x))
<1> DEFINE t == Append(s, x)
<1>1. /\ t \in Seq(S) /\ Len(t) = Len(s) + 1 /\ Len(s) \in Nat
      /\ DOMAIN s = 1..Len(s) /\ DOMAIN t = 1..Len(s) + 1
      /\ t[Len(s) + 1] = x
  OBVIOUS
<1>2. \A i \in 1..Len(s) : t[i] = s[i]
  OBVIOUS
<1> HIDE DEF t
<1>3. ToSet(t) = ToSet(s) \cup {x}
  <2>1. ASSUME NEW y \in ToSet(t)  PROVE y \in ToSet(s) \cup {x}
    <3>1. PICK i \in 1..Len(s) + 1 : y = t[i]
      BY <1>1 DEF ToSet
    <3>2. i \in 1..Len(s) \/ i = Len(s) + 1
      BY <1>1
    <3>3. QED  BY <1>1, <1>2, <3>1, <3>2 DEF ToSet
  <2>2. ASSUME NEW y \in ToSet(s)  PROVE y \in ToSet(t)
    <3>1. PICK i \in 1..Len(s) : y = s[i]
      BY <1>1 DEF ToSet
    <3>2. i \in 1..Len(s) + 1 /\ t[i] = y
      BY <1>1, <1>2, <3>1
    <3>3. QED  BY <1>1, <3>2 DEF ToSet
  <2>3. x \in ToSet(t)
    <3>1. Len(s) + 1 \in 1..Len(s) + 1
      BY <1>1
    <3>2. QED  BY <1>1, <3>1 DEF ToSet
  <2>4. QED  BY <2>1, <2>2, <2>3
<1>4. ASSUME IsInjective(s), x \notin ToSet(s)  PROVE IsInjective(t)
  <2>1. \A i, j \in 1..Len(s) : s[i] = s[j] => i = j
    BY <1>1, <1>4 DEF IsInjective
  <2>2. \A i \in 1..Len(s) : s[i] # x
    BY <1>1, <1>4 DEF ToSet
  <2>3. ASSUME NEW i \in 1..Len(s) + 1, NEW j \in 1..Len(s) + 1, t[i] = t[j]
        PROVE  i = j
    <3>1. i \in 1..Len(s) \/ i = Len(s) + 1
      BY <1>1
    <3>2. j \in 1..Len(s) \/ j = Len(s) + 1
      BY <1>1
    <3>3. QED  BY <1>1, <1>2, <2>1, <2>2, <2>3, <3>1, <3>2
  <2>4. QED  BY <1>1, <2>3 DEF IsInjective
<1>5. QED
  BY <1>1, <1>2, <1>3, <1>4 DEF t

\* What is left of a sequence.
LEMMA RestLength ==
  ASSUME NEW l \in Nat, NEW n \in 0..l
  PROVE  /\ n \in Nat /\ n + 1 \in Int /\ l - (n + 1) + 1 = l - n
         /\ (IF n + 1 <= l THEN l - (n + 1) + 1 ELSE 0) = l - n
OBVIOUS

\* A batch and the rest of the queue hold what the queue held, in its order.
LEMMA SplitHolds ==
  ASSUME NEW S, NEW s \in Seq(S), NEW n \in 0..Len(s)
  PROVE  LET first == SubSeq(s, 1, n)
             rest == SubSeq(s, n + 1, Len(s))
         IN  /\ first \in Seq(S) /\ Len(first) = n /\ \A i \in 1..n : first[i] = s[i]
             /\ rest \in Seq(S) /\ Len(rest) = Len(s) - n
             /\ \A i \in 1..Len(s) - n : rest[i] = s[n + i]
             /\ ToSet(first) \subseteq ToSet(s) /\ ToSet(rest) \subseteq ToSet(s)
             /\ IsInjective(s) => /\ IsInjective(first) /\ IsInjective(rest)
                                  /\ ToSet(first) \cap ToSet(rest) = {}
<1> DEFINE first == SubSeq(s, 1, n)
           rest == SubSeq(s, n + 1, Len(s))
<1>1. Len(s) \in Nat /\ n \in Nat /\ n <= Len(s) /\ DOMAIN s = 1..Len(s)
  OBVIOUS
<1>2. /\ first \in Seq(S) /\ Len(first) = n /\ DOMAIN first = 1..n
      /\ \A i \in 1..n : first[i] = s[i]
  <2>1. \A i \in 1..n : s[i] \in S
    BY <1>1
  <2>2. QED  BY <1>1, <2>1, SubSeqProperties
<1>3. /\ rest \in Seq(S) /\ Len(rest) = Len(s) - n
      /\ \A i \in 1..Len(s) - n : rest[i] = s[n + i]
  <2>1. ASSUME NEW i \in n + 1..Len(s)  PROVE s[i] \in S
    <3>1. i \in 1..Len(s)
      BY <1>1
    <3>2. QED  BY <3>1
  <2>2. n + 1 \in Int /\ Len(s) \in Int
    BY <1>1
  <2>3. /\ Len(s) - (n + 1) + 1 = Len(s) - n
        /\ (IF n + 1 <= Len(s) THEN Len(s) - (n + 1) + 1 ELSE 0) = Len(s) - n
    BY <1>1, RestLength
  <2>4. /\ rest \in Seq(S)
        /\ Len(rest) = IF n + 1 <= Len(s) THEN Len(s) - (n + 1) + 1 ELSE 0
        /\ \A i \in 1..Len(s) - (n + 1) + 1 : rest[i] = s[n + 1 + i - 1]
    BY <2>1, <2>2, SubSeqProperties
  <2>5. ASSUME NEW i \in 1..Len(s) - n  PROVE rest[i] = s[n + i]
    <3>1. i \in 1..Len(s) - (n + 1) + 1 /\ n + 1 + i - 1 = n + i
      BY <1>1
    <3>2. QED  BY <2>4, <3>1
  <2>6. QED  BY <2>3, <2>4, <2>5
<1> HIDE DEF first, rest
<1>4. DOMAIN rest = 1..Len(s) - n
  <2>1. rest \in Seq(S)
    BY <1>3
  <2>2. DOMAIN rest = 1..Len(rest)
    BY <2>1
  <2>3. QED  BY <1>3, <2>2, Zenon
<1>5. ToSet(first) \subseteq ToSet(s) /\ ToSet(rest) \subseteq ToSet(s)
  <2>1. \A i \in 1..n : i \in 1..Len(s)
    BY <1>1
  <2>2. ToSet(first) \subseteq ToSet(s)
    BY <1>1, <1>2, <2>1 DEF ToSet
  <2>3. \A i \in 1..Len(s) - n : n + i \in 1..Len(s)
    BY <1>1
  <2>4. ToSet(rest) \subseteq ToSet(s)
    BY <1>1, <1>3, <1>4, <2>3 DEF ToSet
  <2>5. QED  BY <2>2, <2>4
<1>6. ASSUME IsInjective(s)
      PROVE  IsInjective(first) /\ IsInjective(rest) /\ ToSet(first) \cap ToSet(rest) = {}
  <2>1. \A i, j \in 1..Len(s) : s[i] = s[j] => i = j
    BY <1>1, <1>6 DEF IsInjective
  <2>2. IsInjective(first)
    BY <1>1, <1>2, <2>1 DEF IsInjective
  <2>3. IsInjective(rest)
    <3>1. ASSUME NEW i \in 1..Len(s) - n, NEW j \in 1..Len(s) - n, rest[i] = rest[j]
          PROVE  i = j
      <4>1. n + i \in 1..Len(s) /\ n + j \in 1..Len(s) /\ s[n + i] = s[n + j]
        BY <1>1, <1>3, <3>1
      <4>2. n + i = n + j
        BY <2>1, <4>1
      <4>3. QED  BY <1>1, <4>2
    <3>2. QED  BY <1>3, <1>4, <3>1 DEF IsInjective
  <2>4. ASSUME NEW i \in 1..n, NEW j \in 1..Len(s) - n, first[i] = rest[j]
        PROVE  FALSE
    <3>1. i \in 1..Len(s) /\ n + j \in 1..Len(s) /\ i # n + j
      BY <1>1
    <3>2. s[i] = s[n + j]
      BY <1>2, <1>3, <2>4
    <3>3. QED  BY <2>1, <3>1, <3>2
  <2>5. QED  BY <1>2, <1>3, <1>4, <2>2, <2>3, <2>4 DEF ToSet
<1>7. QED
  BY <1>2, <1>3, <1>5, <1>6 DEF first, rest

-----------------------------------------------------------------------------
\* The packets among datagrams are counted one by one, or part by part.
LEMMA PacketsInNat ==
  ASSUME NEW m, NEW i \in Int, NEW j \in Int
  PROVE  IsFiniteSet({n \in i..j : m[n]}) /\ PacketsIn(m, i, j) \in Nat
<1>1. IsFiniteSet(i..j) /\ {n \in i..j : m[n]} \in SUBSET (i..j)
  BY FS_Interval
<1>2. IsFiniteSet({n \in i..j : m[n]})
  BY <1>1, FS_Subset
<1>3. QED  BY <1>2, FS_CardinalityType DEF PacketsIn

\* No datagrams, no packets;
LEMMA PacketsInNone ==
  ASSUME NEW m, NEW i \in Int, NEW j \in Int, i > j
  PROVE  PacketsIn(m, i, j) = 0
<1>1. {n \in i..j : m[n]} = {}
  OBVIOUS
<1>2. QED  BY <1>1, FS_EmptySet DEF PacketsIn

\* packets may be counted in two parts,
LEMMA PacketsInSplit ==
  ASSUME NEW m, NEW i \in Int, NEW l \in Int, NEW j \in i - 1..l
  PROVE  PacketsIn(m, i, l) = PacketsIn(m, i, j) + PacketsIn(m, j + 1, l)
<1> DEFINE A == {n \in i..j : m[n]}
           B == {n \in j + 1..l : m[n]}
           C == {n \in i..l : m[n]}
<1>1. C = A \cup B /\ A \cap B = {}
  OBVIOUS
<1>2. j \in Int /\ j + 1 \in Int
  OBVIOUS
<1>3. IsFiniteSet(A) /\ IsFiniteSet(B)
  BY <1>2, PacketsInNat
<1> HIDE DEF A, B, C
<1>4. Cardinality(A) \in Nat /\ Cardinality(B) \in Nat
  BY <1>3, FS_CardinalityType
<1>5. Cardinality(C) = Cardinality(A) + Cardinality(B) - Cardinality({})
  BY <1>1, <1>3, FS_Union
<1>6. Cardinality(C) = Cardinality(A) + Cardinality(B)
  BY <1>4, <1>5, FS_EmptySet
<1>7. QED  BY <1>6 DEF PacketsIn, A, B, C

\* or from the first datagram on.
LEMMA PacketsInFirst ==
  ASSUME NEW m, NEW i \in Int, NEW l \in Int, i <= l
  PROVE  /\ m[i] => PacketsIn(m, i, l) = PacketsIn(m, i + 1, l) + 1
         /\ ~m[i] => PacketsIn(m, i, l) = PacketsIn(m, i + 1, l)
<1>1. PacketsIn(m, i, l) = PacketsIn(m, i, i) + PacketsIn(m, i + 1, l)
  BY i \in i - 1..l, PacketsInSplit
<1>2. PacketsIn(m, i + 1, l) \in Nat
  BY i + 1 \in Int, PacketsInNat
<1>3. CASE m[i]
  <2>1. {n \in i..i : m[n]} = {i}
    BY <1>3
  <2>2. PacketsIn(m, i, i) = 1
    BY <2>1, FS_Singleton DEF PacketsIn
  <2>3. QED  BY <1>1, <1>2, <1>3, <2>2
<1>4. CASE ~m[i]
  <2>1. {n \in i..i : m[n]} = {}
    BY <1>4
  <2>2. PacketsIn(m, i, i) = 0
    BY <2>1, FS_EmptySet DEF PacketsIn
  <2>3. QED  BY <1>1, <1>2, <1>4, <2>2
<1>5. QED  BY <1>3, <1>4

-----------------------------------------------------------------------------
\* The values of the variables of the driver.
DriverTypes ==
  /\ recv \in {"off", "select", "refill", "push"}
  /\ handle \in {"off", "pop", "packet", "split", "cloud", "points"}
  /\ process \in {"pop", "send", "free", "off"}
  /\ pkt_pool \in [1..Vlen -> Buffers \cup {0}] /\ content \in [Buffers -> Nat]
  /\ free_pkt_queue_ \in Seq(Buffers) /\ pkt_queue_ \in Seq(Buffers) /\ pkt_batch \in Seq(Buffers)
  /\ point_cloud_ \in Clouds /\ points \in [Clouds -> Seq(Nat)] /\ sending \in Clouds \cup {0}
  /\ free_point_cloud_queue_ \in Seq(Clouds) /\ point_cloud_queue_ \in Seq(Clouds)
  /\ msgs \in Seq(BOOLEAN) /\ Len(msgs) <= Vlen /\ k \in Nat
  /\ received \in Nat /\ delivered \in Seq(Nat)

\* What the threads have in hand where they are.
InHand ==
  /\ main = "init" => recv = "off" /\ handle = "off"
  /\ handle \in {"off", "pop"} <=> pkt_batch = <<>>
  /\ process \in {"send", "free"} <=> sending # 0
  /\ recv = "push" => /\ k \in 1..Len(msgs) + 1
                      /\ \A i \in k..Len(msgs) : pkt_pool[i] # 0

\* OneOwner, set by set.
BuffersApart ==
  /\ \A i, j \in 1..Vlen : i # j /\ pkt_pool[i] # 0 => pkt_pool[i] # pkt_pool[j]
  /\ \A i \in 1..Vlen :
       /\ pkt_pool[i] \notin ToSet(free_pkt_queue_)
       /\ pkt_pool[i] \notin ToSet(pkt_queue_) /\ pkt_pool[i] \notin ToSet(pkt_batch)
  /\ IsInjective(free_pkt_queue_) /\ IsInjective(pkt_queue_) /\ IsInjective(pkt_batch)
  /\ ToSet(free_pkt_queue_) \cap ToSet(pkt_queue_) = {}
  /\ ToSet(free_pkt_queue_) \cap ToSet(pkt_batch) = {}
  /\ ToSet(pkt_queue_) \cap ToSet(pkt_batch) = {}
\* The same for the clouds.
CloudsApart ==
  /\ IsInjective(free_point_cloud_queue_) /\ IsInjective(point_cloud_queue_)
  /\ ToSet(free_point_cloud_queue_) \cap ToSet(point_cloud_queue_) = {}
  /\ sending \notin ToSet(free_point_cloud_queue_) /\ sending \notin ToSet(point_cloud_queue_)
  /\ handle # "cloud" =>
       /\ point_cloud_ # sending
       /\ point_cloud_ \notin ToSet(free_point_cloud_queue_)
       /\ point_cloud_ \notin ToSet(point_cloud_queue_)

\* The buffers hold the packets after the first d,
Hold(bufs, n) == \A i \in 1..Len(bufs) : content[bufs[i]] = n + i
\* The packets after the first d are in the buffers, in order.
InBuffers(d) ==
  /\ d + Len(pkt_batch) + Len(pkt_queue_) + Unpushed(k) = received
  /\ Hold(pkt_batch, d) /\ Hold(pkt_queue_, d + Len(pkt_batch))
  /\ recv = "push" =>
       \A i \in k..Len(msgs) : msgs[i] => content[pkt_pool[i]] = received - Unpushed(i + 1)

\* and the clouds the first d, where the cloud i in the queue ends with ends[i].
Waiting(ends) ==
  /\ ends[0] = Len(delivered) + Len(Sending)
  /\ \A i \in 1..Len(point_cloud_queue_) :
       /\ ends[i] = ends[i - 1] + Len(points[point_cloud_queue_[i]])
       /\ Follow(points[point_cloud_queue_[i]], ends[i - 1])
\* The first d packets are in the clouds, in order.
InClouds(d) ==
  /\ Follow(delivered, 0) /\ Follow(Sending, Len(delivered))
  /\ Follow(Decoding, d - Len(Decoding))
  /\ \E ends \in [0..Len(point_cloud_queue_) -> 0..d] :
       /\ ends[Len(point_cloud_queue_)] = d - Len(Decoding)
       /\ Waiting(ends)

\* Between the clouds and the buffers no packet is missing.
Accounted == Running => \E d \in Nat : InClouds(d) /\ InBuffers(d)
DriverInv == DriverTypes /\ InHand /\ BuffersApart /\ CloudsApart /\ Accounted

-----------------------------------------------------------------------------
\* The null pointer is no object.
LEMMA NoNull == 0 \notin Buffers /\ 0 \notin Clouds
BY DEF Buffers, Clouds

\* Elements of the queues are buffers and clouds.
LEMMA ToSetType == ASSUME NEW S, NEW s \in Seq(S)  PROVE ToSet(s) \subseteq S
BY DEF ToSet

\* The invariant holds at first,
LEMMA DriverBegins == DriverInit => DriverInv
<1> SUFFICES ASSUME DriverInit  PROVE DriverInv
  OBVIOUS
<1>1. /\ recv = "off" /\ handle = "off" /\ process = "pop" /\ sending = 0
      /\ received = 0 /\ point_cloud_ = 1 /\ k = 0 /\ main = "init"
      /\ pkt_pool = [i \in 1..Vlen |-> 0] /\ content = [b \in Buffers |-> 0]
      /\ points = [c \in Clouds |-> <<>>]
      /\ free_pkt_queue_ = <<>> /\ pkt_queue_ = <<>> /\ pkt_batch = <<>> /\ msgs = <<>>
      /\ free_point_cloud_queue_ = <<>> /\ point_cloud_queue_ = <<>> /\ delivered = <<>>
  BY DEF DriverInit
<1>2. Len(<<>>) = 0 /\ ToSet(<<>>) = {} /\ \A S : <<>> \in Seq(S)
  BY DEF ToSet
<1>3. IsInjective(<<>>)
  BY DEF IsInjective
<1>4. 1 \in Clouds /\ Vlen \in Nat
  BY DriverAssumption DEF Clouds
<1>5. DriverTypes
  BY <1>1, <1>2, <1>4 DEF DriverTypes
<1>6. InHand
  BY <1>1 DEF InHand
<1>7. BuffersApart
  BY <1>1, <1>2, <1>3 DEF BuffersApart
<1>8. CloudsApart
  BY <1>1, <1>2, <1>3 DEF CloudsApart
<1>9. Unpushed(k) = 0 /\ Sending = <<>> /\ Decoding = <<>>
  BY <1>1, <1>4 DEF Unpushed, Sending, Decoding
<1>10. InBuffers(0)
  BY <1>1, <1>2, <1>9 DEF InBuffers, Hold
<1>11. InClouds(0)
  <2> DEFINE ends == [i \in 0..0 |-> 0]
  <2>1. /\ ends \in [0..Len(point_cloud_queue_) -> 0..0]
        /\ ends[Len(point_cloud_queue_)] = 0 - Len(Decoding)
    <3>1. Len(point_cloud_queue_) = 0 /\ Len(Decoding) = 0
      BY <1>1, <1>2, <1>9
    <3>2. ends \in [0..0 -> 0..0] /\ ends[0] = 0 - 0
      OBVIOUS
    <3>3. QED  BY <3>1, <3>2, Zenon
  <2>2. Waiting(ends)
    BY <1>1, <1>2, <1>9 DEF Waiting, Follow
  <2> HIDE DEF ends
  <2>3. Follow(delivered, 0) /\ Follow(Sending, Len(delivered)) /\ Follow(Decoding, 0 - Len(Decoding))
    BY <1>1, <1>2, <1>9 DEF Follow
  <2>4. QED  BY <2>1, <2>2, <2>3 DEF InClouds
<1>12. QED
  BY <1>5, <1>6, <1>7, <1>8, <1>10, <1>11, 0 \in Nat DEF DriverInv, Accounted

-----------------------------------------------------------------------------
\* What the flow of packets depends on, on the side of the clouds
LEMMA CloudsKept ==
  ASSUME UNCHANGED <<delivered, points, sending, point_cloud_queue_, point_cloud_>>,
         process' = "send" <=> process = "send", handle' = "cloud" <=> handle = "cloud",
         NEW d, InClouds(d)
  PROVE  InClouds(d)'
<1>1. Sending' = Sending /\ Decoding' = Decoding
  BY DEF Sending, Decoding
<1>2. ASSUME NEW s  PROVE \A n : Follow(s, n)' <=> Follow(s, n)
  BY DEF Follow
<1>3. \A ends : Waiting(ends)' <=> Waiting(ends)
  BY <1>1 DEF Waiting, Follow
<1>4. QED  BY <1>1, <1>3 DEF InClouds, Follow

\* and of the buffers.
LEMMA BuffersKept ==
  ASSUME UNCHANGED <<pkt_batch, pkt_queue_, content, received>>,
         \/ recv # "push" /\ recv' # "push"
         \/ recv' = recv /\ UNCHANGED <<pkt_pool, msgs, k>>,
         NEW d, InBuffers(d)
  PROVE  InBuffers(d)'
<1>1. \A i : Unpushed(i)' = Unpushed(i)
  BY DEF Unpushed
<1>2. Unpushed(k)' = Unpushed(k)
  BY DEF Unpushed
<1>3. QED  BY <1>1, <1>2 DEF InBuffers, Hold

\* Steps in which no buffer, cloud or packet changes hands.
LEMMA NothingMoves ==
  ASSUME DriverInv,
         UNCHANGED <<pkt_pool, free_pkt_queue_, pkt_queue_, pkt_batch, content, received,
                     msgs, k>>,
         UNCHANGED <<point_cloud_, points, sending, free_point_cloud_queue_,
                     point_cloud_queue_, delivered>>,
         recv' \in {"off", "select", "refill", "push"}, recv' = "push" <=> recv = "push",
         \/ handle' = handle
         \/ handle \in {"off", "pop"} /\ handle' \in {"off", "pop"}
         \/ handle = "packet" /\ handle' \in {"split", "points"},
         \/ process' = process
         \/ process = "pop" /\ process' = "off",
         Running' => Running, main' = "init" => main = "init" /\ UNCHANGED <<recv, handle>>
  PROVE  DriverInv'
<1>1. DriverTypes'
  BY DEF DriverInv, DriverTypes
<1>2. InHand'
  BY DEF DriverInv, DriverTypes, InHand
<1>3. BuffersApart'
  BY DEF DriverInv, BuffersApart
<1>4. handle' = "cloud" <=> handle = "cloud"
  OBVIOUS
<1>5. CloudsApart'
  BY <1>4 DEF DriverInv, CloudsApart
<1>6. Accounted'
  <2> SUFFICES ASSUME Running'  PROVE \E d \in Nat : InClouds(d)' /\ InBuffers(d)'
    BY DEF Accounted
  <2>1. PICK d \in Nat : InClouds(d) /\ InBuffers(d)
    BY DEF DriverInv, Accounted
  <2>2. process' = "send" <=> process = "send"
    OBVIOUS
  <2>3. QED
    BY <1>4, <2>1, <2>2, CloudsKept, BuffersKept
<1>7. QED  BY <1>1, <1>2, <1>3, <1>5, <1>6 DEF DriverInv

\* and while nothing happens.
LEMMA DriverKept == DriverInv /\ UNCHANGED driverVars => DriverInv'
<1> SUFFICES ASSUME DriverInv, UNCHANGED driverVars  PROVE DriverInv'
  OBVIOUS
<1>1. /\ main' = main /\ recv' = recv /\ handle' = handle /\ process' = process
      /\ UNCHANGED <<pkt_pool, free_pkt_queue_, pkt_queue_, pkt_batch, content, received,
                     msgs, k>>
      /\ UNCHANGED <<point_cloud_, points, sending, free_point_cloud_queue_,
                     point_cloud_queue_, delivered>>
  BY DEF driverVars, recvVars, handleVars, cloudVars, ringVars, dataVars
<1>2. recv' \in {"off", "select", "refill", "push"} /\ (Running' => Running)
  BY <1>1 DEF DriverInv, DriverTypes, Running
<1>3. QED  BY <1>1, <1>2, NothingMoves

\* The main thread; when it has stopped the driver, nothing is promised more.
LEMMA MainKeeps == DriverInv /\ (MainNext \/ sigHandler) => DriverInv'
<1> SUFFICES ASSUME DriverInv, MainNext \/ sigHandler  PROVE DriverInv'
  OBVIOUS
<1> USE DEF recvVars, handleVars, cloudVars, ringVars, dataVars
<1>1. CASE Start \/ sigHandler \/ StopInput \/ StopHandle \/ StopSource \/ Destroy
  <2>1. /\ UNCHANGED <<pkt_pool, free_pkt_queue_, pkt_queue_, pkt_batch, content, received,
                       msgs, k>>
        /\ UNCHANGED <<point_cloud_, points, sending, free_point_cloud_queue_,
                       point_cloud_queue_, delivered>>
        /\ process' = process
    BY <1>1 DEF Start, sigHandler, StopInput, StopHandle, StopSource, Destroy
  <2>2. Running' => Running
    BY <1>1 DEF Start, sigHandler, StopInput, StopHandle, StopSource, Destroy, Running
  <2>3. \/ recv' = recv /\ handle' = handle
        \/ Start /\ recv' = "select" /\ handle' = "pop"
    BY <1>1 DEF Start, sigHandler, StopInput, StopHandle, StopSource, Destroy
  <2>4. Start => recv = "off" /\ handle = "off"
    BY DEF Start, DriverInv, InHand
  <2>5. /\ recv' \in {"off", "select", "refill", "push"}
        /\ recv' = "push" <=> recv = "push"
        /\ \/ handle' = handle
           \/ handle \in {"off", "pop"} /\ handle' \in {"off", "pop"}
    BY <2>3, <2>4 DEF DriverInv, DriverTypes
  <2>6. main' # "init"
    BY <1>1 DEF Start, sigHandler, StopInput, StopHandle, StopSource, Destroy
  <2>7. QED
    BY <2>1, <2>2, <2>5, <2>6, NothingMoves
<1>2. CASE StopDriver
  <2>1. /\ UNCHANGED <<pkt_pool, free_pkt_queue_, pkt_queue_, pkt_batch, content, received,
                       msgs, k, recv, handle, process>>
        /\ UNCHANGED <<point_cloud_, sending, free_point_cloud_queue_,
                       point_cloud_queue_, delivered>>
        /\ points' = [points EXCEPT ![point_cloud_] = <<>>]
        /\ main' = "join process"
    BY <1>2 DEF StopDriver
  <2>2. <<>> \in Seq(Nat)
    OBVIOUS
  <2>3. points' \in [Clouds -> Seq(Nat)]
    BY <2>1, <2>2 DEF DriverInv, DriverTypes
  <2>4. DriverTypes'
    BY <2>1, <2>3 DEF DriverInv, DriverTypes
  <2>5. InHand' /\ BuffersApart' /\ CloudsApart'
    BY <2>1 DEF DriverInv, InHand, BuffersApart, CloudsApart
  <2>6. Accounted'
    BY <2>1 DEF Accounted, Running
  <2>7. QED  BY <2>4, <2>5, <2>6 DEF DriverInv
<1>3. QED
  BY <1>1, <1>2 DEF MainNext

-----------------------------------------------------------------------------
\* What four sets hold.
LEMMA FourHeld ==
  ASSUME NEW A, NEW B, NEW C, NEW D
  PROVE  UNION ToSet(<<A, B, C, D>>) = A \cup B \cup C \cup D
<1>1. ToSet(<<A, B, C, D>>) = {A, B, C, D}
  BY DEF ToSet
<1>2. QED  BY <1>1

\* A slot of the pool gets a buffer that nobody holds.
LEMMA PacketGetKeeps == DriverInv /\ packetGet => DriverInv'
<1> SUFFICES ASSUME DriverInv, packetGet  PROVE DriverInv'
  OBVIOUS
<1>1. PICK i \in 1..Vlen :
        /\ pkt_pool[i] = 0
        /\ IF free_pkt_queue_ = <<>>
           THEN /\ \E b \in Fresh(Buffers, BuffersHeld) : pkt_pool' = [pkt_pool EXCEPT ![i] = b]
                /\ UNCHANGED free_pkt_queue_
           ELSE /\ pkt_pool' = [pkt_pool EXCEPT ![i] = Head(free_pkt_queue_)]
                /\ free_pkt_queue_' = Tail(free_pkt_queue_)
  BY DEF packetGet
<1>2. /\ recv = "refill" /\ recv' = recv /\ main' = main
      /\ UNCHANGED <<handle, process, pkt_queue_, pkt_batch, content, received, msgs, k>>
      /\ UNCHANGED <<point_cloud_, points, sending, free_point_cloud_queue_,
                     point_cloud_queue_, delivered>>
  BY DEF packetGet, handleVars, cloudVars, dataVars
<1>3. PICK b \in Buffers :
        /\ pkt_pool' = [pkt_pool EXCEPT ![i] = b]
        /\ free_pkt_queue_' \in Seq(Buffers) /\ IsInjective(free_pkt_queue_')
        /\ ToSet(free_pkt_queue_') \subseteq ToSet(free_pkt_queue_)
        /\ b \notin ToSet(free_pkt_queue_') /\ b \notin ToSet(pkt_queue_)
        /\ b \notin ToSet(pkt_batch) /\ \A j \in 1..Vlen : pkt_pool[j] # b
  <2>1. CASE free_pkt_queue_ = <<>>
    <3>1. PICK b \in Fresh(Buffers, BuffersHeld) : pkt_pool' = [pkt_pool EXCEPT ![i] = b]
      BY <1>1, <2>1
    <3>2. b \in Buffers /\ b \notin UNION ToSet(BuffersHeld)
      BY <3>1 DEF Fresh
    <3>3. /\ b \notin InPool /\ b \notin ToSet(free_pkt_queue_)
          /\ b \notin ToSet(pkt_queue_) /\ b \notin ToSet(pkt_batch)
      BY <3>2, FourHeld DEF BuffersHeld
    <3>4. \A j \in 1..Vlen : pkt_pool[j] # b
      BY <3>2, <3>3, NoNull DEF InPool
    <3>5. free_pkt_queue_' = free_pkt_queue_
      BY <1>1, <2>1
    <3>6. free_pkt_queue_ \in Seq(Buffers) /\ IsInjective(free_pkt_queue_)
      BY DEF DriverInv, DriverTypes, BuffersApart
    <3>7. QED  BY <3>1, <3>2, <3>3, <3>4, <3>5, <3>6
  <2>2. CASE free_pkt_queue_ # <<>>
    <3>1. /\ pkt_pool' = [pkt_pool EXCEPT ![i] = Head(free_pkt_queue_)]
          /\ free_pkt_queue_' = Tail(free_pkt_queue_)
          /\ free_pkt_queue_ \in Seq(Buffers) /\ IsInjective(free_pkt_queue_)
      BY <1>1, <2>2 DEF DriverInv, DriverTypes, BuffersApart
    <3>2. /\ Head(free_pkt_queue_) \in Buffers /\ Tail(free_pkt_queue_) \in Seq(Buffers)
          /\ Head(free_pkt_queue_) \in ToSet(free_pkt_queue_)
          /\ ToSet(Tail(free_pkt_queue_)) \subseteq ToSet(free_pkt_queue_)
          /\ IsInjective(Tail(free_pkt_queue_))
          /\ Head(free_pkt_queue_) \notin ToSet(Tail(free_pkt_queue_))
      BY <2>2, <3>1, TailHolds
    <3> DEFINE b == Head(free_pkt_queue_)
    <3> HIDE DEF b
    <3>3. /\ b \notin ToSet(pkt_queue_) /\ b \notin ToSet(pkt_batch)
          /\ \A j \in 1..Vlen : pkt_pool[j] # b
      BY <3>2 DEF b, DriverInv, BuffersApart
    <3>4. QED  BY <3>1, <3>2, <3>3 DEF b
  <2>3. QED  BY <2>1, <2>2
<1>4. /\ pkt_pool' \in [1..Vlen -> Buffers \cup {0}]
      /\ \A j \in 1..Vlen : pkt_pool'[j] = IF j = i THEN b ELSE pkt_pool[j]
  BY <1>3 DEF DriverInv, DriverTypes
<1>5. DriverTypes' /\ InHand'
  BY <1>2, <1>3, <1>4 DEF DriverInv, DriverTypes, InHand
<1>6. BuffersApart'
  <2>1. (\A j, l \in 1..Vlen : j # l /\ pkt_pool[j] # 0 => pkt_pool[j] # pkt_pool[l])'
    BY <1>1, <1>3, <1>4 DEF DriverInv, BuffersApart
  <2>2. \A j \in 1..Vlen :
          /\ pkt_pool'[j] \notin ToSet(free_pkt_queue_')
          /\ pkt_pool'[j] \notin ToSet(pkt_queue_) /\ pkt_pool'[j] \notin ToSet(pkt_batch)
    BY <1>3, <1>4 DEF DriverInv, BuffersApart
  <2>3. /\ ToSet(free_pkt_queue_') \cap ToSet(pkt_queue_) = {}
        /\ ToSet(free_pkt_queue_') \cap ToSet(pkt_batch) = {}
    BY <1>3 DEF DriverInv, BuffersApart
  <2>4. QED  BY <1>2, <1>3, <2>1, <2>2, <2>3 DEF DriverInv, BuffersApart
<1>7. CloudsApart'
  BY <1>2 DEF DriverInv, CloudsApart
<1>8. Accounted'
  <2> SUFFICES ASSUME Running'  PROVE \E d \in Nat : InClouds(d)' /\ InBuffers(d)'
    BY DEF Accounted
  <2>1. PICK d \in Nat : InClouds(d) /\ InBuffers(d)
    BY <1>2 DEF DriverInv, Accounted, Running
  <2>2. QED
    BY <1>2, <2>1, CloudsKept, BuffersKept
<1>9. QED  BY <1>5, <1>6, <1>7, <1>8 DEF DriverInv

\* Arithmetic that the flow of packets needs.
LEMMA SumIsNat == ASSUME NEW a \in Nat, NEW b \in Nat  PROVE a + b \in Nat
OBVIOUS

LEMMA CountedBack ==
  ASSUME NEW r \in Nat, NEW a \in Nat, NEW b \in Nat
  PROVE  r + a = (r + (a + b)) - b
OBVIOUS

\* recvmmsg writes into buffers of the pool only, the packets after the last.
LEMMA RecvmmsgKeeps == DriverInv /\ recvmmsg => DriverInv'
<1> SUFFICES ASSUME DriverInv, recvmmsg  PROVE DriverInv'
  OBVIOUS
<1>0. PICK n \in 0..Vlen : \E lengths \in [1..n -> BOOLEAN] :
           /\ msgs' = lengths
           /\ content' = [b \in Buffers |->
                IF \E i \in 1..n : pkt_pool[i] = b
                THEN LET i == CHOOSE j \in 1..n : pkt_pool[j] = b
                     IN IF lengths[i] THEN received + PacketsIn(lengths, 1, i) ELSE 0
                ELSE content[b]]
           /\ received' = received + PacketsIn(lengths, 1, n)
  BY DEF recvmmsg
<1>1. PICK lengths \in [1..n -> BOOLEAN] :
           /\ msgs' = lengths
           /\ content' = [b \in Buffers |->
                IF \E i \in 1..n : pkt_pool[i] = b
                THEN LET i == CHOOSE j \in 1..n : pkt_pool[j] = b
                     IN IF lengths[i] THEN received + PacketsIn(lengths, 1, i) ELSE 0
                ELSE content[b]]
           /\ received' = received + PacketsIn(lengths, 1, n)
  BY <1>0
<1>2. /\ recv = "refill" /\ recv' = "push" /\ k' = 1 /\ main' = main
      /\ \A i \in 1..Vlen : pkt_pool[i] # 0
      /\ UNCHANGED <<pkt_pool, handle, process, free_pkt_queue_, pkt_queue_, pkt_batch>>
      /\ UNCHANGED <<point_cloud_, points, sending, free_point_cloud_queue_,
                     point_cloud_queue_, delivered>>
  BY DEF recvmmsg, handleVars, cloudVars, ringVars
<1>3. /\ n \in Nat /\ n <= Vlen /\ Vlen \in Nat /\ received \in Nat
      /\ \A i \in Int : PacketsIn(lengths, 1, i) \in Nat /\ PacketsIn(lengths, i, n) \in Nat
      /\ \A i \in 1..n : i \in 1..Vlen /\ i \in Int /\ i + 1 \in Int
      /\ received' = received + PacketsIn(lengths, 1, n) /\ received' \in Nat
  <2>1. n \in Nat /\ n <= Vlen /\ Vlen \in Nat /\ received \in Nat
    BY DriverAssumption DEF DriverInv, DriverTypes
  <2>2. n \in Int /\ 1 \in Int
    BY <2>1
  <2>3. ASSUME NEW i \in Int
        PROVE  PacketsIn(lengths, 1, i) \in Nat /\ PacketsIn(lengths, i, n) \in Nat
    BY <2>2, PacketsInNat
  <2>4. \A i \in 1..n : i \in 1..Vlen /\ i \in Int /\ i + 1 \in Int
    BY <2>1
  <2>5. received' = received + PacketsIn(lengths, 1, n)
    BY <1>1
  <2>6. received' \in Nat
    <3>1. PacketsIn(lengths, 1, n) \in Nat
      BY <2>2, <2>3
    <3>2. QED  BY <2>1, <2>5, <3>1, SumIsNat
  <2>7. QED  BY <2>1, <2>3, <2>4, <2>5, <2>6
<1>4. lengths \in Seq(BOOLEAN) /\ Len(lengths) = n
  BY <1>3
<1>5. \A i, j \in 1..n : pkt_pool[i] = pkt_pool[j] => i = j
  BY <1>2, <1>3 DEF DriverInv, BuffersApart
<1>6. ASSUME NEW i \in 1..n
      PROVE  /\ pkt_pool[i] \in Buffers
             /\ content'[pkt_pool[i]] =
                  IF lengths[i] THEN received + PacketsIn(lengths, 1, i) ELSE 0
  <2>1. pkt_pool[i] \in Buffers
    BY <1>2, <1>3 DEF DriverInv, DriverTypes
  <2>2. (CHOOSE j \in 1..n : pkt_pool[j] = pkt_pool[i]) = i
    BY <1>5
  <2>3. QED  BY <1>1, <2>1, <2>2
<1>7. content' \in [Buffers -> Nat]
  <2>1. ASSUME NEW b \in Buffers  PROVE content'[b] \in Nat
    <3>1. CASE \E i \in 1..n : pkt_pool[i] = b
      <4>1. PICK i \in 1..n : pkt_pool[i] = b
        BY <3>1
      <4>2. received + PacketsIn(lengths, 1, i) \in Nat
        <5>1. i \in Int
          BY <1>3, <4>1
        <5>2. PacketsIn(lengths, 1, i) \in Nat
          BY <1>3, <5>1
        <5>3. QED  BY <1>3, <5>2, SumIsNat
      <4>3. QED  BY <1>6, <4>1, <4>2
    <3>2. CASE ~\E i \in 1..n : pkt_pool[i] = b
      BY <1>1, <3>2 DEF DriverInv, DriverTypes
    <3>3. QED  BY <3>1, <3>2
  <2>2. content' = [b \in Buffers |-> content'[b]]
    BY <1>1
  <2>3. QED  BY <2>1, <2>2
<1>8. ASSUME NEW b \in Buffers, \A i \in 1..Vlen : pkt_pool[i] # b
      PROVE  content'[b] = content[b]
  <2>1. ~\E i \in 1..n : pkt_pool[i] = b
    BY <1>3, <1>8
  <2>2. QED  BY <1>1, <2>1
<1>9. DriverTypes'
  <2>1. received' \in Nat /\ msgs' \in Seq(BOOLEAN) /\ Len(msgs') <= Vlen
    BY <1>1, <1>3, <1>4
  <2>2. QED  BY <1>2, <1>7, <2>1 DEF DriverInv, DriverTypes
<1>10. InHand'
  <2>1. k' \in 1..Len(msgs') + 1 /\ \A i \in k'..Len(msgs') : pkt_pool'[i] # 0
    BY <1>1, <1>2, <1>3, <1>4
  <2>2. main' # "init"
    BY <1>2 DEF DriverInv, InHand
  <2>3. QED  BY <1>2, <2>1, <2>2 DEF DriverInv, InHand
<1>11. BuffersApart' /\ CloudsApart'
  BY <1>2 DEF DriverInv, BuffersApart, CloudsApart
<1>12. Accounted'
  <2> SUFFICES ASSUME Running'  PROVE \E d \in Nat : InClouds(d)' /\ InBuffers(d)'
    BY DEF Accounted
  <2>1. PICK d \in Nat : InClouds(d) /\ InBuffers(d)
    BY <1>2 DEF DriverInv, Accounted, Running
  <2>2. InClouds(d)'
    BY <1>2, <2>1, CloudsKept
  <2>3. d + Len(pkt_batch) + Len(pkt_queue_) = received
    <3>1. Unpushed(k) = 0
      BY <1>2 DEF Unpushed
    <3>2. Len(pkt_batch) \in Nat /\ Len(pkt_queue_) \in Nat
      BY DEF DriverInv, DriverTypes
    <3>3. QED  BY <2>1, <3>1, <3>2 DEF InBuffers
  <2>4. \A i \in Int : Unpushed(i)' = PacketsIn(lengths, i, n)
    BY <1>1, <1>2, <1>4 DEF Unpushed
  <2>5. (d + Len(pkt_batch) + Len(pkt_queue_) + Unpushed(k) = received)'
    <3>1. Len(pkt_batch) \in Nat /\ Len(pkt_queue_) \in Nat
      BY DEF DriverInv, DriverTypes
    <3>2. Unpushed(k)' = PacketsIn(lengths, 1, n)
      BY <1>1, <1>2, <1>4 DEF Unpushed
    <3>3. QED  BY <1>2, <1>3, <2>3, <3>1, <3>2
  <2>6. ASSUME NEW s \in Seq(Buffers), \A i \in 1..Vlen : pkt_pool[i] \notin ToSet(s),
               NEW m, Hold(s, m)
        PROVE  \A i \in 1..Len(s) : content'[s[i]] = m + i
    <3>1. ASSUME NEW i \in 1..Len(s)
          PROVE  s[i] \in Buffers /\ s[i] \in ToSet(s)
      BY DEF ToSet
    <3>2. QED  BY <1>8, <2>6, <3>1 DEF Hold
  <2>7. /\ pkt_batch \in Seq(Buffers) /\ pkt_queue_ \in Seq(Buffers)
        /\ \A i \in 1..Vlen : pkt_pool[i] \notin ToSet(pkt_batch) /\ pkt_pool[i] \notin ToSet(pkt_queue_)
    BY DEF DriverInv, DriverTypes, BuffersApart
  <2>8. Hold(pkt_batch, d)' /\ Hold(pkt_queue_, d + Len(pkt_batch))'
    <3>1. Hold(pkt_batch, d) /\ Hold(pkt_queue_, d + Len(pkt_batch))
      BY <2>1 DEF InBuffers
    <3>2. \A i \in 1..Len(pkt_batch) : content'[pkt_batch[i]] = d + i
      BY <2>6, <2>7, <3>1, Zenon
    <3>3. \A i \in 1..Len(pkt_queue_) : content'[pkt_queue_[i]] = d + Len(pkt_batch) + i
      BY <2>6, <2>7, <3>1, Zenon
    <3>4. pkt_batch' = pkt_batch /\ pkt_queue_' = pkt_queue_
      BY <1>2
    <3>5. QED  BY <3>2, <3>3, <3>4, Zenon DEF Hold
  <2>9. ASSUME NEW i \in 1..n, lengths[i]
        PROVE  content'[pkt_pool[i]] = received' - PacketsIn(lengths, i + 1, n)
    <3>1. PacketsIn(lengths, 1, n) = PacketsIn(lengths, 1, i) + PacketsIn(lengths, i + 1, n)
      BY <1>3, i \in 1 - 1..n, n \in Int, PacketsInSplit
    <3>2. content'[pkt_pool[i]] = received + PacketsIn(lengths, 1, i)
      BY <1>6, <2>9
    <3>3. PacketsIn(lengths, 1, i) \in Nat /\ PacketsIn(lengths, i + 1, n) \in Nat
      BY <1>3
    <3>4. received' = received + (PacketsIn(lengths, 1, i) + PacketsIn(lengths, i + 1, n))
      BY <1>3, <3>1, Zenon
    <3>5. received \in Nat
      BY <1>3
    <3>6. received + PacketsIn(lengths, 1, i)
            = (received + (PacketsIn(lengths, 1, i) + PacketsIn(lengths, i + 1, n)))
                - PacketsIn(lengths, i + 1, n)
      BY <3>3, <3>5, CountedBack, Zenon
    <3>7. QED  BY <3>2, <3>4, <3>6, Zenon
  <2>10. (\A i \in k..Len(msgs) : msgs[i] => content[pkt_pool[i]] = received - Unpushed(i + 1))'
    <3>1. \A i \in 1..n : i + 1 \in Int
      BY <1>3
    <3>2. QED  BY <1>1, <1>2, <1>4, <2>4, <2>9, <3>1, SMTT(20)
  <2>11. InBuffers(d)'
    BY <2>5, <2>8, <2>10 DEF InBuffers
  <2>12. QED  BY <2>2, <2>11
<1>13. QED  BY <1>9, <1>10, <1>11, <1>12 DEF DriverInv

\* packetPut moves a buffer from the pool to the end of the queue.
LEMMA PacketPutKeeps == DriverInv /\ packetPut => DriverInv'
<1> SUFFICES ASSUME DriverInv, packetPut  PROVE DriverInv'
  OBVIOUS
<1>1. /\ recv = "push" /\ recv' = recv /\ k <= Len(msgs) /\ k' = k + 1 /\ main' = main
      /\ UNCHANGED <<handle, process, free_pkt_queue_, pkt_batch, content, received, msgs>>
      /\ UNCHANGED <<point_cloud_, points, sending, free_point_cloud_queue_,
                     point_cloud_queue_, delivered>>
  BY DEF packetPut, handleVars, cloudVars, dataVars
<1>2. /\ k \in 1..Len(msgs) /\ k \in 1..Vlen /\ k \in Int /\ Len(msgs) \in Nat
      /\ msgs \in Seq(BOOLEAN) /\ msgs[k] \in BOOLEAN /\ pkt_pool[k] \in Buffers
      /\ received \in Nat
  <2>1. /\ k \in 1..Len(msgs) /\ Len(msgs) \in Nat /\ Len(msgs) <= Vlen
        /\ msgs \in Seq(BOOLEAN) /\ received \in Nat /\ pkt_pool[k] # 0
    BY <1>1 DEF DriverInv, DriverTypes, InHand
  <2>2. k \in 1..Vlen /\ k \in Int /\ msgs[k] \in BOOLEAN
    BY <2>1, DriverAssumption
  <2>3. QED  BY <2>1, <2>2 DEF DriverInv, DriverTypes
<1>3. main' # "init"
  BY <1>1 DEF DriverInv, InHand
<1>4. \A i \in Int : Unpushed(i) = PacketsIn(msgs, i, Len(msgs)) /\ Unpushed(i)' = Unpushed(i)
  BY <1>1 DEF Unpushed
<1>5. Unpushed(k)' = Unpushed(k + 1) /\ Unpushed(k + 1) \in Nat
  <2>1. k + 1 \in Int /\ Len(msgs) \in Int
    BY <1>2
  <2>2. Unpushed(k)' = PacketsIn(msgs, k + 1, Len(msgs))
    BY <1>1 DEF Unpushed
  <2>3. QED  BY <1>4, <2>1, <2>2, PacketsInNat
<1>6. CloudsApart'
  BY <1>1 DEF DriverInv, CloudsApart
<1>7. CASE ~msgs[k]
  <2>1. UNCHANGED <<pkt_queue_, pkt_pool>>
    BY <1>7 DEF packetPut
  <2>2. DriverTypes'
    BY <1>1, <1>2, <2>1 DEF DriverInv, DriverTypes
  <2>3. InHand'
    BY <1>1, <1>2, <1>3, <2>1 DEF DriverInv, InHand
  <2>4. BuffersApart'
    BY <1>1, <2>1 DEF DriverInv, BuffersApart
  <2>5. Unpushed(k) = Unpushed(k + 1)
    BY <1>2, <1>4, <1>7, k + 1 \in Int, Len(msgs) \in Int, PacketsInFirst
  <2>6. Accounted'
    <3> SUFFICES ASSUME Running'  PROVE \E d \in Nat : InClouds(d)' /\ InBuffers(d)'
      BY DEF Accounted
    <3>1. PICK d \in Nat : InClouds(d) /\ InBuffers(d)
      BY <1>1 DEF DriverInv, Accounted, Running
    <3>2. InClouds(d)'
      BY <1>1, <3>1, CloudsKept
    <3>3. \A i \in k + 1..Len(msgs) : i \in k..Len(msgs) /\ i + 1 \in Int
      BY <1>2
    <3>4. InBuffers(d)'
      BY <1>1, <1>4, <1>5, <2>1, <2>5, <3>1, <3>3 DEF InBuffers, Hold
    <3>5. QED  BY <3>2, <3>4
  <2>7. QED  BY <1>6, <2>2, <2>3, <2>4, <2>6 DEF DriverInv
<1>8. CASE msgs[k]
  <2> DEFINE b == pkt_pool[k]
  <2>1. pkt_queue_' = Append(pkt_queue_, b) /\ pkt_pool' = [pkt_pool EXCEPT ![k] = 0]
    BY <1>8 DEF packetPut, Pushed
  <2>2. b \in Buffers
    BY <1>2
  <2>3. /\ \A i \in 1..Vlen : pkt_pool'[i] = IF i = k THEN 0 ELSE pkt_pool[i]
        /\ pkt_pool' \in [1..Vlen -> Buffers \cup {0}]
    BY <2>1 DEF DriverInv, DriverTypes
  <2>4. /\ \A i \in 1..Vlen : i # k => pkt_pool[i] # b
        /\ b \notin ToSet(free_pkt_queue_) /\ b \notin ToSet(pkt_queue_)
        /\ b \notin ToSet(pkt_batch)
    BY <1>2, <2>2, NoNull DEF DriverInv, BuffersApart
  <2> HIDE DEF b
  <2>5. /\ pkt_queue_' \in Seq(Buffers) /\ Len(pkt_queue_') = Len(pkt_queue_) + 1
        /\ Len(pkt_queue_) \in Nat
        /\ \A i \in 1..Len(pkt_queue_) : pkt_queue_'[i] = pkt_queue_[i]
        /\ pkt_queue_'[Len(pkt_queue_) + 1] = b
        /\ ToSet(pkt_queue_') = ToSet(pkt_queue_) \cup {b} /\ IsInjective(pkt_queue_')
    BY <2>1, <2>2, <2>4, AppendHolds DEF DriverInv, DriverTypes, BuffersApart
  <2>6. DriverTypes'
    BY <1>1, <1>2, <2>3, <2>5, SMTT(20) DEF DriverInv, DriverTypes
  <2>7. InHand'
    <3>1. \A i \in k + 1..Len(msgs) : i \in 1..Vlen /\ i # k /\ i \in k..Len(msgs)
      BY <1>2, DriverAssumption DEF DriverInv, DriverTypes
    <3>2. \A i \in k'..Len(msgs') : pkt_pool'[i] # 0
      BY <1>1, <2>3, <3>1 DEF DriverInv, InHand
    <3>3. k' \in 1..Len(msgs') + 1
      BY <1>1, <1>2
    <3>4. QED  BY <1>1, <1>3, <3>2, <3>3 DEF DriverInv, InHand
  <2>8. BuffersApart'
    <3>1. (\A i, j \in 1..Vlen : i # j /\ pkt_pool[i] # 0 => pkt_pool[i] # pkt_pool[j])'
      BY <2>3 DEF DriverInv, BuffersApart
    <3>2. /\ 0 \notin ToSet(free_pkt_queue_) /\ 0 \notin ToSet(pkt_queue_')
          /\ 0 \notin ToSet(pkt_batch)
      BY <2>5, ToSetType, NoNull DEF DriverInv, DriverTypes
    <3>3. \A i \in 1..Vlen :
            /\ pkt_pool'[i] \notin ToSet(free_pkt_queue_)
            /\ pkt_pool'[i] \notin ToSet(pkt_queue_') /\ pkt_pool'[i] \notin ToSet(pkt_batch)
      BY <2>3, <2>4, <2>5, <3>2 DEF DriverInv, BuffersApart
    <3>4. /\ ToSet(free_pkt_queue_) \cap ToSet(pkt_queue_') = {}
          /\ ToSet(pkt_queue_') \cap ToSet(pkt_batch) = {}
      BY <2>4, <2>5 DEF DriverInv, BuffersApart
    <3>5. QED  BY <1>1, <2>5, <3>1, <3>3, <3>4 DEF DriverInv, BuffersApart
  <2>9. Accounted'
    <3> SUFFICES ASSUME Running'  PROVE \E d \in Nat : InClouds(d)' /\ InBuffers(d)'
      BY DEF Accounted
    <3>1. PICK d \in Nat : InClouds(d) /\ InBuffers(d)
      BY <1>1 DEF DriverInv, Accounted, Running
    <3>2. InClouds(d)'
      BY <1>1, <3>1, CloudsKept
    <3>3. Unpushed(k) = Unpushed(k + 1) + 1
      BY <1>2, <1>4, <1>8, k + 1 \in Int, Len(msgs) \in Int, PacketsInFirst
    <3>4. Len(pkt_batch) \in Nat
      BY DEF DriverInv, DriverTypes
    <3>5. (d + Len(pkt_batch) + Len(pkt_queue_) + Unpushed(k) = received)'
      BY <1>1, <1>5, <2>5, <3>1, <3>3, <3>4 DEF InBuffers
    <3>6. content[b] = d + Len(pkt_batch) + (Len(pkt_queue_) + 1)
      <4>1. content[b] = received - Unpushed(k + 1)
        BY <1>1, <1>2, <1>8, <3>1 DEF InBuffers, b
      <4>2. QED  BY <1>2, <1>5, <2>5, <3>1, <3>3, <3>4, <4>1, SMTT(20) DEF InBuffers
    <3>7. ASSUME NEW i \in 1..Len(pkt_queue_')
          PROVE  content[pkt_queue_'[i]] = d + Len(pkt_batch) + i
      <4>1. i \in 1..Len(pkt_queue_) \/ i = Len(pkt_queue_) + 1
        BY <2>5
      <4>2. QED  BY <2>5, <3>1, <3>6, <4>1 DEF InBuffers, Hold
    <3>8. Hold(pkt_batch, d)' /\ Hold(pkt_queue_, d + Len(pkt_batch))'
      BY <1>1, <3>1, <3>7 DEF InBuffers, Hold
    <3>9. ASSUME NEW i \in k + 1..Len(msgs), msgs[i]
          PROVE  content[pkt_pool'[i]] = received - Unpushed(i + 1)
      <4>1. i \in k..Len(msgs) /\ i \in 1..Vlen /\ i # k
        BY <1>2, DriverAssumption DEF DriverInv, DriverTypes
      <4>2. QED  BY <1>1, <2>3, <3>1, <3>9, <4>1 DEF InBuffers
    <3>10. (\A i \in k..Len(msgs) : msgs[i] => content[pkt_pool[i]] = received - Unpushed(i + 1))'
      <4>1. \A i \in k + 1..Len(msgs) : i + 1 \in Int
        BY <1>2
      <4>2. QED  BY <1>1, <1>4, <3>9, <4>1
    <3>11. InBuffers(d)'
      BY <1>1, <3>5, <3>8, <3>10 DEF InBuffers
    <3>12. QED  BY <3>2, <3>11
  <2>10. QED  BY <1>6, <2>6, <2>7, <2>8, <2>9 DEF DriverInv
<1>9. QED  BY <1>7, <1>8

\* All steps of the receiving thread.
LEMMA ReceiverKeeps == DriverInv /\ recvPacket => DriverInv'
<1> SUFFICES ASSUME DriverInv, recvPacket  PROVE DriverInv'
  OBVIOUS
<1>1. CASE Select
  <2>1. /\ recv = "select" /\ recv' \in {"off", "refill"} /\ main' = main
        /\ UNCHANGED <<pkt_pool, free_pkt_queue_, pkt_queue_, pkt_batch, content, received,
                       msgs, k, handle, process>>
        /\ UNCHANGED <<point_cloud_, points, sending, free_point_cloud_queue_,
                       point_cloud_queue_, delivered>>
    BY <1>1 DEF Select, handleVars, cloudVars, ringVars, dataVars
  <2>2. main' # "init" /\ (Running' => Running)
    BY <2>1 DEF DriverInv, InHand, Running
  <2>3. QED  BY <2>1, <2>2, NothingMoves
<1>2. CASE RecvNext
  <2>1. /\ recv = "push" /\ recv' = "select" /\ k > Len(msgs) /\ k' = 0 /\ msgs' = <<>>
        /\ main' = main
        /\ UNCHANGED <<pkt_pool, free_pkt_queue_, pkt_queue_, pkt_batch, content, received,
                       handle, process>>
        /\ UNCHANGED <<point_cloud_, points, sending, free_point_cloud_queue_,
                       point_cloud_queue_, delivered>>
    BY <1>2 DEF RecvNext, handleVars, cloudVars, ringVars, dataVars
  <2>2. msgs' \in Seq(BOOLEAN) /\ Len(msgs') <= Vlen
    BY <2>1, DriverAssumption
  <2>3. DriverTypes'
    BY <2>1, <2>2 DEF DriverInv, DriverTypes
  <2>4. InHand' /\ BuffersApart' /\ CloudsApart'
    BY <2>1 DEF DriverInv, InHand, BuffersApart, CloudsApart
  <2>5. Unpushed(k) = 0 /\ Unpushed(k)' = 0
    <3>1. k \in Int /\ Len(msgs) \in Int
      BY DEF DriverInv, DriverTypes
    <3>2. QED  BY <2>1, <3>1, PacketsInNone DEF Unpushed
  <2>6. Accounted'
    <3> SUFFICES ASSUME Running'  PROVE \E d \in Nat : InClouds(d)' /\ InBuffers(d)'
      BY DEF Accounted
    <3>1. PICK d \in Nat : InClouds(d) /\ InBuffers(d)
      BY <2>1 DEF DriverInv, Accounted, Running
    <3>2. InClouds(d)'
      BY <2>1, <3>1, CloudsKept
    <3>3. InBuffers(d)'
      BY <2>1, <2>5, <3>1 DEF InBuffers, Hold
    <3>4. QED  BY <3>2, <3>3
  <2>7. QED  BY <2>3, <2>4, <2>6 DEF DriverInv
<1>3. QED
  BY <1>1, <1>2, PacketGetKeeps, RecvmmsgKeeps, PacketPutKeeps DEF recvPacket

-----------------------------------------------------------------------------
\* popBatch takes the first buffers of the queue when the last batch is done.
LEMMA PopBatchKeeps == DriverInv /\ popBatch => DriverInv'
<1> SUFFICES ASSUME DriverInv, popBatch  PROVE DriverInv'
  OBVIOUS
<1>1. /\ handle = "pop" /\ pkt_batch = <<>> /\ main' = main /\ main' # "init"
      /\ UNCHANGED <<recv, process, pkt_pool, free_pkt_queue_, content, received, msgs, k>>
      /\ UNCHANGED <<point_cloud_, points, sending, free_point_cloud_queue_,
                     point_cloud_queue_, delivered>>
  BY DEF popBatch, recvVars, cloudVars, dataVars, DriverInv, InHand
<1>2. Running' => Running
  BY <1>1 DEF Running
<1>3. CASE to_exit_handle_ /\ handle' = "off" /\ UNCHANGED <<pkt_batch, pkt_queue_>>
  <2>1. recv' \in {"off", "select", "refill", "push"}
    BY <1>1 DEF DriverInv, DriverTypes
  <2>2. QED  BY <1>1, <1>2, <1>3, <2>1, NothingMoves
<1>4. CASE ~(to_exit_handle_ /\ handle' = "off" /\ UNCHANGED <<pkt_batch, pkt_queue_>>)
  <2> DEFINE n == IF Len(pkt_queue_) < PacketBatch THEN Len(pkt_queue_) ELSE PacketBatch
             first == SubSeq(pkt_queue_, 1, n)
             rest == SubSeq(pkt_queue_, n + 1, Len(pkt_queue_))
  <2>1. /\ pkt_queue_ # <<>> /\ pkt_queue_ \in Seq(Buffers) /\ IsInjective(pkt_queue_)
        /\ pkt_batch' = first /\ pkt_queue_' = rest /\ handle' = "packet"
    BY <1>4 DEF popBatch, Available, DriverInv, DriverTypes, BuffersApart
  <2>2. n \in 1..Len(pkt_queue_) /\ n \in 0..Len(pkt_queue_) /\ Len(pkt_queue_) \in Nat
    <3>1. Len(pkt_queue_) \in Nat \ {0}
      BY <2>1
    <3>2. PacketBatch \in Nat \ {0}
      BY DriverAssumption
    <3>3. QED  BY <3>1, <3>2
  <2> HIDE DEF n
  <2>3. /\ first \in Seq(Buffers) /\ Len(first) = n /\ \A i \in 1..n : first[i] = pkt_queue_[i]
        /\ rest \in Seq(Buffers) /\ Len(rest) = Len(pkt_queue_) - n
        /\ \A i \in 1..Len(pkt_queue_) - n : rest[i] = pkt_queue_[n + i]
        /\ ToSet(first) \subseteq ToSet(pkt_queue_) /\ ToSet(rest) \subseteq ToSet(pkt_queue_)
        /\ IsInjective(first) /\ IsInjective(rest) /\ ToSet(first) \cap ToSet(rest) = {}
    BY <2>1, <2>2, SplitHolds
  <2> HIDE DEF first, rest
  <2>4. DriverTypes'
    BY <1>1, <2>1, <2>3 DEF DriverInv, DriverTypes
  <2>5. InHand'
    <3>1. pkt_batch' # <<>>
      <4>1. Len(pkt_batch') # 0
        BY <2>1, <2>2, <2>3
      <4>2. QED  BY <4>1
    <3>2. QED  BY <1>1, <2>1, <3>1 DEF DriverInv, InHand
  <2>6. BuffersApart'
    <3>1. \A i \in 1..Vlen : pkt_pool[i] \notin ToSet(first) /\ pkt_pool[i] \notin ToSet(rest)
      BY <2>3 DEF DriverInv, BuffersApart
    <3>2. ToSet(free_pkt_queue_) \cap ToSet(first) = {} /\ ToSet(free_pkt_queue_) \cap ToSet(rest) = {}
      BY <2>3 DEF DriverInv, BuffersApart
    <3>3. ToSet(rest) \cap ToSet(first) = {}
      BY <2>3
    <3>4. QED  BY <1>1, <2>1, <2>3, <3>1, <3>2, <3>3 DEF DriverInv, BuffersApart
  <2>7. CloudsApart'
    BY <1>1, <2>1 DEF DriverInv, CloudsApart
  <2>8. Accounted'
    <3> SUFFICES ASSUME Running'  PROVE \E d \in Nat : InClouds(d)' /\ InBuffers(d)'
      BY DEF Accounted
    <3>1. PICK d \in Nat : InClouds(d) /\ InBuffers(d)
      BY <1>2 DEF DriverInv, Accounted
    <3>2. InClouds(d)'
      <4>1. handle' = "cloud" <=> handle = "cloud"
        BY <1>1, <2>1
      <4>2. QED  BY <1>1, <3>1, <4>1, CloudsKept
    <3>3. Len(pkt_batch) = 0
      BY <1>1
    <3>4. /\ d + Len(pkt_queue_) + Unpushed(k) = received
          /\ \A i \in 1..Len(pkt_queue_) : content[pkt_queue_[i]] = d + i
      <4>1. /\ d + 0 + Len(pkt_queue_) + Unpushed(k) = received
            /\ \A i \in 1..Len(pkt_queue_) : content[pkt_queue_[i]] = d + 0 + i
        BY <3>1, <3>3 DEF InBuffers, Hold
      <4>2. d + 0 = d
        OBVIOUS
      <4>3. QED  BY <4>1, <4>2
    <3>5. \A i : Unpushed(i)' = Unpushed(i)
      BY <1>1 DEF Unpushed
    <3>6. Unpushed(k)' = Unpushed(k)
      BY <1>1 DEF Unpushed
    <3>7. d + n + (Len(pkt_queue_) - n) = d + Len(pkt_queue_)
      BY <2>2
    <3>8. (d + Len(pkt_batch) + Len(pkt_queue_) + Unpushed(k) = received)'
      BY <1>1, <2>1, <2>3, <3>4, <3>6, <3>7
    <3>9. ASSUME NEW i \in 1..n  PROVE content[first[i]] = d + i
      <4>1. i \in 1..Len(pkt_queue_)
        BY <2>2
      <4>2. QED  BY <2>3, <3>4, <4>1
    <3>10. ASSUME NEW i \in 1..Len(pkt_queue_) - n  PROVE content[rest[i]] = d + n + i
      <4>1. n + i \in 1..Len(pkt_queue_) /\ d + (n + i) = d + n + i
        BY <2>2
      <4>2. QED  BY <2>3, <3>4, <4>1
    <3>11. Hold(pkt_batch, d)' /\ Hold(pkt_queue_, d + Len(pkt_batch))'
      BY <1>1, <2>1, <2>3, <3>9, <3>10 DEF Hold
    <3>12. InBuffers(d)'
      BY <1>1, <3>1, <3>5, <3>8, <3>11 DEF InBuffers
    <3>13. QED  BY <3>2, <3>12
  <2>9. QED  BY <2>4, <2>5, <2>6, <2>7, <2>8 DEF DriverInv
<1>5. QED  BY <1>3, <1>4

\* splitFrame puts the decoder's cloud at the end of the queue.
LEMMA SplitFrameKeeps == DriverInv /\ splitFrame => DriverInv'
<1> SUFFICES ASSUME DriverInv, splitFrame  PROVE DriverInv'
  OBVIOUS
<1>1. /\ handle = "split" /\ handle' = "cloud" /\ main' = main /\ main' # "init"
      /\ UNCHANGED <<recv, process, pkt_pool, free_pkt_queue_, pkt_queue_, pkt_batch,
                     content, received, msgs, k>>
      /\ UNCHANGED <<point_cloud_, points, sending, free_point_cloud_queue_, delivered>>
      /\ point_cloud_queue_' = Append(point_cloud_queue_, point_cloud_)
  BY DEF splitFrame, recvVars, cloudVars, dataVars, DriverInv, InHand
<1>2. /\ point_cloud_queue_ \in Seq(Clouds) /\ point_cloud_ \in Clouds
      /\ point_cloud_ \notin ToSet(point_cloud_queue_) /\ IsInjective(point_cloud_queue_)
  BY <1>1 DEF DriverInv, DriverTypes, CloudsApart
<1> DEFINE n == Len(point_cloud_queue_)
<1>3. /\ point_cloud_queue_' \in Seq(Clouds) /\ Len(point_cloud_queue_') = n + 1 /\ n \in Nat
      /\ \A i \in 1..n : point_cloud_queue_'[i] = point_cloud_queue_[i]
      /\ point_cloud_queue_'[n + 1] = point_cloud_
      /\ ToSet(point_cloud_queue_') = ToSet(point_cloud_queue_) \cup {point_cloud_}
      /\ IsInjective(point_cloud_queue_')
  BY <1>1, <1>2, AppendHolds
<1>4. DriverTypes' /\ InHand' /\ BuffersApart'
  BY <1>1, <1>3 DEF DriverInv, DriverTypes, InHand, BuffersApart
<1>5. CloudsApart'
  BY <1>1, <1>3 DEF DriverInv, CloudsApart
<1>6. Accounted'
  <2> SUFFICES ASSUME Running'  PROVE \E d \in Nat : InClouds(d)' /\ InBuffers(d)'
    BY DEF Accounted
  <2>1. PICK d \in Nat : InClouds(d) /\ InBuffers(d)
    BY <1>1 DEF DriverInv, Accounted, Running
  <2>2. PICK ends \in [0..n -> 0..d] : ends[n] = d - Len(Decoding) /\ Waiting(ends)
    BY <2>1 DEF InClouds
  <2>3. /\ Decoding = points[point_cloud_] /\ Decoding' = <<>> /\ Sending' = Sending
    BY <1>1 DEF Decoding, Sending
  <2>4. Len(Decoding) \in Nat /\ Follow(Decoding, d - Len(Decoding))
    BY <1>2, <2>1, <2>3 DEF DriverInv, DriverTypes, InClouds
  <2>5. [i \in 0..n + 1 |-> IF i = n + 1 THEN d ELSE ends[i]] \in [0..n + 1 -> 0..d]
    BY <1>3
  <2>6. PICK later \in [0..n + 1 -> 0..d] : later[n + 1] = d /\ \A i \in 0..n : later[i] = ends[i]
    <3> DEFINE f == [i \in 0..n + 1 |-> IF i = n + 1 THEN d ELSE ends[i]]
    <3>1. n + 1 \in 0..n + 1 /\ \A i \in 0..n : i \in 0..n + 1 /\ i # n + 1
      BY <1>3
    <3>2. f[n + 1] = d /\ \A i \in 0..n : f[i] = ends[i]
      BY <3>1
    <3> HIDE DEF f
    <3>3. f \in [0..n + 1 -> 0..d]
      BY <2>5 DEF f
    <3>4. QED  BY <3>2, <3>3
  <2>7. Waiting(later)'
    <3>1. ends[0] = Len(delivered) + Len(Sending)
      BY <2>2 DEF Waiting
    <3>2. later[0] = Len(delivered) + Len(Sending)
      BY <1>3, <2>6, <3>1
    <3>3. ASSUME NEW i \in 1..n + 1
          PROVE  /\ later[i] = later[i - 1] + Len(points[point_cloud_queue_'[i]])
                 /\ Follow(points[point_cloud_queue_'[i]], later[i - 1])
      <4>1. CASE i = n + 1
        <5>1. i - 1 = n /\ n \in 0..n
          BY <1>3, <4>1
        <5>2. later[i - 1] = d - Len(Decoding) /\ later[i] = d
          BY <2>2, <2>6, <4>1, <5>1
        <5>3. d = d - Len(Decoding) + Len(Decoding)
          BY <2>4
        <5>4. points[point_cloud_queue_'[i]] = Decoding
          BY <1>3, <2>3, <4>1
        <5>5. QED  BY <2>4, <5>2, <5>3, <5>4
      <4>2. CASE i # n + 1
        <5>1. i \in 1..n /\ i \in 0..n /\ i - 1 \in 0..n
          BY <1>3, <4>2
        <5>2. QED  BY <1>3, <2>2, <2>6, <5>1 DEF Waiting
      <4>3. QED  BY <4>1, <4>2
    <3>4. /\ points' = points /\ delivered' = delivered /\ Sending' = Sending
          /\ 1..Len(point_cloud_queue_') = 1..n + 1
      BY <1>1, <1>3, <2>3
    <3>5. (later[0] = Len(delivered) + Len(Sending))'
      BY <3>2, <3>4
    <3>6. (\A i \in 1..Len(point_cloud_queue_) :
             later[i] = later[i - 1] + Len(points[point_cloud_queue_[i]]))'
      BY <3>3, <3>4
    <3>7. (\A i \in 1..Len(point_cloud_queue_) :
             Follow(points[point_cloud_queue_[i]], later[i - 1]))'
      BY <3>3, <3>4 DEF Follow
    <3>8. QED  BY <3>5, <3>6, <3>7 DEF Waiting
  <2>8. Follow(<<>>, d - Len(<<>>)) /\ Len(<<>>) = 0 /\ d - 0 = d
    BY DEF Follow
  <2>9. InClouds(d)'
    <3>1. Follow(delivered, 0)' /\ Follow(Sending, Len(delivered))'
      BY <1>1, <2>1, <2>3 DEF InClouds, Follow
    <3>2. (d - Len(Decoding))' = d /\ Follow(Decoding, d - Len(Decoding))'
      BY <2>3, <2>8 DEF Follow
    <3>3. later \in [0..Len(point_cloud_queue_') -> 0..d] /\ later[Len(point_cloud_queue_')] = d
      BY <1>3, <2>6
    <3>4. QED  BY <2>7, <3>1, <3>2, <3>3 DEF InClouds
  <2>10. recv' = recv /\ UNCHANGED <<pkt_pool, msgs, k>>
    BY <1>1
  <2>11. InBuffers(d)'
    BY <1>1, <2>1, <2>10, BuffersKept
  <2>12. QED  BY <2>9, <2>11
<1>7. QED  BY <1>4, <1>5, <1>6 DEF DriverInv

\* getPointCloud empties a cloud that nobody holds, and makes it the decoder's.
LEMMA GetPointCloudKeeps == DriverInv /\ getPointCloud => DriverInv'
<1> SUFFICES ASSUME DriverInv, getPointCloud  PROVE DriverInv'
  OBVIOUS
<1>1. /\ handle = "cloud" /\ handle' = "points" /\ main' = main /\ main' # "init"
      /\ UNCHANGED <<recv, process, pkt_pool, free_pkt_queue_, pkt_queue_, pkt_batch,
                     content, received, msgs, k>>
      /\ UNCHANGED <<sending, point_cloud_queue_, delivered>>
  BY DEF getPointCloud, recvVars, cloudVars, DriverInv, InHand
<1>2. PICK cloud \in Clouds :
        /\ point_cloud_' = cloud /\ points' = [points EXCEPT ![cloud] = <<>>]
        /\ free_point_cloud_queue_' \in Seq(Clouds) /\ IsInjective(free_point_cloud_queue_')
        /\ ToSet(free_point_cloud_queue_') \subseteq ToSet(free_point_cloud_queue_)
        /\ cloud \notin ToSet(free_point_cloud_queue_')
        /\ cloud \notin ToSet(point_cloud_queue_) /\ cloud # sending
  <2>1. free_point_cloud_queue_ \in Seq(Clouds) /\ IsInjective(free_point_cloud_queue_)
    BY DEF DriverInv, DriverTypes, CloudsApart
  <2>2. CASE free_point_cloud_queue_ = <<>>
    <3>1. PICK cloud \in Fresh(Clouds, CloudsHeld) :
            point_cloud_' = cloud /\ points' = [points EXCEPT ![cloud] = <<>>]
      BY <2>2 DEF getPointCloud
    <3>2. cloud \in Clouds /\ cloud \notin UNION ToSet(CloudsHeld)
      BY <3>1 DEF Fresh
    <3>3. /\ cloud \notin {sending} \ {0} /\ cloud \notin ToSet(free_point_cloud_queue_)
          /\ cloud \notin ToSet(point_cloud_queue_)
      BY <3>2, FourHeld DEF CloudsHeld
    <3>4. cloud # sending
      BY <3>2, <3>3, NoNull
    <3>5. free_point_cloud_queue_' = free_point_cloud_queue_
      BY <2>2 DEF getPointCloud
    <3>6. QED  BY <2>1, <3>1, <3>2, <3>3, <3>4, <3>5
  <2>3. CASE free_point_cloud_queue_ # <<>>
    <3> DEFINE cloud == Head(free_point_cloud_queue_)
    <3>1. /\ point_cloud_' = cloud /\ points' = [points EXCEPT ![cloud] = <<>>]
          /\ free_point_cloud_queue_' = Tail(free_point_cloud_queue_)
      BY <2>3 DEF getPointCloud
    <3>2. /\ cloud \in Clouds /\ Tail(free_point_cloud_queue_) \in Seq(Clouds)
          /\ cloud \in ToSet(free_point_cloud_queue_)
          /\ ToSet(Tail(free_point_cloud_queue_)) \subseteq ToSet(free_point_cloud_queue_)
          /\ IsInjective(Tail(free_point_cloud_queue_))
          /\ cloud \notin ToSet(Tail(free_point_cloud_queue_))
      BY <2>1, <2>3, TailHolds
    <3> HIDE DEF cloud
    <3>3. cloud \notin ToSet(point_cloud_queue_) /\ cloud # sending
      BY <3>2 DEF DriverInv, CloudsApart
    <3>4. QED  BY <3>1, <3>2, <3>3
  <2>4. QED  BY <2>2, <2>3
<1>3. /\ points' \in [Clouds -> Seq(Nat)] /\ points'[cloud] = <<>>
      /\ \A c \in Clouds : c # cloud => points'[c] = points[c]
  <2>1. <<>> \in Seq(Nat)
    OBVIOUS
  <2>2. QED  BY <1>2, <2>1 DEF DriverInv, DriverTypes
<1>4. DriverTypes' /\ InHand' /\ BuffersApart'
  BY <1>1, <1>2, <1>3 DEF DriverInv, DriverTypes, InHand, BuffersApart
<1>5. CloudsApart'
  BY <1>1, <1>2 DEF DriverInv, CloudsApart
<1>6. Accounted'
  <2> SUFFICES ASSUME Running'  PROVE \E d \in Nat : InClouds(d)' /\ InBuffers(d)'
    BY DEF Accounted
  <2>1. PICK d \in Nat : InClouds(d) /\ InBuffers(d)
    BY <1>1 DEF DriverInv, Accounted, Running
  <2>2. Decoding = <<>> /\ Decoding' = <<>>
    BY <1>1, <1>2, <1>3 DEF Decoding
  <2>3. Sending' = Sending
    <3>1. process = "send" => sending \in Clouds
      BY DEF DriverInv, DriverTypes, InHand
    <3>2. QED  BY <1>1, <1>2, <1>3, <3>1 DEF Sending
  <2>4. PICK ends \in [0..Len(point_cloud_queue_) -> 0..d] :
          ends[Len(point_cloud_queue_)] = d - Len(Decoding) /\ Waiting(ends)
    BY <2>1 DEF InClouds
  <2>5. ASSUME NEW i \in 1..Len(point_cloud_queue_)
        PROVE  points'[point_cloud_queue_[i]] = points[point_cloud_queue_[i]]
    <3>1. point_cloud_queue_ \in Seq(Clouds)
      BY DEF DriverInv, DriverTypes
    <3>2. point_cloud_queue_[i] \in Clouds /\ point_cloud_queue_[i] \in ToSet(point_cloud_queue_)
      BY <3>1 DEF ToSet
    <3>3. point_cloud_queue_[i] # cloud
      BY <1>2, <3>2
    <3>4. QED  BY <1>3, <3>2, <3>3
  <2>6. Waiting(ends)'
    BY <1>1, <2>3, <2>4, <2>5 DEF Waiting, Follow
  <2>7. InClouds(d)'
    BY <1>1, <2>1, <2>2, <2>3, <2>4, <2>6 DEF InClouds, Follow
  <2>8. recv' = recv /\ UNCHANGED <<pkt_pool, msgs, k>>
    BY <1>1
  <2>9. InBuffers(d)'
    BY <1>1, <2>1, <2>8, BuffersKept
  <2>10. QED  BY <2>7, <2>9
<1>7. QED  BY <1>4, <1>5, <1>6 DEF DriverInv

\* A packet that follows what a sequence holds goes on with it.
LEMMA FollowOn ==
  ASSUME NEW s \in Seq(Nat), NEW n \in Int, NEW x \in Nat, Follow(s, n), x = n + Len(s) + 1
  PROVE  Append(s, x) \in Seq(Nat) /\ Len(Append(s, x)) = Len(s) + 1 /\ Follow(Append(s, x), n)
<1> DEFINE t == Append(s, x)
<1>1. /\ t \in Seq(Nat) /\ Len(t) = Len(s) + 1 /\ Len(s) \in Nat
      /\ \A i \in 1..Len(s) : t[i] = s[i]
      /\ t[Len(s) + 1] = x
  BY AppendHolds
<1> HIDE DEF t
<1>2. ASSUME NEW i \in 1..Len(t)  PROVE t[i] = n + i
  <2>1. i \in 1..Len(s) \/ i = Len(s) + 1
    BY <1>1
  <2>2. n + (Len(s) + 1) = n + Len(s) + 1
    BY <1>1
  <2>3. QED  BY <1>1, <2>1, <2>2 DEF Follow
<1>3. QED  BY <1>1, <1>2 DEF Follow, t

\* A packet goes from its buffer to the decoder's cloud.
LEMMA ProcessPacketKeeps == DriverInv /\ internalProcessPacket => DriverInv'
<1> SUFFICES ASSUME DriverInv, internalProcessPacket  PROVE DriverInv'
  OBVIOUS
<1> DEFINE b == Head(pkt_batch)
           p == content[b]
<1>1. /\ handle = "points" /\ main' = main /\ main' # "init"
      /\ handle' = IF Len(pkt_batch) = 1 THEN "pop" ELSE "packet"
      /\ points' = [points EXCEPT ![point_cloud_] = Append(points[point_cloud_], p)]
      /\ free_pkt_queue_' = Append(free_pkt_queue_, b) /\ pkt_batch' = Tail(pkt_batch)
      /\ UNCHANGED <<recv, process, pkt_pool, pkt_queue_, content, received, msgs, k>>
      /\ UNCHANGED <<point_cloud_, sending, free_point_cloud_queue_, point_cloud_queue_,
                     delivered>>
  BY DEF internalProcessPacket, recvVars, cloudVars, DriverInv, DriverTypes, InHand
<1>2. /\ b = pkt_batch[1] /\ b \in Buffers /\ pkt_batch' \in Seq(Buffers)
      /\ Len(pkt_batch') = Len(pkt_batch) - 1 /\ Len(pkt_batch) \in Nat \ {0}
      /\ \A i \in 1..Len(pkt_batch) - 1 : pkt_batch'[i] = pkt_batch[i + 1]
      /\ b \in ToSet(pkt_batch) /\ ToSet(pkt_batch') \subseteq ToSet(pkt_batch)
      /\ IsInjective(pkt_batch') /\ b \notin ToSet(pkt_batch')
  <2>1. pkt_batch \in Seq(Buffers) /\ pkt_batch # <<>> /\ IsInjective(pkt_batch)
    BY <1>1 DEF DriverInv, DriverTypes, InHand, BuffersApart
  <2>2. QED  BY <1>1, <2>1, TailHolds
<1> HIDE DEF b
<1>3. b \notin ToSet(free_pkt_queue_) /\ b \notin ToSet(pkt_queue_) /\ \A i \in 1..Vlen : pkt_pool[i] # b
  BY <1>2 DEF DriverInv, BuffersApart
<1>4. /\ free_pkt_queue_' \in Seq(Buffers) /\ IsInjective(free_pkt_queue_')
      /\ ToSet(free_pkt_queue_') = ToSet(free_pkt_queue_) \cup {b}
  BY <1>1, <1>2, <1>3, AppendHolds, SMTT(20) DEF DriverInv, DriverTypes, BuffersApart
<1>5. p \in Nat
  BY <1>2 DEF DriverInv, DriverTypes
<1> HIDE DEF p
<1>6. /\ point_cloud_ \in Clouds /\ points[point_cloud_] \in Seq(Nat)
      /\ points' \in [Clouds -> Seq(Nat)]
      /\ points'[point_cloud_] = Append(points[point_cloud_], p)
      /\ \A c \in Clouds : c # point_cloud_ => points'[c] = points[c]
  <2>1. /\ point_cloud_ \in Clouds /\ points \in [Clouds -> Seq(Nat)]
        /\ points[point_cloud_] \in Seq(Nat)
    BY DEF DriverInv, DriverTypes
  <2>2. Append(points[point_cloud_], p) \in Seq(Nat)
    BY <1>5, <2>1, AppendHolds
  <2>3. QED  BY <1>1, <2>1, <2>2
<1>7. DriverTypes'
  BY <1>1, <1>2, <1>4, <1>6 DEF DriverInv, DriverTypes
<1>8. InHand'
  <2>1. handle' \in {"off", "pop"} <=> pkt_batch' = <<>>
    <3>1. pkt_batch' = <<>> <=> Len(pkt_batch) = 1
      BY <1>2
    <3>2. QED  BY <1>1, <3>1
  <2>2. QED  BY <1>1, <2>1 DEF DriverInv, InHand
<1>9. BuffersApart'
  <2>1. \A i \in 1..Vlen :
          /\ pkt_pool[i] \notin ToSet(free_pkt_queue_')
          /\ pkt_pool[i] \notin ToSet(pkt_batch')
    BY <1>2, <1>3, <1>4 DEF DriverInv, BuffersApart
  <2>2. /\ ToSet(free_pkt_queue_') \cap ToSet(pkt_queue_) = {}
        /\ ToSet(free_pkt_queue_') \cap ToSet(pkt_batch') = {}
        /\ ToSet(pkt_queue_) \cap ToSet(pkt_batch') = {}
    BY <1>2, <1>3, <1>4 DEF DriverInv, BuffersApart
  <2>3. QED  BY <1>1, <1>2, <1>4, <2>1, <2>2 DEF DriverInv, BuffersApart
<1>10. CloudsApart'
  BY <1>1 DEF DriverInv, CloudsApart
<1>11. Accounted'
  <2> SUFFICES ASSUME Running'  PROVE \E d \in Nat : InClouds(d)' /\ InBuffers(d)'
    BY DEF Accounted
  <2>1. PICK d \in Nat : InClouds(d) /\ InBuffers(d)
    BY <1>1 DEF DriverInv, Accounted, Running
  <2>2. p = d + 1
    <3>1. 1 \in 1..Len(pkt_batch)
      BY <1>2
    <3>2. QED  BY <1>2, <2>1, <3>1 DEF InBuffers, Hold, p
  <2>3. Decoding = points[point_cloud_] /\ Decoding' = Append(Decoding, p)
    BY <1>1, <1>6 DEF Decoding
  <2>4. /\ Decoding \in Seq(Nat) /\ Len(Decoding) \in Nat /\ d - Len(Decoding) \in Int
        /\ Follow(Decoding, d - Len(Decoding)) /\ d - Len(Decoding) + Len(Decoding) + 1 = d + 1
    <3>1. Decoding \in Seq(Nat)
      BY <1>6, <2>3
    <3>2. Len(Decoding) \in Nat
      BY <3>1
    <3>3. QED  BY <2>1, <3>1, <3>2 DEF InClouds
  <2>5. Len(Decoding') = Len(Decoding) + 1 /\ Follow(Decoding', d - Len(Decoding))
    <3>1. p = d - Len(Decoding) + Len(Decoding) + 1
      BY <2>2, <2>4
    <3>2. QED  BY <1>5, <2>3, <2>4, <3>1, FollowOn
  <2>6. d + 1 - Len(Decoding') = d - Len(Decoding)
    BY <2>4, <2>5
  <2>7. Sending' = Sending
    <3>1. process = "send" => sending \in Clouds /\ sending # point_cloud_
      BY <1>1 DEF DriverInv, DriverTypes, InHand, CloudsApart
    <3>2. QED  BY <1>1, <1>6, <3>1 DEF Sending
  <2>8. PICK ends \in [0..Len(point_cloud_queue_) -> 0..d] :
          ends[Len(point_cloud_queue_)] = d - Len(Decoding) /\ Waiting(ends)
    BY <2>1 DEF InClouds
  <2>9. ASSUME NEW i \in 1..Len(point_cloud_queue_)
        PROVE  points'[point_cloud_queue_[i]] = points[point_cloud_queue_[i]]
    <3>1. point_cloud_queue_ \in Seq(Clouds) /\ point_cloud_ \notin ToSet(point_cloud_queue_)
      BY <1>1 DEF DriverInv, DriverTypes, CloudsApart
    <3>2. point_cloud_queue_[i] \in Clouds /\ point_cloud_queue_[i] \in ToSet(point_cloud_queue_)
      BY <3>1 DEF ToSet
    <3>3. QED  BY <1>6, <3>1, <3>2
  <2>10. Waiting(ends)'
    <3>1. (\A i \in 1..Len(point_cloud_queue_) :
             ends[i] = ends[i - 1] + Len(points[point_cloud_queue_[i]]))'
      BY <1>1, <2>8, <2>9 DEF Waiting
    <3>2. (\A i \in 1..Len(point_cloud_queue_) :
             Follow(points[point_cloud_queue_[i]], ends[i - 1]))'
      <4>1. ASSUME NEW i \in 1..Len(point_cloud_queue_)
            PROVE  Follow(points'[point_cloud_queue_[i]], ends[i - 1])
        BY <2>8, <2>9 DEF Waiting
      <4>2. point_cloud_queue_' = point_cloud_queue_
        BY <1>1
      <4>3. QED  BY <4>1, <4>2 DEF Follow
    <3>3. (ends[0] = Len(delivered) + Len(Sending))'
      BY <1>1, <2>7, <2>8 DEF Waiting
    <3>4. QED  BY <3>1, <3>2, <3>3 DEF Waiting
  <2>11. InClouds(d + 1)'
    <3>1. ends \in [0..Len(point_cloud_queue_) -> 0..d + 1]
      BY <2>8
    <3>2. Follow(delivered, 0)' /\ Follow(Sending, Len(delivered))'
      BY <1>1, <2>1, <2>7 DEF InClouds, Follow
    <3>3. Follow(Decoding, d + 1 - Len(Decoding))'
      BY <2>5, <2>6 DEF Follow
    <3>4. (ends[Len(point_cloud_queue_)] = d + 1 - Len(Decoding))'
      BY <1>1, <2>6, <2>8
    <3>5. QED  BY <1>1, <2>10, <3>1, <3>2, <3>3, <3>4 DEF InClouds
  <2>12. InBuffers(d + 1)'
    <3>1. \A i : Unpushed(i)' = Unpushed(i)
      BY <1>1 DEF Unpushed
    <3>2. Unpushed(k)' = Unpushed(k)
      BY <1>1 DEF Unpushed
    <3>3. d + 1 + Len(pkt_batch') = d + Len(pkt_batch)
      BY <1>2
    <3>4. (d + 1 + Len(pkt_batch) + Len(pkt_queue_) + Unpushed(k) = received)'
      BY <1>1, <2>1, <3>2, <3>3 DEF InBuffers
    <3>5. ASSUME NEW i \in 1..Len(pkt_batch')
          PROVE  content[pkt_batch'[i]] = d + 1 + i
      <4>1. i + 1 \in 1..Len(pkt_batch) /\ i \in 1..Len(pkt_batch) - 1 /\ d + (i + 1) = d + 1 + i
        BY <1>2
      <4>2. QED  BY <1>2, <2>1, <4>1 DEF InBuffers, Hold
    <3>6. Hold(pkt_batch, d + 1)'
      BY <1>1, <3>5 DEF Hold
    <3>7. Hold(pkt_queue_, d + 1 + Len(pkt_batch))'
      BY <1>1, <2>1, <3>3 DEF Hold, InBuffers
    <3>8. QED  BY <1>1, <2>1, <3>1, <3>4, <3>6, <3>7 DEF InBuffers
  <2>13. QED  BY <2>11, <2>12, d + 1 \in Nat
<1>12. QED  BY <1>7, <1>8, <1>9, <1>10, <1>11 DEF DriverInv

\* processPacket's other step changes nothing but where it is.
LEMMA HandlerKeeps == DriverInv /\ processPacket => DriverInv'
<1> SUFFICES ASSUME DriverInv, processMsopPkt  PROVE DriverInv'
  BY PopBatchKeeps, SplitFrameKeeps, GetPointCloudKeeps, ProcessPacketKeeps DEF processPacket
<1>1. /\ handle = "packet" /\ handle' \in {"split", "points"} /\ main' = main
      /\ UNCHANGED <<pkt_pool, free_pkt_queue_, pkt_queue_, pkt_batch, content, received,
                     msgs, k, recv, process>>
      /\ UNCHANGED <<point_cloud_, points, sending, free_point_cloud_queue_,
                     point_cloud_queue_, delivered>>
  BY DEF processMsopPkt, recvVars, cloudVars, ringVars, dataVars
<1>2. main' # "init" /\ (Running' => Running) /\ recv' \in {"off", "select", "refill", "push"}
  BY <1>1 DEF DriverInv, DriverTypes, InHand, Running
<1>3. QED  BY <1>1, <1>2, NothingMoves

-----------------------------------------------------------------------------
\* Two sequences of which one follows the other follow as one.
LEMMA FollowBoth ==
  ASSUME NEW s \in Seq(Nat), NEW t \in Seq(Nat), Follow(s, 0), Follow(t, Len(s))
  PROVE  s \o t \in Seq(Nat) /\ Len(s \o t) = Len(s) + Len(t) /\ Follow(s \o t, 0)
<1>1. s \o t \in Seq(Nat) /\ Len(s) \in Nat /\ Len(t) \in Nat
  OBVIOUS
<1>2. Len(s \o t) = Len(s) + Len(t)
  OBVIOUS
<1>3. ASSUME NEW i \in 1..Len(s) + Len(t)  PROVE (s \o t)[i] = 0 + i
  <2>1. CASE i <= Len(s)
    <3>1. i \in 1..Len(s) /\ (s \o t)[i] = s[i]
      BY <1>1, <2>1
    <3>2. QED  BY <3>1 DEF Follow
  <2>2. CASE ~(i <= Len(s))
    <3>1. i - Len(s) \in 1..Len(t) /\ Len(s) + (i - Len(s)) = 0 + i
      BY <1>1, <2>2
    <3>2. (s \o t)[i] = t[i - Len(s)]
      BY <1>1, <2>2
    <3>3. QED  BY <3>1, <3>2 DEF Follow
  <2>3. QED  BY <2>1, <2>2
<1>4. QED  BY <1>1, <1>2, <1>3 DEF Follow

\* popWait takes the first cloud of the queue.
LEMMA PopWaitKeeps == DriverInv /\ popWait => DriverInv'
<1> SUFFICES ASSUME DriverInv, popWait  PROVE DriverInv'
  OBVIOUS
<1>1. /\ process = "pop" /\ sending = 0 /\ main' = main
      /\ UNCHANGED <<recv, handle, pkt_pool, free_pkt_queue_, pkt_queue_, pkt_batch,
                     content, received, msgs, k, point_cloud_, points, delivered>>
  BY DEF popWait, recvVars, handleVars, dataVars, DriverInv, InHand
<1>2. (Running' => Running) /\ recv' \in {"off", "select", "refill", "push"}
  BY <1>1 DEF Running, DriverInv, DriverTypes
<1>3. CASE process' = "off" /\ UNCHANGED <<sending, point_cloud_queue_, free_point_cloud_queue_>>
  BY <1>1, <1>2, <1>3, NothingMoves
<1>4. CASE ~(process' = "off" /\ UNCHANGED <<sending, point_cloud_queue_, free_point_cloud_queue_>>)
  <2> DEFINE c == Head(point_cloud_queue_)
             n == Len(point_cloud_queue_)
  <2>1. /\ point_cloud_queue_ # <<>> /\ sending' = c /\ process' = "send"
        /\ point_cloud_queue_' = Tail(point_cloud_queue_)
        /\ free_point_cloud_queue_' = free_point_cloud_queue_
        /\ point_cloud_queue_ \in Seq(Clouds) /\ IsInjective(point_cloud_queue_)
    BY <1>4 DEF popWait, Freed, DriverInv, DriverTypes, CloudsApart
  <2>2. /\ c = point_cloud_queue_[1] /\ c \in Clouds /\ point_cloud_queue_' \in Seq(Clouds)
        /\ Len(point_cloud_queue_') = n - 1 /\ n \in Nat \ {0}
        /\ \A i \in 1..n - 1 : point_cloud_queue_'[i] = point_cloud_queue_[i + 1]
        /\ c \in ToSet(point_cloud_queue_)
        /\ ToSet(point_cloud_queue_') \subseteq ToSet(point_cloud_queue_)
        /\ IsInjective(point_cloud_queue_') /\ c \notin ToSet(point_cloud_queue_')
    BY <2>1, TailHolds
  <2> HIDE DEF c
  <2>3. DriverTypes'
    BY <1>1, <2>1, <2>2 DEF DriverInv, DriverTypes
  <2>4. InHand' /\ BuffersApart'
    BY <1>1, <2>1, <2>2, NoNull DEF DriverInv, InHand, BuffersApart
  <2>5. CloudsApart'
    <3>1. /\ c \notin ToSet(free_point_cloud_queue_)
          /\ handle # "cloud" => point_cloud_ # c
          /\ handle # "cloud" => point_cloud_ \notin ToSet(point_cloud_queue_')
          /\ ToSet(free_point_cloud_queue_) \cap ToSet(point_cloud_queue_') = {}
      BY <2>2 DEF DriverInv, CloudsApart
    <3>2. QED  BY <1>1, <2>1, <2>2, <3>1 DEF DriverInv, CloudsApart
  <2>6. Accounted'
    <3> SUFFICES ASSUME Running'  PROVE \E d \in Nat : InClouds(d)' /\ InBuffers(d)'
      BY DEF Accounted
    <3>1. PICK d \in Nat : InClouds(d) /\ InBuffers(d)
      BY <1>2 DEF DriverInv, Accounted
    <3>2. PICK ends \in [0..n -> 0..d] : ends[n] = d - Len(Decoding) /\ Waiting(ends)
      BY <3>1 DEF InClouds
    <3>3. Sending = <<>> /\ Sending' = points[c] /\ Decoding' = Decoding
      BY <1>1, <2>1 DEF Sending, Decoding
    <3>4. Len(delivered) \in Nat /\ Len(points[c]) \in Nat
      BY <2>2 DEF DriverInv, DriverTypes
    <3>5. PICK later \in [0..n - 1 -> 0..d] : \A i \in 0..n - 1 : later[i] = ends[i + 1]
      <4> DEFINE f == [i \in 0..n - 1 |-> ends[i + 1]]
      <4>1. \A i \in 0..n - 1 : i + 1 \in 0..n
        BY <2>2
      <4>2. f \in [0..n - 1 -> 0..d] /\ \A i \in 0..n - 1 : f[i] = ends[i + 1]
        BY <4>1
      <4> HIDE DEF f
      <4>3. QED  BY <4>2
    <3>6. ends[0] = Len(delivered)
      <4>1. Len(<<>>) = 0
        OBVIOUS
      <4>2. ends[0] = Len(delivered) + 0
        BY <3>2, <3>3, <4>1 DEF Waiting
      <4>3. QED  BY <3>4, <4>2
    <3>7. ends[1] = Len(delivered) + Len(points[c]) /\ Follow(points[c], Len(delivered))
      <4>1. 1 \in 1..n /\ 1 - 1 = 0
        BY <2>2
      <4>2. ends[1] = ends[1 - 1] + Len(points[c]) /\ Follow(points[c], ends[1 - 1])
        BY <2>2, <3>2, <4>1 DEF Waiting
      <4>3. QED  BY <3>6, <4>1, <4>2
    <3>8. later[0] = ends[1] /\ later[n - 1] = ends[n]
      <4>1. 0 \in 0..n - 1 /\ n - 1 \in 0..n - 1 /\ 0 + 1 = 1 /\ n - 1 + 1 = n
        BY <2>2
      <4>2. QED  BY <3>5, <4>1
    <3>9. ASSUME NEW i \in 1..n - 1
          PROVE  /\ later[i] = later[i - 1] + Len(points[point_cloud_queue_'[i]])
                 /\ Follow(points[point_cloud_queue_'[i]], later[i - 1])
      <4>1. /\ i \in 0..n - 1 /\ i - 1 \in 0..n - 1 /\ i + 1 \in 1..n
            /\ i - 1 + 1 = i /\ i + 1 - 1 = i
        BY <2>2
      <4>2. later[i] = ends[i + 1] /\ later[i - 1] = ends[i]
        BY <3>5, <4>1
      <4>3. /\ ends[i + 1] = ends[i] + Len(points[point_cloud_queue_[i + 1]])
            /\ Follow(points[point_cloud_queue_[i + 1]], ends[i])
        BY <3>2, <4>1 DEF Waiting
      <4>4. QED  BY <2>2, <4>2, <4>3
    <3>10. Waiting(later)'
      <4>1. (later[0] = Len(delivered) + Len(Sending))'
        BY <1>1, <3>3, <3>7, <3>8
      <4>2. (\A i \in 1..Len(point_cloud_queue_) :
               later[i] = later[i - 1] + Len(points[point_cloud_queue_[i]]))'
        BY <1>1, <2>2, <3>9
      <4>3. (\A i \in 1..Len(point_cloud_queue_) :
               Follow(points[point_cloud_queue_[i]], later[i - 1]))'
        BY <1>1, <2>2, <3>9 DEF Follow
      <4>4. QED  BY <4>1, <4>2, <4>3 DEF Waiting
    <3>11. InClouds(d)'
      <4>1. Follow(delivered, 0)' /\ Follow(Sending, Len(delivered))'
        BY <1>1, <3>1, <3>3, <3>7 DEF InClouds, Follow
      <4>2. Follow(Decoding, d - Len(Decoding))'
        BY <3>1, <3>3 DEF InClouds, Follow
      <4>3. later \in [0..Len(point_cloud_queue_') -> 0..d]
        BY <2>2, <3>5
      <4>4. (later[Len(point_cloud_queue_)] = d - Len(Decoding))'
        BY <2>2, <3>2, <3>3, <3>8
      <4>5. QED  BY <3>10, <4>1, <4>2, <4>3, <4>4 DEF InClouds
    <3>12. recv' = recv /\ UNCHANGED <<pkt_pool, msgs, k>>
      BY <1>1
    <3>13. InBuffers(d)'
      BY <1>1, <3>1, <3>12, BuffersKept
    <3>14. QED  BY <3>11, <3>13
  <2>7. QED  BY <2>3, <2>4, <2>5, <2>6 DEF DriverInv
<1>5. QED  BY <1>3, <1>4

\* A cloud is sent and then free.
LEMMA SenderKeeps == DriverInv /\ processPointCloud => DriverInv'
<1> SUFFICES ASSUME DriverInv, processPointCloud  PROVE DriverInv'
  OBVIOUS
<1>1. CASE sendPointCloud
  <2>1. /\ process = "send" /\ process' = "free" /\ main' = main
        /\ delivered' = delivered \o points[sending]
        /\ UNCHANGED <<recv, handle, pkt_pool, free_pkt_queue_, pkt_queue_, pkt_batch,
                       content, received, msgs, k, point_cloud_, points>>
        /\ UNCHANGED <<sending, free_point_cloud_queue_, point_cloud_queue_>>
    BY <1>1 DEF sendPointCloud, recvVars, handleVars, ringVars, dataVars
  <2>2. delivered \in Seq(Nat) /\ points[sending] \in Seq(Nat)
    BY <2>1 DEF DriverInv, DriverTypes, InHand
  <2>3. delivered' \in Seq(Nat)
    BY <2>1, <2>2
  <2>4. DriverTypes'
    BY <2>1, <2>3 DEF DriverInv, DriverTypes
  <2>5. InHand' /\ BuffersApart' /\ CloudsApart'
    BY <2>1 DEF DriverInv, InHand, BuffersApart, CloudsApart
  <2>6. Accounted'
    <3> SUFFICES ASSUME Running'  PROVE \E d \in Nat : InClouds(d)' /\ InBuffers(d)'
      BY DEF Accounted
    <3>1. PICK d \in Nat : InClouds(d) /\ InBuffers(d)
      BY <2>1 DEF DriverInv, Accounted, Running
    <3>2. PICK ends \in [0..Len(point_cloud_queue_) -> 0..d] :
            ends[Len(point_cloud_queue_)] = d - Len(Decoding) /\ Waiting(ends)
      BY <3>1 DEF InClouds
    <3>3. Sending = points[sending] /\ Sending' = <<>> /\ Decoding' = Decoding
      BY <2>1 DEF Sending, Decoding
    <3>4. Follow(delivered, 0) /\ Follow(points[sending], Len(delivered))
      BY <3>1, <3>3 DEF InClouds
    <3>5. Len(delivered') = Len(delivered) + Len(points[sending]) /\ Follow(delivered', 0)
      BY <2>1, <2>2, <3>4, FollowBoth
    <3>6. Len(delivered') + 0 = Len(delivered')
      BY <2>3
    <3>7. Waiting(ends)'
      <4>1. Len(<<>>) = 0
        OBVIOUS
      <4>2. (ends[0] = Len(delivered) + Len(Sending))'
        BY <3>2, <3>3, <3>5, <3>6, <4>1 DEF Waiting
      <4>3. (\A i \in 1..Len(point_cloud_queue_) :
               /\ ends[i] = ends[i - 1] + Len(points[point_cloud_queue_[i]])
               /\ Follow(points[point_cloud_queue_[i]], ends[i - 1]))'
        BY <2>1, <3>2 DEF Waiting, Follow
      <4>4. QED  BY <4>2, <4>3 DEF Waiting
    <3>8. InClouds(d)'
      <4>1. Follow(delivered, 0)'
        BY <3>5 DEF Follow
      <4>2. Follow(Sending, Len(delivered))'
        BY <3>3 DEF Follow
      <4>3. Follow(Decoding, d - Len(Decoding))'
        BY <3>1, <3>3 DEF InClouds, Follow
      <4>4. QED  BY <2>1, <3>2, <3>3, <3>7, <4>1, <4>2, <4>3 DEF InClouds
    <3>9. recv' = recv /\ UNCHANGED <<pkt_pool, msgs, k>>
      BY <2>1
    <3>10. InBuffers(d)'
      BY <2>1, <3>1, <3>9, BuffersKept
    <3>11. QED  BY <3>8, <3>10
  <2>7. QED  BY <2>4, <2>5, <2>6 DEF DriverInv
<1>2. CASE FreeCloud
  <2>1. /\ process = "free" /\ process' = "pop" /\ main' = main /\ sending' = 0
        /\ free_point_cloud_queue_' = Append(free_point_cloud_queue_, sending)
        /\ UNCHANGED <<recv, handle, pkt_pool, free_pkt_queue_, pkt_queue_, pkt_batch,
                       content, received, msgs, k, point_cloud_, points>>
        /\ UNCHANGED <<point_cloud_queue_, delivered>>
    BY <1>2 DEF FreeCloud, recvVars, handleVars, dataVars
  <2>2. /\ sending \in Clouds /\ free_point_cloud_queue_ \in Seq(Clouds)
        /\ sending \notin ToSet(free_point_cloud_queue_)
        /\ sending \notin ToSet(point_cloud_queue_)
        /\ IsInjective(free_point_cloud_queue_)
        /\ handle # "cloud" => point_cloud_ # sending
    BY <2>1 DEF DriverInv, DriverTypes, InHand, CloudsApart
  <2>3. /\ free_point_cloud_queue_' \in Seq(Clouds) /\ IsInjective(free_point_cloud_queue_')
        /\ ToSet(free_point_cloud_queue_') = ToSet(free_point_cloud_queue_) \cup {sending}
    BY <2>1, <2>2, AppendHolds
  <2>4. DriverTypes' /\ InHand' /\ BuffersApart'
    BY <2>1, <2>3 DEF DriverInv, DriverTypes, InHand, BuffersApart
  <2>5. CloudsApart'
    <3>1. 0 \notin ToSet(free_point_cloud_queue_') /\ 0 \notin ToSet(point_cloud_queue_)
      BY <2>3, ToSetType, NoNull DEF DriverInv, DriverTypes
    <3>2. ToSet(free_point_cloud_queue_') \cap ToSet(point_cloud_queue_) = {}
      BY <2>2, <2>3 DEF DriverInv, CloudsApart
    <3>3. handle # "cloud" =>
            point_cloud_ # 0 /\ point_cloud_ \notin ToSet(free_point_cloud_queue_')
      BY <2>2, <2>3, NoNull DEF DriverInv, DriverTypes, CloudsApart
    <3>4. QED  BY <2>1, <2>3, <3>1, <3>2, <3>3 DEF DriverInv, CloudsApart
  <2>6. Accounted'
    <3> SUFFICES ASSUME Running'  PROVE \E d \in Nat : InClouds(d)' /\ InBuffers(d)'
      BY DEF Accounted
    <3>1. PICK d \in Nat : InClouds(d) /\ InBuffers(d)
      BY <2>1 DEF DriverInv, Accounted, Running
    <3>2. PICK ends \in [0..Len(point_cloud_queue_) -> 0..d] :
            ends[Len(point_cloud_queue_)] = d - Len(Decoding) /\ Waiting(ends)
      BY <3>1 DEF InClouds
    <3>3. Sending' = Sending /\ Decoding' = Decoding
      BY <2>1 DEF Sending, Decoding
    <3>4. Waiting(ends)'
      BY <2>1, <3>2, <3>3 DEF Waiting, Follow
    <3>5. InClouds(d)'
      BY <2>1, <3>1, <3>2, <3>3, <3>4 DEF InClouds, Follow
    <3>6. recv' = recv /\ UNCHANGED <<pkt_pool, msgs, k>>
      BY <2>1
    <3>7. InBuffers(d)'
      BY <2>1, <3>1, <3>6, BuffersKept
    <3>8. QED  BY <3>5, <3>7
  <2>7. QED  BY <2>4, <2>5, <2>6 DEF DriverInv
<1>3. QED
  BY <1>1, <1>2, PopWaitKeeps DEF processPointCloud

\* Every step of every thread keeps the invariant.
LEMMA DriverStep == DriverInv /\ [DriverNext]_driverVars => DriverInv'
BY DriverKept, MainKeeps, ReceiverKeeps, HandlerKeeps, SenderKeeps
   DEF DriverNext, DriverEnded

-----------------------------------------------------------------------------
\* Four sets that are disjoint pair by pair.
LEMMA FourDisjoint ==
  ASSUME NEW A, NEW B, NEW C, NEW D,
         A \cap B = {}, A \cap C = {}, A \cap D = {}, B \cap C = {}, B \cap D = {}, C \cap D = {}
  PROVE  Disjoint(<<A, B, C, D>>)
<1> DEFINE sets == <<A, B, C, D>>
<1>1. DOMAIN sets = 1..4 /\ sets[1] = A /\ sets[2] = B /\ sets[3] = C /\ sets[4] = D
  OBVIOUS
<1> HIDE DEF sets
<1>2. ASSUME NEW i \in 1..4, NEW j \in 1..4, i # j  PROVE sets[i] \cap sets[j] = {}
  <2>1. i \in {1, 2, 3, 4} /\ j \in {1, 2, 3, 4}
    OBVIOUS
  <2>2. QED  BY <1>1, <1>2, <2>1
<1>3. QED  BY <1>1, <1>2 DEF Disjoint, sets

\* The invariant says that every buffer and every cloud has one owner,
LEMMA OwnersApart == DriverInv => OneOwner
<1> SUFFICES ASSUME DriverInv  PROVE OneOwner
  OBVIOUS
<1>1. Disjoint(BuffersHeld)
  <2>1. /\ InPool \cap ToSet(free_pkt_queue_) = {} /\ InPool \cap ToSet(pkt_queue_) = {}
        /\ InPool \cap ToSet(pkt_batch) = {}
    BY DEF InPool, DriverInv, BuffersApart
  <2>2. QED  BY <2>1, FourDisjoint DEF BuffersHeld, DriverInv, BuffersApart
<1>2. Disjoint(CloudsHeld)
  <2> DEFINE own == IF handle = "cloud" THEN {} ELSE {point_cloud_}
  <2>1. /\ ({sending} \ {0}) \cap ToSet(free_point_cloud_queue_) = {}
        /\ ({sending} \ {0}) \cap ToSet(point_cloud_queue_) = {}
        /\ ToSet(free_point_cloud_queue_) \cap ToSet(point_cloud_queue_) = {}
    BY DEF DriverInv, CloudsApart
  <2>2. /\ ({sending} \ {0}) \cap own = {} /\ ToSet(free_point_cloud_queue_) \cap own = {}
        /\ ToSet(point_cloud_queue_) \cap own = {}
    BY DEF DriverInv, CloudsApart
  <2> HIDE DEF own
  <2>3. Disjoint(<<{sending} \ {0}, ToSet(free_point_cloud_queue_),
                   ToSet(point_cloud_queue_), own>>)
    BY <2>1, <2>2, FourDisjoint
  <2>4. QED  BY <2>3 DEF CloudsHeld, own
<1>3. QED
  BY <1>1, <1>2 DEF OneOwner, DriverInv, BuffersApart, CloudsApart

\* and that no packet gets lost.
LEMMA AllFollow == DriverInv => NothingLost
<1> SUFFICES ASSUME DriverInv, Running  PROVE NothingLost
  BY DEF NothingLost
<1> DEFINE n == Len(point_cloud_queue_)
           queued == received - Unpushed(k)
           popped == queued - Len(pkt_queue_)
           decoded == popped - Len(pkt_batch)
           split == decoded - Len(Decoding)
<1>1. PICK d \in Nat : InClouds(d) /\ InBuffers(d)
  BY DEF DriverInv, Accounted
<1>2. /\ received \in Nat /\ Len(pkt_batch) \in Nat /\ Len(pkt_queue_) \in Nat
      /\ Unpushed(k) \in Nat
  <2>1. k \in Int /\ Len(msgs) \in Int /\ 0 \in Nat
    BY DEF DriverInv, DriverTypes
  <2>2. Unpushed(k) \in Nat
    BY <2>1, PacketsInNat DEF Unpushed
  <2>3. QED  BY <2>2 DEF DriverInv, DriverTypes
<1>3. d + Len(pkt_batch) + Len(pkt_queue_) + Unpushed(k) = received
  BY <1>1 DEF InBuffers
<1>4. decoded = d /\ popped = d + Len(pkt_batch) /\ d <= received
  BY <1>2, <1>3
<1>5. split = d - Len(Decoding)
  BY <1>4
<1> HIDE DEF decoded, popped, split
<1>6. Follow(delivered, 0) /\ Follow(Sending, Len(delivered)) /\ Follow(Decoding, split)
  BY <1>1, <1>5 DEF InClouds
<1>7. \E ends \in [0..n -> 0..received] :
        /\ ends[0] = Len(delivered) + Len(Sending) /\ ends[n] = split
        /\ \A i \in 1..n :
             /\ ends[i] = ends[i - 1] + Len(points[point_cloud_queue_[i]])
             /\ Follow(points[point_cloud_queue_[i]], ends[i - 1])
  <2>1. PICK ends \in [0..n -> 0..d] : ends[n] = d - Len(Decoding) /\ Waiting(ends)
    BY <1>1 DEF InClouds
  <2>2. ends \in [0..n -> 0..received]
    BY <1>2, <1>4, <2>1
  <2>3. QED  BY <1>5, <2>1, <2>2 DEF Waiting
<1>8. ASSUME NEW s \in Seq(Buffers), NEW m, Hold(s, m)  PROVE Follow(ContentOf(s), m)
  <2>1. Len(ContentOf(s)) = Len(s) /\ \A i \in 1..Len(s) : ContentOf(s)[i] = content[s[i]]
    BY DEF ContentOf
  <2>2. QED  BY <1>8, <2>1 DEF Follow, Hold
<1>9. Follow(ContentOf(pkt_batch), decoded) /\ Follow(ContentOf(pkt_queue_), popped)
  <2>1. /\ pkt_batch \in Seq(Buffers) /\ pkt_queue_ \in Seq(Buffers)
        /\ Hold(pkt_batch, d) /\ Hold(pkt_queue_, d + Len(pkt_batch))
    BY <1>1 DEF DriverInv, DriverTypes, InBuffers
  <2>2. QED  BY <1>4, <1>8, <2>1
<1>10. recv = "push" =>
         \A i \in k..Len(msgs) : msgs[i] => content[pkt_pool[i]] = received - Unpushed(i + 1)
  BY <1>1 DEF InBuffers
<1>11. QED
  BY <1>6, <1>7, <1>9, <1>10 DEF NothingLost, decoded, popped, split

\* However the threads interleave, each buffer and each cloud has one holder, and
\* each packet that was received is on its way to the receiver of the clouds once
\* and in order until the driver is stopped (recvPacket, processPacket,
\* processPointCloud).
THEOREM BuffersAreAccounted == DriverSpec => []BuffersAccounted
<1>1. DriverInv => BuffersAccounted
  BY OwnersApart, AllFollow DEF BuffersAccounted
<1>2. QED
  BY <1>1, DriverBegins, DriverStep, PTL DEF DriverSpec

-----------------------------------------------------------------------------
\* The first n fragments of a lidar's datagram.
Prefix(d, n) == [f \in 1..n |-> <<d, f>>]

\* The values of the variables of the input.
InputTypes ==
  /\ ports \in {1} \X (0..2) \X (0..3)
  /\ ip_id_ \in 0..Ids - 1 /\ firstId \in 0..Ids - 1
  /\ datagram \in 1..MaxDatagrams + 1 /\ fragment \in 1..Fragments
  /\ intact \subseteq 1..MaxDatagrams /\ others \in Nat
  /\ spoilt \subseteq 1..MaxDatagrams /\ (others = 0 => spoilt = {})
  /\ buf \in Seq(Nat \X Nat) /\ udp \in Seq(Seq(Nat \X Nat))

\* Did the first n fragments of datagram d come before the next one?
Came(d, n) ==
  /\ d \in 1..MaxDatagrams /\ n \in 1..Fragments
  /\ d < datagram \/ (d = datagram /\ n < fragment)

\* buf_ is the beginning of datagram d: an unfinished one is the one that ip_id_
\* tells, and once it is complete nothing is awaited.
Holding(d, n) ==
  /\ Came(d, n) /\ buf = Prefix(d, n)
  /\ IF n < Fragments THEN ip_id_ = IdOf(d) ELSE ip_id_ = 0

\* With anything of an unspoilt datagram, buf_ holds its beginning and no more;
Collected ==
  \A d \in 1..MaxDatagrams :
    Unspoilt(d) /\ Carries(buf, d) => \E n \in Nat : Holding(d, n)

\* a datagram still to come that ip_id_ tells is there, unless it is spoilt;
Awaited ==
  ip_id_ # 0 =>
    \A d \in 1..MaxDatagrams \ spoilt :
      datagram <= d /\ IdOf(d) = ip_id_ => Carries(buf, d)

\* and without other hosts, buf_ holds the beginning of a datagram, or nothing yet.
Alone == others = 0 => (buf = <<>> /\ ip_id_ = 0) \/ \E d, n \in Nat : Holding(d, n)

\* Of the lidar's next datagram, when nothing of it is lost, all is there.
Unbroken ==
  datagram \in intact /\ fragment > 1 /\ IdOf(datagram) # 0 /\ Unspoilt(datagram) =>
    buf = Prefix(datagram, fragment - 1) /\ ip_id_ = IdOf(datagram)

\* What was returned of unspoilt datagrams is whole, and of earlier ones, each once,
Returned ==
  \A i \in 1..Len(udp) : \A d \in 1..MaxDatagrams :
    Unspoilt(d) /\ Carries(udp[i], d) =>
      /\ d < datagram /\ udp[i] = Prefix(d, Fragments)
      /\ \A j \in 1..Len(udp) : Carries(udp[j], d) => j = i

\* and it is each of those that are intact.
Complete ==
  \A d \in intact :
    d < datagram /\ IdOf(d) # 0 /\ Unspoilt(d) =>
      \E i \in 1..Len(udp) : udp[i] = Prefix(d, Fragments)

InputInv ==
  InputTypes /\ Collected /\ Awaited /\ Alone /\ Unbroken /\ Returned /\ Complete

-----------------------------------------------------------------------------
\* The beginning of a datagram, and the next fragment after it.
LEMMA PrefixHolds ==
  ASSUME NEW d \in Nat, NEW n \in Nat
  PROVE  /\ Prefix(d, n) \in Seq(Nat \X Nat) /\ Len(Prefix(d, n)) = n
         /\ \A i \in 1..n : Prefix(d, n)[i] = <<d, i>>
         /\ Append(Prefix(d, n), <<d, n + 1>>) = Prefix(d, n + 1)
         /\ <<<<d, 1>>>> = Prefix(d, 1)
BY DEF Prefix

\* Whose fragments a list holds: those of what it begins, and of what is added.
LEMMA CarriesWhat ==
  /\ \A d \in Nat : ~Carries(<<>>, d)
  /\ \A d, e, n \in Nat : Carries(Prefix(d, n), e) => e = d
  /\ \A d, n \in Nat : n > 0 => Carries(Prefix(d, n), d)
  /\ \A d \in Nat, x \in Nat \X Nat : Carries(<<x>>, d) <=> x[1] = d
  /\ \A d \in Nat, s \in Seq(Nat \X Nat), x \in Nat \X Nat :
       Carries(Append(s, x), d) <=> Carries(s, d) \/ x[1] = d
<1>1. \A d \in Nat : ~Carries(<<>>, d)
  BY DEF Carries
<1>2. ASSUME NEW d \in Nat, NEW e \in Nat, NEW n \in Nat, Carries(Prefix(d, n), e)
      PROVE  e = d
  <2>1. PICK i \in 1..Len(Prefix(d, n)) : Prefix(d, n)[i][1] = e
    BY <1>2 DEF Carries
  <2>2. Len(Prefix(d, n)) = n /\ \A j \in 1..n : Prefix(d, n)[j] = <<d, j>>
    BY PrefixHolds
  <2>3. Prefix(d, n)[i] = <<d, i>>
    BY <2>1, <2>2
  <2>4. QED  BY <2>1, <2>3
<1>3. ASSUME NEW d \in Nat, NEW n \in Nat, n > 0  PROVE Carries(Prefix(d, n), d)
  <2>1. 1 \in 1..n
    BY <1>3
  <2>2. Len(Prefix(d, n)) = n /\ Prefix(d, n)[1] = <<d, 1>>
    BY <2>1, PrefixHolds
  <2>3. Prefix(d, n)[1][1] = d
    BY <2>2
  <2>4. QED  BY <2>1, <2>2, <2>3 DEF Carries
<1>4. ASSUME NEW d \in Nat, NEW x \in Nat \X Nat  PROVE Carries(<<x>>, d) <=> x[1] = d
  <2>1. Len(<<x>>) = 1 /\ <<x>>[1] = x /\ \A i \in 1..1 : i = 1
    OBVIOUS
  <2>2. 1 \in 1..1
    OBVIOUS
  <2>3. QED  BY <2>1, <2>2, Zenon DEF Carries
<1>5. ASSUME NEW d \in Nat, NEW s \in Seq(Nat \X Nat), NEW x \in Nat \X Nat
      PROVE  Carries(Append(s, x), d) <=> Carries(s, d) \/ x[1] = d
  <2> DEFINE t == Append(s, x)
  <2>1. /\ Len(t) = Len(s) + 1 /\ Len(s) \in Nat /\ t[Len(s) + 1] = x
        /\ \A i \in 1..Len(s) : t[i] = s[i]
    OBVIOUS
  <2> HIDE DEF t
  <2>2. /\ \A i \in 1..Len(t) : i \in 1..Len(s) \/ i = Len(s) + 1
        /\ Len(s) + 1 \in 1..Len(t) /\ \A i \in 1..Len(s) : i \in 1..Len(t)
    BY <2>1
  <2>3. Carries(t, d) <=> Carries(s, d) \/ x[1] = d
    BY <2>1, <2>2, Zenon DEF Carries
  <2>4. QED  BY <2>3 DEF t
<1>6. QED  BY <1>1, <1>2, <1>3, <1>4, <1>5

\* Where the next fragment belongs.
LEMMA OffsetOfPrefix ==
  /\ \A d \in Nat \ {0}, n \in Nat : buf = Prefix(d, n) => buf_off_ = 2 * n
  /\ buf = <<>> => buf_off_ = 0
<1>1. ASSUME NEW d \in Nat \ {0}, NEW n \in Nat, buf = Prefix(d, n)  PROVE buf_off_ = 2 * n
  <2>1. Len(buf) = n /\ \A i \in 1..n : buf[i] = <<d, i>>
    BY <1>1, PrefixHolds
  <2>2. {i \in 1..Len(buf) : buf[i] = <<0, 1>>} = {}
    BY <2>1
  <2>3. Cardinality({i \in 1..Len(buf) : buf[i] = <<0, 1>>}) = 0
    BY <2>2, FS_EmptySet
  <2>4. QED  BY <2>1, <2>3 DEF buf_off_
<1>2. ASSUME buf = <<>>  PROVE buf_off_ = 0
  <2>1. Len(buf) = 0 /\ {i \in 1..Len(buf) : buf[i] = <<0, 1>>} = {}
    BY <1>2
  <2>2. Cardinality({i \in 1..Len(buf) : buf[i] = <<0, 1>>}) = 0
    BY <2>1, FS_EmptySet
  <2>3. QED  BY <2>1, <2>2 DEF buf_off_
<1>3. QED  BY <1>1, <1>2

\* Fewer datagrams than ids: no two have the same.
LEMMA IdsDiffer ==
  ASSUME InputTypes, NEW d \in 1..MaxDatagrams, NEW e \in 1..MaxDatagrams, IdOf(d) = IdOf(e)
  PROVE  d = e
<1>1. Ids \in Nat \ {0} /\ firstId \in Int /\ firstId + d \in Int /\ firstId + e \in Int
      /\ d - e < Ids /\ e - d < Ids
  BY InputAssumption DEF InputTypes
<1> DEFINE p == (firstId + d) \div Ids
           q == (firstId + e) \div Ids
           r == (firstId + d) % Ids
           s == (firstId + e) % Ids
<1>2. p \in Int /\ r \in 0..Ids - 1 /\ p * Ids + r = firstId + d
  BY <1>1, DivMod
<1>3. q \in Int /\ s \in 0..Ids - 1 /\ q * Ids + s = firstId + e
  BY <1>1, DivMod
<1>4. r = s
  BY DEF IdOf
<1> HIDE DEF p, q, r, s
<1>5. (p - q) * Ids = d - e
  BY <1>1, <1>2, <1>3, <1>4
<1>6. ~(p - q >= 1)
  <2>1. p - q >= 1 => (p - q) * Ids >= Ids
    BY <1>1, <1>2, <1>3
  <2>2. QED  BY <1>1, <1>5, <2>1
<1>7. ~(q - p >= 1)
  <2>1. q - p >= 1 => (q - p) * Ids >= Ids
    BY <1>1, <1>2, <1>3
  <2>2. (q - p) * Ids = e - d
    BY <1>1, <1>2, <1>3, <1>5
  <2>3. QED  BY <1>1, <2>1, <2>2
<1>8. p = q
  BY <1>2, <1>3, <1>6, <1>7
<1>9. firstId + d = firstId + e
  BY <1>2, <1>3, <1>4, <1>8
<1>10. firstId \in Int /\ d \in Int /\ e \in Int
  BY DEF InputTypes
<1>11. QED  BY <1>9, <1>10

\* An id is an id.
LEMMA IdType == ASSUME InputTypes, NEW d \in Nat PROVE IdOf(d) \in 0..Ids - 1
<1>1. Ids \in Nat \ {0} /\ firstId + d \in Int
  BY InputAssumption DEF InputTypes
<1>2. QED  BY <1>1, DivMod DEF IdOf

\* The invariant holds at first;
LEMMA InputBegins == InputInit => InputInv
<1> SUFFICES ASSUME InputInit  PROVE InputInv
  OBVIOUS
<1>1. InputTypes
  BY InputAssumption DEF InputInit, InputTypes
<1>2. ip_id_ = 0 /\ buf = <<>> /\ udp = <<>> /\ datagram = 1 /\ fragment = 1
  BY DEF InputInit
<1>3. Collected
  <2>1. \A d \in 1..MaxDatagrams : ~Carries(buf, d)
    BY <1>2, CarriesWhat
  <2>2. QED  BY <2>1 DEF Collected
<1>4. Awaited /\ Alone /\ Unbroken /\ Returned
  BY <1>2 DEF Awaited, Alone, Unbroken, Returned
<1>5. Complete
  BY <1>1, <1>2 DEF Complete, InputTypes
<1>6. QED  BY <1>1, <1>3, <1>4, <1>5 DEF InputInv

\* Where the next fragment of the lidar leads.
LEMMA NextFragmentType ==
  ASSUME InputTypes, datagram <= MaxDatagrams, NextFragment
  PROVE  /\ datagram' \in 1..MaxDatagrams + 1 /\ fragment' \in 1..Fragments
         /\ \/ fragment < Fragments /\ datagram' = datagram /\ fragment' = fragment + 1
            \/ fragment = Fragments /\ datagram' = datagram + 1 /\ fragment' = 1
BY InputAssumption DEF InputTypes, NextFragment

\* What came before the next fragment came before the one after it, too,
LEMMA CameStays ==
  ASSUME InputTypes, datagram <= MaxDatagrams, NextFragment, NEW d \in Nat, NEW n \in Nat,
         Came(d, n)
  PROVE  Came(d, n)'
BY NextFragmentType, InputAssumption DEF InputTypes, Came

\* An entry that is added holds nothing unspoilt but the whole next datagram.
LEMMA ReturnedKept ==
  ASSUME InputTypes, Returned, datagram' \in Nat, datagram <= datagram',
         \A d \in 1..MaxDatagrams : Unspoilt(d)' => Unspoilt(d),
         \/ udp' = udp
         \/ \E u \in Seq(Nat \X Nat) :
              /\ udp' = Append(udp, u)
              /\ \A d \in 1..MaxDatagrams : Unspoilt(d)' /\ Carries(u, d) =>
                   datagram <= d /\ d < datagram' /\ u = Prefix(d, Fragments)
  PROVE  Returned'
<1> DEFINE n == Len(udp)
<1>1. datagram \in Nat /\ n \in Nat /\ udp \in Seq(Seq(Nat \X Nat))
  BY InputAssumption DEF InputTypes
<1>2. CASE udp' = udp
  BY <1>1, <1>2 DEF Returned
<1>3. ASSUME NEW u \in Seq(Nat \X Nat), udp' = Append(udp, u),
             \A d \in 1..MaxDatagrams : Unspoilt(d)' /\ Carries(u, d) =>
               datagram <= d /\ d < datagram' /\ u = Prefix(d, Fragments)
      PROVE  Returned'
  <2>1. /\ Len(udp') = n + 1 /\ udp'[n + 1] = u /\ \A i \in 1..n : udp'[i] = udp[i]
    BY <1>1, <1>3
  <2> HIDE DEF n
  <2>2. \A i \in 1..n + 1 : i \in 1..n \/ i = n + 1
    BY <1>1
  <2> SUFFICES ASSUME NEW i \in 1..n + 1, NEW d \in 1..MaxDatagrams, Unspoilt(d)',
                      Carries(udp'[i], d)
               PROVE  /\ d < datagram' /\ udp'[i] = Prefix(d, Fragments)
                      /\ \A j \in 1..n + 1 : Carries(udp'[j], d) => j = i
    BY <2>1 DEF Returned
  <2>3. CASE i \in 1..n
    <3>1. /\ d < datagram /\ udp[i] = Prefix(d, Fragments)
          /\ \A j \in 1..n : Carries(udp[j], d) => j = i
      BY <2>1, <2>3 DEF Returned, n
    <3>2. ~Carries(u, d)
      BY <1>1, <1>3, <3>1
    <3>3. d < datagram'
      BY <1>1, <3>1
    <3>4. QED  BY <2>1, <2>2, <2>3, <3>1, <3>2, <3>3
  <2>4. CASE i = n + 1
    <3>1. datagram <= d /\ d < datagram' /\ u = Prefix(d, Fragments)
      BY <1>3, <2>1, <2>4
    <3>2. \A j \in 1..n : Carries(udp[j], d) => d < datagram
      BY DEF Returned, n
    <3>3. \A j \in 1..n : ~Carries(udp'[j], d)
      BY <1>1, <2>1, <3>1, <3>2
    <3>4. QED  BY <2>1, <2>2, <2>4, <3>1, <3>3
  <2>5. QED  BY <2>2, <2>3, <2>4
<1>4. QED  BY <1>2, <1>3

\* Entries that were there stay, and so does what is complete.
LEMMA CompleteKept ==
  ASSUME InputTypes, Complete,
         udp' = udp \/ \E u \in Seq(Nat \X Nat) : udp' = Append(udp, u),
         NEW d \in intact, d < datagram, IdOf(d) # 0, Unspoilt(d)
  PROVE  \E i \in 1..Len(udp') : udp'[i] = Prefix(d, Fragments)
<1>1. PICK i \in 1..Len(udp) : udp[i] = Prefix(d, Fragments)
  BY DEF Complete
<1>2. CASE udp' = udp
  BY <1>1, <1>2
<1>3. ASSUME NEW u \in Seq(Nat \X Nat), udp' = Append(udp, u)
      PROVE  i \in 1..Len(udp') /\ udp'[i] = udp[i]
  <2>1. udp \in Seq(Seq(Nat \X Nat))
    BY DEF InputTypes
  <2>2. i \in 1..Len(udp) + 1 /\ Len(Append(udp, u)) = Len(udp) + 1 /\ Append(udp, u)[i] = udp[i]
    BY <2>1
  <2>3. QED  BY <1>3, <2>2
<1>4. QED  BY <1>1, <1>2, <1>3

\* What a datagram or a fragment of another host does, to what there is of the
\* datagrams that it leaves unspoilt: nothing, or it takes the place of complete ones.
LEMMA OtherOutcome ==
  ASSUME InputInv, NEW id \in 0..Ids - 1, NEW data \in Foreign, NEW off \in Nat,
         NEW more \in BOOLEAN, new_fragment(id, data, off, more),
         \/ spoilt' = spoilt \cup SpoiltBy(id, off)
         \/ spoilt' = spoilt /\ off = 0 /\ ~more,
         others' = others + 1, UNCHANGED <<firstId, datagram, fragment, intact>>
  PROVE  /\ ip_id_' \in 0..Ids - 1 /\ buf' \in Seq(Nat \X Nat) /\ spoilt' \subseteq 1..MaxDatagrams
         /\ \/ UNCHANGED <<buf, ip_id_>>
            \/ /\ \A d \in 1..MaxDatagrams : Unspoilt(d)' => ~Carries(buf', d)
               /\ \A d \in 1..MaxDatagrams \ spoilt' : datagram <= d => IdOf(d) # ip_id_' \/ ip_id_' = 0
               /\ fragment > 1 /\ datagram \in 1..MaxDatagrams /\ Unspoilt(datagram)' =>
                    IdOf(datagram) # ip_id_
         /\ \/ udp' = udp
            \/ \E u \in Seq(Nat \X Nat) :
                 udp' = Append(udp, u) /\ \A d \in 1..MaxDatagrams : Unspoilt(d)' => ~Carries(u, d)
<1>1. /\ InputTypes /\ Collected /\ Awaited
      /\ data \in Nat \X Nat /\ data[1] = 0 /\ <<data>> \in Seq(Nat \X Nat)
      /\ buf \in Seq(Nat \X Nat) /\ Append(buf, data) \in Seq(Nat \X Nat)
      /\ ip_id_ \in 0..Ids - 1 /\ 0 \in 0..Ids - 1 /\ datagram \in Nat /\ fragment \in Nat
  BY InputAssumption DEF InputInv, InputTypes, Foreign
<1>2. /\ spoilt' \subseteq 1..MaxDatagrams /\ spoilt \subseteq spoilt'
      /\ \A d \in 1..MaxDatagrams : Unspoilt(d)' => Unspoilt(d) /\ IdOf(d) # 0 /\ d \notin spoilt'
  <2>1. spoilt \subseteq 1..MaxDatagrams /\ SpoiltBy(id, off) \subseteq 1..MaxDatagrams
    BY <1>1 DEF InputTypes, SpoiltBy
  <2>2. spoilt' \subseteq 1..MaxDatagrams /\ spoilt \subseteq spoilt'
    BY <2>1
  <2>3. others' > 0
    BY <1>1 DEF InputTypes
  <2>4. \A d : UNCHANGED IdOf(d)
    BY DEF IdOf
  <2>5. ASSUME NEW d \in 1..MaxDatagrams, Unspoilt(d)'
        PROVE  Unspoilt(d) /\ IdOf(d) # 0 /\ d \notin spoilt'
    BY <2>2, <2>3, <2>4, <2>5 DEF Unspoilt
  <2>6. QED  BY <2>2, <2>5
<1>3. \A d \in 1..MaxDatagrams : ~Carries(<<data>>, d)
  BY <1>1, CarriesWhat
<1>4. CASE id = ip_id_ /\ Appended(off)
  <2>1. ASSUME NEW d \in 1..MaxDatagrams, Unspoilt(d)', Carries(buf, d)  PROVE FALSE
    <3>1. CASE spoilt' = spoilt \cup SpoiltBy(id, off)
      BY <1>2, <1>4, <2>1, <3>1 DEF SpoiltBy, Carries
    <3>2. CASE off = 0
      <4>1. PICK n \in Nat : Holding(d, n)
        BY <1>1, <1>2, <2>1 DEF Collected
      <4>2. buf = Prefix(d, n) /\ d \in Nat \ {0} /\ n > 0
        <5>1. buf = Prefix(d, n) /\ n \in 1..Fragments
          BY <4>1 DEF Holding, Came
        <5>2. d \in Nat \ {0}
          BY InputAssumption
        <5>3. n > 0
          BY <5>1, InputAssumption
        <5>4. QED  BY <5>1, <5>2, <5>3
      <4>3. buf_off_ = 2 * n
        BY <4>2, OffsetOfPrefix
      <4>4. n > 0 => 2 * n # 0
        OBVIOUS
      <4>5. off = 2 * n
        BY <1>4, <4>3 DEF Appended
      <4>6. QED  BY <3>2, <4>2, <4>4, <4>5
    <3>3. QED  BY <3>1, <3>2
  <2>2. \A d \in 1..MaxDatagrams : Unspoilt(d)' => ~Carries(Append(buf, data), d)
    <3>1. \A d \in 1..MaxDatagrams : Carries(Append(buf, data), d) => Carries(buf, d)
      BY <1>1, CarriesWhat
    <3>2. QED  BY <2>1, <3>1
  <2>3. buf' = Append(buf, data) /\ ip_id_' = IF more THEN ip_id_ ELSE 0
    BY <1>4 DEF new_fragment
  <2>4. udp' = udp \/ udp' = Append(udp, Append(buf, data))
    BY <1>4, <2>3 DEF new_fragment
  <2>5. more => spoilt' = spoilt \cup SpoiltBy(id, off)
    OBVIOUS
  <2>6. \A d \in 1..MaxDatagrams \ spoilt' : datagram <= d => IdOf(d) # ip_id_' \/ ip_id_' = 0
    BY <1>1, <1>4, <2>3, <2>5 DEF SpoiltBy
  <2>7. ASSUME fragment > 1, datagram \in 1..MaxDatagrams, Unspoilt(datagram)'
        PROVE  IdOf(datagram) # ip_id_
    <3>1. CASE spoilt' = spoilt \cup SpoiltBy(id, off)
      BY <1>1, <1>2, <1>4, <2>7, <3>1 DEF SpoiltBy
    <3>2. CASE spoilt' = spoilt /\ IdOf(datagram) = ip_id_
      <4>1. ip_id_ # 0 /\ datagram \in 1..MaxDatagrams \ spoilt
        BY <1>2, <2>7, <3>2
      <4>2. Carries(buf, datagram)
        BY <1>1, <3>2, <4>1 DEF Awaited
      <4>3. QED  BY <2>1, <2>7, <4>2
    <3>3. QED  BY <3>1, <3>2
  <2>8. QED  BY <1>1, <1>2, <2>2, <2>3, <2>4, <2>6, <2>7
<1>5. CASE id = ip_id_ /\ ~Appended(off)
  <2>1. UNCHANGED <<buf, ip_id_, udp>>
    BY <1>5 DEF new_fragment
  <2>2. QED  BY <1>1, <1>2, <2>1
<1>6. CASE id # ip_id_ /\ Begins(off, more)
  <2>1. off = 0 /\ more /\ spoilt' = spoilt \cup SpoiltBy(id, off)
    BY <1>6 DEF Begins
  <2>2. ip_id_' = id /\ buf' = <<data>> /\ udp' = udp
    BY <1>6, <2>1 DEF new_fragment
  <2>3. \A d \in 1..MaxDatagrams \ spoilt' : datagram <= d => IdOf(d) # ip_id_' \/ ip_id_' = 0
    BY <1>1, <2>1, <2>2 DEF SpoiltBy
  <2>4. ~(fragment > 1 /\ datagram \in 1..MaxDatagrams /\ Unspoilt(datagram)')
    BY <1>1, <1>2, <2>1 DEF SpoiltBy
  <2>5. QED  BY <1>1, <1>2, <1>3, <2>2, <2>3, <2>4
<1>7. CASE id # ip_id_ /\ ~Begins(off, more)
  <2>1. UNCHANGED <<buf, ip_id_>> /\ (udp' = udp \/ udp' = Append(udp, <<data>>))
    BY <1>7 DEF new_fragment
  <2>2. QED  BY <1>1, <1>2, <1>3, <2>1
<1>8. QED  BY <1>4, <1>5, <1>6, <1>7

\* another host's datagram keeps it,
LEMMA OtherKeeps == InputInv /\ (ReadOther \/ ReadOtherFragment) => InputInv'
<1> SUFFICES ASSUME InputInv, ReadOther \/ ReadOtherFragment  PROVE InputInv'
  OBVIOUS
<1>1. InputTypes /\ Collected /\ Awaited /\ Unbroken /\ Returned /\ Complete
  BY DEF InputInv
<1>2. /\ others' = others + 1 /\ UNCHANGED <<ports, firstId, datagram, fragment, intact>>
      /\ \E id \in 0..Ids - 1, data \in Foreign, off \in Nat, more \in BOOLEAN :
           /\ new_fragment(id, data, off, more)
           /\ \/ spoilt' = spoilt \cup SpoiltBy(id, off)
              \/ spoilt' = spoilt /\ off = 0 /\ ~more
  <2>1. CASE ReadOther
    BY <2>1 DEF ReadOther
  <2>2. CASE ReadOtherFragment
    <3>1. 0..2 * (Fragments + MaxOthers) \subseteq Nat
      BY InputAssumption
    <3>2. QED  BY <2>2, <3>1 DEF ReadOtherFragment
  <2>3. QED  BY <2>1, <2>2
<1>3. /\ ip_id_' \in 0..Ids - 1 /\ buf' \in Seq(Nat \X Nat) /\ spoilt' \subseteq 1..MaxDatagrams
      /\ \/ UNCHANGED <<buf, ip_id_>>
         \/ /\ \A d \in 1..MaxDatagrams : Unspoilt(d)' => ~Carries(buf', d)
            /\ \A d \in 1..MaxDatagrams \ spoilt' : datagram <= d => IdOf(d) # ip_id_' \/ ip_id_' = 0
            /\ fragment > 1 /\ datagram \in 1..MaxDatagrams /\ Unspoilt(datagram)' =>
                 IdOf(datagram) # ip_id_
      /\ \/ udp' = udp
         \/ \E u \in Seq(Nat \X Nat) :
              udp' = Append(udp, u) /\ \A d \in 1..MaxDatagrams : Unspoilt(d)' => ~Carries(u, d)
  BY <1>2, OtherOutcome
<1>4. /\ others' \in Nat /\ others' # 0 /\ spoilt \subseteq spoilt' /\ datagram \in Nat
      /\ \A d : UNCHANGED IdOf(d)
      /\ \A d : Unspoilt(d)' => Unspoilt(d)
  BY <1>1, <1>2 DEF InputTypes, IdOf, Unspoilt
<1>5. InputTypes'
  <2>1. udp \in Seq(Seq(Nat \X Nat))
    BY <1>1 DEF InputTypes
  <2>2. \A u \in Seq(Nat \X Nat) : Append(udp, u) \in Seq(Seq(Nat \X Nat))
    BY <2>1, AppendProperties
  <2>3. udp' \in Seq(Seq(Nat \X Nat))
    BY <1>3, <2>1, <2>2
  <2>4. QED  BY <1>1, <1>2, <1>3, <1>4, <2>3 DEF InputTypes
<1>6. Collected'
  <2>1. CASE UNCHANGED <<buf, ip_id_>>
    <3>1. \A d, n : Holding(d, n) => Holding(d, n)'
      BY <1>2, <1>4, <2>1 DEF Holding, Came
    <3>2. QED  BY <1>1, <1>4, <2>1, <3>1 DEF Collected
  <2>2. CASE \A d \in 1..MaxDatagrams : Unspoilt(d)' => ~Carries(buf', d)
    BY <2>2 DEF Collected
  <2>3. QED  BY <1>3, <2>1, <2>2
<1>7. Awaited'
  <2>1. CASE UNCHANGED <<buf, ip_id_>>
    BY <1>1, <1>2, <1>4, <2>1 DEF Awaited
  <2>2. CASE \A d \in 1..MaxDatagrams \ spoilt' : datagram <= d => IdOf(d) # ip_id_' \/ ip_id_' = 0
    BY <1>2, <1>4, <2>2 DEF Awaited
  <2>3. QED  BY <1>3, <2>1, <2>2
<1>8. Alone'
  BY <1>4 DEF Alone
<1>9. Unbroken'
  <2> SUFFICES ASSUME datagram \in intact, fragment > 1, IdOf(datagram) # 0, Unspoilt(datagram)'
               PROVE  buf' = Prefix(datagram, fragment - 1) /\ ip_id_' = IdOf(datagram)
    BY <1>2, <1>4 DEF Unbroken
  <2>1. buf = Prefix(datagram, fragment - 1) /\ ip_id_ = IdOf(datagram)
    <3>1. Unspoilt(datagram)
      BY <1>1, <1>2, <1>4 DEF Unspoilt, InputTypes
    <3>2. QED  BY <1>1, <3>1 DEF Unbroken
  <2>2. datagram \in 1..MaxDatagrams
    BY <1>1 DEF InputTypes
  <2>3. QED  BY <1>3, <2>1, <2>2
<1>10. Returned'
  BY <1>1, <1>2, <1>3, <1>4, ReturnedKept
<1>11. Complete'
  <2> SUFFICES ASSUME NEW d \in intact, d < datagram, IdOf(d) # 0, Unspoilt(d)
               PROVE  \E i \in 1..Len(udp') : udp'[i] = Prefix(d, Fragments)
    BY <1>2, <1>4 DEF Complete
  <2>1. QED  BY <1>1, <1>3, CompleteKept
<1>12. QED  BY <1>5, <1>6, <1>7, <1>8, <1>9, <1>10, <1>11 DEF InputInv

\* a fragment that is lost,
LEMMA LossKeeps == InputInv /\ LoseFragment => InputInv'
<1> SUFFICES ASSUME InputInv, LoseFragment  PROVE InputInv'
  OBVIOUS
<1>1. InputTypes /\ Collected /\ Awaited /\ Alone /\ Unbroken /\ Returned /\ Complete
  BY DEF InputInv
<1>2. /\ datagram <= MaxDatagrams /\ NextFragment /\ intact' = intact \ {datagram}
      /\ UNCHANGED <<ports, ip_id_, buf, firstId, others, spoilt, udp>>
  BY DEF LoseFragment
<1>3. /\ datagram' \in 1..MaxDatagrams + 1 /\ fragment' \in 1..Fragments
      /\ \/ datagram' = datagram /\ fragment' = fragment + 1
         \/ datagram' = datagram + 1 /\ fragment' = 1
  BY <1>1, <1>2, NextFragmentType
<1>4. /\ \A d : UNCHANGED IdOf(d)
      /\ \A d : UNCHANGED Unspoilt(d)
      /\ datagram \in Nat /\ datagram <= datagram'
  BY <1>1, <1>2, <1>3 DEF IdOf, Unspoilt, InputTypes
<1>5. InputTypes'
  BY <1>1, <1>2, <1>3 DEF InputTypes
<1>6. \A d, n \in Nat : Holding(d, n) => Holding(d, n)'
  BY <1>1, <1>2, <1>4, CameStays DEF Holding
<1>7. Collected' /\ Alone'
  <2>1. Collected'
    BY <1>1, <1>2, <1>4, <1>6 DEF Collected
  <2>2. Alone'
    BY <1>1, <1>2, <1>6 DEF Alone
  <2>3. QED  BY <2>1, <2>2
<1>8. Awaited'
  BY <1>1, <1>2, <1>3, <1>4 DEF Awaited
<1>9. Unbroken'
  BY <1>2, <1>3 DEF Unbroken
<1>10. Returned'
  BY <1>1, <1>2, <1>3, <1>4, ReturnedKept
<1>11. Complete'
  <2> SUFFICES ASSUME NEW d \in intact', d < datagram', IdOf(d)' # 0, Unspoilt(d)'
               PROVE  \E i \in 1..Len(udp') : udp'[i] = Prefix(d, Fragments)
    BY DEF Complete
  <2>1. d \in intact /\ d < datagram /\ IdOf(d) # 0 /\ Unspoilt(d)
    BY <1>1, <1>2, <1>3, <1>4 DEF InputTypes
  <2>2. QED  BY <1>1, <1>2, <2>1, CompleteKept
<1>12. QED  BY <1>5, <1>7, <1>8, <1>9, <1>10, <1>11 DEF InputInv

\* What a fragment of the lidar does: it joins those in buf_, and the last one
\* completes the datagram; it begins a datagram; or it changes nothing, since one
\* before it is missing.
LEMMA FragmentOutcome ==
  ASSUME InputInv, datagram <= MaxDatagrams,
         new_fragment(IdOf(datagram), <<datagram, fragment>>, 2 * (fragment - 1),
                      fragment < Fragments)
  PROVE  \/ /\ ip_id_ = IdOf(datagram) /\ buf' = Append(buf, <<datagram, fragment>>)
            /\ Unspoilt(datagram) => buf' = Prefix(datagram, fragment)
            /\ \A e \in 1..MaxDatagrams : Unspoilt(e) /\ Carries(buf, e) => e = datagram
            /\ \/ fragment < Fragments /\ ip_id_' = ip_id_ /\ udp' = udp
               \/ fragment = Fragments /\ ip_id_' = 0 /\ udp' = Append(udp, buf')
         \/ /\ fragment = 1 /\ ip_id_' = IdOf(datagram) /\ udp' = udp
            /\ buf' = <<<<datagram, 1>>>> /\ buf' = Prefix(datagram, 1)
         \/ /\ UNCHANGED <<buf, ip_id_, udp>>
            /\ Unspoilt(datagram) /\ IdOf(datagram) # 0 => fragment # 1
            /\ buf = Prefix(datagram, fragment - 1) => ip_id_ # IdOf(datagram)
<1> DEFINE id == IdOf(datagram)
           data == <<datagram, fragment>>
           off == 2 * (fragment - 1)
<1>1. /\ datagram \in Nat \ {0} /\ datagram \in 1..MaxDatagrams
      /\ fragment \in Nat \ {0} /\ fragment \in 1..Fragments
      /\ Fragments \in Nat \ {0, 1} /\ buf \in Seq(Nat \X Nat)
      /\ InputTypes /\ Collected /\ Awaited /\ Alone
  BY InputAssumption DEF InputInv, InputTypes
<1>2. new_fragment(id, data, off, fragment < Fragments)
  OBVIOUS
<1>3. <<data>> = Prefix(datagram, 1) \/ fragment # 1
  BY <1>1, PrefixHolds
<1> HIDE DEF id, data, off
<1>4. CASE id = ip_id_ /\ Appended(off)
  <2>1. buf_off_ = 2 * (fragment - 1)
    BY <1>4 DEF Appended, off
  <2>2. ASSUME NEW d \in Nat, NEW n \in Nat, Holding(d, n)
        PROVE  d = datagram /\ n = fragment - 1
    <3>1. d \in Nat \ {0} /\ d \in 1..MaxDatagrams /\ buf = Prefix(d, n)
      BY <2>2 DEF Holding, Came
    <3>2. buf_off_ = 2 * n
      BY <3>1, OffsetOfPrefix
    <3>3. fragment = n + 1 /\ n < Fragments
      BY <1>1, <2>1, <3>2
    <3>4. IdOf(d) = IdOf(datagram)
      BY <1>4, <2>2, <3>3 DEF id, Holding
    <3>5. d = datagram
      BY <1>1, <3>1, <3>4, IdsDiffer
    <3>6. QED  BY <1>1, <3>3, <3>5
  <2>3. \A e \in 1..MaxDatagrams : Unspoilt(e) /\ Carries(buf, e) => e = datagram
    BY <1>1, <2>2 DEF Collected
  <2>4. ASSUME Unspoilt(datagram)  PROVE Append(buf, data) = Prefix(datagram, fragment)
    <3>1. CASE buf = <<>>
      <4>1. fragment = 1
        BY <1>1, <2>1, <3>1, OffsetOfPrefix
      <4>2. Append(<<>>, data) = <<data>>
        OBVIOUS
      <4>3. QED  BY <1>3, <3>1, <4>1, <4>2
    <3>2. ASSUME NEW d \in Nat, NEW n \in Nat, Holding(d, n)
          PROVE  Append(buf, data) = Prefix(datagram, fragment)
      <4>1. buf = Prefix(datagram, n) /\ n + 1 = fragment
        BY <1>1, <2>2, <3>2 DEF Holding
      <4>2. Append(Prefix(datagram, n), <<datagram, n + 1>>) = Prefix(datagram, n + 1)
        BY <1>1, PrefixHolds
      <4>3. QED  BY <4>1, <4>2 DEF data
    <3>3. CASE ip_id_ # 0
      <4>1. datagram \in 1..MaxDatagrams \ spoilt
        BY <1>1, <2>4 DEF Unspoilt
      <4>2. Carries(buf, datagram)
        BY <1>1, <1>4, <3>3, <4>1 DEF Awaited, id
      <4>3. QED  BY <1>1, <2>4, <3>2, <4>2 DEF Collected
    <3>4. CASE ip_id_ = 0
      <4>1. others = 0
        BY <1>1, <1>4, <2>4, <3>4 DEF Unspoilt, id, InputTypes
      <4>2. QED  BY <1>1, <3>1, <3>2, <4>1 DEF Alone
    <3>5. QED  BY <3>3, <3>4
  <2>5. buf' = Append(buf, data)
    BY <1>2, <1>4 DEF new_fragment
  <2>6. \/ fragment < Fragments /\ ip_id_' = ip_id_ /\ udp' = udp
        \/ fragment = Fragments /\ ip_id_' = 0 /\ udp' = Append(udp, buf')
    <3>1. fragment < Fragments \/ (fragment = Fragments /\ ~(fragment < Fragments))
      BY <1>1
    <3>2. QED  BY <1>2, <1>4, <3>1 DEF new_fragment
  <2>7. QED  BY <1>4, <2>3, <2>4, <2>5, <2>6 DEF id, data
<1>5. CASE id = ip_id_ /\ ~Appended(off)
  <2>1. UNCHANGED <<buf, ip_id_, udp>>
    BY <1>2, <1>5 DEF new_fragment
  <2>2. ASSUME fragment = 1, id # 0, Unspoilt(datagram)  PROVE FALSE
    <3>1. datagram \in 1..MaxDatagrams \ spoilt
      BY <1>1, <2>2 DEF Unspoilt
    <3>2. Carries(buf, datagram)
      BY <1>1, <1>5, <2>2, <3>1 DEF Awaited, id
    <3>3. PICK n \in Nat : Holding(datagram, n)
      BY <1>1, <2>2, <3>2 DEF Collected
    <3>4. QED  BY <1>1, <2>2, <3>3 DEF Holding, Came
  <2>3. ASSUME buf = Prefix(datagram, fragment - 1)  PROVE FALSE
    <3>1. fragment - 1 \in Nat
      BY <1>1
    <3>2. buf_off_ = 2 * (fragment - 1)
      BY <1>1, <2>3, <3>1, OffsetOfPrefix
    <3>3. QED  BY <1>5, <3>2 DEF Appended, off
  <2>4. QED  BY <2>1, <2>2, <2>3 DEF id
<1>6. CASE id # ip_id_ /\ fragment = 1
  <2>1. off = 0 /\ fragment < Fragments
    BY <1>1, <1>6 DEF off
  <2>2. Begins(off, fragment < Fragments)
    BY <2>1 DEF Begins
  <2>3. ip_id_' = id /\ buf' = <<data>> /\ udp' = udp
    BY <1>2, <1>6, <2>1, <2>2 DEF new_fragment
  <2>4. QED  BY <1>3, <1>6, <2>3 DEF id, data
<1>7. CASE id # ip_id_ /\ fragment # 1
  <2>1. off # 0
    BY <1>1, <1>7 DEF off
  <2>2. ~Begins(off, fragment < Fragments)
    BY <2>1 DEF Begins
  <2>3. UNCHANGED <<buf, ip_id_, udp>>
    BY <1>2, <1>7, <2>1, <2>2 DEF new_fragment
  <2>4. QED  BY <1>7, <2>3 DEF id
<1>8. QED  BY <1>4, <1>5, <1>6, <1>7

\* a fragment that is read,
LEMMA ReadKeeps == InputInv /\ ReadFragment => InputInv'
<1> SUFFICES ASSUME InputInv, ReadFragment  PROVE InputInv'
  OBVIOUS
<1>1. InputTypes /\ Collected /\ Awaited /\ Alone /\ Unbroken /\ Returned /\ Complete
  BY DEF InputInv
<1> DEFINE Joined ==
             /\ ip_id_ = IdOf(datagram) /\ buf' = Append(buf, <<datagram, fragment>>)
             /\ Unspoilt(datagram) => buf' = Prefix(datagram, fragment)
             /\ \A e \in 1..MaxDatagrams : Unspoilt(e) /\ Carries(buf, e) => e = datagram
             /\ \/ fragment < Fragments /\ ip_id_' = ip_id_ /\ udp' = udp
                \/ fragment = Fragments /\ ip_id_' = 0 /\ udp' = Append(udp, buf')
           Began ==
             /\ fragment = 1 /\ ip_id_' = IdOf(datagram) /\ udp' = udp
             /\ buf' = <<<<datagram, 1>>>> /\ buf' = Prefix(datagram, 1)
           Ignored ==
             /\ UNCHANGED <<buf, ip_id_, udp>>
             /\ Unspoilt(datagram) /\ IdOf(datagram) # 0 => fragment # 1
             /\ buf = Prefix(datagram, fragment - 1) => ip_id_ # IdOf(datagram)
<1>2. /\ datagram <= MaxDatagrams /\ NextFragment
      /\ UNCHANGED <<ports, firstId, intact, others, spoilt>>
      /\ Joined \/ Began \/ Ignored
  BY FragmentOutcome DEF ReadFragment
<1>3. /\ datagram' \in 1..MaxDatagrams + 1 /\ fragment' \in 1..Fragments
      /\ \/ fragment < Fragments /\ datagram' = datagram /\ fragment' = fragment + 1
         \/ fragment = Fragments /\ datagram' = datagram + 1 /\ fragment' = 1
  BY <1>1, <1>2, NextFragmentType
<1>4. /\ datagram \in 1..MaxDatagrams /\ datagram \in Nat \ {0}
      /\ fragment \in 1..Fragments /\ fragment \in Nat \ {0} /\ Fragments \in Nat \ {0, 1}
      /\ Ids \in Nat \ {0} /\ datagram' \in Nat /\ datagram <= datagram'
      /\ <<datagram, fragment>> \in Nat \X Nat /\ <<datagram, fragment>>[1] = datagram
      /\ buf \in Seq(Nat \X Nat)
  BY <1>1, <1>2, <1>3, InputAssumption DEF InputTypes
<1>5. /\ \A d : UNCHANGED IdOf(d)
      /\ \A d : UNCHANGED Unspoilt(d)
  BY <1>2 DEF IdOf, Unspoilt
<1>6. /\ Prefix(datagram, fragment) \in Seq(Nat \X Nat)
      /\ Prefix(datagram, 1) \in Seq(Nat \X Nat)
      /\ Append(buf, <<datagram, fragment>>) \in Seq(Nat \X Nat)
      /\ Carries(Prefix(datagram, fragment), datagram) /\ Carries(Prefix(datagram, 1), datagram)
      /\ \A e \in 1..MaxDatagrams : Carries(Prefix(datagram, 1), e) => e = datagram
      /\ \A e \in 1..MaxDatagrams :
           Carries(Append(buf, <<datagram, fragment>>), e) <=> Carries(buf, e) \/ e = datagram
  <2>1. 1 \in Nat /\ 1 > 0 /\ fragment > 0 /\ \A e \in 1..MaxDatagrams : e \in Nat
    BY <1>4
  <2>2. /\ Prefix(datagram, fragment) \in Seq(Nat \X Nat)
        /\ Prefix(datagram, 1) \in Seq(Nat \X Nat)
        /\ Append(buf, <<datagram, fragment>>) \in Seq(Nat \X Nat)
    BY <1>4, <2>1, PrefixHolds, AppendProperties
  <2>3. /\ Carries(Prefix(datagram, fragment), datagram) /\ Carries(Prefix(datagram, 1), datagram)
        /\ \A e \in 1..MaxDatagrams : Carries(Prefix(datagram, 1), e) => e = datagram
    BY <1>4, <2>1, CarriesWhat
  <2>4. ASSUME NEW e \in 1..MaxDatagrams
        PROVE  Carries(Append(buf, <<datagram, fragment>>), e) <=> Carries(buf, e) \/ e = datagram
    <3>1. Carries(Append(buf, <<datagram, fragment>>), e)
            <=> Carries(buf, e) \/ <<datagram, fragment>>[1] = e
      BY <1>4, <2>1, CarriesWhat
    <3>2. QED  BY <1>4, <3>1
  <2>5. QED  BY <2>2, <2>3, <2>4
<1>7. InputTypes'
  <2>1. udp \in Seq(Seq(Nat \X Nat)) /\ ip_id_ \in 0..Ids - 1
    BY <1>1 DEF InputTypes
  <2>2. IdOf(datagram) \in 0..Ids - 1 /\ 0 \in 0..Ids - 1
    BY <1>1, <1>4, IdType
  <2>3. buf' \in Seq(Nat \X Nat)
    BY <1>2, <1>4, <1>6
  <2>4. Append(udp, buf') \in Seq(Seq(Nat \X Nat))
    BY <2>1, <2>3, AppendProperties
  <2>5. udp' \in Seq(Seq(Nat \X Nat)) /\ ip_id_' \in 0..Ids - 1
    BY <1>2, <2>1, <2>2, <2>4
  <2>6. QED  BY <1>1, <1>2, <1>3, <2>3, <2>5 DEF InputTypes
<1>8. \A d, n \in Nat : Holding(d, n) /\ Ignored => Holding(d, n)'
  BY <1>1, <1>2, <1>5, CameStays DEF Holding
<1>9. ASSUME Joined \/ Began, Unspoilt(datagram)
      PROVE  \E d, n \in Nat : d = datagram /\ Holding(d, n)'
  <2>1. buf' = Prefix(datagram, fragment)
    BY <1>9
  <2>2. /\ datagram \in 1..MaxDatagrams /\ fragment \in 1..Fragments
        /\ datagram < datagram' \/ (datagram = datagram' /\ fragment < fragment')
    BY <1>3, <1>4
  <2>3. IF fragment < Fragments THEN ip_id_' = IdOf(datagram) ELSE ip_id_' = 0
    BY <1>4, <1>9
  <2>4. PICK n \in Nat : n = fragment
    BY <1>4
  <2>5. PICK d \in Nat : d = datagram
    BY <1>4
  <2>6. Came(d, n)'
    BY <2>2, <2>4, <2>5 DEF Came
  <2>7. buf' = Prefix(d, n) /\ IF n < Fragments THEN ip_id_' = IdOf(d) ELSE ip_id_' = 0
    BY <2>1, <2>3, <2>4, <2>5
  <2>8. Holding(d, n)'
    BY <1>5, <2>6, <2>7 DEF Holding
  <2>9. QED  BY <2>5, <2>8
<1>10. Collected'
  <2> SUFFICES ASSUME NEW e \in 1..MaxDatagrams, Unspoilt(e), Carries(buf', e)
               PROVE  \E n \in Nat : Holding(e, n)'
    BY <1>5 DEF Collected
  <2>1. CASE Ignored
    BY <1>1, <1>8, <2>1 DEF Collected
  <2>2. CASE Joined \/ Began
    <3>1. e = datagram
      BY <1>6, <2>2
    <3>2. QED  BY <1>9, <2>2, <3>1
  <2>3. QED  BY <1>2, <2>1, <2>2
<1>11. Awaited'
  <2> SUFFICES ASSUME ip_id_' # 0, NEW e \in 1..MaxDatagrams \ spoilt, datagram' <= e,
                      IdOf(e) = ip_id_'
               PROVE  Carries(buf', e)
    BY <1>2, <1>5 DEF Awaited
  <2>1. CASE Ignored
    <3>1. datagram <= e
      BY <1>4
    <3>2. QED  BY <1>1, <2>1, <3>1 DEF Awaited
  <2>2. CASE Joined \/ Began
    <3>1. ip_id_' = IdOf(datagram)
      BY <2>2
    <3>2. e = datagram
      BY <1>1, <1>4, <3>1, IdsDiffer
    <3>3. QED  BY <1>6, <2>2, <3>2
  <2>3. QED  BY <1>2, <2>1, <2>2
<1>12. Alone'
  <2> SUFFICES ASSUME others = 0
               PROVE  (buf' = <<>> /\ ip_id_' = 0) \/ \E d, n \in Nat : Holding(d, n)'
    BY <1>2 DEF Alone
  <2>1. CASE Ignored
    BY <1>1, <1>8, <2>1 DEF Alone
  <2>2. CASE Joined \/ Began
    <3>1. Unspoilt(datagram)
      BY <1>1 DEF Unspoilt, InputTypes
    <3>2. QED  BY <1>4, <1>9, <2>2, <3>1
  <2>3. QED  BY <1>2, <2>1, <2>2
<1>13. Unbroken'
  <2> SUFFICES ASSUME datagram' \in intact, fragment' > 1, IdOf(datagram') # 0,
                      Unspoilt(datagram')
               PROVE  buf' = Prefix(datagram', fragment' - 1) /\ ip_id_' = IdOf(datagram')
    BY <1>2, <1>5 DEF Unbroken
  <2>1. fragment < Fragments /\ datagram' = datagram /\ fragment' = fragment + 1
    BY <1>3
  <2>2. fragment' - 1 = fragment /\ datagram \in intact /\ IdOf(datagram) # 0
        /\ Unspoilt(datagram)
    BY <1>4, <2>1
  <2>3. fragment > 1 => buf = Prefix(datagram, fragment - 1) /\ ip_id_ = IdOf(datagram)
    BY <1>1, <2>2 DEF Unbroken
  <2>4. fragment = 1 \/ fragment > 1
    BY <1>4
  <2>5. Joined \/ Began
    BY <1>2, <2>2, <2>3, <2>4
  <2>6. buf' = Prefix(datagram, fragment)
    BY <2>2, <2>5
  <2>7. ip_id_' = IdOf(datagram)
    BY <1>4, <2>1, <2>5
  <2>8. QED  BY <2>1, <2>2, <2>6, <2>7
<1>14. Returned'
  <2>1. ASSUME Joined, fragment = Fragments, NEW d \in 1..MaxDatagrams, Unspoilt(d), Carries(buf', d)
        PROVE  datagram <= d /\ d < datagram' /\ buf' = Prefix(d, Fragments)
    <3>1. d = datagram
      BY <1>6, <2>1
    <3>2. QED  BY <1>3, <1>4, <2>1, <3>1
  <2>2. udp' = udp \/ (Joined /\ fragment = Fragments /\ udp' = Append(udp, buf'))
    BY <1>2
  <2>3. buf' \in Seq(Nat \X Nat)
    BY <1>7 DEF InputTypes
  <2>4. \/ udp' = udp
        \/ \E u \in Seq(Nat \X Nat) :
             /\ udp' = Append(udp, u)
             /\ \A d \in 1..MaxDatagrams : Unspoilt(d)' /\ Carries(u, d) =>
                  datagram <= d /\ d < datagram' /\ u = Prefix(d, Fragments)
    BY <1>5, <2>1, <2>2, <2>3
  <2> HIDE DEF Joined, Began, Ignored
  <2>5. QED  BY <1>1, <1>4, <1>5, <2>4, ReturnedKept
<1>15. Complete'
  <2> SUFFICES ASSUME NEW d \in intact, d < datagram', IdOf(d) # 0, Unspoilt(d)
               PROVE  \E i \in 1..Len(udp') : udp'[i] = Prefix(d, Fragments)
    BY <1>2, <1>5 DEF Complete
  <2>1. buf' \in Seq(Nat \X Nat)
    BY <1>7 DEF InputTypes
  <2>2. udp' = udp \/ \E u \in Seq(Nat \X Nat) : udp' = Append(udp, u)
    BY <1>2, <2>1
  <2>3. CASE d < datagram
    BY <1>1, <2>2, <2>3, CompleteKept
  <2>4. CASE ~(d < datagram)
    <3>1. d = datagram /\ fragment = Fragments /\ fragment > 1
      BY <1>1, <1>3, <1>4, <2>4 DEF InputTypes
    <3>2. buf = Prefix(datagram, fragment - 1) /\ ip_id_ = IdOf(datagram)
      BY <1>1, <3>1 DEF Unbroken
    <3>3. Joined
      BY <1>2, <1>4, <3>1, <3>2
    <3>4. udp' = Append(udp, buf') /\ buf' = Prefix(datagram, Fragments)
      BY <1>4, <3>1, <3>3
    <3>5. udp \in Seq(Seq(Nat \X Nat))
      BY <1>1 DEF InputTypes
    <3>6. /\ Len(udp') = Len(udp) + 1 /\ Len(udp) \in Nat
          /\ udp'[Len(udp) + 1] = Prefix(datagram, Fragments)
      BY <2>1, <3>4, <3>5, AppendProperties
    <3>7. QED  BY <3>1, <3>6
  <2>5. QED  BY <2>3, <2>4
<1>16. QED  BY <1>7, <1>10, <1>11, <1>12, <1>13, <1>14, <1>15 DEF InputInv

\* and so every step.
LEMMA InputStep == InputInv /\ [InputNext]_inputVars => InputInv'
<1> SUFFICES ASSUME InputInv, [InputNext]_inputVars  PROVE InputInv'
  OBVIOUS
<1>1. CASE UNCHANGED inputVars
  <2>1. /\ UNCHANGED <<ports, ip_id_, buf, firstId, datagram, fragment, intact, others, spoilt, udp>>
        /\ \A d : UNCHANGED IdOf(d)
        /\ \A d : UNCHANGED Unspoilt(d)
        /\ \A d, n : UNCHANGED Holding(d, n)
    BY <1>1 DEF inputVars, IdOf, Unspoilt, Holding, Came
  <2>2. InputTypes' /\ Collected' /\ Awaited' /\ Alone' /\ Unbroken'
    BY <2>1 DEF InputInv, InputTypes, Collected, Awaited, Alone, Unbroken
  <2>3. Returned' /\ Complete'
    BY <2>1 DEF InputInv, Returned, Complete
  <2>4. QED  BY <2>2, <2>3 DEF InputInv
<1>2. QED  BY <1>1, ReadKeeps, LossKeeps, OtherKeeps DEF InputNext

-----------------------------------------------------------------------------
\* How often a port is in a list that has none twice.
LEMMA TimesInList ==
  ASSUME NEW s \in Seq(Nat), IsInjective(s), NEW port
  PROVE  Cardinality({i \in 1..Len(s) : s[i] = port}) = IF port \in ToSet(s) THEN 1 ELSE 0
<1>1. DOMAIN s = 1..Len(s)
  OBVIOUS
<1>2. CASE port \in ToSet(s)
  <2>1. PICK i \in 1..Len(s) : s[i] = port
    BY <1>1, <1>2 DEF ToSet
  <2>2. {j \in 1..Len(s) : s[j] = port} = {i}
    BY <1>1, <2>1 DEF IsInjective
  <2>3. QED  BY <1>2, <2>2, FS_Singleton
<1>3. CASE port \notin ToSet(s)
  <2>1. {j \in 1..Len(s) : s[j] = port} = {}
    BY <1>1, <1>3 DEF ToSet
  <2>2. QED  BY <1>3, <2>1, FS_EmptySet
<1>4. QED  BY <1>2, <1>3

\* Short lists, joined.
LEMMA PortsJoined ==
  ASSUME NEW a \in Nat, NEW b \in Nat, NEW c \in Nat
  PROVE  /\ <<a>> \o <<b>> = <<a, b>> /\ <<a, b>> \o <<c>> = <<a, b, c>>
         /\ <<a>> \o <<>> = <<a>> /\ <<a, b>> \o <<>> = <<a, b>>
<1>1. <<a>> \o <<b>> = <<a, b>>
  <2> DEFINE s == <<a>>
             t == <<b>>
             u == <<a, b>>
  <2>1. /\ s \in Seq(Nat) /\ Len(s) = 1 /\ s[1] = a /\ t \in Seq(Nat) /\ Len(t) = 1 /\ t[1] = b
        /\ u \in Seq(Nat) /\ Len(u) = 2 /\ u[1] = a /\ u[2] = b
    OBVIOUS
  <2> HIDE DEF s, t, u
  <2>2. /\ s \o t \in Seq(Nat) /\ Len(s \o t) = Len(s) + Len(t)
        /\ \A i \in 1..Len(s) + Len(t) :
             (s \o t)[i] = IF i <= Len(s) THEN s[i] ELSE t[i - Len(s)]
    BY <2>1, ConcatProperties, Zenon
  <2>3. \A i \in 1..2 : i = 1 \/ i = 2
    OBVIOUS
  <2>4. s \o t = u
    BY <2>1, <2>2, <2>3, SeqEqual
  <2>5. QED  BY <2>4 DEF s, t, u
<1>2. <<a, b>> \o <<c>> = <<a, b, c>>
  <2> DEFINE s == <<a, b>>
             t == <<c>>
             u == <<a, b, c>>
  <2>1. /\ s \in Seq(Nat) /\ Len(s) = 2 /\ s[1] = a /\ s[2] = b
        /\ t \in Seq(Nat) /\ Len(t) = 1 /\ t[1] = c
        /\ u \in Seq(Nat) /\ Len(u) = 3 /\ u[1] = a /\ u[2] = b /\ u[3] = c
    OBVIOUS
  <2> HIDE DEF s, t, u
  <2>2. /\ s \o t \in Seq(Nat) /\ Len(s \o t) = Len(s) + Len(t)
        /\ \A i \in 1..Len(s) + Len(t) :
             (s \o t)[i] = IF i <= Len(s) THEN s[i] ELSE t[i - Len(s)]
    BY <2>1, ConcatProperties, Zenon
  <2> DEFINE v == s \o t
  <2>3. v \in Seq(Nat) /\ Len(v) = 3 /\ v[1] = a /\ v[2] = b /\ v[3] = c
    BY <2>1, <2>2, SMTT(20)
  <2> HIDE DEF v
  <2>4. ASSUME NEW i \in 1..3  PROVE v[i] = u[i]
    <3>1. i = 1 \/ i = 2 \/ i = 3
      OBVIOUS
    <3>2. QED  BY <2>1, <2>3, <3>1
  <2>5. v = u
    BY <2>1, <2>3, <2>4, SeqEqual
  <2>6. QED  BY <2>5 DEF s, t, u, v
<1>3. <<a>> \o <<>> = <<a>> /\ <<a, b>> \o <<>> = <<a, b>>
  OBVIOUS
<1>4. QED  BY <1>1, <1>2, <1>3

\* Each port that is used has one socket.
LEMMA PortsOnce == InputTypes => SameDatagrams
<1> SUFFICES ASSUME InputTypes, NEW port \in 1..3
             PROVE  Cardinality({i \in 1..Len(Sockets) : Sockets[i] = port}) =
                      IF Filtered(port) THEN 1 ELSE 0
  BY DEF SameDatagrams
<1>1. ports[1] = 1 /\ ports[1] \in Nat /\ ports[2] \in Nat /\ ports[3] \in Nat
  BY DEF InputTypes
<1> DEFINE s == Sockets
<1>2. /\ s \in Seq(Nat) /\ IsInjective(s)
      /\ ToSet(s) = {ports[1]} \cup (IF DifopSocket THEN {ports[2]} ELSE {})
                               \cup (IF ImuSocket THEN {ports[3]} ELSE {})
  <2>1. CASE DifopSocket /\ ImuSocket
    <3>1. s = <<ports[1]>> \o <<ports[2]>> \o <<ports[3]>>
      BY <2>1, Zenon DEF Sockets
    <3> HIDE DEF s
    <3>2. s = <<ports[1], ports[2], ports[3]>>
      <4>1. <<ports[1]>> \o <<ports[2]>> = <<ports[1], ports[2]>>
        BY <1>1, PortsJoined, Zenon
      <4>2. <<ports[1], ports[2]>> \o <<ports[3]>> = <<ports[1], ports[2], ports[3]>>
        BY <1>1, PortsJoined, Zenon
      <4>3. QED  BY <3>1, <4>1, <4>2, Zenon
    <3>3. /\ s \in Seq(Nat) /\ DOMAIN s = {1, 2, 3}
          /\ s[1] = ports[1] /\ s[2] = ports[2] /\ s[3] = ports[3]
      BY <1>1, <3>2
    <3>4. IsInjective(s)
      BY <2>1, <3>3 DEF IsInjective, DifopSocket, ImuSocket
    <3>5. QED  BY <2>1, <3>3, <3>4 DEF ToSet
  <2>2. CASE DifopSocket /\ ~ImuSocket
    <3>1. s = <<ports[1]>> \o <<ports[2]>> \o <<>>
      BY <2>2, Zenon DEF Sockets
    <3> HIDE DEF s
    <3>2. s = <<ports[1], ports[2]>>
      <4>1. <<ports[1]>> \o <<ports[2]>> = <<ports[1], ports[2]>>
        BY <1>1, PortsJoined, Zenon
      <4>2. <<ports[1], ports[2]>> \o <<>> = <<ports[1], ports[2]>>
        BY <1>1, PortsJoined, Zenon
      <4>3. QED  BY <3>1, <4>1, <4>2, Zenon
    <3>3. s \in Seq(Nat) /\ DOMAIN s = {1, 2} /\ s[1] = ports[1] /\ s[2] = ports[2]
      BY <1>1, <3>2
    <3>4. IsInjective(s)
      BY <2>2, <3>3 DEF IsInjective, DifopSocket
    <3>5. QED  BY <2>2, <3>3, <3>4 DEF ToSet
  <2>3. CASE ~DifopSocket /\ ImuSocket
    <3>1. s = <<ports[1]>> \o <<>> \o <<ports[3]>>
      BY <2>3, Zenon DEF Sockets
    <3> HIDE DEF s
    <3>2. s = <<ports[1], ports[3]>>
      <4>1. <<ports[1]>> \o <<>> = <<ports[1]>>
        BY <1>1, PortsJoined, Zenon
      <4>2. <<ports[1]>> \o <<ports[3]>> = <<ports[1], ports[3]>>
        BY <1>1, PortsJoined, Zenon
      <4>3. QED  BY <3>1, <4>1, <4>2, Zenon
    <3>3. s \in Seq(Nat) /\ DOMAIN s = {1, 2} /\ s[1] = ports[1] /\ s[2] = ports[3]
      BY <1>1, <3>2
    <3>4. IsInjective(s)
      BY <2>3, <3>3 DEF IsInjective, ImuSocket
    <3>5. QED  BY <2>3, <3>3, <3>4 DEF ToSet
  <2>4. CASE ~DifopSocket /\ ~ImuSocket
    <3>1. s = <<ports[1]>>
      BY <2>4 DEF Sockets
    <3> HIDE DEF s
    <3>2. s \in Seq(Nat) /\ DOMAIN s = {1} /\ s[1] = ports[1]
      BY <1>1, <3>1
    <3>3. QED  BY <2>4, <3>2 DEF IsInjective, ToSet
  <2>5. QED  BY <2>1, <2>2, <2>3, <2>4
<1>3. port \in ToSet(s) <=> Filtered(port)
  BY <1>1, <1>2 DEF Filtered, DifopSocket, ImuSocket
<1> HIDE DEF s
<1>4. Cardinality({i \in 1..Len(s) : s[i] = port}) = IF port \in ToSet(s) THEN 1 ELSE 0
  BY <1>2, TimesInList
<1>5. QED  BY <1>3, <1>4 DEF s

\* What is returned is whole,
LEMMA ReturnedWhole == InputInv => WholeDatagrams
BY DEF InputInv, Returned, WholeDatagrams, Prefix

\* and what is intact is returned once.
LEMMA ReturnedOnce == InputInv => IntactReturned
<1> SUFFICES ASSUME InputInv, NEW d \in intact \cap 1..datagram - 1, IdOf(d) # 0, Unspoilt(d)
             PROVE  Cardinality({i \in 1..Len(udp) : Carries(udp[i], d)}) = 1
  BY DEF IntactReturned
<1>1. /\ d \in intact /\ d < datagram /\ d \in 1..MaxDatagrams /\ d \in Nat
      /\ Fragments \in Nat /\ Fragments > 0
  BY InputAssumption DEF InputInv, InputTypes
<1>2. PICK i \in 1..Len(udp) : udp[i] = Prefix(d, Fragments)
  BY <1>1 DEF InputInv, Complete
<1>3. Carries(udp[i], d)
  BY <1>1, <1>2, CarriesWhat
<1>4. \A j \in 1..Len(udp) : Carries(udp[j], d) => j = i
  BY <1>1, <1>3 DEF InputInv, Returned
<1>5. {j \in 1..Len(udp) : Carries(udp[j], d)} = {i}
  BY <1>3, <1>4
<1>6. QED  BY <1>5, FS_Singleton

\* Whatever fragments a capture lacks and whatever datagrams and fragments of other
\* hosts come between them, what is returned with anything of an unspoilt datagram
\* is that datagram, whole, and of those all that are intact are returned, once; and
\* the sockets give the datagrams that a capture of them gives
\* (Jumbo::new_fragment, InputPcapJumbo::recvPacket, InputSock::init), for every
\* number of fragments and of IP ids.
THEOREM DatagramsAreRight == InputSpec => []DatagramsRight
<1>1. InputInv => DatagramsRight
  <2>1. InputInv => InputTypes
    BY DEF InputInv
  <2>2. QED  BY <2>1, ReturnedWhole, ReturnedOnce, PortsOnce DEF DatagramsRight
<1>2. QED
  BY <1>1, InputBegins, InputStep, PTL DEF InputSpec

-----------------------------------------------------------------------------
(***************************************************************************)
(* The decoder of a solid-state lidar, packet by packet.                   *)
(***************************************************************************)

Members == {"lidar", "param", "split", "cloud", "out", "echo_mode", "angles_ready", "new_frame",
            "skew", "prev_point_ts", "first_point_ts", "packet_duration"}
IsCloud(c) ==
  /\ c = [m \in {"points", "times", "fired", "begun"} |-> c[m]]
  /\ c.points \in Nat
IsDecoder(d, l, param) ==
  /\ d = [m \in Members |-> d[m]]
  /\ d.lidar = l /\ d.param = param
  /\ IsCloud(d.cloud)
  /\ d.split \in [prev : Nat, max : Nat, looped : BOOLEAN]

\* What is asked of a cloud: firings of one frame, and a number of points.
Proper(c, one, sizes) == (one => \A x, y \in c.fired : x = y) /\ c.points \in sizes
Delivered(out, one, sizes) == \E S : out \in Seq(S) /\ \A o \in S : Proper(o.cloud, one, sizes)

\* The points of a packet, of which every block is alike.
BlockPoints(l, param, returns) ==
  LET d == [lidar |-> l, param |-> param]
  IN Points(d, IF InDistance(d, 10) THEN l.channels ELSE 0, returns)
PacketPoints(l, param, returns) ==
  BlockPoints(l, param, returns) + BlockPoints(l, param, returns)

LEMMA LidarIsKnown ==
  ASSUME NEW l \in MemsLidars
  PROVE  /\ l.channels \in Nat
         /\ l.angles_ready \in BOOLEAN
         /\ l # RSEMX => l.angles_ready
<1>1. l = RSM1 \/ l = RSM2 \/ l = RSM3 \/ l = RSE1 \/ l = RSMX \/ l = RSEMX \/ l = RSM1_Jumbo
  BY DEF MemsLidars
<1>2. {1, 2, 5, 28} \subseteq Nat
  OBVIOUS
<1>3. /\ RSM1.channels = 5 /\ RSM2.channels = 5 /\ RSM3.channels = 28 /\ RSE1.channels = 1
      /\ RSMX.channels = 2 /\ RSEMX.channels = 1 /\ RSM1_Jumbo.channels = 5
  BY DEF RSM1, RSM2, RSM3, RSE1, RSMX, RSEMX, RSM1_Jumbo
<1>4. /\ RSM1.angles_ready = TRUE /\ RSM2.angles_ready = TRUE /\ RSM3.angles_ready = TRUE
      /\ RSE1.angles_ready = TRUE /\ RSMX.angles_ready = TRUE /\ RSEMX.angles_ready = FALSE
      /\ RSM1_Jumbo.angles_ready = TRUE
  BY DEF RSM1, RSM2, RSM3, RSE1, RSMX, RSEMX, RSM1_Jumbo
<1>5. QED  BY <1>1, <1>2, <1>3, <1>4

LEMMA LidarsDiffer ==
  /\ RSM1 \notin {RSM2, RSM3, RSE1, RSMX, RSEMX, RSM1_Jumbo}
  /\ RSM2 \notin {RSM3, RSE1, RSMX, RSEMX, RSM1_Jumbo}
  /\ RSM3 \notin {RSE1, RSMX, RSEMX, RSM1_Jumbo}
  /\ RSE1 \notin {RSMX, RSEMX, RSM1_Jumbo}
  /\ RSMX \notin {RSEMX, RSM1_Jumbo}
  /\ RSEMX # RSM1_Jumbo
<1>1. /\ RSM1.name = "RSM1" /\ RSM2.name = "RSM2" /\ RSM3.name = "RSM3" /\ RSE1.name = "RSE1"
      /\ RSMX.name = "RSMX" /\ RSEMX.name = "RSEMX" /\ RSM1_Jumbo.name = "RSM1_Jumbo"
  BY DEF RSM1, RSM2, RSM3, RSE1, RSMX, RSEMX, RSM1_Jumbo
<1>2. QED  BY <1>1

LEMMA BlockPointsAre ==
  ASSUME NEW l \in MemsLidars, NEW param, NEW returns \in {1, 2}
  PROVE  BlockPoints(l, param, returns) \in {0, returns * l.channels} /\ BlockPoints(l, param, returns) \in Nat
<1>1. l.channels \in Nat
  BY LidarIsKnown
<1>2. returns * l.channels \in Nat /\ returns * 0 = 0
  BY <1>1
<1>3. BlockPoints(l, param, returns) \in {returns * 0, returns * l.channels}
  BY DEF BlockPoints, Points
<1>4. QED  BY <1>2, <1>3

LEMMA BlockIsAdded ==
  ASSUME NEW l \in MemsLidars, NEW param, NEW returns \in {1, 2}, NEW d, IsDecoder(d, l, param),
         NEW block, block.lit = l.channels, NEW f, block.firing.turn = f, NEW ts
  PROVE  LET e == AddBlock(d, block, InDistance(d, 10), ts, returns)
         IN /\ IsDecoder(e, l, param)
            /\ e.split = d.split /\ e.out = d.out
            /\ e.new_frame = d.new_frame /\ e.angles_ready = d.angles_ready
            /\ e.cloud.points = d.cloud.points + BlockPoints(l, param, returns)
            /\ d.cloud.fired \subseteq {f} => e.cloud.fired \subseteq {f}
<1> DEFINE e == AddBlock(d, block, InDistance(d, 10), ts, returns)
           p == Points(d, IF InDistance(d, 10) THEN block.lit ELSE 0, returns)
           x == block.firing.turn
<1>1. p = BlockPoints(l, param, returns) /\ p \in Nat
  <2>1. p = BlockPoints(l, param, returns)
    BY DEF BlockPoints, Points, InDistance, IsDecoder
  <2>2. QED  BY <2>1, BlockPointsAre
<1>2. d.cloud.fired \subseteq {f}
       => (IF d.cloud.fired = {} THEN {x} ELSE {Min(d.cloud.fired \cup {x}), Max(d.cloud.fired \cup {x})}) \subseteq {f}
  <2>1. CASE d.cloud.fired = {}
    BY <2>1
  <2>2. CASE d.cloud.fired # {}
    <3>1. SUFFICES ASSUME d.cloud.fired \subseteq {f}
                   PROVE  {Min(d.cloud.fired \cup {x}), Max(d.cloud.fired \cup {x})} \subseteq {f}
      BY <2>2
    <3>2. d.cloud.fired \cup {x} = {f}
      BY <3>1
    <3>3. Min({f}) = f /\ Max({f}) = f
      BY DEF Min, Max
    <3>4. QED  BY <3>2, <3>3
  <2>3. QED  BY <2>1, <2>2
<1> HIDE DEF p, x
<1>3. /\ e = [m \in Members |-> e[m]] /\ e.lidar = l /\ e.param = param /\ e.split = d.split
      /\ e.out = d.out /\ e.new_frame = d.new_frame /\ e.angles_ready = d.angles_ready
  BY DEF IsDecoder, Members, AddBlock
<1>4. /\ e.cloud = [m \in {"points", "times", "fired", "begun"} |-> e.cloud[m]]
      /\ e.cloud.points = d.cloud.points + p
      /\ e.cloud.fired = IF d.cloud.fired = {} THEN {x}
                         ELSE {Min(d.cloud.fired \cup {x}), Max(d.cloud.fired \cup {x})}
  BY DEF IsDecoder, Members, AddBlock, p, x
<1>5. e.cloud.points \in Nat /\ d.split \in [prev : Nat, max : Nat, looped : BOOLEAN]
  BY <1>1, <1>4 DEF IsDecoder, IsCloud
<1>6. QED  BY <1>1, <1>2, <1>3, <1>4, <1>5 DEF IsDecoder, IsCloud

\* The frame that ends goes out if it has points.
LEMMA FrameIsSplit ==
  ASSUME NEW l, NEW param, NEW d, IsDecoder(d, l, param), NEW rows
  PROVE  LET e == SplitFrame(d, rows)
         IN /\ IsDecoder(e, l, param)
            /\ e.split = d.split /\ e.cloud = EmptyCloud
            /\ e.new_frame = d.new_frame /\ e.angles_ready = d.angles_ready
            /\ d.cloud.points = 0 => e.out = d.out
            /\ d.cloud.points # 0
                => \E o : o.cloud = d.cloud /\ e.out = Append(d.out, o)
<1> DEFINE e == SplitFrame(d, rows)
           o == [cloud |-> d.cloud, stamp |-> cloudTs(d), height |-> rows]
<1>1. /\ IsDecoder(e, l, param)
      /\ e.split = d.split /\ e.cloud = EmptyCloud
      /\ e.new_frame = d.new_frame /\ e.angles_ready = d.angles_ready
      /\ d.cloud.points = 0 => e.out = d.out
      /\ d.cloud.points # 0 => e.out = Append(d.out, o)
  BY DEF IsDecoder, Members, SplitFrame, IsCloud, EmptyCloud
<1>2. o.cloud = d.cloud
  OBVIOUS
<1> HIDE DEF e, o
<1>3. QED  BY <1>1, <1>2 DEF e

\* e is d with a frame begun.
Begun(d, e, l, param) ==
  /\ IsDecoder(e, l, param)
  /\ e.split = d.split /\ e.cloud.points = 0 /\ e.cloud.fired = {}
  /\ e.new_frame = TRUE /\ e.angles_ready = d.angles_ready
  /\ d.cloud.points = 0 => e.out = d.out
  /\ d.cloud.points # 0 => \E o : o.cloud = d.cloud /\ e.out = Append(d.out, o)

LEMMA FrameBegins ==
  ASSUME NEW l, NEW param, NEW d, IsDecoder(d, l, param), NEW rows, NEW when
  PROVE  Begun(d, BeginFrame(d, rows, when), l, param)
<1> DEFINE c == SplitFrame(d, rows)
           e == BeginFrame(d, rows, when)
<1>1. /\ IsDecoder(c, l, param)
      /\ c.split = d.split /\ c.cloud = EmptyCloud
      /\ c.new_frame = d.new_frame /\ c.angles_ready = d.angles_ready
      /\ d.cloud.points = 0 => c.out = d.out
      /\ d.cloud.points # 0
           => \E o : o.cloud = d.cloud /\ c.out = Append(d.out, o)
  BY FrameIsSplit
<1>2. e = [c EXCEPT !.first_point_ts = when, !.cloud.begun = TRUE, !.new_frame = TRUE]
  BY DEF BeginFrame
<1> HIDE DEF c, e
<1>3. /\ e = [m \in Members |-> e[m]] /\ e.lidar = l /\ e.param = param /\ e.split = c.split
      /\ e.out = c.out /\ e.new_frame = TRUE /\ e.angles_ready = c.angles_ready
      /\ e.cloud = [c.cloud EXCEPT !.begun = TRUE]
  BY <1>1, <1>2 DEF IsDecoder, Members
<1>4. e.cloud.points = 0 /\ e.cloud.fired = {} /\ IsCloud(e.cloud)
  BY <1>1, <1>3 DEF EmptyCloud, IsCloud
<1>5. c.split \in [prev : Nat, max : Nat, looped : BOOLEAN]
  BY <1>1 DEF IsDecoder
<1>6. IsDecoder(e, l, param)
  BY <1>3, <1>4, <1>5 DEF IsDecoder
<1>7. QED  BY <1>1, <1>3, <1>4, <1>6 DEF e, Begun

-----------------------------------------------------------------------------
\* What a packet with two blocks of frame f brings.
IsPacket(pkt, l, f) ==
  /\ Len(pkt.blocks) = 2
  /\ \A b \in 1..2 : /\ pkt.blocks[b].distance = 10 /\ pkt.blocks[b].lit = l.channels
                     /\ pkt.blocks[b].firing.turn = f

\* The strategy's answer to a number.
LEMMA SeqIsTyped ==
  ASSUME NEW s \in [prev : Nat, max : Nat, looped : BOOLEAN], NEW seq \in Nat
  PROVE  /\ BySeq(s, seq).next \in [prev : Nat, max : Nat, looped : BOOLEAN]
         /\ BySeq(s, seq).split \in BOOLEAN
<1>1. SafeMin(s) \in Int
  BY DecoderAssumption DEF SafeMin
<1>2. QED  BY <1>1 DEF BySeq

\* e is d after a packet of frame f, numbered seq.
Decoded(d, e, l, param, returns, f, seq) ==
  LET s == BySeq(d.split, seq)
      P == PacketPoints(l, param, returns)
  IN /\ IsDecoder(e, l, param) /\ e.split = s.next /\ e.angles_ready = d.angles_ready
     /\ ~s.split => /\ e.out = d.out /\ e.new_frame = d.new_frame
                    /\ e.cloud.points = d.cloud.points + P
                    /\ d.cloud.fired \subseteq {f} => e.cloud.fired \subseteq {f}
     /\ s.split => /\ e.new_frame = TRUE /\ e.cloud.points = P /\ e.cloud.fired \subseteq {f}
                   /\ d.cloud.points = 0 => e.out = d.out
                   /\ d.cloud.points # 0 => \E o : o.cloud = d.cloud /\ e.out = Append(d.out, o)

LEMMA PacketIsDecoded ==
  ASSUME NEW l \in MemsLidars, NEW param, NEW returns \in {1, 2}, NEW d, IsDecoder(d, l, param),
         NEW f, NEW pkt, IsPacket(pkt, l, f), NEW seq \in Nat
  PROVE  Decoded(d, NumberedPacket(d, pkt, seq, returns), l, param, returns, f, seq)
<1> DEFINE ts == PacketTime(d, pkt)
           s == BySeq(d.split, seq)
           a == [d EXCEPT !.split = s.next]
           first == IF s.split THEN BeginFrame(a, d.lidar.lasers, ts) ELSE a
           Add(g, b) == AddBlock(g, pkt.blocks[b], InDistance(d, pkt.blocks[b].distance),
                                 ts + pkt.blocks[b].time_offset, returns)
           Loop(g) == g = [b \in 0..Len(pkt.blocks) |-> IF b = 0 THEN first ELSE Add(g[b - 1], b)]
           after == CHOOSE g : Loop(g)
           e == NumberedPacket(d, pkt, seq, returns)
           B == BlockPoints(l, param, returns)
<1>1. /\ IsDecoder(a, l, param) /\ a.split = s.next /\ a.angles_ready = d.angles_ready
      /\ a.out = d.out /\ a.new_frame = d.new_frame /\ a.cloud = d.cloud
  <2>1. s.next \in [prev : Nat, max : Nat, looped : BOOLEAN]
    BY SeqIsTyped DEF IsDecoder
  <2> HIDE DEF s
  <2>2. QED  BY <2>1 DEF IsDecoder, Members
<1>2. e = after[Len(pkt.blocks)]
  BY DEF NumberedPacket
<1>3. Loop(after)
  <2> DEFINE g == [b \in 0..2 |-> IF b = 0 THEN first ELSE IF b = 1 THEN Add(first, 1)
                                 ELSE Add(Add(first, 1), 2)]
  <2>1. Loop(g)
    <3> HIDE DEF first, Add
    <3>1. Len(pkt.blocks) = 2
      BY DEF IsPacket
    <3>2. \A b \in 0..2 : b = 0 \/ b = 1 \/ b = 2
      OBVIOUS
    <3>3. 1 - 1 = 0 /\ 2 - 1 = 1 /\ 0 \in 0..2 /\ 1 \in 0..2 /\ 2 \in 0..2
      OBVIOUS
    <3>4. g[0] = first /\ g[1] = Add(g[0], 1) /\ g[2] = Add(g[1], 2)
      BY <3>3
    <3>5. g = [b \in 0..2 |-> g[b]]
      OBVIOUS
    <3> HIDE DEF g
    <3>6. \A b \in 0..2 : g[b] = IF b = 0 THEN first ELSE Add(g[b - 1], b)
      BY <3>2, <3>3, <3>4
    <3>7. QED  BY <3>1, <3>5, <3>6
  <2>2. \E g_1 : Loop(g_1)
    <3> HIDE DEF g, Loop
    <3>1. QED  BY <2>1
  <2> HIDE DEF Loop, first, Add
  <2>3. QED  BY <2>2, Zenon
<1> HIDE DEF after
<1>4. after[0] = first /\ after[1] = Add(first, 1) /\ e = Add(after[1], 2)
  <2>1. Len(pkt.blocks) = 2
    BY DEF IsPacket
  <2> HIDE DEF first, Add, e
  <2>2. 1 - 1 = 0 /\ 2 - 1 = 1 /\ 0 \in 0..2 /\ 1 \in 0..2 /\ 2 \in 0..2
    OBVIOUS
  <2>3. QED  BY <1>2, <1>3, <2>1, <2>2
<1> DEFINE Kept(g, h) == /\ IsDecoder(h, l, param)
                         /\ h.split = g.split /\ h.out = g.out
                         /\ h.new_frame = g.new_frame /\ h.angles_ready = g.angles_ready
                         /\ h.cloud.points = g.cloud.points + B
                         /\ g.cloud.fired \subseteq {f} => h.cloud.fired \subseteq {f}
<1>5. ASSUME NEW g, IsDecoder(g, l, param), NEW b \in 1..2  PROVE Kept(g, Add(g, b))
  <2>1. /\ pkt.blocks[b].distance = 10 /\ pkt.blocks[b].lit = l.channels
        /\ pkt.blocks[b].firing.turn = f
    BY DEF IsPacket
  <2>2. InDistance(d, 10) = InDistance(g, 10)
    BY <1>5 DEF InDistance, IsDecoder
  <2> DEFINE block == pkt.blocks[b]
             t == ts + block.time_offset
  <2>3. Kept(g, AddBlock(g, block, InDistance(g, 10), t, returns))
    <3> HIDE DEF t, block
    <3>1. block.lit = l.channels /\ block.firing.turn = f
      BY <2>1 DEF block
    <3>2. QED  BY <1>5, <3>1, BlockIsAdded
  <2>4. QED  BY <2>1, <2>2, <2>3
<1>6. /\ IsDecoder(first, l, param) /\ first.split = s.next /\ first.angles_ready = d.angles_ready
      /\ ~s.split => first.out = d.out /\ first.new_frame = d.new_frame /\ first.cloud = d.cloud
      /\ s.split => /\ first.new_frame = TRUE /\ first.cloud.points = 0 /\ first.cloud.fired = {}
                    /\ d.cloud.points = 0 => first.out = d.out
                    /\ d.cloud.points # 0
                         => \E o : o.cloud = d.cloud /\ first.out = Append(d.out, o)
  <2>1. CASE ~s.split
    BY <1>1, <2>1
  <2>2. CASE s.split
    <3> HIDE DEF a, s, ts
    <3> DEFINE height == d.lidar.lasers
               c == BeginFrame(a, height, ts)
    <3>1. first = c
      BY <2>2
    <3> HIDE DEF height, first
    <3>2. Begun(a, c, l, param)
      BY <1>1, FrameBegins
    <3> HIDE DEF c
    <3>3. QED  BY <1>1, <2>2, <3>1, <3>2 DEF Begun
  <2>3. QED  BY <2>1, <2>2
<1>7. Kept(first, after[1]) /\ Kept(after[1], e)
  <2> HIDE DEF first, Add
  <2>1. Kept(first, after[1])
    BY <1>4, <1>5, <1>6
  <2>2. Kept(after[1], e)
    BY <1>4, <1>5, <2>1
  <2>3. QED  BY <2>1, <2>2
<1>8. d.cloud.points \in Nat /\ B \in Nat /\ PacketPoints(l, param, returns) = B + B
  BY BlockPointsAre DEF IsDecoder, IsCloud, PacketPoints
<1> HIDE DEF first, e, s, B
<1>9. CASE s.split
  <2>1. e.cloud.points = B + B
    BY <1>6, <1>7, <1>8, <1>9
  <2>2. e.cloud.fired \subseteq {f} /\ e.new_frame = TRUE
    BY <1>6, <1>7, <1>9
  <2>3. d.cloud.points = 0 => e.out = d.out
    BY <1>6, <1>7, <1>9
  <2>4. d.cloud.points # 0 => \E o : o.cloud = d.cloud /\ e.out = Append(d.out, o)
    BY <1>6, <1>7, <1>9
  <2>5. QED  BY <1>6, <1>7, <1>8, <1>9, <2>1, <2>2, <2>3, <2>4 DEF e, s, Decoded
<1>10. CASE ~s.split
  <2>1. e.cloud.points = d.cloud.points + (B + B)
    BY <1>6, <1>7, <1>8, <1>10
  <2>2. QED  BY <1>6, <1>7, <1>8, <1>10, <2>1 DEF e, s, Decoded
<1>11. QED  BY <1>9, <1>10

-----------------------------------------------------------------------------
\* What the constants are, one by one.
LEMMA FrameSizes ==
  /\ FramePackets \in Nat /\ JumboPackets \in Nat /\ SeqRange \in Nat /\ SeqRange # 0
  /\ SeqRange + 2 <= JumboPackets /\ JumboPackets < FramePackets
  /\ SeqRange + SeqRange < FramePackets
BY MemsAssumption, DecoderAssumption

\* The answer a of the strategy in state s to a number.
Answered(s, seq, a) ==
  /\ s.prev = 0 \/ (s.prev <= seq /\ seq <= s.prev + SeqRange) => ~a.split /\ a.next.prev = seq
  /\ s.prev > SeqRange /\ seq < s.prev - SeqRange => a.split /\ a.next.prev = seq
  /\ seq < s.prev /\ s.prev <= seq + SeqRange => ~a.split /\ a.next.prev = s.prev
  /\ s.prev # 0 /\ seq > s.prev + SeqRange => ~a.split /\ a.next.prev = s.prev
  /\ a.next.max = IF seq > s.max THEN seq ELSE s.max
  /\ a.split => a.next.looped = TRUE
  /\ ~a.split => a.next.looped = s.looped

LEMMA SeqAnswers ==
  ASSUME NEW s \in [prev : Nat, max : Nat, looped : BOOLEAN], NEW seq \in Nat
  PROVE  Answered(s, seq, BySeq(s, seq))
<1>1. SeqRange \in Nat /\ s.prev \in Nat /\ s.max \in Nat /\ s.looped \in BOOLEAN
  BY FrameSizes
<1> DEFINE rewind == seq < SafeMin(s)
           ahead == s.prev <= seq /\ (seq <= SafeMax(s) \/ s.prev = 0)
<1>2. /\ BySeq(s, seq).split = rewind
      /\ BySeq(s, seq).next.prev = IF rewind \/ ahead THEN seq ELSE s.prev
      /\ BySeq(s, seq).next.max = IF seq > s.max THEN seq ELSE s.max
      /\ BySeq(s, seq).next.looped = (s.looped \/ rewind)
  BY DEF BySeq
<1>3. /\ s.prev > SeqRange => SafeMin(s) = s.prev - SeqRange
      /\ ~(s.prev > SeqRange) => SafeMin(s) = 0
      /\ SafeMax(s) = s.prev + SeqRange
  BY DEF SafeMin, SafeMax
<1>4. s.prev = 0 \/ (s.prev <= seq /\ seq <= s.prev + SeqRange) => ~rewind /\ ahead
  BY <1>1, <1>3
<1>5. s.prev > SeqRange /\ seq < s.prev - SeqRange => rewind
  BY <1>1, <1>3
<1>6. seq < s.prev /\ s.prev <= seq + SeqRange => ~rewind /\ ~ahead
  BY <1>1, <1>3
<1>7. s.prev # 0 /\ seq > s.prev + SeqRange => ~rewind /\ ~ahead
  BY <1>1, <1>3
<1> HIDE DEF rewind, ahead
<1>8. QED  BY <1>1, <1>2, <1>4, <1>5, <1>6, <1>7 DEF Answered

-----------------------------------------------------------------------------
\* Numbers of RSEMX many from 0.
Number(l, seq) == IF l = RSEMX THEN seq - 1 ELSE seq
\* Of frame f packet s comes g packets after packet ns of frame nf, not counting these two.
Follows(nf, ns, f, s, g) ==
  \/ f = nf /\ s = ns + g + 1
  \/ f = nf + 1 /\ s + FramePackets = ns + g + 1

Sizes(P, whole) == IF whole THEN {n \in {FramePackets * P} : n # 0} ELSE Nat

\* What the decoder is for as long as nothing was decoded.
Untouched(d, l, param) ==
  IsDecoder(d, l, param) /\ d.split = BySeqBegin /\ d.cloud = EmptyCloud /\ d.out = <<>>

\* Packet ns of frame nf is the last one decoded, those that came late left aside:
\* when one, the points are of one frame, and when whole, of all its packets so far.
Reached(d, l, param, P, nf, ns, one, whole) ==
  /\ IsDecoder(d, l, param)
  /\ d.split.prev = Number(l, ns)
  /\ one => d.cloud.fired \subseteq {nf}
  /\ whole => /\ d.split.looped = (nf # 1)
              /\ d.split.max = Number(l, IF nf = 1 THEN ns ELSE FramePackets)
              /\ d.cloud.points = ns * P \/ (ns = FramePackets /\ d.cloud.points = 0)
  /\ Delivered(d.out, one, Sizes(P, whole))

LEMMA NothingDelivered ==
  ASSUME NEW one, NEW sizes
  PROVE  Delivered(<<>>, one, sizes)
<1> DEFINE S == {}
<1>1. <<>> \in Seq(S) /\ \A o \in S : Proper(o.cloud, one, sizes)
  OBVIOUS
<1> HIDE DEF S
<1>2. QED  BY <1>1 DEF Delivered

LEMMA OneMoreDelivered ==
  ASSUME NEW one, NEW sizes, NEW out, Delivered(out, one, sizes), NEW o, Proper(o.cloud, one, sizes)
  PROVE  Delivered(Append(out, o), one, sizes)
<1>1. PICK S : out \in Seq(S) /\ \A c \in S : Proper(c.cloud, one, sizes)
  BY DEF Delivered
<1> DEFINE T == S \cup {o}
<1>2. \A c \in T : Proper(c.cloud, one, sizes)
  BY <1>1
<1>3. out \in Seq(T)
  BY <1>1
<1>4. o \in T
  OBVIOUS
<1> HIDE DEF T
<1>5. Append(out, o) \in Seq(T)
  BY <1>3, <1>4
<1>6. QED  BY <1>2, <1>5 DEF Delivered

\* The first packet that is decoded.
LEMMA FirstIsReached ==
  ASSUME NEW l \in MemsLidars, NEW param, NEW returns \in {1, 2}, NEW d, Untouched(d, l, param),
         NEW one \in BOOLEAN, NEW whole \in BOOLEAN, NEW f \in Nat \ {0}, NEW s \in 1..FramePackets,
         whole => f = 1 /\ s = 1,
         NEW e, Decoded(d, e, l, param, returns, f, Number(l, s))
  PROVE  /\ Reached(e, l, param, PacketPoints(l, param, returns), f, s, one, whole)
         /\ e.new_frame = d.new_frame /\ e.angles_ready = d.angles_ready
<1> DEFINE seq == Number(l, s)
           P == PacketPoints(l, param, returns)
           a == BySeq(d.split, seq)
<1>1. /\ d.split \in [prev : Nat, max : Nat, looped : BOOLEAN]
      /\ d.split.prev = 0 /\ d.split.max = 0 /\ d.split.looped = FALSE
      /\ d.cloud.points = 0 /\ d.cloud.fired = {} /\ d.out = <<>>
  BY DEF Untouched, BySeqBegin, EmptyCloud, IsDecoder
<1>2. seq \in Nat
  BY FrameSizes DEF Number
<1>3. ~a.split /\ a.next.prev = seq /\ a.next.looped = FALSE /\ a.next.max = IF seq > 0 THEN seq ELSE 0
  <2> DEFINE s0 == d.split
  <2>1. Answered(s0, seq, a)
    <3> HIDE DEF seq, s0
    <3>1. s0 \in [prev : Nat, max : Nat, looped : BOOLEAN]
      BY <1>1 DEF s0
    <3>2. Answered(s0, seq, BySeq(s0, seq))
      BY <1>2, <3>1, SeqAnswers
    <3>3. QED  BY <3>2 DEF s0
  <2> HIDE DEF seq, a
  <2>2. QED  BY <1>1, <2>1 DEF Answered
<1>4. P \in Nat
  BY BlockPointsAre DEF PacketPoints
<1> HIDE DEF P, a
<1>5. /\ IsDecoder(e, l, param) /\ e.split = a.next /\ e.angles_ready = d.angles_ready
      /\ e.out = <<>> /\ e.new_frame = d.new_frame
      /\ e.cloud.points = P /\ e.cloud.fired \subseteq {f}
  BY <1>1, <1>3, <1>4 DEF Decoded, P, a
<1>6. a.next.max = seq
  BY <1>2, <1>3
<1>7. whole => Number(l, IF f = 1 THEN s ELSE FramePackets) = seq /\ P = s * P
  BY <1>4
<1>8. Delivered(<<>>, one, Sizes(P, whole))
  BY NothingDelivered
<1>9. QED  BY <1>3, <1>5, <1>6, <1>7, <1>8 DEF Reached, P

\* A later packet, of the same frame or the first ones of the next.
LEMMA NextNumber ==
  ASSUME NEW l, NEW nf \in Nat, NEW ns \in 1..FramePackets, NEW f \in Nat, NEW s \in 1..FramePackets,
         NEW g \in Nat, g + 1 <= SeqRange, Follows(nf, ns, f, s, g)
  PROVE  LET prev == Number(l, ns)
             seq == Number(l, s)
         IN /\ prev \in Nat /\ seq \in Nat
            /\ f = nf => prev <= seq /\ seq <= prev + SeqRange
            /\ f # nf => f = nf + 1 /\ prev > SeqRange /\ seq < prev - SeqRange
BY FrameSizes DEF Follows, Number

LEMMA NextIsReached ==
  ASSUME NEW l \in MemsLidars, NEW param, NEW returns \in {1, 2}, NEW d,
         NEW one \in BOOLEAN, NEW whole \in BOOLEAN,
         NEW nf \in Nat \ {0}, NEW ns \in 1..FramePackets,
         Reached(d, l, param, PacketPoints(l, param, returns), nf, ns, one, whole),
         NEW f \in Nat \ {0}, NEW s \in 1..FramePackets, NEW g \in Nat, g + 1 <= SeqRange,
         Follows(nf, ns, f, s, g), whole => g = 0,
         NEW e, Decoded(d, e, l, param, returns, f, Number(l, s))
  PROVE  /\ Reached(e, l, param, PacketPoints(l, param, returns), f, s, one, whole)
         /\ e.new_frame = d.new_frame \/ f = nf + 1
         /\ e.angles_ready = d.angles_ready
<1> DEFINE seq == Number(l, s)
           prev == Number(l, ns)
           P == PacketPoints(l, param, returns)
           s0 == d.split
           a == BySeq(s0, seq)
<1>1. /\ prev \in Nat /\ seq \in Nat
      /\ f = nf => prev <= seq /\ seq <= prev + SeqRange
      /\ f # nf => f = nf + 1 /\ prev > SeqRange /\ seq < prev - SeqRange
  BY NextNumber
<1>2. /\ s0 \in [prev : Nat, max : Nat, looped : BOOLEAN] /\ s0.prev = prev
      /\ d.cloud.points \in Nat
      /\ one => d.cloud.fired \subseteq {nf}
  BY DEF Reached, IsDecoder, IsCloud
<1>3. Answered(s0, seq, a)
  <2> HIDE DEF seq, s0
  <2>1. Answered(s0, seq, BySeq(s0, seq))
    BY <1>1, <1>2, SeqAnswers
  <2>2. QED  BY <2>1
<1>4. P \in Nat
  BY BlockPointsAre DEF PacketPoints
<1>5. whole => /\ s0.looped = (nf # 1)
               /\ s0.max = Number(l, IF nf = 1 THEN ns ELSE FramePackets)
               /\ d.cloud.points = ns * P \/ (ns = FramePackets /\ d.cloud.points = 0)
  BY DEF Reached
<1>6. Delivered(d.out, one, Sizes(P, whole))
  BY DEF Reached
<1>7. /\ IsDecoder(e, l, param) /\ e.split = a.next /\ e.angles_ready = d.angles_ready
      /\ ~a.split => /\ e.out = d.out /\ e.new_frame = d.new_frame
                     /\ e.cloud.points = d.cloud.points + P
                     /\ d.cloud.fired \subseteq {f} => e.cloud.fired \subseteq {f}
      /\ a.split => /\ e.new_frame = TRUE /\ e.cloud.points = P /\ e.cloud.fired \subseteq {f}
                    /\ d.cloud.points = 0 => e.out = d.out
                    /\ d.cloud.points # 0 => \E o : o.cloud = d.cloud /\ e.out = Append(d.out, o)
  BY DEF Decoded
<1> HIDE DEF seq, prev, P, s0, a
<1>8. CASE f = nf
  <2>1. ~a.split /\ a.next.prev = seq /\ a.next.looped = s0.looped
        /\ a.next.max = IF seq > s0.max THEN seq ELSE s0.max
    BY <1>1, <1>2, <1>3, <1>8 DEF Answered
  <2>2. whole => /\ e.cloud.points = s * P
                 /\ a.next.max = Number(l, IF f = 1 THEN s ELSE FramePackets)
    <3>1. SUFFICES ASSUME whole
                   PROVE  /\ e.cloud.points = s * P
                          /\ a.next.max = Number(l, IF f = 1 THEN s ELSE FramePackets)
      OBVIOUS
    <3>2. s = ns + 1 /\ ns # FramePackets
      BY <1>8, <3>1, FrameSizes DEF Follows
    <3>3. d.cloud.points = ns * P /\ ns * P + P = (ns + 1) * P
      BY <1>4, <1>5, <3>1, <3>2, FrameSizes
    <3>4. e.cloud.points = s * P
      BY <1>7, <2>1, <3>2, <3>3
    <3>5. CASE f = 1
      <4>1. s0.max = Number(l, ns)
        BY <1>5, <1>8, <3>1, <3>5
      <4>2. seq > s0.max
        BY <3>2, <4>1, FrameSizes DEF seq, Number
      <4>3. QED  BY <2>1, <3>4, <3>5, <4>2 DEF seq
    <3>6. CASE f # 1
      <4>1. s0.max = Number(l, FramePackets)
        BY <1>5, <1>8, <3>1, <3>6
      <4>2. ~(seq > s0.max)
        BY <4>1, FrameSizes DEF seq, Number
      <4>3. QED  BY <2>1, <3>4, <3>6, <4>1, <4>2
    <3>7. QED  BY <3>5, <3>6
  <2>3. one => e.cloud.fired \subseteq {f}
    <3>1. one => d.cloud.fired \subseteq {f}
      BY <1>2, <1>8
    <3>2. d.cloud.fired \subseteq {f} => e.cloud.fired \subseteq {f}
      BY <1>7, <2>1
    <3>3. QED  BY <3>1, <3>2
  <2>4. Reached(e, l, param, P, f, s, one, whole)
    BY <1>5, <1>6, <1>7, <1>8, <2>1, <2>2, <2>3 DEF Reached, seq
  <2>5. QED  BY <1>7, <2>1, <2>4 DEF P
<1>9. CASE f # nf
  <2>1. /\ a.split /\ a.next.prev = seq /\ a.next.looped = TRUE /\ f = nf + 1
        /\ a.next.max = IF seq > s0.max THEN seq ELSE s0.max
    BY <1>1, <1>2, <1>3, <1>9 DEF Answered
  <2>2. whole => /\ s = 1 /\ ns = FramePackets
                 /\ e.cloud.points = s * P
                 /\ a.next.max = Number(l, FramePackets)
    <3>1. SUFFICES ASSUME whole
                   PROVE  /\ s = 1 /\ ns = FramePackets
                          /\ e.cloud.points = s * P
                          /\ a.next.max = Number(l, FramePackets)
      OBVIOUS
    <3>2. s + FramePackets = ns + 1
      BY <1>9, <3>1 DEF Follows
    <3>3. s = 1 /\ ns = FramePackets
      BY <3>2, FrameSizes
    <3>4. s0.max = Number(l, FramePackets)
      BY <1>5, <3>1, <3>3
    <3>5. ~(seq > s0.max)
      BY <3>4, FrameSizes DEF seq, Number
    <3>6. e.cloud.points = P /\ P = 1 * P
      BY <1>4, <1>7, <2>1
    <3>7. QED  BY <2>1, <3>3, <3>4, <3>5, <3>6
  <2>3. one => e.cloud.fired \subseteq {f}
    BY <1>7, <2>1
  <2>4. Delivered(e.out, one, Sizes(P, whole))
    <3>1. CASE d.cloud.points = 0
      BY <1>6, <1>7, <2>1, <3>1
    <3>2. CASE d.cloud.points # 0
      <4>1. PICK o : o.cloud = d.cloud /\ e.out = Append(d.out, o)
        BY <1>7, <2>1, <3>2
      <4>2. d.cloud.points \in Sizes(P, whole)
        <5>1. CASE whole
          <6>1. ns = FramePackets
            BY <2>2, <5>1
          <6>2. d.cloud.points = FramePackets * P
            BY <1>5, <3>2, <5>1, <6>1
          <6>3. QED  BY <3>2, <5>1, <6>2 DEF Sizes
        <5>2. CASE ~whole
          BY <1>2, <5>2 DEF Sizes
        <5>3. QED  BY <5>1, <5>2
      <4>3. one => \A x, y \in d.cloud.fired : x = y
        BY <1>2
      <4>4. Proper(o.cloud, one, Sizes(P, whole))
        BY <4>1, <4>2, <4>3 DEF Proper
      <4>5. QED  BY <1>6, <4>1, <4>4, OneMoreDelivered
    <3>3. QED  BY <3>1, <3>2
  <2>5. f # 1
    BY <2>1
  <2>6. Reached(e, l, param, P, f, s, one, whole)
    BY <1>7, <2>1, <2>2, <2>3, <2>4, <2>5 DEF Reached, seq
  <2>7. QED  BY <1>7, <2>1, <2>6 DEF P
<1>10. QED  BY <1>8, <1>9

\* A packet that comes late changes nothing but the points.
LEMMA LateIsIgnored ==
  ASSUME NEW l \in MemsLidars \ {RSEMX}, NEW param, NEW returns \in {1, 2}, NEW d,
         NEW one \in BOOLEAN, NEW whole \in BOOLEAN, ~one, ~whole,
         NEW nf \in Nat \ {0}, NEW ns \in 1..FramePackets,
         Reached(d, l, param, PacketPoints(l, param, returns), nf, ns, one, whole),
         NEW hf \in Nat \ {0}, NEW hs \in 1..FramePackets, NEW g \in Nat, g < SeqRange,
         Follows(hf, hs, nf, ns, g),
         NEW e, Decoded(d, e, l, param, returns, hf, Number(l, hs))
  PROVE  /\ Reached(e, l, param, PacketPoints(l, param, returns), nf, ns, one, whole)
         /\ e.new_frame = d.new_frame /\ e.angles_ready = d.angles_ready
<1> DEFINE P == PacketPoints(l, param, returns)
           s0 == d.split
           a == BySeq(s0, hs)
<1>1. Number(l, hs) = hs /\ Number(l, ns) = ns /\ hs \in Nat
  BY FrameSizes DEF Number
<1>2. s0 \in [prev : Nat, max : Nat, looped : BOOLEAN] /\ s0.prev = ns
  BY <1>1 DEF Reached, IsDecoder
<1>3. Answered(s0, hs, a)
  <2> HIDE DEF s0
  <2>1. Answered(s0, hs, BySeq(s0, hs))
    BY <1>1, <1>2, SeqAnswers
  <2>2. QED  BY <2>1
<1>4. (hs < ns /\ ns <= hs + SeqRange) \/ (ns # 0 /\ hs > ns + SeqRange)
  BY FrameSizes DEF Follows
<1>5. ~a.split /\ a.next.prev = ns
  <2> HIDE DEF a, s0
  <2>1. QED  BY <1>2, <1>3, <1>4 DEF Answered
<1>6. /\ IsDecoder(e, l, param) /\ e.split = a.next /\ e.angles_ready = d.angles_ready
      /\ ~a.split => e.out = d.out /\ e.new_frame = d.new_frame
  BY <1>1 DEF Decoded
<1>7. Delivered(d.out, one, Sizes(P, whole))
  BY DEF Reached
<1> HIDE DEF a, s0
<1>8. QED  BY <1>1, <1>5, <1>6, <1>7 DEF Reached, P

\* RSM1 ends a frame with its last packet.
LEMMA FrameMayEnd ==
  ASSUME NEW param, NEW returns \in {1, 2}, NEW d, NEW one \in BOOLEAN, NEW whole \in BOOLEAN,
         NEW nf \in Nat \ {0}, NEW ns \in 1..FramePackets,
         Reached(d, RSM1, param, PacketPoints(RSM1, param, returns), nf, ns, one, whole),
         NEW seq \in Nat, whole => seq = ns
  PROVE  LET e == IF EndsFrame(d, seq) THEN SplitFrame(d, RSM1.lasers) ELSE d
         IN /\ Reached(e, RSM1, param, PacketPoints(RSM1, param, returns), nf, ns, one, whole)
            /\ e.new_frame = d.new_frame /\ e.angles_ready = d.angles_ready
<1> DEFINE P == PacketPoints(RSM1, param, returns)
           rows == RSM1.lasers
           e == SplitFrame(d, rows)
<1>1. CASE ~EndsFrame(d, seq)
  BY <1>1
<1>2. CASE EndsFrame(d, seq)
  <2>1. /\ IsDecoder(d, RSM1, param) /\ d.cloud.points \in Nat
        /\ d.split.prev = Number(RSM1, ns)
        /\ one => d.cloud.fired \subseteq {nf}
        /\ whole => /\ d.split.looped = (nf # 1)
                    /\ d.split.max = Number(RSM1, IF nf = 1 THEN ns ELSE FramePackets)
                    /\ d.cloud.points = ns * P \/ (ns = FramePackets /\ d.cloud.points = 0)
        /\ Delivered(d.out, one, Sizes(P, whole))
    BY DEF Reached, IsDecoder, IsCloud
  <2>2. /\ IsDecoder(e, RSM1, param)
        /\ e.split = d.split /\ e.cloud = EmptyCloud
        /\ e.new_frame = d.new_frame /\ e.angles_ready = d.angles_ready
        /\ d.cloud.points = 0 => e.out = d.out
        /\ d.cloud.points # 0 => \E o : o.cloud = d.cloud /\ e.out = Append(d.out, o)
    <3> HIDE DEF rows
    <3>1. QED  BY <2>1, FrameIsSplit
  <2>3. e.cloud.points = 0 /\ e.cloud.fired = {}
    BY <2>2 DEF EmptyCloud
  <2>4. whole => ns = FramePackets
    <3>1. SUFFICES ASSUME whole  PROVE ns = FramePackets
      OBVIOUS
    <3>2. maxSeq(d.split) = ns
      BY <1>2, <3>1 DEF EndsFrame
    <3>3. CASE nf = 1
      <4>1. d.split.looped = FALSE
        BY <2>1, <3>1, <3>3
      <4>2. ns = 0
        BY <3>2, <4>1 DEF maxSeq
      <4>3. QED  BY <4>2
    <3>4. CASE nf # 1
      <4>1. d.split.looped = TRUE /\ d.split.max = FramePackets
        BY <2>1, <3>1, <3>4, LidarsDiffer DEF Number
      <4>2. QED  BY <3>2, <4>1 DEF maxSeq
    <3>5. QED  BY <3>3, <3>4
  <2> HIDE DEF e, P
  <2>5. Delivered(e.out, one, Sizes(P, whole))
    <3>1. CASE d.cloud.points = 0
      BY <2>1, <2>2, <3>1
    <3>2. CASE d.cloud.points # 0
      <4>1. PICK o : o.cloud = d.cloud /\ e.out = Append(d.out, o)
        BY <2>2, <3>2
      <4>2. d.cloud.points \in Sizes(P, whole)
        BY <2>1, <2>4, <3>2 DEF Sizes
      <4>3. Proper(o.cloud, one, Sizes(P, whole))
        BY <2>1, <4>1, <4>2 DEF Proper
      <4>4. QED  BY <2>1, <4>1, <4>3, OneMoreDelivered
    <3>3. QED  BY <3>1, <3>2
  <2>6. Reached(e, RSM1, param, P, nf, ns, one, whole)
    BY <2>1, <2>2, <2>3, <2>4, <2>5 DEF Reached
  <2>7. QED  BY <1>2, <2>2, <2>6 DEF e, P
<1>3. QED  BY <1>1, <1>2

\* When the numbers of a datagram were skipped: those that follow are too far
\* ahead, until they begin again.
LEMMA BehindStays ==
  ASSUME NEW param, NEW d, NEW one \in BOOLEAN, NEW whole \in BOOLEAN, ~whole,
         NEW nf \in Nat \ {0}, NEW ns \in 1..FramePackets,
         Reached(d, RSM1_Jumbo, param, PacketPoints(RSM1_Jumbo, param, 1), nf, ns, one, whole),
         NEW s \in Nat, s > ns + SeqRange,
         NEW e, Decoded(d, e, RSM1_Jumbo, param, 1, nf, s)
  PROVE  /\ Reached(e, RSM1_Jumbo, param, PacketPoints(RSM1_Jumbo, param, 1), nf, ns, one, whole)
         /\ e.new_frame = d.new_frame /\ e.angles_ready = d.angles_ready
<1> DEFINE P == PacketPoints(RSM1_Jumbo, param, 1)
           s0 == d.split
           a == BySeq(s0, s)
<1>1. Number(RSM1_Jumbo, ns) = ns
  BY LidarsDiffer DEF Number
<1>2. /\ s0 \in [prev : Nat, max : Nat, looped : BOOLEAN] /\ s0.prev = ns
      /\ one => d.cloud.fired \subseteq {nf}
      /\ Delivered(d.out, one, Sizes(P, whole))
  BY <1>1 DEF Reached, IsDecoder
<1>3. Answered(s0, s, a)
  <2> HIDE DEF s0
  <2>1. Answered(s0, s, BySeq(s0, s))
    BY <1>2, SeqAnswers
  <2>2. QED  BY <2>1
<1>4. /\ IsDecoder(e, RSM1_Jumbo, param) /\ e.split = a.next /\ e.angles_ready = d.angles_ready
      /\ ~a.split => /\ e.out = d.out /\ e.new_frame = d.new_frame
                     /\ d.cloud.fired \subseteq {nf} => e.cloud.fired \subseteq {nf}
  BY DEF Decoded
<1> HIDE DEF a, s0, P
<1>5. ~a.split /\ a.next.prev = ns
  BY <1>2, <1>3 DEF Answered
<1>6. one => e.cloud.fired \subseteq {nf}
  BY <1>2, <1>4, <1>5
<1>7. Reached(e, RSM1_Jumbo, param, P, nf, ns, one, whole)
  BY <1>1, <1>2, <1>4, <1>5, <1>6 DEF Reached
<1>8. QED  BY <1>4, <1>5, <1>7 DEF P

LEMMA BehindRewinds ==
  ASSUME NEW param, NEW d, NEW one \in BOOLEAN, NEW whole \in BOOLEAN, ~whole,
         NEW nf \in Nat \ {0}, NEW ns \in 1..FramePackets,
         Reached(d, RSM1_Jumbo, param, PacketPoints(RSM1_Jumbo, param, 1), nf, ns, one, whole),
         NEW f, NEW s \in 1..FramePackets, s + SeqRange < ns,
         NEW e, Decoded(d, e, RSM1_Jumbo, param, 1, f, s)
  PROVE  /\ Reached(e, RSM1_Jumbo, param, PacketPoints(RSM1_Jumbo, param, 1), f, s, one, whole)
         /\ e.angles_ready = d.angles_ready
<1> DEFINE P == PacketPoints(RSM1_Jumbo, param, 1)
           s0 == d.split
           a == BySeq(s0, s)
<1>1. Number(RSM1_Jumbo, ns) = ns /\ Number(RSM1_Jumbo, s) = s
  BY LidarsDiffer DEF Number
<1>2. /\ s0 \in [prev : Nat, max : Nat, looped : BOOLEAN] /\ s0.prev = ns
      /\ d.cloud.points \in Nat
      /\ one => d.cloud.fired \subseteq {nf}
      /\ Delivered(d.out, one, Sizes(P, whole))
  BY <1>1 DEF Reached, IsDecoder, IsCloud
<1>3. s \in Nat /\ ns > SeqRange /\ s < ns - SeqRange
  BY FrameSizes
<1>4. Answered(s0, s, a)
  <2> HIDE DEF s0
  <2>1. Answered(s0, s, BySeq(s0, s))
    BY <1>2, <1>3, SeqAnswers
  <2>2. QED  BY <2>1
<1>5. /\ IsDecoder(e, RSM1_Jumbo, param) /\ e.split = a.next /\ e.angles_ready = d.angles_ready
      /\ a.split => /\ e.cloud.fired \subseteq {f}
                    /\ d.cloud.points = 0 => e.out = d.out
                    /\ d.cloud.points # 0 => \E o : o.cloud = d.cloud /\ e.out = Append(d.out, o)
  BY DEF Decoded
<1> HIDE DEF a, s0, P
<1>6. a.split /\ a.next.prev = s
  BY <1>2, <1>3, <1>4 DEF Answered
<1>7. Delivered(e.out, one, Sizes(P, whole))
  <2>1. CASE d.cloud.points = 0
    BY <1>2, <1>5, <1>6, <2>1
  <2>2. CASE d.cloud.points # 0
    <3>1. PICK o : o.cloud = d.cloud /\ e.out = Append(d.out, o)
      BY <1>5, <1>6, <2>2
    <3>2. d.cloud.points \in Sizes(P, whole)
      BY <1>2 DEF Sizes
    <3>3. one => \A x, y \in d.cloud.fired : x = y
      BY <1>2
    <3>4. Proper(o.cloud, one, Sizes(P, whole))
      BY <3>1, <3>2, <3>3 DEF Proper
    <3> DEFINE sizes == Sizes(P, whole)
    <3>5. Delivered(d.out, one, sizes) /\ Proper(o.cloud, one, sizes)
      BY <1>2, <3>4
    <3> HIDE DEF sizes
    <3>6. Delivered(Append(d.out, o), one, sizes)
      BY <3>5, OneMoreDelivered
    <3>7. QED  BY <3>1, <3>6 DEF sizes
  <2>3. QED  BY <2>1, <2>2
<1>8. Reached(e, RSM1_Jumbo, param, P, f, s, one, whole)
  BY <1>1, <1>5, <1>6, <1>7 DEF Reached
<1>9. QED  BY <1>5, <1>8 DEF P

-----------------------------------------------------------------------------
\* Returns of a packet per channel, and what ends RSM1's packets.
Returns(l, mode) == IF l = RSMX /\ mode = 0 THEN 2 ELSE 1
Ended(d, l, seq) == IF l = RSM1 /\ EndsFrame(d, seq) THEN SplitFrame(d, RSM1.lasers) ELSE d

LEMMA ReachedIsEnded ==
  ASSUME NEW l \in MemsLidars, NEW param, NEW mode, NEW d,
         NEW one \in BOOLEAN, NEW whole \in BOOLEAN,
         NEW nf \in Nat \ {0}, NEW ns \in 1..FramePackets,
         Reached(d, l, param, PacketPoints(l, param, Returns(l, mode)), nf, ns, one, whole),
         NEW seq \in Nat, whole => seq = ns
  PROVE  LET e == Ended(d, l, seq)
         IN /\ Reached(e, l, param, PacketPoints(l, param, Returns(l, mode)), nf, ns, one, whole)
            /\ e.new_frame = d.new_frame /\ e.angles_ready = d.angles_ready
<1> DEFINE returns == Returns(l, mode)
<1>1. returns \in {1, 2}
  BY DEF Returns
<1> HIDE DEF returns
<1>2. CASE l = RSM1
  <2>1. Ended(d, l, seq) = IF EndsFrame(d, seq) THEN SplitFrame(d, RSM1.lasers) ELSE d
    BY <1>2 DEF Ended
  <2>2. Reached(d, RSM1, param, PacketPoints(RSM1, param, returns), nf, ns, one, whole)
    BY <1>2 DEF returns
  <2>3. QED  BY <1>1, <1>2, <2>1, <2>2, FrameMayEnd DEF returns
<1>3. CASE l # RSM1
  BY <1>3 DEF Ended
<1>4. QED  BY <1>2, <1>3

\* decodeMsopPkt of the lidars with one packet in a datagram.
LEMMA PacketIsDecodedByLidar ==
  ASSUME NEW l \in MemsLidars \ {RSM1_Jumbo}, NEW param, NEW d, IsDecoder(d, l, param),
         NEW f, NEW pkt, IsPacket(pkt, l, f), pkt.seq \in 1..FramePackets, pkt.surface_id \in 0..1
  PROVE  \E e : /\ Decoded(d, e, l, param, Returns(l, pkt.return_mode), f, Number(l, pkt.seq))
                /\ decodeNumberedPkt(d, pkt) = Ended(e, l, pkt.seq)
<1> DEFINE returns == Returns(l, pkt.return_mode)
           seq == Number(l, pkt.seq)
           e == NumberedPacket(d, pkt, seq, returns)
<1>1. returns \in {1, 2}
  BY DEF Returns
<1>2. seq \in Nat
  BY FrameSizes DEF Number
<1>3. Decoded(d, e, l, param, returns, f, seq)
  <2> HIDE DEF returns, seq
  <2>1. QED  BY <1>1, <1>2, PacketIsDecoded
<1>4. decodeNumberedPkt(d, pkt) = Ended(e, l, pkt.seq)
  <2>1. d.lidar = l /\ l \in {RSM1, RSM2, RSM3, RSE1, RSMX, RSEMX}
    BY DEF IsDecoder, MemsLidars
  <2>2. CASE l = RSM1
    <3>1. seq = pkt.seq /\ returns = 1
      BY <2>2, LidarsDiffer DEF Number, Returns
    <3>2. decodeNumberedPkt(d, pkt) = RSM1Msop(d, pkt)
      BY <2>1, <2>2, LidarsDiffer DEF decodeNumberedPkt
    <3>3. QED  BY <2>2, <3>1, <3>2 DEF RSM1Msop, Ended
  <2>3. CASE l = RSM2
    BY <2>1, <2>3, LidarsDiffer DEF decodeNumberedPkt, RSM2Msop, Ended, Number, Returns
  <2>4. CASE l = RSM3
    BY <2>1, <2>4, LidarsDiffer DEF decodeNumberedPkt, RSM3Msop, Ended, Number, Returns
  <2>5. CASE l = RSE1
    BY <2>1, <2>5, LidarsDiffer DEF decodeNumberedPkt, RSE1Msop, Ended, Number, Returns
  <2>6. CASE l = RSMX
    BY <2>1, <2>6, LidarsDiffer DEF decodeNumberedPkt, RSMXMsop, Ended, Number, Returns
  <2>7. CASE l = RSEMX
    <3>1. ~(pkt.surface_id >= 2)
      OBVIOUS
    <3>2. QED  BY <2>1, <2>7, <3>1, LidarsDiffer DEF decodeNumberedPkt, RSEMXMsop, Ended, Number, Returns
  <2>8. QED  BY <2>1, <2>2, <2>3, <2>4, <2>5, <2>6, <2>7
<1> HIDE DEF e
<1>5. QED  BY <1>3, <1>4

-----------------------------------------------------------------------------
\* decodeMsopPkt of RSM1_Jumbo: the packets of a datagram, one after the other.
IsDatagram(pkt, f, s) ==
  /\ Len(pkt.packets) = JumboPackets
  /\ \A i \in 1..JumboPackets : /\ pkt.packets[i].id = "msop" /\ pkt.packets[i].seq = s + i - 1
                                /\ IsPacket(pkt.packets[i], RSM1_Jumbo, f)
\* g are the decoders after each packet of a datagram that begins with number s.
Chain(g, d, param, f, s) ==
  /\ g[0] = d
  /\ \A i \in 1..JumboPackets :
       IsDecoder(g[i - 1], RSM1_Jumbo, param)
         => Decoded(g[i - 1], g[i], RSM1_Jumbo, param, 1, f, s + i - 1)
JumboLoop(g, d, pkt, many) ==
  g = [i \in 0..many |->
         IF i = 0 THEN d
         ELSE IF pkt.packets[i].id = "msop"
         THEN NumberedPacket(g[i - 1], pkt.packets[i], pkt.packets[i].seq, 1)
         ELSE g[i - 1]]

LEMMA JumboLoopEnds ==
  ASSUME NEW d, NEW pkt, NEW many \in Nat
  PROVE  \E g : JumboLoop(g, d, pkt, many)
<1> DEFINE Step(e, i) == IF pkt.packets[i].id = "msop"
                         THEN NumberedPacket(e, pkt.packets[i], pkt.packets[i].seq, 1) ELSE e
           Loop(g, m) == JumboLoop(g, d, pkt, m)
           S == {m \in Nat : \E g : Loop(g, m)}
<1>1. \A g, m : Loop(g, m) <=> g = [i \in 0..m |-> IF i = 0 THEN d ELSE Step(g[i - 1], i)]
  BY DEF JumboLoop
<1> HIDE DEF Step, Loop
<1>2. 0 \in S
  <2> DEFINE g == [i \in 0..0 |-> d]
  <2>1. Loop(g, 0)
    <3>1. \A i \in 0..0 : i = 0
      OBVIOUS
    <3>2. g = [i \in 0..0 |-> IF i = 0 THEN d ELSE Step(g[i - 1], i)]
      BY <3>1
    <3>3. QED  BY <1>1, <3>2
  <2> HIDE DEF g
  <2>2. QED  BY <2>1
<1>3. ASSUME NEW m \in Nat, m \in S  PROVE m + 1 \in S
  <2>1. PICK g : Loop(g, m)
    BY <1>3
  <2> DEFINE h == [i \in 0..m + 1 |-> IF i = 0 THEN d ELSE Step(g[i - 1], i)]
  <2>2. \A i \in 0..m : h[i] = g[i]
    BY <1>1, <2>1
  <2>3. Loop(h, m + 1)
    <3>1. \A i \in 0..m + 1 : i # 0 => i - 1 \in 0..m
      OBVIOUS
    <3>2. \A i \in 0..m + 1 : i # 0 => h[i - 1] = g[i - 1]
      <4> HIDE DEF h
      <4>1. QED  BY <2>2, <3>1
    <3>3. QED  BY <1>1, <3>2
  <2>4. m + 1 \in Nat
    OBVIOUS
  <2> HIDE DEF h
  <2>5. QED  BY <2>3, <2>4
<1>4. Nat \subseteq S
  <2> HIDE DEF S
  <2>1. QED  BY <1>2, <1>3, Induction
<1>5. QED  BY <1>4 DEF Loop

LEMMA DatagramIsDecoded ==
  ASSUME NEW param, NEW d, IsDecoder(d, RSM1_Jumbo, param), NEW f, NEW s \in Nat, NEW pkt,
         IsDatagram(pkt, f, s)
  PROVE  \E g : Chain(g, d, param, f, s) /\ decodeNumberedPkt(d, pkt) = g[JumboPackets]
<1> DEFINE Loop(g) == JumboLoop(g, d, pkt, Len(pkt.packets))
           after == CHOOSE g : Loop(g)
<1>1. Len(pkt.packets) = JumboPackets /\ JumboPackets \in Nat /\ JumboPackets # 0
  BY FrameSizes DEF IsDatagram
<1>2. Loop(after)
  <2>1. \E g : Loop(g)
    BY <1>1, JumboLoopEnds
  <2> HIDE DEF Loop
  <2>2. QED  BY <2>1, Zenon
<1>3. decodeNumberedPkt(d, pkt) = after[JumboPackets]
  <2>1. decodeNumberedPkt(d, pkt) = RSM1_JumboMsop(d, pkt)
    BY LidarsDiffer DEF IsDecoder, decodeNumberedPkt
  <2>2. QED  BY <1>1, <2>1 DEF RSM1_JumboMsop, JumboLoop
<1> HIDE DEF after
<1>4. /\ after[0] = d
      /\ \A i \in 1..JumboPackets :
           after[i] = IF pkt.packets[i].id = "msop"
                      THEN NumberedPacket(after[i - 1], pkt.packets[i], pkt.packets[i].seq, 1)
                      ELSE after[i - 1]
  BY <1>1, <1>2 DEF JumboLoop
<1>5. ASSUME NEW i \in 1..JumboPackets, IsDecoder(after[i - 1], RSM1_Jumbo, param)
      PROVE  Decoded(after[i - 1], after[i], RSM1_Jumbo, param, 1, f, s + i - 1)
  <2> DEFINE p == pkt.packets[i]
             seq == s + i - 1
             e == after[i - 1]
  <2>1. p.id = "msop" /\ p.seq = seq /\ IsPacket(p, RSM1_Jumbo, f)
    BY DEF IsDatagram
  <2>2. after[i] = NumberedPacket(e, p, seq, 1)
    BY <1>4, <2>1
  <2>3. seq \in Nat /\ RSM1_Jumbo \in MemsLidars /\ 1 \in {1, 2}
    BY <1>1 DEF MemsLidars
  <2>4. IsDecoder(e, RSM1_Jumbo, param)
    BY <1>5
  <2> HIDE DEF p, seq, e
  <2>5. Decoded(e, NumberedPacket(e, p, seq, 1), RSM1_Jumbo, param, 1, f, seq)
    BY <2>1, <2>3, <2>4, PacketIsDecoded
  <2>6. QED  BY <2>2, <2>5 DEF seq, e
<1>6. Chain(after, d, param, f, s)
  BY <1>4, <1>5 DEF Chain
<1>7. QED  BY <1>3, <1>6

\* The packets after the first of a datagram follow each other.
LEMMA RestIsReached ==
  ASSUME NEW param, NEW one \in BOOLEAN, NEW whole \in BOOLEAN,
         NEW f \in Nat \ {0}, NEW s \in 1..FramePackets, s + JumboPackets <= FramePackets + 1, NEW g,
         NEW d0, Chain(g, d0, param, f, s),
         Reached(g[1], RSM1_Jumbo, param, PacketPoints(RSM1_Jumbo, param, 1), f, s, one, whole)
  PROVE  /\ Reached(g[JumboPackets], RSM1_Jumbo, param, PacketPoints(RSM1_Jumbo, param, 1),
                    f, s + JumboPackets - 1, one, whole)
         /\ g[JumboPackets].new_frame = g[1].new_frame
         /\ g[JumboPackets].angles_ready = g[1].angles_ready
<1> DEFINE P == PacketPoints(RSM1_Jumbo, param, 1)
           At(d, n) == /\ Reached(d, RSM1_Jumbo, param, P, f, n, one, whole)
                       /\ d.new_frame = g[1].new_frame /\ d.angles_ready = g[1].angles_ready
           S == {n \in Nat : n + 1 <= JumboPackets => At(g[n + 1], s + n)}
<1>1. JumboPackets \in Nat /\ JumboPackets > 1 /\ FramePackets \in Nat /\ SeqRange \in Nat /\ SeqRange # 0
  BY FrameSizes
<1>2. 0 \in S
  BY s + 0 = s, 0 + 1 = 1
<1>3. ASSUME NEW n \in Nat, n \in S  PROVE n + 1 \in S
  <2>1. SUFFICES ASSUME n + 2 <= JumboPackets  PROVE At(g[n + 2], s + (n + 1))
    BY (n + 1) + 1 = n + 2
  <2> DEFINE d == g[n + 1]
             e == g[n + 2]
             m == s + n
             v == s + (n + 1)
  <2>2. At(d, m)
    BY <1>1, <1>3, <2>1
  <2>3. n + 2 \in 1..JumboPackets /\ (n + 2) - 1 = n + 1 /\ s + (n + 2) - 1 = v
    BY <1>1, <2>1
  <2>4. IsDecoder(d, RSM1_Jumbo, param)
    BY <2>2 DEF Reached
  <2>5. Decoded(d, e, RSM1_Jumbo, param, 1, f, v)
    BY <2>3, <2>4 DEF Chain
  <2>6. m \in 1..FramePackets /\ v \in 1..FramePackets /\ Follows(f, m, f, v, 0)
    BY <1>1, <2>1 DEF Follows
  <2>7. Number(RSM1_Jumbo, v) = v /\ RSM1_Jumbo \in MemsLidars /\ 1 \in {1, 2} /\ 0 \in Nat /\ 0 + 1 <= SeqRange
    BY <1>1, LidarsDiffer DEF Number, MemsLidars
  <2> DEFINE l == RSM1_Jumbo
             returns == 1
             zero == 0
  <2>8. /\ Reached(d, l, param, PacketPoints(l, param, returns), f, m, one, whole)
        /\ Decoded(d, e, l, param, returns, f, Number(l, v))
        /\ l \in MemsLidars /\ returns \in {1, 2} /\ zero \in Nat /\ zero + 1 <= SeqRange
        /\ Follows(f, m, f, v, zero) /\ zero = 0
    BY <2>2, <2>5, <2>6, <2>7
  <2>9. d.new_frame = g[1].new_frame /\ d.angles_ready = g[1].angles_ready
    BY <2>2
  <2> HIDE DEF d, e, m, v, l, returns, zero
  <2>10. /\ Reached(e, l, param, PacketPoints(l, param, returns), f, v, one, whole)
         /\ e.new_frame = d.new_frame \/ f = f + 1
         /\ e.angles_ready = d.angles_ready
    BY <2>6, <2>8, NextIsReached
  <2>11. f # f + 1
    OBVIOUS
  <2>12. QED  BY <2>9, <2>10, <2>11 DEF e, v, l, returns
<1>4. Nat \subseteq S
  <2> HIDE DEF S
  <2>1. QED  BY <1>2, <1>3, Induction
<1>5. JumboPackets - 1 \in S /\ (JumboPackets - 1) + 1 = JumboPackets /\ s + (JumboPackets - 1) = s + JumboPackets - 1
  BY <1>1, <1>4
<1>6. At(g[JumboPackets], s + JumboPackets - 1)
  BY <1>1, <1>5
<1>7. QED  BY <1>6

LEMMA FirstOfDatagram ==
  ASSUME NEW param, NEW d, IsDecoder(d, RSM1_Jumbo, param), NEW f, NEW s \in 1..FramePackets, NEW g,
         Chain(g, d, param, f, s)
  PROVE  /\ Decoded(d, g[1], RSM1_Jumbo, param, 1, f, s)
         /\ Number(RSM1_Jumbo, s) = s /\ RSM1_Jumbo \in MemsLidars
<1>1. 1 \in 1..JumboPackets /\ 1 - 1 = 0 /\ s + 1 - 1 = s
  BY FrameSizes
<1>2. QED  BY <1>1, LidarsDiffer DEF Number, MemsLidars, Chain

LEMMA FreshDatagram ==
  ASSUME NEW param, NEW d, Untouched(d, RSM1_Jumbo, param), NEW one \in BOOLEAN, NEW whole \in BOOLEAN,
         NEW f \in Nat \ {0}, NEW s \in 1..FramePackets, s + JumboPackets <= FramePackets + 1,
         whole => f = 1 /\ s = 1, NEW pkt, IsDatagram(pkt, f, s)
  PROVE  LET e == decodeNumberedPkt(d, pkt)
         IN /\ Reached(e, RSM1_Jumbo, param, PacketPoints(RSM1_Jumbo, param, 1),
                      f, s + JumboPackets - 1, one, whole)
            /\ e.new_frame = d.new_frame /\ e.angles_ready = d.angles_ready
<1> DEFINE l == RSM1_Jumbo
           returns == 1
           P == PacketPoints(l, param, returns)
           e == decodeNumberedPkt(d, pkt)
<1>1. IsDecoder(d, l, param) /\ s \in Nat /\ returns \in {1, 2}
  BY FrameSizes DEF Untouched
<1>2. PICK g : Chain(g, d, param, f, s) /\ e = g[JumboPackets]
  BY <1>1, DatagramIsDecoded
<1>3. Decoded(d, g[1], l, param, 1, f, s) /\ Number(l, s) = s /\ l \in MemsLidars
  BY <1>1, <1>2, FirstOfDatagram
<1> DEFINE first == g[1]
<1>4. Reached(first, l, param, P, f, s, one, whole)
      /\ first.new_frame = d.new_frame /\ first.angles_ready = d.angles_ready
  <2>1. Untouched(d, l, param) /\ Decoded(d, first, l, param, returns, f, Number(l, s))
    BY <1>3
  <2> HIDE DEF first, l, returns
  <2>2. QED  BY <1>1, <1>3, <2>1, FirstIsReached
<1>5. /\ Reached(e, l, param, P, f, s + JumboPackets - 1, one, whole)
      /\ e.new_frame = first.new_frame /\ e.angles_ready = first.angles_ready
  BY <1>2, <1>4, RestIsReached
<1>6. QED  BY <1>4, <1>5

LEMMA NextDatagram ==
  ASSUME NEW param, NEW d, NEW one \in BOOLEAN, NEW whole \in BOOLEAN,
         NEW nf \in Nat \ {0}, NEW ns \in 1..FramePackets,
         Reached(d, RSM1_Jumbo, param, PacketPoints(RSM1_Jumbo, param, 1), nf, ns, one, whole),
         NEW f \in Nat \ {0}, NEW s \in 1..FramePackets, s + JumboPackets <= FramePackets + 1,
         Follows(nf, ns, f, s, 0), NEW pkt, IsDatagram(pkt, f, s)
  PROVE  LET e == decodeNumberedPkt(d, pkt)
         IN /\ Reached(e, RSM1_Jumbo, param, PacketPoints(RSM1_Jumbo, param, 1),
                      f, s + JumboPackets - 1, one, whole)
            /\ e.new_frame = d.new_frame \/ f = nf + 1
            /\ e.angles_ready = d.angles_ready
<1> DEFINE l == RSM1_Jumbo
           returns == 1
           zero == 0
           P == PacketPoints(l, param, returns)
           e == decodeNumberedPkt(d, pkt)
<1>1. IsDecoder(d, l, param) /\ s \in Nat /\ returns \in {1, 2}
  BY FrameSizes DEF Reached
<1>2. PICK g : Chain(g, d, param, f, s) /\ e = g[JumboPackets]
  BY <1>1, DatagramIsDecoded
<1>3. Decoded(d, g[1], l, param, 1, f, s) /\ Number(l, s) = s /\ l \in MemsLidars
  BY <1>1, <1>2, FirstOfDatagram
<1> DEFINE first == g[1]
<1>4. /\ Reached(first, l, param, P, f, s, one, whole)
      /\ first.new_frame = d.new_frame \/ f = nf + 1
      /\ first.angles_ready = d.angles_ready
  <2>1. /\ Reached(d, l, param, P, nf, ns, one, whole)
        /\ Decoded(d, first, l, param, returns, f, Number(l, s))
        /\ zero \in Nat /\ zero + 1 <= SeqRange /\ Follows(nf, ns, f, s, zero) /\ zero = 0
    BY <1>3, FrameSizes
  <2> HIDE DEF first, l, returns, zero
  <2>2. QED  BY <1>1, <1>3, <2>1, NextIsReached
<1>5. /\ Reached(e, l, param, P, f, s + JumboPackets - 1, one, whole)
      /\ e.new_frame = first.new_frame /\ e.angles_ready = first.angles_ready
  BY <1>2, <1>4, RestIsReached
<1>6. QED  BY <1>4, <1>5

LEMMA RewindingDatagram ==
  ASSUME NEW param, NEW d, NEW one \in BOOLEAN, NEW whole \in BOOLEAN, ~whole,
         NEW nf \in Nat \ {0}, NEW ns \in 1..FramePackets,
         Reached(d, RSM1_Jumbo, param, PacketPoints(RSM1_Jumbo, param, 1), nf, ns, one, whole),
         NEW f \in Nat \ {0}, NEW s \in 1..FramePackets, s + JumboPackets <= FramePackets + 1,
         s + SeqRange < ns, NEW pkt, IsDatagram(pkt, f, s)
  PROVE  LET e == decodeNumberedPkt(d, pkt)
         IN /\ Reached(e, RSM1_Jumbo, param, PacketPoints(RSM1_Jumbo, param, 1),
                      f, s + JumboPackets - 1, one, whole)
            /\ e.angles_ready = d.angles_ready
<1> DEFINE l == RSM1_Jumbo
           P == PacketPoints(l, param, 1)
           e == decodeNumberedPkt(d, pkt)
<1>1. IsDecoder(d, l, param) /\ s \in Nat
  BY FrameSizes DEF Reached
<1>2. PICK g : Chain(g, d, param, f, s) /\ e = g[JumboPackets]
  BY <1>1, DatagramIsDecoded
<1>3. Decoded(d, g[1], l, param, 1, f, s)
  BY <1>1, <1>2, FirstOfDatagram
<1>4. Reached(g[1], l, param, P, f, s, one, whole) /\ g[1].angles_ready = d.angles_ready
  BY <1>3, BehindRewinds
<1>5. /\ Reached(e, l, param, P, f, s + JumboPackets - 1, one, whole)
      /\ e.angles_ready = g[1].angles_ready
  BY <1>2, <1>4, RestIsReached
<1>6. QED  BY <1>4, <1>5

LEMMA SkippedDatagram ==
  ASSUME NEW param, NEW d, NEW one \in BOOLEAN, NEW whole \in BOOLEAN, ~whole,
         NEW nf \in Nat \ {0}, NEW ns \in 1..FramePackets,
         Reached(d, RSM1_Jumbo, param, PacketPoints(RSM1_Jumbo, param, 1), nf, ns, one, whole),
         NEW s \in 1..FramePackets, s > ns + SeqRange, NEW pkt, IsDatagram(pkt, nf, s)
  PROVE  LET e == decodeNumberedPkt(d, pkt)
         IN /\ Reached(e, RSM1_Jumbo, param, PacketPoints(RSM1_Jumbo, param, 1), nf, ns, one, whole)
            /\ e.new_frame = d.new_frame /\ e.angles_ready = d.angles_ready
<1> DEFINE l == RSM1_Jumbo
           P == PacketPoints(l, param, 1)
           e == decodeNumberedPkt(d, pkt)
<1>1. IsDecoder(d, l, param) /\ s \in Nat /\ JumboPackets \in Nat /\ SeqRange \in Nat
  BY FrameSizes DEF Reached
<1>2. PICK g : Chain(g, d, param, nf, s) /\ e = g[JumboPackets]
  BY <1>1, DatagramIsDecoded
<1> DEFINE Same(h) == /\ Reached(h, l, param, P, nf, ns, one, whole)
                      /\ h.new_frame = d.new_frame /\ h.angles_ready = d.angles_ready
           S == {n \in Nat : n <= JumboPackets => Same(g[n])}
<1>3. 0 \in S
  BY <1>2 DEF Chain
<1>4. ASSUME NEW n \in Nat, n \in S  PROVE n + 1 \in S
  <2>1. SUFFICES ASSUME n + 1 <= JumboPackets  PROVE Same(g[n + 1])
    OBVIOUS
  <2> DEFINE x == g[n]
             y == g[n + 1]
             v == s + n
  <2>2. Same(x)
    BY <1>1, <1>4, <2>1
  <2>3. n + 1 \in 1..JumboPackets /\ (n + 1) - 1 = n /\ s + (n + 1) - 1 = v
    BY <1>1, <2>1
  <2>4. IsDecoder(x, l, param)
    BY <2>2 DEF Reached
  <2>5. Decoded(x, y, l, param, 1, nf, v)
    BY <1>2, <2>3, <2>4 DEF Chain
  <2>6. v \in Nat /\ v > ns + SeqRange
    BY <1>1
  <2> HIDE DEF x, y, v
  <2>7. /\ Reached(y, l, param, P, nf, ns, one, whole)
        /\ y.new_frame = x.new_frame /\ y.angles_ready = x.angles_ready
    BY <2>2, <2>5, <2>6, BehindStays
  <2>8. Same(y)
    BY <2>2, <2>7
  <2>9. QED  BY <2>8 DEF y
<1>5. Nat \subseteq S
  <2> HIDE DEF S
  <2>1. QED  BY <1>3, <1>4, Induction
<1>6. JumboPackets \in S
  BY <1>1, <1>5
<1>7. Same(e)
  BY <1>1, <1>2, <1>6
<1>8. QED  BY <1>7

-----------------------------------------------------------------------------
(***************************************************************************)
(* What the lidar sends, and what becomes of it.                           *)
(***************************************************************************)

DatagramOf(l, mode, f, s) == Datagram([type |-> l, mode |-> mode, frame |-> f, seq |-> s])
\* Packets of a datagram, and whether a datagram may begin with packet s.
PacketsOf(l) == IF l = RSM1_Jumbo THEN JumboPackets ELSE 1
StartsDatagram(l, s) == l = RSM1_Jumbo => (s - 1) % JumboPackets = 0

LEMMA NumberedIs ==
  ASSUME NEW dev, NEW f, NEW s \in 1..FramePackets
  PROVE  LET p == Numbered(dev, f, s)
         IN /\ p.id = "msop" /\ p.size = dev.type.msop_len
            /\ p.seq = s /\ p.return_mode = dev.mode /\ p.surface_id \in 0..1
            /\ IsPacket(p, dev.type, f)
<1> DEFINE p == Numbered(dev, f, s)
<1>1. p.id = "msop" /\ p.size = dev.type.msop_len /\ p.seq = s /\ p.return_mode = dev.mode
  BY DEF Numbered
<1>2. p.surface_id \in 0..1
  <2>1. p.surface_id = s % 2
    BY DEF Numbered
  <2>2. 2 \in Nat \ {0} /\ s \in Int
    BY FrameSizes
  <2>3. s % 2 \in 0..2 - 1
    BY <2>2, DivMod
  <2>4. QED  BY <2>1, <2>3
<1>3. IsPacket(p, dev.type, f)
  <2>1. Len(p.blocks) = 2
    BY DEF Numbered, Blocks
  <2>2. \A b \in 1..2 : /\ p.blocks[b].distance = 10 /\ p.blocks[b].lit = dev.type.channels
                        /\ p.blocks[b].firing.turn = f
    BY DEF Numbered, Blocks
  <2>3. QED  BY <2>1, <2>2 DEF IsPacket
<1>4. QED  BY <1>1, <1>2, <1>3

\* The datagrams of RSM1_Jumbo fill a frame.
LEMMA DatagramsFit ==
  ASSUME NEW s \in 1..FramePackets, (s - 1) % JumboPackets = 0
  PROVE  /\ s + JumboPackets <= FramePackets + 1
         /\ (s + JumboPackets - 1) % JumboPackets = 0
         /\ s # 1 => s - 1 >= JumboPackets
<1> DEFINE J == JumboPackets
           N == FramePackets
           v == s - 1
           q == v \div J
           n == N \div J
<1>1. J \in Nat \ {0} /\ N \in Nat /\ v \in Nat /\ v < N /\ N % J = 0 /\ v % J = 0
  BY FrameSizes, MemsAssumption
<1>2. q \in Int /\ q * J + 0 = v /\ n \in Int /\ n * J + 0 = N
  <2> HIDE DEF J, N, v
  <2>1. q \in Int /\ q * J + (v % J) = v
    BY <1>1, DivMod
  <2>2. n \in Int /\ n * J + (N % J) = N
    BY <1>1, DivMod
  <2>3. QED  BY <1>1, <2>1, <2>2
<1> HIDE DEF q, n, J, N
<1>3. q < n
  <2>1. SUFFICES ASSUME q >= n  PROVE FALSE
    BY <1>2
  <2>2. q * J >= n * J
    BY <1>1, <1>2, <2>1
  <2>3. QED  BY <1>1, <1>2, <2>2
<1>4. (q + 1) * J <= n * J /\ (q + 1) * J = q * J + J
  BY <1>1, <1>2, <1>3
<1>5. v + J <= N
  BY <1>1, <1>2, <1>4
<1>6. (v + J) % J = 0
  <2> DEFINE m == v + J
             r == q + 1
  <2>1. m \in Int /\ r \in Int /\ r * J + 0 = m /\ 0 \in 0..J - 1
    BY <1>1, <1>2, <1>4
  <2> HIDE DEF m, r
  <2>2. m % J = 0
    BY <1>1, <2>1, DivModIs
  <2>3. QED  BY <2>2 DEF m
<1>7. v # 0 => v >= J
  <2>1. v >= J \/ v \in 0..J - 1
    BY <1>1
  <2>2. v \in 0..J - 1 => v % J = v
    BY <1>1, SmallModulus
  <2>3. QED  BY <1>1, <2>1, <2>2
<1>8. v + J = s + J - 1
  BY <1>1
<1>9. QED  BY <1>1, <1>5, <1>6, <1>7, <1>8 DEF J, N

LEMMA DatagramIs ==
  ASSUME NEW l \in MemsLidars, NEW mode, NEW f, NEW s \in 1..FramePackets, StartsDatagram(l, s)
  PROVE  LET p == DatagramOf(l, mode, f, s)
         IN /\ p.id = "msop" /\ p.size = l.msop_len
            /\ l = RSM1_Jumbo => IsDatagram(p, f, s)
            /\ l # RSM1_Jumbo => /\ IsPacket(p, l, f) /\ p.seq = s
                                 /\ p.return_mode = mode /\ p.surface_id \in 0..1
<1> DEFINE dev == [type |-> l, mode |-> mode, frame |-> f, seq |-> s]
           p == DatagramOf(l, mode, f, s)
<1>1. dev.type = l /\ dev.mode = mode /\ dev.frame = f /\ dev.seq = s /\ p = Datagram(dev)
  BY DEF DatagramOf
<1> HIDE DEF dev, p
<1>2. CASE l # RSM1_Jumbo
  <2>1. p = Numbered(dev, f, s)
    BY <1>1, <1>2 DEF Datagram
  <2>2. QED  BY <1>1, <1>2, <2>1, NumberedIs DEF p
<1>3. CASE l = RSM1_Jumbo
  <2>1. /\ p.id = "msop" /\ p.size = l.msop_len
        /\ p.packets = [i \in 1..JumboPackets |-> Numbered(dev, f, s + i - 1)]
    BY <1>1, <1>3 DEF Datagram
  <2>2. JumboPackets \in Nat /\ FramePackets \in Nat /\ s + JumboPackets <= FramePackets + 1
    BY <1>3, FrameSizes, DatagramsFit DEF StartsDatagram
  <2>3. Len(p.packets) = JumboPackets
    BY <2>1, <2>2
  <2>4. ASSUME NEW i \in 1..JumboPackets
        PROVE  /\ p.packets[i].id = "msop" /\ p.packets[i].seq = s + i - 1
               /\ IsPacket(p.packets[i], RSM1_Jumbo, f)
    <3> DEFINE n == s + i - 1
    <3>1. n \in 1..FramePackets
      BY <2>2
    <3>2. p.packets[i] = Numbered(dev, f, n)
      BY <2>1
    <3> HIDE DEF n
    <3>3. p.packets[i].id = "msop" /\ p.packets[i].seq = n /\ IsPacket(p.packets[i], l, f)
      BY <1>1, <3>1, <3>2, NumberedIs
    <3>4. QED  BY <1>3, <3>3 DEF n
  <2>5. IsDatagram(p, f, s)
    BY <2>3, <2>4 DEF IsDatagram
  <2>6. QED  BY <1>3, <2>1, <2>5 DEF p
<1>4. QED  BY <1>2, <1>3

\* Where the lidar is after a datagram.
LEMMA SentIs ==
  ASSUME NEW l \in MemsLidars, NEW mode, NEW f \in Nat \ {0}, NEW s \in 1..FramePackets, StartsDatagram(l, s)
  PROVE  LET dev == [type |-> l, mode |-> mode, frame |-> f, seq |-> s]
             next == Sent(dev)
         IN /\ next = [type |-> l, mode |-> mode, frame |-> next.frame, seq |-> next.seq]
            /\ next.frame \in Nat \ {0} /\ next.seq \in 1..FramePackets /\ StartsDatagram(l, next.seq)
            /\ s + PacketsOf(l) - 1 \in 1..FramePackets
            /\ Follows(f, s + PacketsOf(l) - 1, next.frame, next.seq, 0)
<1> DEFINE dev == [type |-> l, mode |-> mode, frame |-> f, seq |-> s]
           n == PacketsOf(l)
           next == Sent(dev)
<1>1. Datagrams(dev) = n
  BY DEF Datagrams, PacketsOf
<1>2. n \in Nat /\ n # 0 /\ FramePackets \in Nat /\ s + n <= FramePackets + 1
  <2>1. CASE l = RSM1_Jumbo
    BY <2>1, FrameSizes, DatagramsFit DEF PacketsOf, StartsDatagram
  <2>2. CASE l # RSM1_Jumbo
    BY <2>2, FrameSizes DEF PacketsOf
  <2>3. QED  BY <2>1, <2>2
<1> HIDE DEF n
<1>3. CASE s + n > FramePackets
  <2>1. next = [type |-> l, mode |-> mode, frame |-> f + 1, seq |-> 1]
    BY <1>1, <1>3 DEF Sent
  <2>2. StartsDatagram(l, 1)
    <3>1. JumboPackets \in Nat \ {0} /\ 0 \in 0..JumboPackets - 1 /\ 1 - 1 = 0
      BY FrameSizes
    <3>2. 0 % JumboPackets = 0
      <4> DEFINE zero == 0
      <4>1. zero \in 0..JumboPackets - 1
        BY <3>1
      <4> HIDE DEF zero
      <4>2. zero % JumboPackets = zero
        BY <3>1, <4>1, SmallModulus
      <4>3. QED  BY <4>2 DEF zero
    <3>3. QED  BY <3>1, <3>2 DEF StartsDatagram
  <2>3. Follows(f, s + n - 1, f + 1, 1, 0)
    BY <1>2, <1>3 DEF Follows
  <2>4. QED  BY <1>2, <2>1, <2>2, <2>3 DEF n
<1>4. CASE ~(s + n > FramePackets)
  <2>1. next = [type |-> l, mode |-> mode, frame |-> f, seq |-> s + n]
    BY <1>1, <1>4 DEF Sent
  <2>2. StartsDatagram(l, s + n)
    <3>1. SUFFICES ASSUME l = RSM1_Jumbo  PROVE ((s + n) - 1) % JumboPackets = 0
      BY DEF StartsDatagram
    <3>2. n = JumboPackets
      BY <3>1 DEF n, PacketsOf
    <3>3. (s + n - 1) % JumboPackets = 0
      BY <3>1, <3>2, DatagramsFit DEF StartsDatagram
    <3>4. (s + n) - 1 = s + n - 1
      BY <1>2
    <3>5. QED  BY <3>3, <3>4
  <2>3. Follows(f, s + n - 1, f, s + n, 0)
    BY <1>2 DEF Follows
  <2>4. s + n \in 1..FramePackets /\ s + n - 1 \in 1..FramePackets
    BY <1>2, <1>4
  <2>5. QED  BY <1>2, <2>1, <2>2, <2>3, <2>4 DEF n
<1>5. QED  BY <1>3, <1>4

\* The first datagram that is decoded, a later one, and a late one.
LEMMA FirstIsHandled ==
  ASSUME NEW l \in MemsLidars, NEW mode, NEW param, NEW d, Untouched(d, l, param),
         NEW one \in BOOLEAN, NEW whole \in BOOLEAN,
         NEW f \in Nat \ {0}, NEW s \in 1..FramePackets, StartsDatagram(l, s), whole => f = 1 /\ s = 1
  PROVE  LET e == decodeNumberedPkt(d, DatagramOf(l, mode, f, s))
         IN /\ Reached(e, l, param, PacketPoints(l, param, Returns(l, mode)),
                      f, s + PacketsOf(l) - 1, one, whole)
            /\ e.new_frame = d.new_frame /\ e.angles_ready = d.angles_ready
<1> DEFINE pkt == DatagramOf(l, mode, f, s)
           P == PacketPoints(l, param, Returns(l, mode))
<1>1. CASE l = RSM1_Jumbo
  <2>1. IsDatagram(pkt, f, s) /\ s + JumboPackets <= FramePackets + 1
    BY <1>1, DatagramIs, DatagramsFit DEF StartsDatagram
  <2>2. Returns(l, mode) = 1 /\ PacketsOf(l) = JumboPackets
    BY <1>1, LidarsDiffer DEF Returns, PacketsOf
  <2> HIDE DEF pkt
  <2>3. QED  BY <1>1, <2>1, <2>2, FreshDatagram DEF pkt
<1>2. CASE l # RSM1_Jumbo
  <2>1. /\ IsPacket(pkt, l, f) /\ pkt.seq = s /\ pkt.return_mode = mode /\ pkt.surface_id \in 0..1
    BY <1>2, DatagramIs
  <2>2. IsDecoder(d, l, param) /\ l \in MemsLidars \ {RSM1_Jumbo}
    BY <1>2 DEF Untouched
  <2> DEFINE returns == Returns(l, mode)
             last == decodeNumberedPkt(d, pkt)
  <2> HIDE DEF pkt
  <2>3. PICK e : Decoded(d, e, l, param, returns, f, Number(l, s)) /\ last = Ended(e, l, s)
    BY <2>1, <2>2, PacketIsDecodedByLidar
  <2>4. returns \in {1, 2}
    BY DEF Returns
  <2>5. s \in Nat /\ s + PacketsOf(l) - 1 = s
    BY <1>2, FrameSizes DEF PacketsOf
  <2>6. /\ Reached(e, l, param, P, f, s, one, whole)
        /\ e.new_frame = d.new_frame /\ e.angles_ready = d.angles_ready
    <3> HIDE DEF returns
    <3>1. Reached(e, l, param, PacketPoints(l, param, returns), f, s, one, whole)
          /\ e.new_frame = d.new_frame /\ e.angles_ready = d.angles_ready
      BY <2>3, <2>4, FirstIsReached
    <3>2. QED  BY <3>1 DEF returns
  <2>7. /\ Reached(last, l, param, P, f, s, one, whole)
        /\ last.new_frame = e.new_frame /\ last.angles_ready = e.angles_ready
    BY <2>3, <2>5, <2>6, ReachedIsEnded
  <2>8. QED  BY <2>5, <2>6, <2>7 DEF pkt
<1>3. QED  BY <1>1, <1>2

LEMMA NextIsHandled ==
  ASSUME NEW l \in MemsLidars, NEW mode, NEW param, NEW d,
         NEW one \in BOOLEAN, NEW whole \in BOOLEAN,
         NEW nf \in Nat \ {0}, NEW ns \in 1..FramePackets,
         Reached(d, l, param, PacketPoints(l, param, Returns(l, mode)), nf, ns, one, whole),
         NEW f \in Nat \ {0}, NEW s \in 1..FramePackets, StartsDatagram(l, s),
         NEW g \in Nat, g + 1 <= SeqRange, Follows(nf, ns, f, s, g),
         whole \/ l = RSM1_Jumbo => g = 0
  PROVE  LET e == decodeNumberedPkt(d, DatagramOf(l, mode, f, s))
         IN /\ Reached(e, l, param, PacketPoints(l, param, Returns(l, mode)),
                      f, s + PacketsOf(l) - 1, one, whole)
            /\ e.new_frame = d.new_frame \/ f = nf + 1
            /\ e.angles_ready = d.angles_ready
<1> DEFINE pkt == DatagramOf(l, mode, f, s)
           P == PacketPoints(l, param, Returns(l, mode))
<1>1. CASE l = RSM1_Jumbo
  <2>1. IsDatagram(pkt, f, s) /\ s + JumboPackets <= FramePackets + 1
    BY <1>1, DatagramIs, DatagramsFit DEF StartsDatagram
  <2>2. Returns(l, mode) = 1 /\ PacketsOf(l) = JumboPackets
    BY <1>1, LidarsDiffer DEF Returns, PacketsOf
  <2>3. Follows(nf, ns, f, s, 0)
    BY <1>1
  <2> HIDE DEF pkt
  <2>4. QED  BY <1>1, <2>1, <2>2, <2>3, NextDatagram DEF pkt
<1>2. CASE l # RSM1_Jumbo
  <2>1. /\ IsPacket(pkt, l, f) /\ pkt.seq = s /\ pkt.return_mode = mode /\ pkt.surface_id \in 0..1
    BY <1>2, DatagramIs
  <2>2. IsDecoder(d, l, param) /\ l \in MemsLidars \ {RSM1_Jumbo}
    BY <1>2 DEF Reached
  <2> DEFINE returns == Returns(l, mode)
             last == decodeNumberedPkt(d, pkt)
  <2> HIDE DEF pkt
  <2>3. PICK e : Decoded(d, e, l, param, returns, f, Number(l, s)) /\ last = Ended(e, l, s)
    BY <2>1, <2>2, PacketIsDecodedByLidar
  <2>4. returns \in {1, 2}
    BY DEF Returns
  <2>5. s \in Nat /\ s + PacketsOf(l) - 1 = s
    BY <1>2, FrameSizes DEF PacketsOf
  <2>6. /\ Reached(e, l, param, P, f, s, one, whole)
        /\ e.new_frame = d.new_frame \/ f = nf + 1
        /\ e.angles_ready = d.angles_ready
    <3>1. Reached(d, l, param, PacketPoints(l, param, returns), nf, ns, one, whole)
      OBVIOUS
    <3> HIDE DEF returns
    <3>2. /\ Reached(e, l, param, PacketPoints(l, param, returns), f, s, one, whole)
          /\ e.new_frame = d.new_frame \/ f = nf + 1
          /\ e.angles_ready = d.angles_ready
      BY <2>3, <2>4, <3>1, NextIsReached
    <3>3. QED  BY <3>2 DEF returns
  <2>7. /\ Reached(last, l, param, P, f, s, one, whole)
        /\ last.new_frame = e.new_frame /\ last.angles_ready = e.angles_ready
    BY <2>3, <2>5, <2>6, ReachedIsEnded
  <2>8. QED  BY <2>5, <2>6, <2>7 DEF pkt
<1>3. QED  BY <1>1, <1>2

LEMMA LateIsHandled ==
  ASSUME NEW l \in MemsLidars \ {RSEMX, RSM1_Jumbo}, NEW mode, NEW param, NEW d,
         NEW one \in BOOLEAN, NEW whole \in BOOLEAN, ~one, ~whole,
         NEW nf \in Nat \ {0}, NEW ns \in 1..FramePackets,
         Reached(d, l, param, PacketPoints(l, param, Returns(l, mode)), nf, ns, one, whole),
         NEW hf \in Nat \ {0}, NEW hs \in 1..FramePackets,
         NEW g \in Nat, g < SeqRange, Follows(hf, hs, nf, ns, g)
  PROVE  LET e == decodeNumberedPkt(d, DatagramOf(l, mode, hf, hs))
         IN /\ Reached(e, l, param, PacketPoints(l, param, Returns(l, mode)), nf, ns, one, whole)
            /\ e.new_frame = d.new_frame /\ e.angles_ready = d.angles_ready
<1> DEFINE pkt == DatagramOf(l, mode, hf, hs)
           P == PacketPoints(l, param, Returns(l, mode))
           returns == Returns(l, mode)
           last == decodeNumberedPkt(d, pkt)
<1>1. StartsDatagram(l, hs) /\ l \in MemsLidars
  BY DEF StartsDatagram
<1>2. /\ IsPacket(pkt, l, hf) /\ pkt.seq = hs /\ pkt.return_mode = mode /\ pkt.surface_id \in 0..1
  BY <1>1, DatagramIs
<1>3. IsDecoder(d, l, param) /\ l \in MemsLidars \ {RSM1_Jumbo} /\ l \in MemsLidars \ {RSEMX}
  BY DEF Reached
<1> HIDE DEF pkt
<1>4. PICK e : Decoded(d, e, l, param, returns, hf, Number(l, hs)) /\ last = Ended(e, l, hs)
  BY <1>2, <1>3, PacketIsDecodedByLidar
<1>5. returns \in {1, 2} /\ hs \in Nat
  BY FrameSizes DEF Returns
<1>6. /\ Reached(e, l, param, P, nf, ns, one, whole)
      /\ e.new_frame = d.new_frame /\ e.angles_ready = d.angles_ready
  <2>1. Reached(d, l, param, PacketPoints(l, param, returns), nf, ns, one, whole)
    OBVIOUS
  <2> HIDE DEF returns
  <2>2. /\ Reached(e, l, param, PacketPoints(l, param, returns), nf, ns, one, whole)
        /\ e.new_frame = d.new_frame /\ e.angles_ready = d.angles_ready
    BY <1>3, <1>4, <1>5, <2>1, LateIsIgnored
  <2>3. QED  BY <2>2 DEF returns
<1>7. /\ Reached(last, l, param, P, nf, ns, one, whole)
      /\ last.new_frame = e.new_frame /\ last.angles_ready = e.angles_ready
  BY <1>1, <1>4, <1>5, <1>6, ReachedIsEnded
<1>8. QED  BY <1>6, <1>7 DEF pkt

\* What Reached is about.
LEMMA ReachedIsKept ==
  ASSUME NEW l, NEW param, NEW P \in Nat, NEW d, NEW one \in BOOLEAN, NEW whole \in BOOLEAN,
         NEW nf, NEW ns, Reached(d, l, param, P, nf, ns, one, whole),
         NEW e, IsDecoder(e, l, param), e.split = d.split, e.cloud = d.cloud,
         e.out = d.out \/ e.out = <<>>, NEW w \in BOOLEAN, w => whole
  PROVE  Reached(e, l, param, P, nf, ns, one, w)
<1>1. Sizes(P, whole) \subseteq Sizes(P, w)
  BY FrameSizes DEF Sizes
<1>2. Delivered(e.out, one, Sizes(P, w))
  <2>1. CASE e.out = <<>>
    BY <2>1, NothingDelivered
  <2>2. CASE e.out = d.out
    <3> DEFINE small == Sizes(P, whole)
               large == Sizes(P, w)
               out == e.out
    <3>1. small \subseteq large /\ Delivered(out, one, small)
      BY <1>1, <2>2 DEF Reached
    <3> HIDE DEF small, large, out
    <3>2. PICK S : out \in Seq(S) /\ \A o \in S : Proper(o.cloud, one, small)
      BY <3>1 DEF Delivered
    <3>3. \A o \in S : Proper(o.cloud, one, large)
      BY <3>1, <3>2 DEF Proper
    <3>4. Delivered(out, one, large)
      BY <3>2, <3>3 DEF Delivered
    <3>5. QED  BY <3>4 DEF large, out
  <2>3. QED  BY <2>1, <2>2
<1>3. QED  BY <1>2 DEF Reached

-----------------------------------------------------------------------------
(***************************************************************************)
(* The invariant: how far the decoder m is behind the lidar dev, with h    *)
(* what is late, tr what may still happen and b the frames that began.     *)
(***************************************************************************)

WaitsIn(m) == m.param.wait_for_difop /\ ~m.angles_ready
WholeIn(m, tr) == ~tr.missed /\ ~WaitsIn(m)
At(m, dev, tr, nf, ns) ==
  Reached(m, dev.type, m.param, PacketPoints(dev.type, m.param, Returns(dev.type, dev.mode)),
          nf, ns, ~tr.disorder, WholeIn(m, tr))
Holds(h, dev, hf, hs, age) ==
  h = <<[pkt |-> DatagramOf(dev.type, dev.mode, hf, hs), frame |-> hf, age |-> age]>>

\* Nothing was decoded yet.
AtStart(m, dev, h, tr, b) ==
  /\ Untouched(m, dev.type, m.param) /\ b.frame = 0
  /\ WholeIn(m, tr) => dev.frame = 1 /\ dev.seq = 1
  /\ \/ h = <<>>
     \/ \E hf \in Nat \ {0}, hs \in 1..FramePackets :
          Holds(h, dev, hf, hs, 0) /\ Follows(hf, hs, dev.frame, dev.seq, 0)

\* Packet ns of frame nf was the last; what is late is newer or, once newer ones came, older.
HeldWith(dev, h, row, nf, ns, g) ==
  \/ h = <<>> /\ g <= row
  \/ /\ 1 <= g /\ g <= row + 1
     /\ \E hf \in Nat \ {0}, hs \in 1..FramePackets :
          Holds(h, dev, hf, hs, 0) /\ Follows(hf, hs, dev.frame, dev.seq, 0)
  \/ /\ g = 0
     /\ \E hf \in Nat \ {0}, hs \in 1..FramePackets, age \in 1..SeqRange :
          Holds(h, dev, hf, hs, age) /\ Follows(hf, hs, nf, ns, age - 1)
Placed(m, dev, h, tr, b, nf, ns, g) ==
  /\ At(m, dev, tr, nf, ns) /\ b.frame <= nf
  /\ Follows(nf, ns, dev.frame, dev.seq, g)
  /\ WholeIn(m, tr) \/ dev.type = RSM1_Jumbo => g = 0
  /\ HeldWith(dev, h, tr.row, nf, ns, g)
OnTrack(m, dev, h, tr, b) ==
  \E nf \in Nat \ {0}, ns \in 1..FramePackets, g \in Nat : Placed(m, dev, h, tr, b, nf, ns, g)

\* A datagram of RSM1_Jumbo was lost after packet ns, and numbers did not begin again since.
Beyond(dev, nf, ns) ==
  \/ dev.frame = nf /\ dev.seq > ns + JumboPackets
  \/ dev.frame = nf + 1 /\ dev.seq = 1
  \/ dev.frame = nf + 1 /\ dev.seq = JumboPackets + 1 /\ ns = FramePackets
Behind(m, dev, tr, b) ==
  /\ dev.type = RSM1_Jumbo /\ tr.losses = 0 /\ tr.missed
  /\ \E nf \in Nat \ {0}, ns \in 1..FramePackets :
       At(m, dev, tr, nf, ns) /\ b.frame <= nf /\ ns >= JumboPackets /\ Beyond(dev, nf, ns)

Lidar(dev) ==
  /\ dev = [type |-> dev.type, mode |-> dev.mode, frame |-> dev.frame, seq |-> dev.seq]
  /\ dev.type \in MemsLidars /\ dev.frame \in Nat \ {0} /\ dev.seq \in 1..FramePackets
  /\ StartsDatagram(dev.type, dev.seq)
Limits(l, h, tr) ==
  /\ tr \in [losses : Nat, row : Nat, disorder : BOOLEAN, missed : BOOLEAN]
  /\ tr.disorder => l \notin {RSEMX, RSM1_Jumbo} /\ tr.losses + tr.row + 2 <= SeqRange
  /\ ~tr.disorder => h = <<>>
  /\ h # <<>> => tr.missed
  /\ l = RSM1_Jumbo => tr.losses <= 1
  /\ tr.row < SeqRange
Ordered(b) == b \in [frame : Nat, before : Nat] /\ (b.frame > 0 => b.before < b.frame)
InvOf(m, dev, h, tr, b) ==
  /\ Lidar(dev) /\ Limits(dev.type, h, tr) /\ Ordered(b)
  /\ IsDecoder(m, dev.type, m.param) /\ (dev.type # RSEMX => m.angles_ready)
  /\ WaitsIn(m) => AtStart(m, dev, h, tr, b)
  /\ AtStart(m, dev, h, tr, b) \/ OnTrack(m, dev, h, tr, b) \/ Behind(m, dev, tr, b)
FramesInv == InvOf(mems, device, held, trouble, begun)

-----------------------------------------------------------------------------
\* The number after the last one is the first.
LEMMA NumbersBeginAgain ==
  ASSUME NEW last \in 1..FramePackets, NEW first \in 1..FramePackets, first + FramePackets = last + 0 + 1
  PROVE  first = 1 /\ last = FramePackets
BY FrameSizes

\* A packet further.
LEMMA FollowsOn ==
  ASSUME NEW hf \in Nat, NEW hs \in 1..FramePackets, NEW nf \in Nat, NEW ns \in 1..FramePackets,
         NEW f \in Nat, NEW s \in 1..FramePackets, NEW g \in Nat, g < SeqRange,
         Follows(hf, hs, nf, ns, g), Follows(nf, ns, f, s, 0)
  PROVE  Follows(hf, hs, f, s, g + 1)
BY FrameSizes DEF Follows

\* A packet back.
LEMMA FollowsBack ==
  ASSUME NEW hf \in Nat, NEW hs \in 1..FramePackets, NEW nf \in Nat, NEW ns \in 1..FramePackets,
         NEW f \in Nat, NEW s \in 1..FramePackets, NEW g \in Nat, 1 <= g, g < SeqRange,
         Follows(nf, ns, f, s, g), Follows(hf, hs, f, s, 0)
  PROVE  Follows(nf, ns, hf, hs, g - 1)
BY FrameSizes DEF Follows

\* processMsopPkt.
Before(m) == [m EXCEPT !.out = <<>>, !.new_frame = FALSE]
BegunWith(m, f, b) == IF m.new_frame THEN [frame |-> f, before |-> b.frame] ELSE b

LEMMA BeforeIs ==
  ASSUME NEW l, NEW m, IsDecoder(m, l, m.param)
  PROVE  LET d == Before(m)
         IN /\ IsDecoder(d, l, m.param)
            /\ d.split = m.split /\ d.cloud = m.cloud /\ d.out = <<>>
            /\ d.new_frame = FALSE /\ d.angles_ready = m.angles_ready
BY DEF Before, IsDecoder, Members

LEMMA PassesUnlessWaiting ==
  ASSUME NEW l \in MemsLidars, NEW mode, NEW m, IsDecoder(m, l, m.param),
         NEW f, NEW s \in 1..FramePackets, StartsDatagram(l, s)
  PROVE  MsopPasses(Before(m), DatagramOf(l, mode, f, s)) <=> ~WaitsIn(m)
<1> DEFINE d == Before(m)
           p == DatagramOf(l, mode, f, s)
<1>1. d.lidar = l /\ d.param = m.param /\ d.angles_ready = m.angles_ready
  BY DEF Before, IsDecoder, Members
<1>2. p.id = "msop" /\ p.size = l.msop_len
  BY DatagramIs
<1> HIDE DEF d, p
<1>3. QED  BY <1>1, <1>2 DEF MsopPasses, WaitsIn, d, p

LEMMA BegunIsOrdered ==
  ASSUME NEW m, NEW b, Ordered(b), NEW f \in Nat \ {0}, m.new_frame = FALSE \/ b.frame < f
  PROVE  /\ Ordered(BegunWith(m, f, b))
         /\ BegunWith(m, f, b) = b \/ BegunWith(m, f, b).frame = f
BY DEF Ordered, BegunWith

\* What a decoder is asked for does not depend on what it has not decoded.
LEMMA AtAgain ==
  ASSUME NEW m, NEW dev, Lidar(dev), NEW tr, NEW nf, NEW ns,
         tr \in [losses : Nat, row : Nat, disorder : BOOLEAN, missed : BOOLEAN],
         At(m, dev, tr, nf, ns),
         NEW e, IsDecoder(e, dev.type, m.param), e.split = m.split, e.cloud = m.cloud,
         e.out = m.out \/ e.out = <<>>,
         NEW t, t.disorder = tr.disorder, WholeIn(e, t) => WholeIn(m, tr),
         NEW next, next.type = dev.type, next.mode = dev.mode
  PROVE  At(e, next, t, nf, ns)
<1> DEFINE l == dev.type
           param == m.param
           P == PacketPoints(l, param, Returns(l, dev.mode))
           one == ~tr.disorder
           whole == WholeIn(m, tr)
           w == WholeIn(e, t)
<1>1. P \in Nat
  <2> DEFINE returns == Returns(l, dev.mode)
  <2>1. returns \in {1, 2} /\ l \in MemsLidars
    BY DEF Returns, Lidar
  <2> HIDE DEF returns, l, param
  <2>2. BlockPoints(l, param, returns) \in Nat
    BY <2>1, BlockPointsAre
  <2>3. QED  BY <2>2 DEF PacketPoints, returns
<1>2. one \in BOOLEAN /\ whole \in BOOLEAN /\ w \in BOOLEAN
  BY DEF WholeIn
<1>3. Reached(m, l, param, P, nf, ns, one, whole) /\ IsDecoder(e, l, param) /\ (w => whole)
  BY DEF At
<1> HIDE DEF l, param, P, one, whole, w
<1>4. Reached(e, l, param, P, nf, ns, one, w)
  BY <1>1, <1>2, <1>3, ReachedIsKept
<1>5. e.param = m.param
  BY DEF IsDecoder
<1>6. QED  BY <1>4, <1>5 DEF At, l, param, P, one, w

LEMMA LidarGoesOn ==
  ASSUME NEW dev, Lidar(dev)
  PROVE  LET next == Sent(dev)
             last == dev.seq + PacketsOf(dev.type) - 1
         IN /\ Lidar(next) /\ next.type = dev.type /\ next.mode = dev.mode
            /\ last \in 1..FramePackets
            /\ Follows(dev.frame, last, next.frame, next.seq, 0)
            /\ Datagram(dev) = DatagramOf(dev.type, dev.mode, dev.frame, dev.seq)
<1> DEFINE l == dev.type
           mode == dev.mode
           f == dev.frame
           s == dev.seq
           x == [type |-> l, mode |-> mode, frame |-> f, seq |-> s]
           next == Sent(x)
<1>1. dev = x /\ l \in MemsLidars /\ f \in Nat \ {0} /\ s \in 1..FramePackets /\ StartsDatagram(l, s)
  BY DEF Lidar
<1>2. /\ next = [type |-> l, mode |-> mode, frame |-> next.frame, seq |-> next.seq]
      /\ next.frame \in Nat \ {0} /\ next.seq \in 1..FramePackets /\ StartsDatagram(l, next.seq)
      /\ s + PacketsOf(l) - 1 \in 1..FramePackets
      /\ Follows(f, s + PacketsOf(l) - 1, next.frame, next.seq, 0)
  <2> HIDE DEF l, mode, f, s
  <2>1. QED  BY <1>1, SentIs
<1>3. Datagram(dev) = DatagramOf(l, mode, f, s)
  BY <1>1 DEF DatagramOf
<1>4. Sent(dev) = next
  BY <1>1
<1> HIDE DEF next, x
<1>5. next.type = l /\ next.mode = mode
  BY <1>2
<1>6. Lidar(next)
  BY <1>1, <1>2, <1>5 DEF Lidar
<1>7. QED  BY <1>2, <1>3, <1>4, <1>5, <1>6

Aged(h) == [i \in DOMAIN h |-> [h[i] EXCEPT !.age = @ + 1]]
LEMMA AgedIs ==
  ASSUME NEW h, NEW dev, NEW next, next.type = dev.type, next.mode = dev.mode
  PROVE  /\ h = <<>> => Aged(h) = <<>>
         /\ \A hf, hs : \A age \in Nat : Holds(h, dev, hf, hs, age) => Holds(Aged(h), next, hf, hs, age + 1)
<1>1. h = <<>> => Aged(h) = <<>>
  BY DEF Aged
<1>2. ASSUME NEW hf, NEW hs, NEW age \in Nat, Holds(h, dev, hf, hs, age)
      PROVE  Holds(Aged(h), next, hf, hs, age + 1)
  <2> DEFINE p == DatagramOf(dev.type, dev.mode, hf, hs)
             x == [pkt |-> p, frame |-> hf, age |-> age]
             y == [pkt |-> p, frame |-> hf, age |-> age + 1]
  <2>1. h = <<x>>
    BY <1>2 DEF Holds
  <2>2. [x EXCEPT !.age = @ + 1] = y
    OBVIOUS
  <2> HIDE DEF x, y, p
  <2>3. Aged(h) = <<y>>
    BY <2>1, <2>2 DEF Aged
  <2>4. QED  BY <2>3 DEF Holds, y, p
<1>3. QED  BY <1>1, <1>2

\* A packet is sent and arrives, while the decoder waits for DIFOP.
LEMMA WaitingIsKept ==
  ASSUME NEW m, NEW dev, NEW h, NEW tr, NEW b, InvOf(m, dev, h, tr, b), WaitsIn(m)
  PROVE  InvOf(Before(m), Sent(dev), Aged(h), [tr EXCEPT !.row = 0], BegunWith(Before(m), dev.frame, b))
<1> DEFINE d == Before(m)
           next == Sent(dev)
           t == [tr EXCEPT !.row = 0]
           c == BegunWith(d, dev.frame, b)
           g == Aged(h)
<1>1. /\ Lidar(dev) /\ Limits(dev.type, h, tr) /\ Ordered(b)
      /\ IsDecoder(m, dev.type, m.param) /\ (dev.type # RSEMX => m.angles_ready)
      /\ AtStart(m, dev, h, tr, b)
  BY DEF InvOf
<1>2. /\ IsDecoder(d, dev.type, m.param)
      /\ d.split = m.split /\ d.cloud = m.cloud /\ d.out = <<>>
      /\ d.new_frame = FALSE /\ d.angles_ready = m.angles_ready
  <2> DEFINE l == dev.type
  <2>1. IsDecoder(m, l, m.param)
    BY <1>1
  <2> HIDE DEF l
  <2>2. QED  BY <2>1, BeforeIs DEF l
<1>3. Lidar(next) /\ next.type = dev.type
  BY <1>1, LidarGoesOn
<1>4. h = <<>> /\ g = <<>>
  <2>1. dev.type = RSEMX
    BY <1>1 DEF WaitsIn
  <2>2. h = <<>>
    BY <1>1, <2>1 DEF Limits
  <2>3. QED  BY <2>2 DEF Aged
<1>5. c = b
  BY <1>2 DEF BegunWith
<1>6. Limits(next.type, g, t)
  BY <1>1, <1>3, <1>4, FrameSizes DEF Limits
<1>7. d.param = m.param /\ WaitsIn(d)
  BY <1>2 DEF IsDecoder, WaitsIn
<1> HIDE DEF d, next, t, c, g
<1>8. AtStart(d, next, g, t, c)
  <2>1. Untouched(d, next.type, d.param)
    BY <1>1, <1>2, <1>3, <1>7 DEF AtStart, Untouched
  <2>2. ~WholeIn(d, t)
    BY <1>7 DEF WholeIn
  <2>3. QED  BY <1>1, <1>4, <1>5, <2>1, <2>2 DEF AtStart
<1>9. InvOf(d, next, g, t, c)
  BY <1>1, <1>2, <1>3, <1>5, <1>6, <1>7, <1>8 DEF InvOf
<1>10. QED  BY <1>9 DEF d, next, t, c, g

\* A packet is sent, arrives and is decoded.
LEMMA MsopKeepsInv ==
  ASSUME NEW m, NEW dev, NEW h, NEW tr, NEW b, InvOf(m, dev, h, tr, b), ~WaitsIn(m),
         \A hf, hs : \A age \in 1..SeqRange : Holds(h, dev, hf, hs, age) => age < SeqRange
  PROVE  LET e == decodeNumberedPkt(Before(m), Datagram(dev))
         IN InvOf(e, Sent(dev), Aged(h), [tr EXCEPT !.row = 0], BegunWith(e, dev.frame, b))
<1> DEFINE l == dev.type
           mode == dev.mode
           f == dev.frame
           s == dev.seq
           last == s + PacketsOf(l) - 1
           param == m.param
           P == PacketPoints(l, param, Returns(l, mode))
           one == ~tr.disorder
           whole == WholeIn(m, tr)
           d == Before(m)
           e == decodeNumberedPkt(d, DatagramOf(l, mode, f, s))
           next == Sent(dev)
           t == [tr EXCEPT !.row = 0]
           c == BegunWith(e, f, b)
           g2 == Aged(h)
<1>1. /\ Lidar(dev) /\ Limits(l, h, tr) /\ Ordered(b)
      /\ IsDecoder(m, l, param) /\ (l # RSEMX => m.angles_ready)
      /\ AtStart(m, dev, h, tr, b) \/ OnTrack(m, dev, h, tr, b) \/ Behind(m, dev, tr, b)
  BY DEF InvOf
<1>2. /\ l \in MemsLidars /\ f \in Nat \ {0} /\ s \in 1..FramePackets /\ StartsDatagram(l, s)
      /\ one \in BOOLEAN /\ whole \in BOOLEAN
  BY <1>1 DEF Lidar, WholeIn
<1>3. /\ IsDecoder(d, l, param)
      /\ d.split = m.split /\ d.cloud = m.cloud /\ d.out = <<>>
      /\ d.new_frame = FALSE /\ d.angles_ready = m.angles_ready
  <2> HIDE DEF l
  <2>1. QED  BY <1>1, BeforeIs
<1>4. /\ Lidar(next) /\ next.type = l /\ next.mode = mode
      /\ last \in 1..FramePackets
      /\ Follows(f, last, next.frame, next.seq, 0)
      /\ Datagram(dev) = DatagramOf(l, mode, f, s)
  BY <1>1, LidarGoesOn
<1>5. /\ h = <<>> => g2 = <<>>
      /\ \A hf, hs : \A age \in Nat : Holds(h, dev, hf, hs, age) => Holds(g2, next, hf, hs, age + 1)
  <2> HIDE DEF next
  <2>1. QED  BY <1>4, AgedIs
<1>6. /\ t \in [losses : Nat, row : Nat, disorder : BOOLEAN, missed : BOOLEAN]
      /\ t.losses = tr.losses /\ t.row = 0 /\ t.disorder = tr.disorder /\ t.missed = tr.missed
  BY <1>1 DEF Limits
<1> HIDE DEF t, next, g2, d, last
<1>7. Limits(next.type, g2, t)
  BY <1>1, <1>4, <1>5, <1>6, FrameSizes DEF Limits
<1>8. ASSUME IsDecoder(e, l, param), e.angles_ready = m.angles_ready, e.new_frame = FALSE \/ b.frame < f,
             AtStart(e, next, g2, t, c) \/ OnTrack(e, next, g2, t, c) \/ Behind(e, next, t, c)
      PROVE  InvOf(e, next, g2, t, c)
  <2>1. Ordered(c)
    <3> HIDE DEF e, f
    <3>1. QED  BY <1>1, <1>2, <1>8, BegunIsOrdered
  <2>2. e.param = param /\ ~WaitsIn(e)
    BY <1>8 DEF WaitsIn, IsDecoder
  <2> HIDE DEF e, c, l, param
  <2>3. QED  BY <1>1, <1>4, <1>7, <1>8, <2>1, <2>2 DEF InvOf, l
\* What the decoder reached, and where that is.
<1>9. ASSUME NEW nf \in Nat \ {0}, NEW ns \in 1..FramePackets, Reached(e, l, param, P, nf, ns, one, whole),
             e.angles_ready = m.angles_ready
      PROVE  IsDecoder(e, l, param) /\ At(e, next, t, nf, ns) /\ WholeIn(e, t) = whole
  <2> HIDE DEF e
  <2>1. IsDecoder(e, l, param) /\ e.param = param
    BY <1>9 DEF Reached, IsDecoder
  <2>2. WholeIn(e, t) = whole
    BY <1>6, <1>9, <2>1 DEF WholeIn, WaitsIn
  <2>3. At(e, next, t, nf, ns)
    BY <1>4, <1>6, <1>9, <2>1, <2>2 DEF At
  <2>4. QED  BY <2>1, <2>2, <2>3
<1>10. ASSUME Reached(e, l, param, P, f, last, one, whole), e.angles_ready = m.angles_ready,
              e.new_frame = FALSE \/ b.frame < f, b.frame <= f,
              HeldWith(next, g2, 0, f, last, 0)
       PROVE  InvOf(e, next, g2, t, c)
  <2>1. IsDecoder(e, l, param) /\ At(e, next, t, f, last)
    BY <1>2, <1>4, <1>9, <1>10
  <2>2. c = b \/ c.frame = f
    <3> HIDE DEF e, f
    <3>1. QED  BY <1>1, <1>2, <1>10, BegunIsOrdered
  <2>3. c.frame <= f
    BY <1>2, <1>10, <2>2
  <2> HIDE DEF e, c, l, param, P, one, whole, f
  <2>4. 0 \in Nat
    OBVIOUS
  <2>5. Placed(e, next, g2, t, c, f, last, 0)
    BY <1>4, <1>6, <1>10, <2>1, <2>3 DEF Placed
  <2>6. OnTrack(e, next, g2, t, c)
    BY <1>2, <1>4, <2>4, <2>5 DEF OnTrack
  <2>7. QED  BY <1>8, <1>10, <2>1, <2>6
<1>11. ASSUME AtStart(m, dev, h, tr, b)
       PROVE  InvOf(e, next, g2, t, c)
  <2>1. /\ Untouched(m, l, param) /\ b.frame = 0 /\ (whole => f = 1 /\ s = 1)
    BY <1>11 DEF AtStart
  <2>2. Untouched(d, l, param)
    BY <1>3, <2>1 DEF Untouched
  <2>3. /\ Reached(e, l, param, P, f, last, one, whole)
        /\ e.new_frame = FALSE /\ e.angles_ready = m.angles_ready
    <3>1. whole => f = 1 /\ s = 1
      BY <2>1
    <3> HIDE DEF l, mode, f, s, param, one, whole
    <3>2. /\ Reached(e, l, param, P, f, s + PacketsOf(l) - 1, one, whole)
          /\ e.new_frame = d.new_frame /\ e.angles_ready = d.angles_ready
      BY <1>2, <2>2, <3>1, FirstIsHandled
    <3>3. QED  BY <1>3, <3>2 DEF last
  <2>4. HeldWith(next, g2, 0, f, last, 0)
    <3>1. CASE h = <<>>
      BY <1>5, <3>1 DEF HeldWith
    <3>2. CASE h # <<>>
      <4>1. PICK hf \in Nat \ {0}, hs \in 1..FramePackets : Holds(h, dev, hf, hs, 0) /\ Follows(hf, hs, f, s, 0)
        BY <1>11, <3>2 DEF AtStart
      <4>2. last = s
        BY <1>1, <1>2, <3>2, FrameSizes DEF last, PacketsOf, Limits
      <4>3. Holds(g2, next, hf, hs, 1)
        <5>1. 0 \in Nat /\ 0 + 1 = 1
          OBVIOUS
        <5>2. QED  BY <1>5, <4>1, <5>1
      <4>4. 1 \in 1..SeqRange /\ 1 - 1 = 0
        BY FrameSizes
      <4>5. QED  BY <4>1, <4>2, <4>3, <4>4 DEF HeldWith
    <3>3. QED  BY <3>1, <3>2
  <2>5. b.frame <= f
    BY <1>2, <2>1
  <2> HIDE DEF e, P, last, whole, one, param, l, f, c
  <2>6. QED  BY <1>10, <2>3, <2>4, <2>5
<1>12. ASSUME OnTrack(m, dev, h, tr, b)
       PROVE  InvOf(e, next, g2, t, c)
  <2>1. PICK nf \in Nat \ {0}, ns \in 1..FramePackets, g \in Nat : Placed(m, dev, h, tr, b, nf, ns, g)
    BY <1>12 DEF OnTrack
  <2>2. /\ Reached(m, l, param, P, nf, ns, one, whole) /\ b.frame <= nf
        /\ Follows(nf, ns, f, s, g)
        /\ whole \/ l = RSM1_Jumbo => g = 0
        /\ HeldWith(dev, h, tr.row, nf, ns, g)
    BY <2>1 DEF Placed, At
  <2>3. g + 1 <= SeqRange
    <3>1. SeqRange \in Nat /\ SeqRange # 0 /\ tr.row \in Nat /\ tr.losses \in Nat /\ tr.row < SeqRange
      BY <1>1, FrameSizes DEF Limits
    <3>2. CASE g <= tr.row
      BY <3>1, <3>2
    <3>3. CASE g = 0
      BY <3>1, <3>3
    <3>4. CASE g <= tr.row + 1 /\ h # <<>>
      <4>1. tr.losses + tr.row + 2 <= SeqRange
        BY <1>1, <3>4 DEF Limits
      <4>2. QED  BY <3>1, <3>4, <4>1
    <3>5. ASSUME NEW hf, NEW hs, Holds(h, dev, hf, hs, 0)  PROVE h # <<>>
      BY <3>5 DEF Holds
    <3>6. (h = <<>> /\ g <= tr.row) \/ (g <= tr.row + 1 /\ h # <<>>) \/ g = 0
      BY <2>2, <3>5 DEF HeldWith
    <3>7. QED  BY <3>2, <3>3, <3>4, <3>6
  <2>4. Reached(d, l, param, P, nf, ns, one, whole)
    BY <1>3, <2>2, NothingDelivered DEF Reached
  <2>5. /\ Reached(e, l, param, P, f, last, one, whole)
        /\ e.new_frame = FALSE \/ f = nf + 1
        /\ e.angles_ready = m.angles_ready
    <3> HIDE DEF l, mode, f, s, param, one, whole
    <3>1. QED  BY <1>2, <1>3, <2>2, <2>3, <2>4, NextIsHandled DEF last
  <2>6. b.frame \in Nat /\ nf <= f
    BY <1>1, <1>2, <2>2 DEF Ordered, Follows
  <2>7. HeldWith(next, g2, 0, f, last, 0)
    <3>1. CASE h = <<>>
      BY <1>5, <3>1 DEF HeldWith
    <3>2. CASE h # <<>>
      <4>1. last = s
        BY <1>1, <1>2, <3>2, FrameSizes DEF last, PacketsOf, Limits
      <4>2. PICK hf \in Nat \ {0}, hs \in 1..FramePackets, age \in 0..SeqRange :
              /\ Holds(h, dev, hf, hs, age)
              /\ (age = 0 /\ Follows(hf, hs, f, s, 0))
                 \/ (age # 0 /\ g = 0 /\ Follows(hf, hs, nf, ns, age - 1))
        <5>1. CASE g = 0 /\ \E hf \in Nat \ {0}, hs \in 1..FramePackets, age \in 1..SeqRange :
                        Holds(h, dev, hf, hs, age) /\ Follows(hf, hs, nf, ns, age - 1)
          <6>1. PICK hf \in Nat \ {0}, hs \in 1..FramePackets, age \in 1..SeqRange :
                  Holds(h, dev, hf, hs, age) /\ Follows(hf, hs, nf, ns, age - 1)
            BY <5>1
          <6>2. age \in 0..SeqRange /\ age # 0
            BY FrameSizes
          <6>3. QED  BY <5>1, <6>1, <6>2
        <5>2. CASE \E hf \in Nat \ {0}, hs \in 1..FramePackets :
                     Holds(h, dev, hf, hs, 0) /\ Follows(hf, hs, f, s, 0)
          <6>1. PICK hf \in Nat \ {0}, hs \in 1..FramePackets :
                  Holds(h, dev, hf, hs, 0) /\ Follows(hf, hs, f, s, 0)
            BY <5>2
          <6>2. 0 \in 0..SeqRange
            BY FrameSizes
          <6>3. QED  BY <6>1, <6>2
        <5>3. QED  BY <2>2, <3>2, <5>1, <5>2 DEF HeldWith
      <4>3. Follows(hf, hs, f, s, age) /\ age < SeqRange
        <5>1. CASE age = 0
          BY <4>2, <5>1, FrameSizes
        <5>2. CASE age # 0
          <6>1. age \in 1..SeqRange /\ age < SeqRange
            <7>1. age \in 1..SeqRange
              BY <5>2, FrameSizes
            <7>2. QED  BY <4>2, <7>1
          <6> DEFINE v == age - 1
          <6>2. v \in Nat /\ v < SeqRange /\ v + 1 = age
            BY <6>1, FrameSizes
          <6>3. Follows(hf, hs, nf, ns, v) /\ Follows(nf, ns, f, s, 0)
            BY <2>2, <4>2, <5>2
          <6> HIDE DEF v, f, s
          <6>4. Follows(hf, hs, f, s, v + 1)
            BY <1>2, <6>2, <6>3, FollowsOn
          <6>5. QED  BY <6>1, <6>2, <6>4
        <5>3. QED  BY <5>1, <5>2
      <4>4. age \in Nat /\ age + 1 \in 1..SeqRange /\ (age + 1) - 1 = age
        BY <4>3, FrameSizes
      <4>5. Holds(g2, next, hf, hs, age + 1)
        BY <1>5, <4>2, <4>4
      <4>6. QED  BY <4>1, <4>3, <4>4, <4>5 DEF HeldWith
    <3>3. QED  BY <3>1, <3>2
  <2>8. e.new_frame = FALSE \/ b.frame < f
    BY <2>2, <2>5, <2>6
  <2>9. b.frame <= f
    BY <1>2, <2>2, <2>6
  <2>10. QED  BY <1>10, <2>5, <2>7, <2>8, <2>9
<1>13. ASSUME Behind(m, dev, tr, b)
       PROVE  InvOf(e, next, g2, t, c)
  <2>1. /\ l = RSM1_Jumbo /\ tr.losses = 0 /\ tr.missed
        /\ \E nf \in Nat \ {0}, ns \in 1..FramePackets :
             At(m, dev, tr, nf, ns) /\ b.frame <= nf /\ ns >= JumboPackets /\ Beyond(dev, nf, ns)
    BY <1>13 DEF Behind
  <2>2. PICK nf \in Nat \ {0}, ns \in 1..FramePackets :
          At(m, dev, tr, nf, ns) /\ b.frame <= nf /\ ns >= JumboPackets /\ Beyond(dev, nf, ns)
    BY <2>1
  <2>3. Returns(l, mode) = 1 /\ PacketsOf(l) = JumboPackets /\ ~whole
    BY <2>1, LidarsDiffer DEF Returns, PacketsOf, WholeIn
  <2>4. Reached(m, l, param, P, nf, ns, one, whole)
    BY <2>2 DEF At
  <2>5. Reached(d, RSM1_Jumbo, param, PacketPoints(RSM1_Jumbo, param, 1), nf, ns, one, whole)
    BY <1>3, <2>1, <2>3, <2>4, NothingDelivered DEF Reached
  <2>6. /\ IsDatagram(DatagramOf(l, mode, f, s), f, s) /\ s + JumboPackets <= FramePackets + 1
        /\ JumboPackets \in Nat /\ SeqRange \in Nat /\ FramePackets \in Nat
        /\ b.frame \in Nat /\ g2 = <<>>
    <3>1. IsDatagram(DatagramOf(l, mode, f, s), f, s)
      <4> HIDE DEF l, f, s
      <4>1. QED  BY <1>2, <2>1, DatagramIs
    <3>2. s + JumboPackets <= FramePackets + 1
      <4> HIDE DEF s
      <4>1. QED  BY <1>2, <2>1, DatagramsFit DEF StartsDatagram
    <3>3. h = <<>>
      BY <1>1, <2>1 DEF Limits
    <3>4. QED  BY <1>1, <1>5, <3>1, <3>2, <3>3, FrameSizes DEF Ordered
  <2>7. CASE f = nf /\ s > ns + JumboPackets
    <3>1. s > ns + SeqRange
      BY <1>2, <2>6, <2>7, FrameSizes
    <3>2. /\ Reached(e, RSM1_Jumbo, param, PacketPoints(RSM1_Jumbo, param, 1), nf, ns, one, whole)
          /\ e.new_frame = FALSE /\ e.angles_ready = m.angles_ready
      <4> HIDE DEF f, s, one, whole, mode, l
      <4>1. QED  BY <1>2, <1>3, <2>3, <2>5, <2>6, <2>7, <3>1, SkippedDatagram
    <3>3. IsDecoder(e, l, param) /\ At(e, next, t, nf, ns)
      BY <1>9, <2>1, <2>3, <3>2
    <3>4. c = b
      BY <3>2 DEF BegunWith
    <3>5. Beyond(next, nf, ns)
      <4>1. last = s + JumboPackets - 1
        BY <2>3 DEF last
      <4>2. next.frame \in Nat /\ next.seq \in 1..FramePackets
        BY <1>4 DEF Lidar
      <4>3. JumboPackets >= 1 /\ ns \in Nat /\ s \in Nat /\ ns + JumboPackets < s
        BY <1>2, <2>6, <2>7, FrameSizes
      <4>4. CASE next.frame = f /\ next.seq = last + 0 + 1
        <5>1. next.seq > ns + JumboPackets
          BY <2>6, <4>1, <4>2, <4>3, <4>4
        <5>2. QED  BY <2>7, <4>4, <5>1 DEF Beyond
      <4>5. CASE next.frame = f + 1 /\ next.seq + FramePackets = last + 0 + 1
        <5>1. next.seq = 1
          <6> DEFINE first == next.seq
          <6>1. first \in 1..FramePackets /\ last \in 1..FramePackets /\ first + FramePackets = last + 0 + 1
            BY <1>4, <4>2, <4>5
          <6> HIDE DEF first
          <6>2. first = 1
            BY <6>1, NumbersBeginAgain
          <6>3. QED  BY <6>2 DEF first
        <5>2. QED  BY <2>7, <4>5, <5>1 DEF Beyond
      <4>6. QED  BY <1>4, <4>4, <4>5 DEF Follows
    <3>6. Behind(e, next, t, c)
      <4> HIDE DEF e, c
      <4>1. QED  BY <1>4, <1>6, <2>1, <2>2, <3>3, <3>4, <3>5 DEF Behind
    <3>7. QED  BY <1>8, <3>2, <3>3, <3>6
  <2>8. CASE f = nf + 1 /\ (s = 1 \/ (s = JumboPackets + 1 /\ ns = FramePackets))
    <3>1. s + SeqRange < ns
      BY <2>2, <2>6, <2>8, FrameSizes
    <3>2. /\ Reached(e, RSM1_Jumbo, param, PacketPoints(RSM1_Jumbo, param, 1), f, s + JumboPackets - 1, one, whole)
          /\ e.angles_ready = m.angles_ready
      <4> HIDE DEF f, s, one, whole, mode, l
      <4>1. QED  BY <1>2, <1>3, <2>3, <2>5, <2>6, <3>1, RewindingDatagram
    <3>3. Reached(e, l, param, P, f, last, one, whole)
      BY <2>1, <2>3, <3>2 DEF last
    <3>4. HeldWith(next, g2, 0, f, last, 0)
      BY <2>6 DEF HeldWith
    <3>5. b.frame < f /\ b.frame <= f
      BY <2>2, <2>6, <2>8
    <3>6. QED  BY <1>10, <3>2, <3>3, <3>4, <3>5
  <2>9. QED  BY <2>2, <2>7, <2>8 DEF Beyond
<1>14. InvOf(e, next, g2, t, c)
  BY <1>1, <1>11, <1>12, <1>13
<1>15. QED  BY <1>4, <1>14 DEF next, g2, t, d

LEMMA LossIsCounted ==
  ASSUME NEW tr \in [losses : Nat, row : Nat, disorder : BOOLEAN, missed : BOOLEAN], tr.losses > 0
  PROVE  LET t == [tr EXCEPT !.losses = @ - 1, !.row = @ + 1, !.missed = TRUE]
         IN /\ t \in [losses : Nat, row : Nat, disorder : BOOLEAN, missed : BOOLEAN]
            /\ t.losses = tr.losses - 1 /\ t.row = tr.row + 1 /\ t.disorder = tr.disorder /\ t.missed = TRUE
<1> DEFINE x == tr.losses - 1
           y == tr.row + 1
           z == TRUE
<1>1. x \in Nat /\ y \in Nat /\ z \in BOOLEAN
  OBVIOUS
<1> HIDE DEF x, y, z
<1> DEFINE t == [tr EXCEPT !.losses = x, !.row = y, !.missed = z]
<1>2. t \in [losses : Nat, row : Nat, disorder : BOOLEAN, missed : BOOLEAN]
  BY <1>1
<1>3. t.losses = x /\ t.row = y /\ t.disorder = tr.disorder /\ t.missed = z
  OBVIOUS
<1> HIDE DEF t
<1>4. QED  BY <1>2, <1>3 DEF x, y, z, t

\* A datagram is lost: one of RSM1_Jumbo leaves the decoder behind.
LEMMA LoseKeepsInv ==
  ASSUME NEW m, NEW dev, NEW tr, NEW b, InvOf(m, dev, <<>>, tr, b),
         tr.losses > 0, tr.row * Datagrams(dev) < SeqRange - 1
  PROVE  InvOf(m, Sent(dev), <<>>, [tr EXCEPT !.losses = @ - 1, !.row = @ + 1, !.missed = TRUE], b)
<1> DEFINE l == dev.type
           f == dev.frame
           s == dev.seq
           n == PacketsOf(l)
           last == s + n - 1
           next == Sent(dev)
           t == [tr EXCEPT !.losses = @ - 1, !.row = @ + 1, !.missed = TRUE]
           none == <<>>
<1>1. /\ Lidar(dev) /\ Limits(l, none, tr) /\ Ordered(b)
      /\ IsDecoder(m, l, m.param) /\ (l # RSEMX => m.angles_ready)
      /\ WaitsIn(m) => AtStart(m, dev, none, tr, b)
      /\ AtStart(m, dev, none, tr, b) \/ OnTrack(m, dev, none, tr, b) \/ Behind(m, dev, tr, b)
  BY DEF InvOf
<1>2. /\ l \in MemsLidars /\ f \in Nat \ {0} /\ s \in 1..FramePackets /\ StartsDatagram(l, s)
      /\ tr \in [losses : Nat, row : Nat, disorder : BOOLEAN, missed : BOOLEAN]
      /\ tr.losses \in Nat /\ tr.row \in Nat
  BY <1>1 DEF Lidar, Limits
<1>3. /\ Lidar(next) /\ next.type = l /\ next.mode = dev.mode
      /\ last \in 1..FramePackets
      /\ Follows(f, last, next.frame, next.seq, 0)
  BY <1>1, LidarGoesOn
<1>4. /\ t \in [losses : Nat, row : Nat, disorder : BOOLEAN, missed : BOOLEAN]
      /\ t.losses = tr.losses - 1 /\ t.row = tr.row + 1 /\ t.disorder = tr.disorder /\ t.missed = TRUE
  BY <1>2, LossIsCounted
<1>5. tr.row + 1 < SeqRange
  <2>1. Datagrams(dev) = n /\ n \in Nat /\ n >= 1 /\ SeqRange \in Nat
    BY FrameSizes DEF Datagrams, PacketsOf
  <2> DEFINE row == tr.row
  <2>2. row \in Nat /\ row * n < SeqRange - 1
    BY <1>2, <2>1
  <2> HIDE DEF row, n
  <2>3. row * n >= row * 1 /\ row * 1 = row /\ row * n \in Nat
    BY <2>1, <2>2
  <2>4. row + 1 < SeqRange
    <3> DEFINE x == row * n
    <3>1. x \in Nat /\ x >= row /\ x < SeqRange - 1
      BY <2>2, <2>3
    <3> HIDE DEF x
    <3>2. QED  BY <2>1, <2>2, <3>1
  <2>5. QED  BY <2>4 DEF row
<1> HIDE DEF next, t, none
<1>6. Limits(next.type, none, t)
  BY <1>1, <1>2, <1>3, <1>4, <1>5, FrameSizes DEF Limits, none
<1>7. ~WholeIn(m, t)
  BY <1>4 DEF WholeIn
<1>8. ASSUME AtStart(m, dev, none, tr, b)  PROVE AtStart(m, next, none, t, b)
  BY <1>3, <1>7, <1>8 DEF AtStart, none
<1>9. ASSUME NEW nf \in Nat \ {0}, NEW ns \in 1..FramePackets, At(m, dev, tr, nf, ns)
      PROVE  At(m, next, t, nf, ns)
  BY <1>1, <1>2, <1>3, <1>4, <1>7, <1>9, AtAgain
<1>10. ASSUME OnTrack(m, dev, none, tr, b)
       PROVE  OnTrack(m, next, none, t, b) \/ Behind(m, next, t, b)
  <2>1. PICK nf \in Nat \ {0}, ns \in 1..FramePackets, g \in Nat : Placed(m, dev, none, tr, b, nf, ns, g)
    BY <1>10 DEF OnTrack
  <2>2. /\ At(m, next, t, nf, ns) /\ b.frame <= nf
        /\ Follows(nf, ns, f, s, g)
        /\ l = RSM1_Jumbo => g = 0
        /\ HeldWith(dev, none, tr.row, nf, ns, g)
    BY <1>9, <2>1 DEF Placed
  <2>3. SeqRange \in Nat /\ FramePackets \in Nat /\ JumboPackets \in Nat /\ JumboPackets < FramePackets
    BY FrameSizes
  <2>4. CASE l # RSM1_Jumbo
    <3>1. last = s
      BY <1>2, <2>3, <2>4 DEF PacketsOf
    <3>2. g <= tr.row
      <4>1. \A hf, hs, age : ~Holds(none, dev, hf, hs, age)
        BY DEF Holds, none
      <4>2. QED  BY <2>2, <4>1 DEF HeldWith
    <3>3. g < SeqRange /\ g + 1 <= t.row /\ g + 1 \in Nat
      BY <1>2, <1>4, <1>5, <2>3, <3>2
    <3>4. /\ next.frame \in Nat /\ next.seq \in 1..FramePackets
          /\ Follows(f, s, next.frame, next.seq, 0)
      BY <1>3, <3>1 DEF Lidar
    <3>5. Follows(nf, ns, next.frame, next.seq, g + 1)
      <4> DEFINE nx == next.frame
                 ny == next.seq
      <4> HIDE DEF f, s, nx, ny
      <4>1. nx \in Nat /\ ny \in 1..FramePackets /\ Follows(f, s, nx, ny, 0)
        BY <3>4 DEF nx, ny
      <4>2. Follows(nf, ns, nx, ny, g + 1)
        BY <1>2, <2>2, <3>3, <4>1, FollowsOn
      <4>3. QED  BY <4>2 DEF nx, ny
    <3>6. HeldWith(next, none, t.row, nf, ns, g + 1)
      BY <3>3 DEF HeldWith, none
    <3>7. Placed(m, next, none, t, b, nf, ns, g + 1)
      BY <1>3, <1>7, <2>2, <2>4, <3>5, <3>6 DEF Placed
    <3>8. QED  BY <3>3, <3>7 DEF OnTrack
  <2>5. CASE l = RSM1_Jumbo
    <3>1. n = JumboPackets /\ last = s + JumboPackets - 1 /\ g = 0 /\ Follows(nf, ns, f, s, 0)
      BY <2>2, <2>5 DEF PacketsOf
    <3>2. t.losses = 0
      BY <1>1, <1>2, <1>4, <2>5 DEF Limits
    <3>3. next.frame \in Nat /\ next.seq \in 1..FramePackets
      BY <1>3 DEF Lidar
    <3>4. ns >= JumboPackets /\ Beyond(next, nf, ns)
      <4>1. CASE f = nf /\ s = ns + 0 + 1
        <5>1. s - 1 >= JumboPackets
          <6>1. s # 1
            BY <2>3, <4>1
          <6> HIDE DEF s
          <6>2. QED  BY <1>2, <2>5, <6>1, DatagramsFit DEF StartsDatagram
        <5>2. ns >= JumboPackets /\ last = ns + JumboPackets
          BY <1>2, <2>3, <3>1, <4>1, <5>1
        <5>3. CASE next.frame = f /\ next.seq = last + 0 + 1
          <6>1. next.seq > ns + JumboPackets
            BY <2>3, <3>3, <5>2, <5>3
          <6>2. QED  BY <4>1, <5>2, <5>3, <6>1 DEF Beyond
        <5>4. CASE next.frame = f + 1 /\ next.seq + FramePackets = last + 0 + 1
          <6>1. next.seq = 1
            <7> DEFINE first == next.seq
            <7>1. first \in 1..FramePackets /\ last \in 1..FramePackets /\ first + FramePackets = last + 0 + 1
              BY <1>3, <3>3, <5>4
            <7> HIDE DEF first, last
            <7>2. first = 1
              BY <7>1, NumbersBeginAgain
            <7>3. QED  BY <7>2 DEF first
          <6>2. QED  BY <4>1, <5>2, <5>4, <6>1 DEF Beyond
        <5>5. QED  BY <1>3, <5>3, <5>4 DEF Follows
      <4>2. CASE f = nf + 1 /\ s + FramePackets = ns + 0 + 1
        <5>1. s = 1 /\ ns = FramePackets /\ last = JumboPackets /\ ns >= JumboPackets
          <6>1. s = 1 /\ ns = FramePackets
            <7> HIDE DEF s
            <7>1. QED  BY <1>2, <4>2, NumbersBeginAgain
          <6>2. last = 1 + JumboPackets - 1
            BY <3>1, <6>1
          <6>3. 1 + JumboPackets - 1 = JumboPackets
            BY <2>3
          <6>4. QED  BY <2>3, <6>1, <6>2, <6>3
        <5>2. CASE next.frame = f /\ next.seq = last + 0 + 1
          BY <2>3, <4>2, <5>1, <5>2 DEF Beyond
        <5>3. CASE next.frame = f + 1 /\ next.seq + FramePackets = last + 0 + 1
          BY <2>3, <3>3, <5>1, <5>3
        <5>4. QED  BY <1>3, <5>2, <5>3 DEF Follows
      <4>3. QED  BY <3>1, <4>1, <4>2 DEF Follows
    <3>5. Behind(m, next, t, b)
      BY <1>3, <1>4, <2>2, <2>5, <3>2, <3>4 DEF Behind
    <3>6. QED  BY <3>5
  <2>6. QED  BY <2>4, <2>5
<1>11. ~Behind(m, dev, tr, b)
  BY DEF Behind
<1>12. InvOf(m, next, none, t, b)
  BY <1>1, <1>3, <1>6, <1>8, <1>10, <1>11 DEF InvOf
<1>13. QED  BY <1>12 DEF next, t, none

\* A packet is held back.
LEMMA DelayKeepsInv ==
  ASSUME NEW m, NEW dev, NEW tr, NEW b, InvOf(m, dev, <<>>, tr, b), tr.disorder
  PROVE  InvOf(m, Sent(dev), <<[pkt |-> Datagram(dev), frame |-> dev.frame, age |-> 0]>>,
               [tr EXCEPT !.missed = TRUE], b)
<1> DEFINE l == dev.type
           f == dev.frame
           s == dev.seq
           next == Sent(dev)
           t == [tr EXCEPT !.missed = TRUE]
           none == <<>>
           h == <<[pkt |-> Datagram(dev), frame |-> f, age |-> 0]>>
<1>1. /\ Lidar(dev) /\ Limits(l, none, tr) /\ Ordered(b)
      /\ IsDecoder(m, l, m.param) /\ (l # RSEMX => m.angles_ready)
      /\ AtStart(m, dev, none, tr, b) \/ OnTrack(m, dev, none, tr, b) \/ Behind(m, dev, tr, b)
  BY DEF InvOf
<1>2. /\ l \in MemsLidars /\ f \in Nat \ {0} /\ s \in 1..FramePackets
      /\ tr \in [losses : Nat, row : Nat, disorder : BOOLEAN, missed : BOOLEAN]
      /\ tr.losses \in Nat /\ tr.row \in Nat
      /\ l # RSEMX /\ l # RSM1_Jumbo /\ tr.losses + tr.row + 2 <= SeqRange /\ ~WaitsIn(m)
  BY <1>1 DEF Lidar, Limits, WaitsIn
<1>3. /\ Lidar(next) /\ next.type = l /\ next.mode = dev.mode
      /\ Follows(f, s, next.frame, next.seq, 0)
      /\ Datagram(dev) = DatagramOf(l, dev.mode, f, s)
  <2>1. s + PacketsOf(l) - 1 = s
    BY <1>2, FrameSizes DEF PacketsOf
  <2>2. QED  BY <1>1, <2>1, LidarGoesOn
<1>4. /\ t \in [losses : Nat, row : Nat, disorder : BOOLEAN, missed : BOOLEAN]
      /\ t.losses = tr.losses /\ t.row = tr.row /\ t.disorder = tr.disorder /\ t.missed = TRUE
  BY <1>2
<1> HIDE DEF next, t
<1>5. Holds(h, next, f, s, 0) /\ h # <<>>
  BY <1>3 DEF Holds
<1> HIDE DEF h, none
<1>6. Limits(next.type, h, t) /\ ~WholeIn(m, t)
  BY <1>1, <1>2, <1>3, <1>4 DEF Limits, WholeIn
<1>7. ASSUME AtStart(m, dev, none, tr, b)  PROVE AtStart(m, next, h, t, b)
  BY <1>2, <1>3, <1>5, <1>6, <1>7 DEF AtStart
<1>8. ASSUME OnTrack(m, dev, none, tr, b)  PROVE OnTrack(m, next, h, t, b)
  <2>1. PICK nf \in Nat \ {0}, ns \in 1..FramePackets, g \in Nat : Placed(m, dev, none, tr, b, nf, ns, g)
    BY <1>8 DEF OnTrack
  <2>2. /\ At(m, dev, tr, nf, ns) /\ b.frame <= nf
        /\ Follows(nf, ns, f, s, g) /\ HeldWith(dev, none, tr.row, nf, ns, g)
    BY <2>1 DEF Placed
  <2>3. g <= tr.row
    <3>1. \A hf, hs, age : ~Holds(none, dev, hf, hs, age)
      BY DEF Holds, none
    <3>2. QED  BY <1>2, <2>2, <3>1 DEF HeldWith
  <2>4. g < SeqRange /\ 1 <= g + 1 /\ g + 1 <= t.row + 1 /\ g + 1 \in Nat
    BY <1>2, <1>4, <2>3, FrameSizes
  <2>5. At(m, next, t, nf, ns)
    BY <1>1, <1>2, <1>3, <1>4, <1>6, <2>2, AtAgain
  <2>6. Follows(nf, ns, next.frame, next.seq, g + 1)
    <3> DEFINE nx == next.frame
               ny == next.seq
    <3>1. nx \in Nat /\ ny \in 1..FramePackets /\ Follows(f, s, nx, ny, 0)
      BY <1>3 DEF Lidar
    <3> HIDE DEF f, s, nx, ny
    <3>2. Follows(nf, ns, nx, ny, g + 1)
      BY <1>2, <2>2, <2>4, <3>1, FollowsOn
    <3>3. QED  BY <3>2 DEF nx, ny
  <2>7. HeldWith(next, h, t.row, nf, ns, g + 1)
    BY <1>2, <1>3, <1>5, <2>4 DEF HeldWith
  <2>8. Placed(m, next, h, t, b, nf, ns, g + 1)
    BY <1>2, <1>3, <1>6, <2>2, <2>5, <2>6, <2>7 DEF Placed
  <2>9. QED  BY <2>4, <2>8 DEF OnTrack
<1>9. ~Behind(m, dev, tr, b)
  BY <1>2 DEF Behind
<1>10. InvOf(m, next, h, t, b)
  BY <1>1, <1>2, <1>3, <1>6, <1>7, <1>8, <1>9 DEF InvOf
<1>11. QED  BY <1>10 DEF next, t, h

\* The packet that was held back arrives.
LEMMA LateKeepsInv ==
  ASSUME NEW m, NEW dev, NEW h, NEW tr, NEW b, InvOf(m, dev, h, tr, b), h # <<>>
  PROVE  LET e == decodeNumberedPkt(Before(m), Head(h).pkt)
         IN /\ MsopPasses(Before(m), Head(h).pkt)
            /\ InvOf(e, dev, Tail(h), tr, BegunWith(e, Head(h).frame, b))
<1> DEFINE l == dev.type
           mode == dev.mode
           f == dev.frame
           s == dev.seq
           param == m.param
           P == PacketPoints(l, param, Returns(l, mode))
           one == ~tr.disorder
           whole == WholeIn(m, tr)
           d == Before(m)
           pkt == Head(h).pkt
           from == Head(h).frame
           rest == Tail(h)
           e == decodeNumberedPkt(d, pkt)
           c == BegunWith(e, from, b)
<1>1. /\ Lidar(dev) /\ Limits(l, h, tr) /\ Ordered(b)
      /\ IsDecoder(m, l, param) /\ (l # RSEMX => m.angles_ready)
      /\ AtStart(m, dev, h, tr, b) \/ OnTrack(m, dev, h, tr, b) \/ Behind(m, dev, tr, b)
  BY DEF InvOf
<1>2. /\ l \in MemsLidars /\ f \in Nat \ {0} /\ s \in 1..FramePackets
      /\ one \in BOOLEAN /\ ~one /\ whole \in BOOLEAN /\ ~whole /\ ~WaitsIn(m)
      /\ l # RSEMX /\ l # RSM1_Jumbo /\ l \in MemsLidars \ {RSEMX, RSM1_Jumbo}
      /\ tr.losses \in Nat /\ tr.row \in Nat /\ tr.losses + tr.row + 2 <= SeqRange
  BY <1>1 DEF Lidar, Limits, WholeIn, WaitsIn
<1>3. /\ IsDecoder(d, l, param)
      /\ d.split = m.split /\ d.cloud = m.cloud /\ d.out = <<>>
      /\ d.new_frame = FALSE /\ d.angles_ready = m.angles_ready
  <2> HIDE DEF l
  <2>1. QED  BY <1>1, BeforeIs
<1>4. ASSUME NEW hf, NEW hs, NEW age, Holds(h, dev, hf, hs, age)
      PROVE  pkt = DatagramOf(l, mode, hf, hs) /\ from = hf /\ rest = <<>>
  <2> DEFINE x == [pkt |-> DatagramOf(l, mode, hf, hs), frame |-> hf, age |-> age]
  <2>1. h = <<x>>
    BY <1>4 DEF Holds
  <2>2. x.pkt = DatagramOf(l, mode, hf, hs) /\ x.frame = hf
    OBVIOUS
  <2> HIDE DEF x
  <2>3. QED  BY <2>1, <2>2
<1>5. ASSUME NEW hf \in Nat \ {0}, NEW hs \in 1..FramePackets
      PROVE  /\ StartsDatagram(l, hs) /\ hs + PacketsOf(l) - 1 = hs
             /\ MsopPasses(d, DatagramOf(l, mode, hf, hs))
  <2>1. StartsDatagram(l, hs) /\ hs + PacketsOf(l) - 1 = hs
    BY <1>2, FrameSizes DEF StartsDatagram, PacketsOf
  <2> HIDE DEF l, mode
  <2>2. QED  BY <1>1, <1>2, <2>1, PassesUnlessWaiting
<1> HIDE DEF d
<1>6. ASSUME NEW nf \in Nat \ {0}, NEW ns \in 1..FramePackets,
             Reached(e, l, param, P, nf, ns, one, whole), e.angles_ready = m.angles_ready,
             e.new_frame = FALSE \/ (from = nf /\ b.frame < nf), b.frame <= nf,
             Follows(nf, ns, f, s, 0), rest = <<>>
      PROVE  InvOf(e, dev, rest, tr, c)
  <2> HIDE DEF e, from, rest
  <2>1. IsDecoder(e, l, param) /\ e.param = param
    BY <1>6 DEF Reached, IsDecoder
  <2>2. WholeIn(e, tr) = whole /\ ~WaitsIn(e)
    BY <1>2, <1>6, <2>1 DEF WholeIn, WaitsIn
  <2>3. At(e, dev, tr, nf, ns)
    BY <1>6, <2>1, <2>2 DEF At
  <2>4. Ordered(c) /\ c.frame <= nf
    <3>1. CASE e.new_frame = FALSE
      BY <1>1, <1>6, <3>1 DEF BegunWith
    <3>2. CASE from = nf /\ b.frame < nf
      <4>1. Ordered(c) /\ (c = b \/ c.frame = nf)
        BY <1>1, <3>2, BegunIsOrdered
      <4>2. QED  BY <1>6, <4>1
    <3>3. QED  BY <1>6, <3>1, <3>2
  <2> HIDE DEF c, whole
  <2>5. HeldWith(dev, rest, tr.row, nf, ns, 0)
    BY <1>2, <1>6 DEF HeldWith
  <2>6. Placed(e, dev, rest, tr, c, nf, ns, 0)
    BY <1>6, <2>3, <2>4, <2>5 DEF Placed
  <2>7. 0 \in Nat
    OBVIOUS
  <2>8. OnTrack(e, dev, rest, tr, c)
    BY <2>6, <2>7 DEF OnTrack
  <2>9. Limits(l, rest, tr)
    BY <1>1, <1>6 DEF Limits
  <2>10. QED  BY <1>1, <1>2, <1>6, <2>1, <2>2, <2>4, <2>8, <2>9 DEF InvOf
<1>7. ASSUME AtStart(m, dev, h, tr, b)
      PROVE  MsopPasses(d, pkt) /\ InvOf(e, dev, rest, tr, c)
  <2>1. PICK hf \in Nat \ {0}, hs \in 1..FramePackets : Holds(h, dev, hf, hs, 0) /\ Follows(hf, hs, f, s, 0)
    BY <1>7 DEF AtStart
  <2>2. pkt = DatagramOf(l, mode, hf, hs) /\ from = hf /\ rest = <<>>
    BY <1>4, <2>1
  <2>3. Untouched(d, l, param) /\ b.frame = 0
    BY <1>3, <1>7 DEF AtStart, Untouched
  <2> HIDE DEF l, mode, f, s, param, one, whole, pkt, from, rest, c
  <2>4. /\ Reached(e, l, param, P, hf, hs, one, whole)
        /\ e.new_frame = FALSE /\ e.angles_ready = m.angles_ready
    <3> DEFINE x == decodeNumberedPkt(d, DatagramOf(l, mode, hf, hs))
    <3>1. /\ l \in MemsLidars /\ one \in BOOLEAN /\ whole \in BOOLEAN
          /\ StartsDatagram(l, hs) /\ (whole => hf = 1 /\ hs = 1)
          /\ Untouched(d, l, param)
      BY <1>2, <1>5, <2>3
    <3>2. /\ Reached(x, l, param, P, hf, hs + PacketsOf(l) - 1, one, whole)
          /\ x.new_frame = d.new_frame /\ x.angles_ready = d.angles_ready
      BY <3>1, FirstIsHandled
    <3>3. e = x
      BY <2>2
    <3> HIDE DEF x, e
    <3>4. QED  BY <1>3, <1>5, <3>2, <3>3
  <2>5. b.frame <= hf
    BY <2>3
  <2> HIDE DEF e, P
  <2>6. QED  BY <1>5, <1>6, <2>1, <2>2, <2>4, <2>5
<1>8. ASSUME OnTrack(m, dev, h, tr, b)
      PROVE  MsopPasses(d, pkt) /\ InvOf(e, dev, rest, tr, c)
  <2>1. PICK nf \in Nat \ {0}, ns \in 1..FramePackets, g \in Nat : Placed(m, dev, h, tr, b, nf, ns, g)
    BY <1>8 DEF OnTrack
  <2>2. /\ Reached(m, l, param, P, nf, ns, one, whole) /\ b.frame <= nf
        /\ Follows(nf, ns, f, s, g) /\ HeldWith(dev, h, tr.row, nf, ns, g)
    BY <2>1 DEF Placed, At
  <2>3. Reached(d, l, param, P, nf, ns, one, whole)
    BY <1>3, <2>2, NothingDelivered DEF Reached
  <2>4. b.frame \in Nat /\ SeqRange \in Nat
    BY <1>1, FrameSizes DEF Ordered
  <2>5. ASSUME 1 <= g, g <= tr.row + 1,
               NEW hf \in Nat \ {0}, NEW hs \in 1..FramePackets, Holds(h, dev, hf, hs, 0), Follows(hf, hs, f, s, 0)
        PROVE  MsopPasses(d, pkt) /\ InvOf(e, dev, rest, tr, c)
    <3> DEFINE v == g - 1
    <3>1. v \in Nat /\ v + 1 <= SeqRange /\ g < SeqRange
      <4> DEFINE row == tr.row
                 losses == tr.losses
      <4>1. row \in Nat /\ losses \in Nat /\ losses + row + 2 <= SeqRange /\ g <= row + 1
        BY <1>2, <2>5
      <4> HIDE DEF row, losses
      <4>2. g + 1 <= SeqRange
        BY <2>4, <4>1
      <4>3. QED  BY <2>4, <2>5, <4>2
    <3>2. pkt = DatagramOf(l, mode, hf, hs) /\ from = hf /\ rest = <<>>
      BY <1>4, <2>5
    <3> HIDE DEF l, mode, f, s, param, one, whole, pkt, from, rest, c
    <3>3. Follows(nf, ns, hf, hs, v)
      BY <1>2, <2>2, <2>5, <3>1, FollowsBack
    <3>4. hf = nf \/ hf = nf + 1
      BY <3>3 DEF Follows
    <3> HIDE DEF v
    <3>5. /\ Reached(e, l, param, P, hf, hs, one, whole)
          /\ e.new_frame = FALSE \/ hf = nf + 1
          /\ e.angles_ready = m.angles_ready
      <4>1. /\ Reached(e, l, param, P, hf, hs + PacketsOf(l) - 1, one, whole)
            /\ e.new_frame = d.new_frame \/ hf = nf + 1
            /\ e.angles_ready = d.angles_ready
        BY <1>2, <1>5, <2>3, <3>1, <3>2, <3>3, NextIsHandled
      <4>2. QED  BY <1>3, <1>5, <4>1
    <3>6. b.frame <= hf /\ (hf = nf + 1 => b.frame < hf)
      BY <2>2, <2>4, <3>4
    <3> HIDE DEF e, P
    <3>7. QED  BY <1>5, <1>6, <2>5, <3>2, <3>5, <3>6
  <2>6. ASSUME NEW hf \in Nat \ {0}, NEW hs \in 1..FramePackets, NEW age \in 1..SeqRange,
               Holds(h, dev, hf, hs, age), Follows(hf, hs, nf, ns, age - 1), g = 0
        PROVE  MsopPasses(d, pkt) /\ InvOf(e, dev, rest, tr, c)
    <3> DEFINE v == age - 1
    <3>1. v \in Nat /\ v < SeqRange /\ Follows(hf, hs, nf, ns, v)
      BY <2>4, <2>6
    <3>2. pkt = DatagramOf(l, mode, hf, hs) /\ from = hf /\ rest = <<>>
      BY <1>4, <2>6
    <3> HIDE DEF l, mode, f, s, param, one, whole, pkt, from, rest, c, v
    <3>3. /\ Reached(e, l, param, P, nf, ns, one, whole)
          /\ e.new_frame = FALSE /\ e.angles_ready = m.angles_ready
      <4>1. /\ Reached(e, l, param, P, nf, ns, one, whole)
            /\ e.new_frame = d.new_frame /\ e.angles_ready = d.angles_ready
        BY <1>2, <2>3, <3>1, <3>2, LateIsHandled
      <4>2. QED  BY <1>3, <4>1
    <3> HIDE DEF e, P
    <3>4. QED  BY <1>5, <1>6, <2>2, <2>6, <3>2, <3>3
  <2>7. QED  BY <2>2, <2>5, <2>6 DEF HeldWith
<1>9. ~Behind(m, dev, tr, b)
  BY <1>2 DEF Behind
<1>10. MsopPasses(d, pkt) /\ InvOf(e, dev, rest, tr, c)
  BY <1>1, <1>7, <1>8, <1>9
<1>11. QED  BY <1>10 DEF d

\* RSEMX tells its angles.
LEMMA DifopKeepsInv ==
  ASSUME NEW m, NEW dev, NEW h, NEW tr, NEW b, InvOf(m, dev, h, tr, b), m.lidar = RSEMX
  PROVE  InvOf(RSEMXDifop(m, [calibrated |-> TRUE]), dev, h,
               [tr EXCEPT !.missed = @ \/ <<dev.frame, dev.seq>> # <<1, 1>>], b)
<1> DEFINE l == dev.type
           e == RSEMXDifop(m, [calibrated |-> TRUE])
           later == <<dev.frame, dev.seq>> # <<1, 1>>
           t == [tr EXCEPT !.missed = @ \/ later]
<1>1. /\ Lidar(dev) /\ Limits(l, h, tr) /\ Ordered(b)
      /\ IsDecoder(m, l, m.param) /\ (l # RSEMX => m.angles_ready)
      /\ WaitsIn(m) => AtStart(m, dev, h, tr, b)
      /\ AtStart(m, dev, h, tr, b) \/ OnTrack(m, dev, h, tr, b) \/ Behind(m, dev, tr, b)
  BY DEF InvOf
<1>2. l = RSEMX /\ l # RSM1_Jumbo /\ h = <<>>
  <2>1. l = RSEMX
    BY <1>1 DEF IsDecoder
  <2>2. RSEMX # RSM1_Jumbo
    BY LidarsDiffer
  <2>3. QED  BY <1>1, <2>1, <2>2 DEF Limits
<1>3. /\ IsDecoder(e, l, m.param) /\ e.param = m.param
      /\ e.split = m.split /\ e.cloud = m.cloud /\ e.out = m.out /\ e.angles_ready = TRUE
  BY <1>1 DEF RSEMXDifop, IsDecoder, Members
<1>4. ~later => dev.frame = 1 /\ dev.seq = 1
  OBVIOUS
<1> HIDE DEF later, e
<1>5. /\ t \in [losses : Nat, row : Nat, disorder : BOOLEAN, missed : BOOLEAN]
      /\ t.losses = tr.losses /\ t.row = tr.row /\ t.disorder = tr.disorder
      /\ t.missed = (tr.missed \/ later)
  <2> DEFINE x == tr.missed \/ later
  <2>1. x \in BOOLEAN /\ tr \in [losses : Nat, row : Nat, disorder : BOOLEAN, missed : BOOLEAN]
    BY <1>1 DEF Limits
  <2> HIDE DEF x, l
  <2> DEFINE u == [tr EXCEPT !.missed = x]
  <2>2. /\ u \in [losses : Nat, row : Nat, disorder : BOOLEAN, missed : BOOLEAN]
        /\ u.losses = tr.losses /\ u.row = tr.row /\ u.disorder = tr.disorder /\ u.missed = x
    BY <2>1
  <2> HIDE DEF u
  <2>3. u = t
    BY DEF u, x
  <2>4. QED  BY <2>2, <2>3 DEF x
<1> HIDE DEF t
<1>6. Limits(l, h, t) /\ ~WaitsIn(e)
  BY <1>1, <1>2, <1>3, <1>5 DEF Limits, WaitsIn
<1>7. WholeIn(e, t) => ~later /\ ~tr.missed
  BY <1>5 DEF WholeIn
<1>8. ASSUME AtStart(m, dev, h, tr, b)  PROVE AtStart(e, dev, h, t, b)
  <2>1. Untouched(e, l, e.param)
    BY <1>3, <1>8 DEF AtStart, Untouched
  <2>2. QED  BY <1>2, <1>4, <1>7, <1>8, <2>1 DEF AtStart
<1>9. ASSUME OnTrack(m, dev, h, tr, b), ~WaitsIn(m)  PROVE OnTrack(e, dev, h, t, b)
  <2>1. PICK nf \in Nat \ {0}, ns \in 1..FramePackets, g \in Nat : Placed(m, dev, h, tr, b, nf, ns, g)
    BY <1>9 DEF OnTrack
  <2>2. /\ At(m, dev, tr, nf, ns) /\ b.frame <= nf
        /\ Follows(nf, ns, dev.frame, dev.seq, g)
        /\ WholeIn(m, tr) => g = 0
        /\ HeldWith(dev, h, tr.row, nf, ns, g)
    BY <2>1 DEF Placed
  <2>3. WholeIn(e, t) => WholeIn(m, tr)
    BY <1>7, <1>9 DEF WholeIn
  <2>4. At(e, dev, t, nf, ns)
    <3>1. tr \in [losses : Nat, row : Nat, disorder : BOOLEAN, missed : BOOLEAN]
      BY <1>1 DEF Limits
    <3>2. QED  BY <1>1, <1>3, <1>5, <2>2, <2>3, <3>1, AtAgain
  <2>5. Placed(e, dev, h, t, b, nf, ns, g)
    BY <1>2, <1>5, <2>2, <2>3, <2>4 DEF Placed
  <2>6. QED  BY <2>5 DEF OnTrack
<1>10. ~Behind(m, dev, tr, b)
  BY <1>2 DEF Behind
<1>11. InvOf(e, dev, h, t, b)
  BY <1>1, <1>2, <1>3, <1>6, <1>8, <1>9, <1>10 DEF InvOf
<1>12. QED  BY <1>11 DEF e, t, later

-----------------------------------------------------------------------------
LEMMA FramesInvStarts ==
  ASSUME NEW s \in MemsSetups, MemsStart(s)
  PROVE  FramesInv
<1> DEFINE l == s.lidar
           param == s.param
           one == 1
           m == DecoderMems(l, param)
<1>1. /\ l \in MemsLidars /\ s.start \in 1..FramePackets
      /\ s.losses \in Nat /\ s.disorder \in BOOLEAN
      /\ s.disorder => l \notin {RSEMX, RSM1_Jumbo} /\ s.losses + 2 <= SeqRange
      /\ l = RSM1_Jumbo => s.losses <= 1 /\ (s.start - 1) % JumboPackets = 0
  BY MemsAssumption DEF MemsSetup
<1>2. /\ mems = m /\ held = <<>>
      /\ device = [type |-> l, mode |-> s.mode, frame |-> one, seq |-> s.start]
      /\ trouble = [losses |-> s.losses, row |-> 0, disorder |-> s.disorder, missed |-> s.start # 1]
      /\ begun = [frame |-> 0, before |-> 0]
  BY DEF MemsStart
<1>3. l.angles_ready \in BOOLEAN /\ (l # RSEMX => l.angles_ready)
  BY <1>1, LidarIsKnown
<1> HIDE DEF l, param
<1>4. /\ m.lidar = l /\ m.param = param /\ m.split = BySeqBegin /\ m.cloud = EmptyCloud
      /\ m.out = <<>> /\ m.angles_ready = l.angles_ready
      /\ m = [x \in Members |-> m[x]]
  BY DEF DecoderMems, Decoder, Members
<1> HIDE DEF m
<1>5. Untouched(m, l, m.param)
  <2>1. BySeqBegin \in [prev : Nat, max : Nat, looped : BOOLEAN]
    BY DEF BySeqBegin
  <2>2. IsCloud(EmptyCloud)
    BY DEF IsCloud, EmptyCloud
  <2>3. QED  BY <1>4, <2>1, <2>2 DEF Untouched, IsDecoder
<1>6. /\ device.type = l /\ device.mode = s.mode /\ device.frame = one /\ device.seq = s.start
      /\ one \in Nat \ {0}
  BY <1>2
<1>7. Lidar(device)
  <2> HIDE DEF one
  <2>1. QED  BY <1>1, <1>2, <1>6 DEF Lidar, StartsDatagram
<1>8. Limits(l, held, trouble)
  <2>1. SeqRange \in Nat /\ SeqRange # 0
    BY FrameSizes
  <2>2. /\ trouble \in [losses : Nat, row : Nat, disorder : BOOLEAN, missed : BOOLEAN]
        /\ trouble.losses = s.losses /\ trouble.row = 0 /\ trouble.disorder = s.disorder
    BY <1>1, <1>2
  <2>3. trouble.losses + trouble.row + 2 = s.losses + 2
    BY <1>1, <2>2
  <2>4. QED  BY <1>1, <1>2, <2>1, <2>2, <2>3 DEF Limits
<1>9. Ordered(begun) /\ begun.frame = 0
  BY <1>2 DEF Ordered
<1>10. AtStart(m, device, held, trouble, begun)
  <2>1. trouble.missed = (s.start # 1)
    BY <1>2
  <2>2. WholeIn(m, trouble) => device.frame = 1 /\ device.seq = 1
    BY <1>6, <2>1 DEF WholeIn
  <2>3. QED  BY <1>2, <1>5, <1>6, <1>9, <2>2 DEF AtStart
<1>11. IsDecoder(m, l, m.param) /\ (l # RSEMX => m.angles_ready)
  BY <1>3, <1>4, <1>5 DEF Untouched
<1>12. QED  BY <1>2, <1>6, <1>7, <1>8, <1>9, <1>10, <1>11 DEF FramesInv, InvOf

LEMMA FramesInvIsKept ==
  ASSUME FramesInv, [MemsNext]_memsVars
  PROVE  FramesInv'
<1>1. InvOf(mems, device, held, trouble, begun)
  BY DEF FramesInv
<1>2. SUFFICES InvOf(mems', device', held', trouble', begun')
  BY DEF FramesInv
<1>3. /\ Lidar(device) /\ Limits(device.type, held, trouble)
      /\ IsDecoder(mems, device.type, mems.param)
  BY <1>1 DEF InvOf
<1>4. ASSUME NEW pkt, NEW frame, Process(pkt, frame), MsopPasses(Before(mems), pkt)
      PROVE  /\ mems' = decodeNumberedPkt(Before(mems), pkt)
             /\ begun' = BegunWith(decodeNumberedPkt(Before(mems), pkt), frame, begun)
  BY <1>4 DEF Process, Before, BegunWith
<1>5. ASSUME NEW pkt, NEW frame, Process(pkt, frame), ~MsopPasses(Before(mems), pkt)
      PROVE  mems' = Before(mems) /\ begun' = BegunWith(Before(mems), frame, begun)
  BY <1>5 DEF Process, Before, BegunWith
<1>6. CASE MsopNumbered
  <2>1. /\ Process(Datagram(device), device.frame)
        /\ device' = Sent(device) /\ held' = Aged(held) /\ trouble' = [trouble EXCEPT !.row = 0]
        /\ \A i \in DOMAIN held : held[i].age < SeqRange
    BY <1>6 DEF MsopNumbered, Older, Aged, InTime
  <2>2. MsopPasses(Before(mems), Datagram(device)) <=> ~WaitsIn(mems)
    <3> DEFINE l == device.type
               f == device.frame
               s == device.seq
    <3>1. /\ l \in MemsLidars /\ s \in 1..FramePackets /\ StartsDatagram(l, s) /\ IsDecoder(mems, l, mems.param)
      BY <1>3 DEF Lidar
    <3>2. Datagram(device) = DatagramOf(l, device.mode, f, s)
      BY <1>3, LidarGoesOn
    <3> HIDE DEF l, f, s
    <3>3. QED  BY <3>1, <3>2, PassesUnlessWaiting
  <2>3. CASE WaitsIn(mems)
    BY <1>1, <1>5, <2>1, <2>2, <2>3, WaitingIsKept
  <2>4. CASE ~WaitsIn(mems)
    <3>1. ASSUME NEW hf, NEW hs, NEW age \in 1..SeqRange, Holds(held, device, hf, hs, age)
          PROVE  age < SeqRange
      <4> DEFINE x == [pkt |-> DatagramOf(device.type, device.mode, hf, hs), frame |-> hf, age |-> age]
      <4>1. held = <<x>> /\ x.age = age
        BY <3>1 DEF Holds
      <4> HIDE DEF x
      <4>2. 1 \in DOMAIN held /\ held[1] = x
        BY <4>1
      <4>3. QED  BY <2>1, <4>1, <4>2
    <3>2. QED  BY <1>1, <1>4, <2>1, <2>2, <2>4, <3>1, MsopKeepsInv
  <2>5. QED  BY <2>3, <2>4
<1>7. CASE LoseNumbered
  <2>1. /\ held = <<>> /\ held' = held /\ trouble.losses > 0
        /\ trouble.row * Datagrams(device) < SeqRange - 1
        /\ device' = Sent(device) /\ mems' = mems /\ begun' = begun
        /\ trouble' = [trouble EXCEPT !.losses = @ - 1, !.row = @ + 1, !.missed = TRUE]
    BY <1>7 DEF LoseNumbered
  <2>2. InvOf(mems, device, <<>>, trouble, begun)
    BY <1>1, <2>1
  <2>3. InvOf(mems, Sent(device), <<>>,
              [trouble EXCEPT !.losses = @ - 1, !.row = @ + 1, !.missed = TRUE], begun)
    BY <2>1, <2>2, LoseKeepsInv
  <2>4. QED  BY <2>1, <2>3
<1>8. CASE Delay
  <2>1. /\ held = <<>> /\ trouble.disorder
        /\ held' = <<[pkt |-> Datagram(device), frame |-> device.frame, age |-> 0]>>
        /\ device' = Sent(device) /\ mems' = mems /\ begun' = begun
        /\ trouble' = [trouble EXCEPT !.missed = TRUE]
    BY <1>8 DEF Delay
  <2>2. InvOf(mems, device, <<>>, trouble, begun)
    BY <1>1, <2>1
  <2>3. InvOf(mems, Sent(device), <<[pkt |-> Datagram(device), frame |-> device.frame, age |-> 0]>>,
              [trouble EXCEPT !.missed = TRUE], begun)
    BY <2>1, <2>2, DelayKeepsInv
  <2>4. QED  BY <2>1, <2>3
<1>9. CASE Late
  <2>1. /\ held # <<>> /\ Process(Head(held).pkt, Head(held).frame)
        /\ held' = Tail(held) /\ device' = device /\ trouble' = trouble
    BY <1>9 DEF Late
  <2> DEFINE pkt == Head(held).pkt
             from == Head(held).frame
  <2>2. /\ MsopPasses(Before(mems), pkt)
        /\ InvOf(decodeNumberedPkt(Before(mems), pkt), device, Tail(held), trouble,
                 BegunWith(decodeNumberedPkt(Before(mems), pkt), from, begun))
    BY <1>1, <2>1, LateKeepsInv
  <2> HIDE DEF pkt, from
  <2>3. Process(pkt, from)
    BY <2>1 DEF pkt, from
  <2>4. QED  BY <1>4, <2>1, <2>2, <2>3
<1>10. CASE MemsDifop
  <2>1. /\ mems.lidar = RSEMX /\ mems' = RSEMXDifop(mems, [calibrated |-> TRUE])
        /\ trouble' = [trouble EXCEPT !.missed = @ \/ <<device.frame, device.seq>> # <<1, 1>>]
        /\ device' = device /\ held' = held /\ begun' = begun
    BY <1>10 DEF MemsDifop
  <2>2. InvOf(RSEMXDifop(mems, [calibrated |-> TRUE]), device, held,
              [trouble EXCEPT !.missed = @ \/ <<device.frame, device.seq>> # <<1, 1>>], begun)
    BY <1>1, <2>1, DifopKeepsInv
  <2>3. QED  BY <2>1, <2>2
<1>11. CASE MemsEnded \/ UNCHANGED memsVars
  BY <1>1, <1>11 DEF MemsEnded, memsVars
<1>12. QED  BY <1>6, <1>7, <1>8, <1>9, <1>10, <1>11 DEF MemsNext

\* The points of a whole frame.
LEMMA FramePoints ==
  ASSUME NEW l \in MemsLidars, NEW param, NEW returns \in {1, 2},
         FramePackets * PacketPoints(l, param, returns) # 0
  PROVE  FramePackets * PacketPoints(l, param, returns) = FramePackets * Blocks * l.channels * returns
<1> DEFINE B == BlockPoints(l, param, returns)
           N == FramePackets
           c == l.channels
<1>1. N \in Nat /\ c \in Nat /\ B \in Nat /\ B \in {0, returns * c}
  BY FrameSizes, LidarIsKnown, BlockPointsAre
<1>2. PacketPoints(l, param, returns) = B + B
  BY DEF PacketPoints
<1> HIDE DEF B, N, c
<1>3. N * 0 = 0 /\ 0 + 0 = 0
  BY <1>1
<1>4. B = returns * c
  BY <1>1, <1>2, <1>3 DEF N
<1>5. CASE returns = 1
  <2>1. B = c
    BY <1>1, <1>4, <1>5
  <2>2. N * (B + B) = N * 2 * c * 1
    BY <1>1, <2>1
  <2>3. QED  BY <1>2, <1>5, <2>2 DEF Blocks, N, c
<1>6. CASE returns = 2
  <2>1. B = c + c
    BY <1>1, <1>4, <1>6
  <2>2. N * (B + B) = N * 2 * c * 2
    BY <1>1, <2>1
  <2>3. QED  BY <1>2, <1>6, <2>2 DEF Blocks, N, c
<1>7. QED  BY <1>5, <1>6

LEMMA FramesInvSuffices ==
  ASSUME FramesInv
  PROVE  FramesWhole
<1> DEFINE l == device.type
           param == mems.param
           returns == Returns(l, device.mode)
           P == PacketPoints(l, param, returns)
           one == ~trouble.disorder
           whole == WholeIn(mems, trouble)
           out == mems.out
<1>1. /\ l \in MemsLidars /\ Ordered(begun) /\ IsDecoder(mems, l, param)
      /\ trouble \in [losses : Nat, row : Nat, disorder : BOOLEAN, missed : BOOLEAN]
      /\ \/ AtStart(mems, device, held, trouble, begun)
         \/ OnTrack(mems, device, held, trouble, begun)
         \/ Behind(mems, device, trouble, begun)
  BY DEF FramesInv, InvOf, Lidar, Limits
<1>2. /\ one => \A x, y \in mems.cloud.fired : x = y
      /\ Delivered(out, one, Sizes(P, whole))
  <2>1. CASE AtStart(mems, device, held, trouble, begun)
    <3>1. mems.cloud.fired = {} /\ out = <<>>
      BY <2>1 DEF AtStart, Untouched, EmptyCloud
    <3> DEFINE sizes == Sizes(P, whole)
    <3> HIDE DEF one, sizes, out
    <3>2. Delivered(out, one, sizes)
      BY <3>1, NothingDelivered
    <3>3. QED  BY <3>1, <3>2 DEF sizes
  <2>2. ASSUME NEW nf, NEW ns, At(mems, device, trouble, nf, ns)
        PROVE  /\ one => \A x, y \in mems.cloud.fired : x = y
               /\ Delivered(out, one, Sizes(P, whole))
    <3>1. Reached(mems, l, param, P, nf, ns, one, whole)
      BY <2>2 DEF At
    <3> HIDE DEF one, whole, P, l, param
    <3>2. (one => mems.cloud.fired \subseteq {nf}) /\ Delivered(out, one, Sizes(P, whole))
      BY <3>1 DEF Reached
    <3>3. QED  BY <3>2
  <2>3. CASE OnTrack(mems, device, held, trouble, begun)
    <3> HIDE DEF one, whole, P, l, param, out
    <3>1. QED  BY <2>2, <2>3 DEF OnTrack, Placed
  <2>4. CASE Behind(mems, device, trouble, begun)
    <3> HIDE DEF one, whole, P, l, param, out
    <3>1. QED  BY <2>2, <2>4 DEF Behind
  <2>5. QED  BY <1>1, <2>1, <2>3, <2>4
<1>3. PICK S : out \in Seq(S) /\ \A o \in S : Proper(o.cloud, one, Sizes(P, whole))
  BY <1>2 DEF Delivered
<1>4. ASSUME NEW i \in DOMAIN out  PROVE Proper(out[i].cloud, one, Sizes(P, whole))
  <2> HIDE DEF one, whole, P, out
  <2>1. out[i] \in S
    BY <1>3, <1>4
  <2>2. QED  BY <1>3, <2>1
<1>5. OneFramePerCloud
  <2>1. SUFFICES ASSUME one,
                        NEW c \in {mems.cloud} \cup {mems.out[i].cloud : i \in DOMAIN mems.out}
                 PROVE  \A x, y \in c.fired : x = y
    BY DEF OneFramePerCloud
  <2>2. ASSUME NEW i \in DOMAIN out  PROVE \A x, y \in out[i].cloud.fired : x = y
    <3> HIDE DEF one, whole, P, out
    <3>1. QED  BY <1>4, <2>1, <2>2 DEF Proper
  <2>3. QED  BY <1>2, <2>1, <2>2
<1>6. OneCloudPerFrame
  BY <1>1 DEF Ordered, OneCloudPerFrame
<1>7. WholeFrames
  <2>1. SUFFICES ASSUME ~trouble.missed, mems.angles_ready, NEW i \in DOMAIN mems.out
                 PROVE  mems.out[i].cloud.points =
                          FramePackets * Blocks * mems.lidar.channels
                            * (IF mems.lidar = RSMX /\ device.mode = 0 THEN 2 ELSE 1)
    BY DEF WholeFrames
  <2>2. whole /\ mems.lidar = l
    BY <1>1, <2>1 DEF WholeIn, WaitsIn, IsDecoder
  <2>3. out[i].cloud.points \in Sizes(P, whole)
    <3>1. i \in DOMAIN out
      BY <2>1
    <3> HIDE DEF one, whole, P, out
    <3>2. QED  BY <1>4, <3>1 DEF Proper
  <2>4. out[i].cloud.points = FramePackets * P /\ FramePackets * P # 0
    <3> HIDE DEF whole, P, out
    <3>1. QED  BY <2>2, <2>3 DEF Sizes
  <2>5. FramePackets * P = FramePackets * Blocks * l.channels * returns
    <3>1. returns \in {1, 2} /\ FramePackets * PacketPoints(l, param, returns) # 0
      BY <2>4 DEF Returns
    <3> HIDE DEF l, param, returns
    <3>2. QED  BY <1>1, <3>1, FramePoints
  <2>6. returns = IF mems.lidar = RSMX /\ device.mode = 0 THEN 2 ELSE 1
    BY <2>2 DEF Returns
  <2> HIDE DEF P, l, returns
  <2>7. QED  BY <2>2, <2>4, <2>5, <2>6 DEF out
<1>8. QED  BY <1>5, <1>6, <1>7 DEF FramesWhole

\* The clouds of a solid-state lidar are its frames: however many of its packets are
\* lost, and come out of order by how much, as MemsSetup allows, no cloud holds points of
\* two frames when packets come in order, none is begun twice, and those that are
\* delivered are whole when nothing was missed.
THEOREM FramesAreWhole == MemsSpec => []FramesWhole
<1>1. (\E s \in MemsSetups : MemsStart(s)) => FramesInv
  BY FramesInvStarts
<1>2. FramesInv /\ [MemsNext]_memsVars => FramesInv'
  BY FramesInvIsKept
<1>3. FramesInv => FramesWhole
  BY FramesInvSuffices
<1>4. QED  BY <1>1, <1>2, <1>3, PTL DEF MemsSpec
=============================================================================

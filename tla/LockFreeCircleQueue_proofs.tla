--------------------- MODULE LockFreeCircleQueue_proofs ---------------------
(***************************************************************************)
(* Theorems about LockFreeCircleQueue for every number of slots >= 2 and   *)
(* every set of elements: type correctness, no slot is written while it is *)
(* read, and the ring implements BoundedFifo.                              *)
(***************************************************************************)
EXTENDS LockFreeCircleQueue, SequenceTheorems, TLAPS

\* The next slot, without the modulus: the form the provers can work with.
LEMMA NextIndexCases ==
  ASSUME NEW i \in Slots
  PROVE  /\ NextIndex(i) \in Slots
         /\ NextIndex(i) = IF i = MAX_QUEUE_SIZE - 1 THEN 0 ELSE i + 1
BY QueueSizeAssumption DEF NextIndex, Slots

\* Advancing an index is one-to-one on the slots.
LEMMA NextIndexInjective ==
  ASSUME NEW i \in Slots, NEW j \in Slots, i # j
  PROVE  NextIndex(i) # NextIndex(j)
BY NextIndexCases, QueueSizeAssumption DEF Slots

LEMMA InitIInv == Init => IInv
BY QueueSizeAssumption
   DEF Init, IInv, TypeOK, RoomToWrite, Written, SomethingToRead, CopiesAgree, Slots

\* Every step of either thread preserves the inductive invariant.
LEMMA StepIInv == IInv /\ [Next]_vars => IInv'
<1> SUFFICES ASSUME IInv, [Next]_vars PROVE IInv'
  OBVIOUS
<1> USE QueueSizeAssumption, DefaultAssumption
<1>0. /\ NextIndex(inputIndex) \in Slots
      /\ NextIndex(outputIndex) \in Slots
      /\ inputIndex # outputIndex => NextIndex(inputIndex) # NextIndex(outputIndex)
      /\ NextIndex(inputIndex) # inputIndex
      /\ NextIndex(outputIndex) # outputIndex
  BY NextIndexCases, NextIndexInjective DEF IInv, TypeOK, Slots
<1> USE DEF IInv, TypeOK, RoomToWrite, Written, SomethingToRead, CopiesAgree,
            producerVars, consumerVars
<1>1. ASSUME NEW d \in Data, PushCheck(d) PROVE IInv'
  BY <1>0, <1>1 DEF PushCheck
<1>2. CASE PushFull
  BY <1>0, <1>2 DEF PushFull
<1>3. CASE PushWrite
  BY <1>0, <1>3 DEF PushWrite
<1>4. CASE PushPublish
  BY <1>0, <1>4 DEF PushPublish
<1>5. CASE SizeAhead
  BY <1>0, <1>5 DEF SizeAhead, Slots
<1>6. CASE SizeBehind
  BY <1>0, <1>6 DEF SizeBehind
<1>7. CASE SizeReload
  BY <1>0, <1>7 DEF SizeReload, Slots
<1>8. CASE NotEmpty
  BY <1>0, <1>8 DEF NotEmpty
<1>9. CASE Front
  BY <1>0, <1>9 DEF Front
<1>10. CASE PopCheck
  BY <1>0, <1>10 DEF PopCheck
<1>11. CASE PopEmpty
  BY <1>0, <1>11 DEF PopEmpty
<1>12. CASE PopRead
  BY <1>0, <1>12 DEF PopRead
<1>13. CASE PopRelease
  BY <1>0, <1>13 DEF PopRelease
<1>14. CASE UNCHANGED vars
  BY <1>14 DEF vars
<1>15. QED
  BY <1>1, <1>2, <1>3, <1>4, <1>5, <1>6, <1>7, <1>8, <1>9, <1>10, <1>11,
     <1>12, <1>13, <1>14 DEF Next, Producer, Consumer

THEOREM Invariance == Spec => []IInv
<1>1. QED
  BY InitIInv, StepIInv, PTL DEF Spec

\* Indices, slots and locals stay in their ranges.
THEOREM TypeCorrect == Spec => []TypeOK
<1>1. IInv => TypeOK
  BY DEF IInv
<1>2. QED
  BY Invariance, <1>1, PTL

\* Producer and consumer are never about to access the same slot.
THEOREM NoRace == Spec => []NoSlotRace
<1>1. IInv => NoSlotRace
  BY DEF IInv, NoSlotRace, SomethingToRead
<1>2. QED
  BY Invariance, <1>1, PTL

-----------------------------------------------------------------------------
(* The ring implements BoundedFifo. *)

\* The slot k places after slot i, without the modulus.
LEMMA SlotAfter ==
  ASSUME NEW i \in Slots, NEW k \in Slots
  PROVE  /\ (i + k) % MAX_QUEUE_SIZE \in Slots
         /\ (i + k) % MAX_QUEUE_SIZE = IF i + k < MAX_QUEUE_SIZE
                                       THEN i + k ELSE i + k - MAX_QUEUE_SIZE
BY QueueSizeAssumption DEF Slots

\* The ring never holds more than MAX_QUEUE_SIZE - 1 elements: it is empty when
\* the indices are equal and full when the input is just behind the output.
LEMMA StoredBounds ==
  ASSUME TypeOK
  PROVE  /\ Stored \in 0 .. MAX_QUEUE_SIZE - 1
         /\ Stored = 0 <=> inputIndex = outputIndex
         /\ Stored = MAX_QUEUE_SIZE - 1 <=> NextIndex(inputIndex) = outputIndex
BY QueueSizeAssumption, NextIndexCases DEF TypeOK, Stored, Slots

\* Items is a sequence of that length, and its first element is the oldest slot.
LEMMA ItemsProperties ==
  ASSUME TypeOK
  PROVE  /\ Items \in Seq(Data \union {Default})
         /\ Len(Items) = Stored
         /\ Stored > 0 => Head(Items) = buffer[outputIndex]
<1>1. Stored \in Nat /\ Stored <= MAX_QUEUE_SIZE - 1
  BY StoredBounds, QueueSizeAssumption DEF Slots
<1>2. ASSUME NEW i \in 1 .. Stored
      PROVE  buffer[(outputIndex + i - 1) % MAX_QUEUE_SIZE] \in Data \union {Default}
  <2>1. i - 1 \in Slots /\ outputIndex + i - 1 = outputIndex + (i - 1)
    BY <1>1, QueueSizeAssumption DEF Slots, TypeOK
  <2>2. QED
    BY <2>1, SlotAfter DEF TypeOK
<1>3. Items \in Seq(Data \union {Default}) /\ Len(Items) = Stored
  BY <1>1, <1>2 DEF Items
<1>4. ASSUME Stored > 0 PROVE Head(Items) = buffer[outputIndex]
  <2>1. 1 \in 1 .. Stored
    BY <1>1, <1>4
  <2>2. (outputIndex + 1 - 1) % MAX_QUEUE_SIZE = outputIndex
    <3>1. 0 \in Slots /\ outputIndex \in Slots /\ outputIndex \in Int
      BY QueueSizeAssumption DEF Slots, TypeOK
    <3>2. (outputIndex + 0) % MAX_QUEUE_SIZE = outputIndex
      <4>1. (outputIndex + 0) % MAX_QUEUE_SIZE
              = IF outputIndex + 0 < MAX_QUEUE_SIZE
                THEN outputIndex + 0 ELSE outputIndex + 0 - MAX_QUEUE_SIZE
        BY <3>1, SlotAfter
      <4>2. QED
        BY <3>1, <4>1, QueueSizeAssumption DEF Slots
    <3>3. outputIndex + 1 - 1 = outputIndex + 0
      BY <3>1
    <3>4. QED
      BY <3>2, <3>3
  <2>3. Head(Items) = Items[1]
    BY <1>3, <2>1
  <2>4. QED
    BY <2>1, <2>2, <2>3 DEF Items
<1>5. QED
  BY <1>3, <1>4

\* Writing the free slot at inputIndex does not disturb the stored elements.
LEMMA WriteKeepsItems ==
  ASSUME TypeOK, PushWrite PROVE Items' = Items
<1> USE QueueSizeAssumption
<1>1. Stored' = Stored
  BY DEF PushWrite, Stored
<1>2. ASSUME NEW i \in 1 .. Stored
      PROVE  /\ (outputIndex + i - 1) % MAX_QUEUE_SIZE # inputIndex
             /\ (outputIndex + i - 1) % MAX_QUEUE_SIZE \in Slots
  <2>1. /\ i - 1 \in Slots /\ i \in Int
        /\ inputIndex \in Slots /\ outputIndex \in Slots
        /\ outputIndex + i - 1 = outputIndex + (i - 1)
    BY StoredBounds DEF Slots, TypeOK
  <2>2. /\ (outputIndex + (i - 1)) % MAX_QUEUE_SIZE \in Slots
        /\ (outputIndex + (i - 1)) % MAX_QUEUE_SIZE
             = IF outputIndex + (i - 1) < MAX_QUEUE_SIZE
               THEN outputIndex + (i - 1) ELSE outputIndex + (i - 1) - MAX_QUEUE_SIZE
    BY <2>1, SlotAfter
  <2>3. QED
    BY <2>1, <2>2 DEF Slots, Stored
<1>3. QED
  BY <1>1, <1>2 DEF PushWrite, Items, TypeOK

\* Publishing appends the slot that was written.
LEMMA PublishAppends ==
  ASSUME TypeOK, RoomToWrite, PushPublish
  PROVE  Items' = Append(Items, buffer[inputIndex])
<1> USE QueueSizeAssumption
<1>1. Stored' = Stored + 1
  <2>1. inputIndex \in Slots /\ outputIndex \in Slots
    BY DEF TypeOK
  <2>2. /\ inputIndex' = IF inputIndex = MAX_QUEUE_SIZE - 1 THEN 0 ELSE inputIndex + 1
        /\ inputIndex' # outputIndex
        /\ outputIndex' = outputIndex
    BY <2>1, NextIndexCases DEF PushPublish, RoomToWrite
  <2>3. QED
    BY <2>1, <2>2 DEF Stored, Slots
<1>2. Items \in Seq(Data \union {Default}) /\ Len(Items) = Stored
  BY ItemsProperties
<1>3. Stored \in Slots
  BY StoredBounds DEF Slots
<1>4. (outputIndex + Stored) % MAX_QUEUE_SIZE = inputIndex
  <2>1. inputIndex \in Slots /\ outputIndex \in Slots
    BY DEF TypeOK
  <2>2. (outputIndex + Stored) % MAX_QUEUE_SIZE
          = IF outputIndex + Stored < MAX_QUEUE_SIZE
            THEN outputIndex + Stored ELSE outputIndex + Stored - MAX_QUEUE_SIZE
    BY <1>3, <2>1, SlotAfter
  <2>3. QED
    BY <2>1, <2>2 DEF Slots, Stored
<1>5. Append(Items, buffer[inputIndex])
        = [i \in 1 .. Stored + 1 |->
             IF i = Stored + 1 THEN buffer[inputIndex] ELSE Items[i]]
  BY <1>2
<1>6. ASSUME NEW i \in 1 .. Stored + 1
      PROVE  buffer[(outputIndex + i - 1) % MAX_QUEUE_SIZE]
               = IF i = Stored + 1 THEN buffer[inputIndex] ELSE Items[i]
  <2>1. CASE i = Stored + 1
    <3>1. outputIndex + i - 1 = outputIndex + Stored
      BY <1>3, <2>1 DEF TypeOK, Slots
    <3>2. QED
      BY <1>4, <2>1, <3>1
  <2>2. CASE i # Stored + 1
    BY <1>3, <2>2 DEF Items, Slots
  <2>3. QED
    BY <2>1, <2>2
<1>7. Items' = [i \in 1 .. Stored + 1 |-> buffer[(outputIndex + i - 1) % MAX_QUEUE_SIZE]]
  BY <1>1 DEF Items, PushPublish
<1>8. QED
  BY <1>5, <1>6, <1>7

\* Releasing a slot removes the oldest element.
LEMMA ReleaseRemoves ==
  ASSUME TypeOK, SomethingToRead, PopRelease
  PROVE  Items' = Tail(Items)
<1> USE QueueSizeAssumption
<1>1. Stored > 0 /\ Stored' = Stored - 1
  <2>1. inputIndex \in Slots /\ outputIndex \in Slots
    BY DEF TypeOK
  <2>2. /\ outputIndex' = IF outputIndex = MAX_QUEUE_SIZE - 1 THEN 0 ELSE outputIndex + 1
        /\ inputIndex # outputIndex
        /\ inputIndex' = inputIndex
    BY <2>1, NextIndexCases DEF PopRelease, SomethingToRead
  <2>3. QED
    BY <2>1, <2>2 DEF Stored, Slots
<1>2. Items \in Seq(Data \union {Default}) /\ Len(Items) = Stored
  BY ItemsProperties
<1>3. Stored \in Slots
  BY StoredBounds DEF Slots
<1>4. Tail(Items) = [i \in 1 .. Stored - 1 |-> Items[i + 1]]
  <2>1. Items # <<>> /\ Len(Tail(Items)) = Stored - 1
    BY <1>1, <1>2, HeadTailProperties
  <2>2. \A i \in 1 .. Stored - 1 : Tail(Items)[i] = Items[i + 1]
    BY <1>2, <2>1, HeadTailProperties
  <2>3. Tail(Items) \in Seq(Data \union {Default})
    BY <1>2, <2>1, HeadTailProperties
  <2>4. Tail(Items) = [i \in 1 .. Stored - 1 |-> Tail(Items)[i]]
    BY <2>1, <2>3, LenProperties
  <2>5. QED
    BY <2>2, <2>4, Zenon
<1>5. ASSUME NEW i \in 1 .. Stored - 1
      PROVE  (NextIndex(outputIndex) + i - 1) % MAX_QUEUE_SIZE
               = (outputIndex + (i + 1) - 1) % MAX_QUEUE_SIZE
  <2> DEFINE next == NextIndex(outputIndex)
  <2>1. /\ i - 1 \in Slots /\ i \in Slots /\ next \in Slots /\ outputIndex \in Slots
        /\ next + i - 1 = next + (i - 1)
        /\ outputIndex + (i + 1) - 1 = outputIndex + i
        /\ next = IF outputIndex = MAX_QUEUE_SIZE - 1 THEN 0 ELSE outputIndex + 1
    BY <1>3, NextIndexCases DEF TypeOK, Slots
  <2> HIDE DEF next
  <2>2. /\ (next + (i - 1)) % MAX_QUEUE_SIZE
             = IF next + (i - 1) < MAX_QUEUE_SIZE
               THEN next + (i - 1) ELSE next + (i - 1) - MAX_QUEUE_SIZE
        /\ (outputIndex + i) % MAX_QUEUE_SIZE
             = IF outputIndex + i < MAX_QUEUE_SIZE
               THEN outputIndex + i ELSE outputIndex + i - MAX_QUEUE_SIZE
    BY <2>1, SlotAfter
  <2>3. (next + (i - 1)) % MAX_QUEUE_SIZE = (outputIndex + i) % MAX_QUEUE_SIZE
    BY <2>1, <2>2 DEF Slots
  <2>4. QED
    BY <2>1, <2>3 DEF next
<1>6. Items' = [i \in 1 .. Stored - 1 |->
                  buffer[(NextIndex(outputIndex) + i - 1) % MAX_QUEUE_SIZE]]
  BY <1>1 DEF Items, PopRelease
<1>7. ASSUME NEW i \in 1 .. Stored - 1
      PROVE  Items[i + 1] = buffer[(outputIndex + (i + 1) - 1) % MAX_QUEUE_SIZE]
  BY <1>3 DEF Items, Slots
<1>8. QED
  BY <1>4, <1>5, <1>6, <1>7

LEMMA InitFifo == Init => Fifo!Init
BY DEF Init, Fifo!Init, Items, Stored

\* Every step of the ring is a step of the bounded queue or leaves it unchanged.
LEMMA StepFifo == IInv /\ [Next]_vars => [Fifo!Next]_(Fifo!vars)
<1> SUFFICES ASSUME IInv, [Next]_vars PROVE [Fifo!Next]_(Fifo!vars)
  OBVIOUS
<1> USE QueueSizeAssumption, DefaultAssumption
<1>0. /\ TypeOK /\ RoomToWrite /\ Written /\ SomethingToRead /\ CopiesAgree
      /\ Items \in Seq(Data \union {Default}) /\ Len(Items) = Stored
      /\ Stored > 0 => Items # <<>> /\ Head(Items) = buffer[outputIndex]
      /\ Stored \in 0 .. MAX_QUEUE_SIZE - 1
      /\ Stored = 0 <=> inputIndex = outputIndex
      /\ Stored = MAX_QUEUE_SIZE - 1 <=> NextIndex(inputIndex) = outputIndex
  BY ItemsProperties, StoredBounds DEF IInv
<1> USE DEF producerVars, consumerVars
<1>a. UNCHANGED <<inputIndex, outputIndex, buffer>> => Items' = Items
  BY DEF Items, Stored
<1>1. ASSUME NEW d \in Data, PushCheck(d) PROVE UNCHANGED Fifo!vars
  BY <1>a, <1>1 DEF PushCheck, Fifo!vars
<1>2. ASSUME PushFull PROVE Fifo!Refuse
  BY <1>0, <1>a, <1>2 DEF PushFull, Fifo!Refuse
<1>3. ASSUME PushWrite PROVE UNCHANGED Fifo!vars
  BY <1>0, <1>3, WriteKeepsItems DEF PushWrite, Fifo!vars
<1>4. ASSUME PushPublish PROVE Fifo!Enqueue(data) /\ data \in Data
  <2>1. Items' = Append(Items, data)
    BY <1>0, <1>4, PublishAppends DEF PushPublish, Written
  <2>2. Len(Items) < MAX_QUEUE_SIZE - 1
    BY <1>0, <1>4 DEF PushPublish, RoomToWrite
  <2>3. data \in Data
    BY <1>0, <1>4 DEF PushPublish, TypeOK
  <2>4. QED
    BY <1>4, <2>1, <2>2, <2>3 DEF PushPublish, Fifo!Enqueue
<1>5. ASSUME SizeAhead \/ SizeBehind \/ SizeReload PROVE UNCHANGED Fifo!vars
  BY <1>a, <1>5 DEF SizeAhead, SizeBehind, SizeReload, Fifo!vars
<1>6. ASSUME NotEmpty \/ PopCheck \/ PopRead PROVE UNCHANGED Fifo!vars
  BY <1>a, <1>6 DEF NotEmpty, PopCheck, PopRead, Fifo!vars
<1>7. ASSUME Front PROVE Fifo!Peek
  BY <1>0, <1>a, <1>7 DEF Front, Fifo!Peek, SomethingToRead
<1>8. ASSUME PopEmpty PROVE Fifo!DequeueNothing
  BY <1>0, <1>a, <1>8 DEF PopEmpty, Fifo!DequeueNothing
<1>9. ASSUME PopRelease PROVE Fifo!Dequeue
  <2>1. Items' = Tail(Items)
    BY <1>0, <1>9, ReleaseRemoves
  <2>2. Items # <<>> /\ Head(Items) = buffer[outputIndex]
    BY <1>0, <1>9 DEF PopRelease, SomethingToRead
  <2>3. front \in {Default, Head(Items)} /\ copied = Head(Items)
    BY <1>0, <1>9, <2>2 DEF PopRelease, CopiesAgree
  <2>4. QED
    BY <1>9, <2>1, <2>2, <2>3 DEF PopRelease, Fifo!Dequeue
<1>10. ASSUME UNCHANGED vars PROVE UNCHANGED Fifo!vars
  BY <1>a, <1>10 DEF vars, Fifo!vars
<1>11. QED
  BY <1>1, <1>2, <1>3, <1>4, <1>5, <1>6, <1>7, <1>8, <1>9, <1>10
     DEF Next, Producer, Consumer, Fifo!Next

\* For every capacity and every set of elements the lock-free ring behaves as
\* the bounded queue that the dispatcher and the workers rely on.
THEOREM RefinesFifo == Spec => ImplementsFifo
<1>1. QED
  BY InitFifo, StepFifo, Invariance, PTL DEF Spec, ImplementsFifo, Fifo!Spec
=============================================================================

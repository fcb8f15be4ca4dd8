------------------------ MODULE LockFreeCircleQueue ------------------------
(***************************************************************************)
(* LockFreeCircleQueue.h: a ring of MAX_QUEUE_SIZE slots with an atomic    *)
(* inputIndex and an atomic outputIndex.  Every queue of the server has    *)
(* one producer thread and one consumer thread (IOCompletionPort.h:         *)
(* Process pushes, one worker per queue pops), so the module has exactly   *)
(* two threads and interleaves them at their accesses to shared state.     *)
(*                                                                         *)
(* Only the producer stores inputIndex and only the consumer stores        *)
(* outputIndex.  A thread's load of its own index therefore returns the    *)
(* value the index still has at the thread's next step, and it is merged   *)
(* with that step; a load of the other thread's index is a step.  A slot   *)
(* is written and read in steps of their own: they are not atomic, and     *)
(* NoSlotRace says that they never meet.  The release store of an index    *)
(* after the slot access, and the acquire load before it, make every slot  *)
(* access visible in that order, so the interleaving is over a sequentially*)
(* consistent memory.                                                      *)
(***************************************************************************)
EXTENDS Integers, Sequences

CONSTANTS
  MAX_QUEUE_SIZE,  \* the number of slots (100 in the code)
  Data,            \* the elements pushed
  Default          \* T(), the value of a slot never written

ASSUME QueueSizeAssumption == MAX_QUEUE_SIZE \in Nat /\ MAX_QUEUE_SIZE >= 2
ASSUME DefaultAssumption == Default \notin Data

VARIABLES
  inputIndex,   \* the slot the next push writes
  outputIndex,  \* the slot the next pop reads
  buffer,       \* the slots
  producer,     \* where the producer thread is
  data,         \* the argument of the push in progress
  pushed,       \* what the last push returned
  counted,      \* what the last size() returned
  consumer,     \* where the consumer thread is
  copied,       \* the local copy pop returns after it stored outputIndex
  front,        \* what the last Front returned, Default once it is popped
  popped        \* what the last pop returned

producerVars == <<producer, data, pushed, counted>>
consumerVars == <<consumer, copied, front, popped>>
vars == <<inputIndex, outputIndex, buffer, producerVars, consumerVars>>

Slots == 0 .. MAX_QUEUE_SIZE - 1

\* Fault: the index is not wrapped at the end of the ring.
NextIndexUnwrapped(i) == i + 1

NextIndex(i) == (i + 1) % MAX_QUEUE_SIZE

Init ==
  /\ inputIndex = 0
  /\ outputIndex = 0
  /\ buffer = [i \in Slots |-> Default]
  /\ producer = "idle" /\ data = Default /\ pushed = TRUE /\ counted = 0
  /\ consumer = "idle" /\ copied = Default /\ front = Default /\ popped = Default

-----------------------------------------------------------------------------
(* The producer: push(data), then size() if it wants to know the length. *)

\* Fault: push does not look whether the queue is full.
PushCheckBlind(d) ==
  /\ producer = "idle"
  /\ producer' = "write"
  /\ data' = d
  /\ UNCHANGED <<inputIndex, outputIndex, buffer, pushed, counted, consumerVars>>

\* Lines 32-35: load outputIndex and find room for one more element.
PushCheck(d) ==
  /\ producer = "idle"
  /\ NextIndex(inputIndex) # outputIndex
  /\ producer' = "write"
  /\ data' = d
  /\ UNCHANGED <<inputIndex, outputIndex, buffer, pushed, counted, consumerVars>>

\* Lines 35-39: outputIndex is the next slot, the queue is full.
PushFull ==
  /\ producer = "idle"
  /\ NextIndex(inputIndex) = outputIndex
  /\ pushed' = FALSE
  /\ UNCHANGED <<inputIndex, outputIndex, buffer, producer, data, counted, consumerVars>>

PushWrite ==
  /\ producer = "write"
  /\ buffer' = [buffer EXCEPT ![inputIndex] = data]
  /\ producer' = "publish"
  /\ UNCHANGED <<inputIndex, outputIndex, data, pushed, counted, consumerVars>>

PushPublish ==
  /\ producer = "publish"
  /\ inputIndex' = NextIndex(inputIndex)
  /\ pushed' = TRUE
  /\ producer' = "idle"
  /\ data' = Default
  /\ UNCHANGED <<outputIndex, buffer, counted, consumerVars>>

\* Lines 69-73: one load of each index, the input is not behind the output.
SizeAhead ==
  /\ producer = "idle"
  /\ inputIndex >= outputIndex
  /\ counted' = inputIndex - outputIndex
  /\ UNCHANGED <<inputIndex, outputIndex, buffer, producer, data, pushed, consumerVars>>

\* Lines 69-74: the input is behind, so the ring has wrapped.
SizeBehind ==
  /\ producer = "idle"
  /\ inputIndex < outputIndex
  /\ producer' = "resize"
  /\ UNCHANGED <<inputIndex, outputIndex, buffer, data, pushed, counted, consumerVars>>

\* Line 75 loads outputIndex a second time.
SizeReload ==
  /\ producer = "resize"
  /\ counted' = MAX_QUEUE_SIZE - outputIndex + inputIndex
  /\ producer' = "idle"
  /\ UNCHANGED <<inputIndex, outputIndex, buffer, data, pushed, consumerVars>>

Producer ==
  \/ \E d \in Data : PushCheck(d)
  \/ PushFull \/ PushWrite \/ PushPublish
  \/ SizeAhead \/ SizeBehind \/ SizeReload

-----------------------------------------------------------------------------
(* The consumer: the loop of a worker is empty(), Front(), pop(); a bare    *)
(* pop() is allowed too.                                                    *)

\* empty() returned false: inputIndex is loaded and differs from outputIndex.
NotEmpty ==
  /\ consumer = "idle"
  /\ inputIndex # outputIndex
  /\ consumer' = "nonempty"
  /\ UNCHANGED <<inputIndex, outputIndex, buffer, producerVars, copied, front, popped>>

\* Front() does not look at inputIndex: the caller has called empty().
Front ==
  /\ consumer = "nonempty"
  /\ front' = buffer[outputIndex]
  /\ consumer' = "fronted"
  /\ UNCHANGED <<inputIndex, outputIndex, buffer, producerVars, copied, popped>>

\* Fault: pop does not look whether the queue is empty.
PopCheckBlind ==
  /\ consumer \in {"idle", "fronted"}
  /\ consumer' = "read"
  /\ UNCHANGED <<inputIndex, outputIndex, buffer, producerVars, copied, front, popped>>

PopCheck ==
  /\ consumer \in {"idle", "fronted"}
  /\ outputIndex # inputIndex
  /\ consumer' = "read"
  /\ UNCHANGED <<inputIndex, outputIndex, buffer, producerVars, copied, front, popped>>

PopEmpty ==
  /\ consumer \in {"idle", "fronted"}
  /\ outputIndex = inputIndex
  /\ popped' = Default
  /\ consumer' = "idle"
  /\ UNCHANGED <<inputIndex, outputIndex, buffer, producerVars, copied, front>>

\* The slot keeps its copy: Packet has a copy constructor and no move.
PopRead ==
  /\ consumer = "read"
  /\ copied' = buffer[outputIndex]
  /\ consumer' = "release"
  /\ UNCHANGED <<inputIndex, outputIndex, buffer, producerVars, front, popped>>

\* Fault: pop returns the element but leaves outputIndex where it was.
PopReleaseUnstored ==
  /\ consumer = "release"
  /\ popped' = copied
  /\ front' = Default
  /\ copied' = Default
  /\ consumer' = "idle"
  /\ UNCHANGED <<inputIndex, outputIndex, buffer, producerVars>>

PopRelease ==
  /\ consumer = "release"
  /\ outputIndex' = NextIndex(outputIndex)
  /\ popped' = copied
  /\ front' = Default
  /\ copied' = Default
  /\ consumer' = "idle"
  /\ UNCHANGED <<inputIndex, buffer, producerVars>>

Consumer ==
  \/ NotEmpty \/ Front
  \/ PopCheck \/ PopEmpty \/ PopRead \/ PopRelease

-----------------------------------------------------------------------------
Next == Producer \/ Consumer

Spec == Init /\ [][Next]_vars

\* The worker thread never leaves its loop; nobody has to push.
FairSpec == Spec /\ WF_vars(Consumer)

-----------------------------------------------------------------------------
(* Properties. *)

TypeOK ==
  /\ inputIndex \in Slots
  /\ outputIndex \in Slots
  /\ buffer \in [Slots -> Data \union {Default}]
  /\ producer \in {"idle", "write", "publish", "resize"}
  /\ data \in Data \union {Default}
  /\ producer \in {"write", "publish"} => data \in Data
  /\ pushed \in BOOLEAN
  /\ counted \in 0 .. 2 * MAX_QUEUE_SIZE
  /\ consumer \in {"idle", "nonempty", "fronted", "read", "release"}
  /\ {copied, front, popped} \subseteq Data \union {Default}

\* While the producer is about to write a slot, the consumer is not about to
\* read that slot: push's one check of the full queue, made before the write,
\* is still valid at the write, and so is the worker's empty() at its Front.
NoSlotRace ==
  (producer = "write" /\ consumer \in {"nonempty", "read"})
    => inputIndex # outputIndex

(* What a thread has checked stays true until it has used it. *)

\* After its check push still has a free slot besides the one it writes.
RoomToWrite ==
  producer \in {"write", "publish"} => NextIndex(inputIndex) # outputIndex

\* The slot push is about to publish holds the element.
Written == producer = "publish" => buffer[inputIndex] = data

\* After empty() returned false the oldest element stays where it is.
SomethingToRead ==
  consumer \in {"nonempty", "fronted", "read", "release"} => inputIndex # outputIndex

\* What Front and pop have copied is what the oldest slot still holds: the
\* packet a worker gave to its callback is the one its pop removes.
CopiesAgree ==
  /\ front # Default => /\ consumer \in {"fronted", "read", "release"}
                        /\ front = buffer[outputIndex]
  /\ consumer = "release" => copied = buffer[outputIndex]

\* The inductive invariant.
IInv == TypeOK /\ RoomToWrite /\ Written /\ SomethingToRead /\ CopiesAgree

\* The number of stored elements, and what they are, the oldest first.
Stored ==
  IF inputIndex >= outputIndex
  THEN inputIndex - outputIndex
  ELSE MAX_QUEUE_SIZE - outputIndex + inputIndex

Items == [i \in 1 .. Stored |-> buffer[(outputIndex + i - 1) % MAX_QUEUE_SIZE]]

\* The ring is a bounded queue of MAX_QUEUE_SIZE - 1 elements: pushes and pops
\* take effect at their store of the index, a refused push and an empty pop at
\* their load of the other thread's index.
Fifo == INSTANCE BoundedFifo
          WITH items <- Items, Capacity <- MAX_QUEUE_SIZE - 1

ImplementsFifo == Fifo!Spec

\* An element that was pushed is handed to the worker: the worker's loop
\* cannot miss it, however the producer's pushes are timed.
PushedIsDelivered ==
  \A d \in Data : (\E i \in DOMAIN Items : Items[i] = d) ~> (popped = d)

\* size() is the difference of the two indices, a length the ring can have.
SizeIsIndexDifference == counted \in 0 .. MAX_QUEUE_SIZE - 1
=============================================================================

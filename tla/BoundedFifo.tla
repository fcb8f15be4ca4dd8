----------------------------- MODULE BoundedFifo -----------------------------
(***************************************************************************)
(* What LockFreeCircleQueue<T> promises to its one producer and its one    *)
(* consumer: a first-in first-out queue of bounded capacity in which       *)
(*   - a push stores its element at the end, or refuses it, and it may     *)
(*     refuse only while the queue is full;                                *)
(*   - Front hands out the oldest element without removing it;             *)
(*   - pop removes the oldest element and returns it, and it returns the   *)
(*     default value only while the queue is empty.                        *)
(* Every operation takes effect in one step.                               *)
(***************************************************************************)
EXTENDS Naturals, Sequences

CONSTANTS
  Data,      \* the elements that are pushed
  Default,   \* T(), what pop returns when there is nothing to return
  Capacity   \* how many elements fit

VARIABLES
  items,     \* the elements stored, the oldest first
  pushed,    \* what the last push returned
  front,     \* what the last Front returned, Default once it is popped
  popped     \* what the last pop returned

vars == <<items, pushed, front, popped>>

Init ==
  /\ items = <<>>
  /\ pushed = TRUE
  /\ front = Default
  /\ popped = Default

Enqueue(d) ==
  /\ Len(items) < Capacity
  /\ items' = Append(items, d)
  /\ pushed' = TRUE
  /\ UNCHANGED <<front, popped>>

Refuse ==
  /\ Len(items) = Capacity
  /\ pushed' = FALSE
  /\ UNCHANGED <<items, front, popped>>

Peek ==
  /\ items # <<>>
  /\ front' = Head(items)
  /\ UNCHANGED <<items, pushed, popped>>

\* An element that Front has handed out is the one pop removes.
Dequeue ==
  /\ items # <<>>
  /\ front \in {Default, Head(items)}
  /\ items' = Tail(items)
  /\ front' = Default
  /\ popped' = Head(items)
  /\ UNCHANGED pushed

DequeueNothing ==
  /\ items = <<>>
  /\ popped' = Default
  /\ UNCHANGED <<items, pushed, front>>

Next ==
  \/ \E d \in Data : Enqueue(d)
  \/ Refuse
  \/ Peek
  \/ Dequeue
  \/ DequeueNothing

Spec == Init /\ [][Next]_vars
=============================================================================

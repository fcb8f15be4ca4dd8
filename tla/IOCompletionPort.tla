--------------------------- MODULE IOCompletionPort ---------------------------
(***************************************************************************)
(* IOCompletionPort.h: the thread in Process() takes completions from the  *)
(* I/O completion port and pushes a packet for each onto one of four       *)
(* queues; four worker threads, one per queue, call the callback of their  *)
(* queue with the oldest packet and pop it when the callback returns.      *)
(*                                                                         *)
(* The queues are bounded first-in first-out queues: LockFreeCircleQueue   *)
(* implements BoundedFifo (theorem RefinesFifo), and an operation on one   *)
(* is a step here.  Between GetQueuedCompletionStatus and push the thread  *)
(* reads only the completed operation's own context, so they are one step. *)
(***************************************************************************)
EXTENDS Naturals, Sequences, FiniteSets

CONSTANTS
  Clients,    \* client ids
  Sizes,      \* the byte counts an operation can transfer besides 0
  Capacity,   \* what one queue holds: MAX_QUEUE_SIZE - 1
  None,       \* no call in progress
  MaxWaiting  \* bound: completions not handled yet when the module runs alone

ASSUME CapacityAssumption == Capacity \in Nat \ {0}
ASSUME SizesAssumption == Sizes \subseteq Nat \ {0}

VARIABLES
  port,       \* completions in the I/O completion port, the oldest first
  queue,      \* acceptQueue, receiveQueue, sendQueue and disconnectQueue
  working     \* the packet each worker has given to its callback, or None

vars == <<port, queue, working>>

Workers == {"accept", "receive", "send", "disconnect"}

\* operationType, without OP_DEFAULT: no operation is started with it.
Operations == {"accept", "receive", "send"}

Packet == [ClientID : Clients, DataSize : Sizes \union {0}]

\* A completion: the context's operationType and id, whether the operation
\* succeeded, and bytesTransferred.  AcceptEx is told to receive no data.
Completion ==
  {c \in [operationType : Operations, id : Clients, ok : BOOLEAN,
          bytes : Sizes \union {0}] :
     c.operationType = "accept" => c.bytes = 0}

Init ==
  /\ port = <<>>
  /\ queue = [w \in Workers |-> <<>>]
  /\ working = [w \in Workers |-> None]

\* The operating system queues a completion (external).
Complete(c) == port' = Append(port, c)

-----------------------------------------------------------------------------
(* The thread in Process(). *)

\* Fault: only a failed operation is taken for a disconnect.
DisconnectedWhenFailed(c) == ~c.ok /\ c.operationType # "accept"

Disconnected(c) == c.bytes = 0 /\ c.operationType # "accept"

\* The queue a completion goes to; a failed AcceptEx, and another operation that fails
\* after it has transferred something, go nowhere.
Destinations(c) ==
  IF Disconnected(c) THEN {"disconnect"}
  ELSE IF c.ok THEN {c.operationType}
  ELSE {}

PacketOf(c) == [ClientID |-> c.id, DataSize |-> c.bytes]

\* Fault: the queue is full one packet too late.
PushBeyond(w, p) ==
  queue' = IF Len(queue[w]) <= Capacity
           THEN [queue EXCEPT ![w] = Append(@, p)]
           ELSE queue

\* Fault: the queue is full one packet too early.
PushShort(w, p) ==
  queue' = IF Len(queue[w]) < Capacity - 1
           THEN [queue EXCEPT ![w] = Append(@, p)]
           ELSE queue

\* Nobody looks at what push returns: a packet that does not fit is lost.
Push(w, p) ==
  queue' = IF Len(queue[w]) < Capacity
           THEN [queue EXCEPT ![w] = Append(@, p)]
           ELSE queue

Dispatch ==
  /\ port # <<>>
  /\ port' = Tail(port)
  /\ \/ \E w \in Destinations(Head(port)) : Push(w, PacketOf(Head(port)))
     \/ Destinations(Head(port)) = {} /\ UNCHANGED queue
  /\ UNCHANGED working

-----------------------------------------------------------------------------
(* AcceptWorker, SendWorker, ReceiveWorker and DisconnectWorker. *)

\* Fault: the packet is popped before its callback is called.
CallAfterPop(w) ==
  /\ working[w] = None
  /\ queue[w] # <<>>
  /\ working' = [working EXCEPT ![w] = Head(queue[w])]
  /\ queue' = [queue EXCEPT ![w] = Tail(@)]
  /\ UNCHANGED port

\* empty() is false, and the callback is called with Front().
Call(w) ==
  /\ working[w] = None
  /\ queue[w] # <<>>
  /\ working' = [working EXCEPT ![w] = Head(queue[w])]
  /\ UNCHANGED <<port, queue>>

\* The callback has returned.
Pop(w) ==
  /\ working[w] # None
  /\ working' = [working EXCEPT ![w] = None]
  /\ queue' = [queue EXCEPT ![w] = Tail(@)]
  /\ UNCHANGED port

-----------------------------------------------------------------------------
(* What a use of the port consists of, whoever starts the operations and whatever the
   callbacks do. *)

PortNext ==
  \/ \E c \in Completion : Complete(c) /\ UNCHANGED <<queue, working>>
  \/ Dispatch
  \/ \E w \in Workers : Call(w) \/ Pop(w)

PortSpec == Init /\ [][PortNext]_vars

-----------------------------------------------------------------------------
(* The port alone: any operation may complete, and callbacks just return. *)

Waiting == Len(port) + Len(queue["accept"]) + Len(queue["receive"])
                     + Len(queue["send"]) + Len(queue["disconnect"])

Next ==
  \/ /\ Waiting < MaxWaiting
     /\ \E c \in Completion : Complete(c)
     /\ UNCHANGED <<queue, working>>
  \/ Dispatch
  \/ \E w \in Workers : Call(w) \/ Pop(w)

Spec == Init /\ [][Next]_vars

-----------------------------------------------------------------------------
(* Properties. *)

TypeOK ==
  /\ port \in Seq(Completion)
  /\ queue \in [Workers -> Seq(Packet)]
  /\ \A w \in Workers : Len(queue[w]) <= Capacity
  /\ working \in [Workers -> Packet \union {None}]

\* The k-th smallest element of a set of numbers.
Nth(S, k) == CHOOSE i \in S : Cardinality({j \in S : j <= i}) = k

\* The packets that the completions of q will give a worker, in their order.
Places(q, w) == {i \in DOMAIN q : w \in Destinations(q[i])}

Selected(q, w) ==
  [k \in 1 .. Cardinality(Places(q, w)) |-> PacketOf(q[Nth(Places(q, w), k)])]

\* The packets on their way to a worker: those in its queue, then those the
\* port still holds for it.
Undelivered(w) == queue[w] \o Selected(port, w)

\* Dispatcher, queues and workers together are one first-in first-out channel
\* per callback, which loses a packet only when its queue is full: the handling
\* of one kind of event cannot reorder, duplicate or swallow another's.
Delivery == INSTANCE CompletionDelivery
              WITH Callbacks <- Workers, Packets <- Packet,
                   waiting <- [w \in Workers |-> Undelivered(w)],
                   handling <- working

ImplementsDelivery == Delivery!Spec

-----------------------------------------------------------------------------
(* The inductive invariant. *)

\* A worker keeps the oldest packet of its queue until it pops it.
InHand ==
  \A w \in Workers :
    working[w] # None => queue[w] # <<>> /\ working[w] = Head(queue[w])

IInv == TypeOK /\ InHand
=============================================================================

--------------------------- MODULE PacketOwnership ---------------------------
(***************************************************************************)
(* Who owns the heap blocks of a received message: the Packet objects that *)
(* hold a deep copy each (CustomOverlapped.h), from the dispatcher's       *)
(* newPacket over a slot of receiveQueue to the copies that Front, the     *)
(* call of the callback and pop make; the DataPackets FeedBack_Receive     *)
(* makes of it; and, when the callback answers with SendRequest as         *)
(* EchoServer::Send does, the send context that takes the Packet's buffer. *)
(*                                                                         *)
(* Packet declares a copy constructor and so has no move: std::move copies.*)
(* The threads touch different slots (NoSlotRace of LockFreeCircleQueue),  *)
(* so that one operation on a Packet is a step.                            *)
(***************************************************************************)
EXTENDS Naturals, Sequences, FiniteSets

CONSTANTS
  MAX_QUEUE_SIZE,  \* slots of receiveQueue (100 in the code)
  Blocks,          \* what new char[] may return
  None,            \* nullptr
  MaxLeaked,       \* bound: DataPackets made
  MaxContexts      \* bound: send contexts waiting

ASSUME SizeAssumption == MAX_QUEUE_SIZE \in Nat /\ MAX_QUEUE_SIZE >= 2
ASSUME BlocksAssumption == IsFiniteSet(Blocks) /\ None \notin Blocks
ASSUME BoundsAssumption == MaxLeaked \in Nat /\ MaxContexts \in Nat

\* The Packet objects: the slots 0 .. MAX_QUEUE_SIZE - 1, newPacket of Process,
\* what Front returns, the callback's parameter, the local of pop and what pop
\* returns.
newPacket == MAX_QUEUE_SIZE
front     == MAX_QUEUE_SIZE + 1
packet    == MAX_QUEUE_SIZE + 2
data      == MAX_QUEUE_SIZE + 3
result    == MAX_QUEUE_SIZE + 4
Objects   == 0 .. MAX_QUEUE_SIZE + 4

VARIABLES
  heap,         \* the blocks that are allocated
  Buffer,       \* the Buffer of each Packet; None for an object that is not alive
  inputIndex, outputIndex,
  dispatcher,   \* where the thread in Process is
  worker,       \* where ReceiveWorker is
  leaked,       \* the buffers of DataPackets that were handled
  contexts,     \* the wsabuf.buf of the send contexts queued, the oldest first
  answers,      \* whether the callback gives its packet to SendRequest
  badFree       \* history: some delete[] was given a block that is not allocated

vars == <<heap, Buffer, inputIndex, outputIndex, dispatcher, worker, leaked,
          contexts, answers, badFree>>
indices == <<inputIndex, outputIndex>>

Init ==
  /\ heap = {}
  /\ Buffer = [o \in Objects |-> None]
  /\ inputIndex = 0 /\ outputIndex = 0
  /\ dispatcher = "idle" /\ worker = "idle"
  /\ leaked = {} /\ contexts = <<>>
  /\ answers \in BOOLEAN
  /\ badFree = FALSE

-----------------------------------------------------------------------------
(* Packet. *)

\* delete[] b, then new char[] for dst if there is something to hold.
Replace(dst, b, holds) ==
  /\ badFree' = (badFree \/ b \notin heap \union {None})
  /\ IF holds
     THEN \E fresh \in Blocks \ (heap \ {b}) :
            /\ heap' = (heap \ {b}) \union {fresh}
            /\ Buffer' = [Buffer EXCEPT ![dst] = fresh]
     ELSE /\ heap' = heap \ {b}
          /\ Buffer' = [Buffer EXCEPT ![dst] = None]

Set(o) == Replace(o, Buffer[o], TRUE)

CopyConstruct(dst, src) == Replace(dst, None, Buffer[src] # None)

\* Fault: what was held before is not deleted.
CopyAssignOver(dst, src) ==
  /\ \E fresh \in Blocks \ heap :
       heap' = heap \union {fresh} /\ Buffer' = [Buffer EXCEPT ![dst] = fresh]
  /\ UNCHANGED badFree

\* Fault: the pointer is copied, as the implicit operator would.
CopyAssignShallow(dst, src) ==
  /\ Buffer' = [Buffer EXCEPT ![dst] = Buffer[src]]
  /\ heap' = heap \ {Buffer[dst]}
  /\ UNCHANGED badFree

CopyAssign(dst, src) == Replace(dst, Buffer[dst], Buffer[src] # None)

Destroy(o) == Replace(o, Buffer[o], FALSE)

-----------------------------------------------------------------------------
(* The thread in Process. *)

Dispatch(from, to) == dispatcher = from /\ dispatcher' = to
DispatcherOnly == UNCHANGED <<worker, leaked, contexts>>

\* OP_RECV of some bytes.
NewPacket ==
  /\ Dispatch("idle", "push")
  /\ Set(newPacket)
  /\ UNCHANGED indices /\ DispatcherOnly

Full == (inputIndex + 1) % MAX_QUEUE_SIZE = outputIndex

PushAssigns ==
  /\ ~Full
  /\ Dispatch("push", "store")
  /\ CopyAssign(inputIndex, newPacket)
  /\ UNCHANGED indices /\ DispatcherOnly

PushRefuses ==
  /\ Full
  /\ Dispatch("push", "destroy")
  /\ UNCHANGED <<heap, Buffer, badFree, indices>> /\ DispatcherOnly

PushStores ==
  /\ Dispatch("store", "destroy")
  /\ inputIndex' = (inputIndex + 1) % MAX_QUEUE_SIZE
  /\ UNCHANGED <<heap, Buffer, badFree, outputIndex>> /\ DispatcherOnly

\* The end of the loop's body.
DestroyNewPacket ==
  /\ Dispatch("destroy", "idle")
  /\ Destroy(newPacket)
  /\ UNCHANGED indices /\ DispatcherOnly

-----------------------------------------------------------------------------
(* ReceiveWorker. *)

Work(from, to) == worker = from /\ worker' = to
WorkerOnly == UNCHANGED <<inputIndex, dispatcher>>

Front ==
  /\ inputIndex # outputIndex
  /\ Work("idle", "call")
  /\ CopyConstruct(front, outputIndex)
  /\ WorkerOnly /\ UNCHANGED <<outputIndex, leaked, contexts>>

\* The parameter is passed by value through std::function and std::bind.
Call ==
  /\ Work("call", "callback")
  /\ CopyConstruct(packet, front)
  /\ WorkerOnly /\ UNCHANGED <<outputIndex, leaked, contexts>>

\* FeedBack_Receive copies the bytes; it may fill a DataPacket, which
\* ReceiveInternalWork prints and forgets.
FeedBack_Receive ==
  /\ ~answers
  /\ Work("callback", "return")
  /\ \/ UNCHANGED <<heap, leaked>>
     \/ /\ Cardinality(leaked) < MaxLeaked
        /\ \E fresh \in Blocks \ heap :
             heap' = heap \union {fresh} /\ leaked' = leaked \union {fresh}
  /\ WorkerOnly /\ UNCHANGED <<Buffer, outputIndex, contexts, badFree>>

\* The context's buffer is the packet's own, copied onto itself.
SendRequest ==
  /\ answers /\ Len(contexts) < MaxContexts
  /\ Work("callback", "return")
  /\ contexts' = Append(contexts, Buffer[packet])
  /\ WorkerOnly /\ UNCHANGED <<heap, Buffer, outputIndex, leaked, badFree>>

Return ==
  /\ Work("return", "returned")
  /\ Destroy(packet)
  /\ WorkerOnly /\ UNCHANGED <<outputIndex, leaked, contexts>>

\* The end of the statement that called the callback.
DestroyFront ==
  /\ Work("returned", "pop")
  /\ Destroy(front)
  /\ WorkerOnly /\ UNCHANGED <<outputIndex, leaked, contexts>>

\* The slot keeps its buffer until it is assigned again.
PopCopies ==
  /\ Work("pop", "release")
  /\ CopyConstruct(data, outputIndex)
  /\ WorkerOnly /\ UNCHANGED <<outputIndex, leaked, contexts>>

PopStores ==
  /\ Work("release", "result")
  /\ outputIndex' = (outputIndex + 1) % MAX_QUEUE_SIZE
  /\ WorkerOnly /\ UNCHANGED <<heap, Buffer, badFree, leaked, contexts>>

\* The result is a second copy, unless the compiler elides it.
PopReturns ==
  /\ \/ Work("result", "drop") /\ CopyConstruct(result, data)
     \/ Work("result", "last") /\ Destroy(data)
  /\ WorkerOnly /\ UNCHANGED <<outputIndex, leaked, contexts>>

DropData ==
  /\ Work("drop", "last")
  /\ Destroy(data)
  /\ WorkerOnly /\ UNCHANGED <<outputIndex, leaked, contexts>>

DropResult ==
  /\ Work("last", "idle")
  /\ Destroy(result)
  /\ WorkerOnly /\ UNCHANGED <<outputIndex, leaked, contexts>>

\* FeedBack_Send reads and deletes the buffer of the oldest context.
FeedBack_Send ==
  /\ contexts # <<>>
  /\ contexts' = Tail(contexts)
  /\ badFree' = (badFree \/ Head(contexts) \notin heap)
  /\ heap' = heap \ {Head(contexts)}
  /\ UNCHANGED <<Buffer, indices, dispatcher, worker, leaked>>

\* After a wrong delete[] the behaviour is undefined and not followed.
Next ==
  /\ ~badFree /\ UNCHANGED answers
  /\ \/ NewPacket \/ PushAssigns \/ PushRefuses \/ PushStores \/ DestroyNewPacket
     \/ Front \/ Call \/ FeedBack_Receive \/ SendRequest \/ Return \/ DestroyFront
     \/ PopCopies \/ PopStores \/ PopReturns \/ DropData \/ DropResult
     \/ FeedBack_Send

Spec == Init /\ [][Next]_vars

-----------------------------------------------------------------------------
(* Properties. *)

\* No block is lost when a slot is reused, a push refused or a copy dropped, even
\* when the callback answers: each belongs to a Packet, or was the buffer of a
\* DataPacket.  After a wrong delete[] nothing can be said.
NoneLost == ~badFree => \A b \in heap \ leaked : \E o \in Objects : Buffer[o] = b

\* When the callback only receives, every allocated block belongs to exactly one
\* Packet that is alive, or was the buffer of a DataPacket: no two Packets share
\* one, none holds one that was deleted, and no delete[] meets a block that is
\* not allocated.  (A context queued by SendRequest shares its Packet's block.)
OneOwner ==
  ~answers =>
    /\ ~badFree
    /\ \A o \in Objects : Buffer[o] \in (heap \ leaked) \union {None}
    /\ \A o, p \in Objects : Buffer[o] = Buffer[p] => o = p \/ Buffer[o] = None
-----------------------------------------------------------------------------
(* The inductive invariant. *)

Types ==
  /\ heap \in SUBSET Blocks /\ leaked \in SUBSET heap
  /\ Buffer \in [Objects -> Blocks \union {None}]
  /\ inputIndex \in 0 .. MAX_QUEUE_SIZE - 1 /\ outputIndex \in 0 .. MAX_QUEUE_SIZE - 1
  /\ IF answers THEN leaked = {} ELSE contexts = <<>>
  /\ badFree \in BOOLEAN

\* An object that is not alive holds nothing, so that constructing it over what it
\* held loses nothing.
Unborn ==
  /\ dispatcher = "idle" => Buffer[newPacket] = None
  /\ worker \notin {"call", "callback", "return", "returned"} => Buffer[front] = None
  /\ worker \notin {"callback", "return"} => Buffer[packet] = None
  /\ worker \notin {"release", "result", "drop"} => Buffer[data] = None
  /\ worker \notin {"drop", "last"} => Buffer[result] = None

Owned == \A b \in heap \ leaked : \E o \in Objects : Buffer[o] = b

IInv == Types /\ Unborn /\ Owned /\ OneOwner
=============================================================================

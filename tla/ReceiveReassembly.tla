--------------------------- MODULE ReceiveReassembly ---------------------------
(***************************************************************************)
(* ClientDataSet.h, FeedBack_Receive and ReceiveInternalWork: the bytes of *)
(* each received packet are appended to mReceiveBuffer, cut into           *)
(* DataPackets of mBufferSize bytes, and the DataPackets are handled from  *)
(* mReceiveDataQueue before the next WSARecv is posted.                    *)
(*                                                                         *)
(* A byte is its position in the stream the client has sent.  The receive  *)
(* worker is the only thread here, and ReceiveChain of EchoServer says     *)
(* that a client's next packet comes only after its ReceiveReady, so       *)
(* GrowBuffer waits for it.                                                *)
(***************************************************************************)
EXTENDS Integers, Sequences

CONSTANTS
  mBufferSize,        \* bytes of a DataPacket (10 in the code)
  MAX_SOCK_RECVBUF,   \* the most one WSARecv returns (256 in the code)
  Capacity,           \* what mReceiveDataQueue holds (99 in the code)
  MaxBytes            \* bound: the length of the stream

\* Even the largest packet leaves room in the queue for what it completes.
ASSUME BufferAssumption ==
  /\ mBufferSize \in Nat \ {0}
  /\ MAX_SOCK_RECVBUF \in Nat \ {0}
  /\ Capacity \in Nat
  /\ MAX_SOCK_RECVBUF <= Capacity * mBufferSize
ASSUME BytesAssumption == MaxBytes \in Nat

VARIABLES
  at,                 \* where FeedBack_Receive is; "armed" between two calls
  mReceiveBuffer,     \* received bytes that are in no DataPacket yet
  mReceiveDataQueue,  \* DataPackets not handled yet, the oldest first
  received,           \* history: how many bytes have been received
  processed           \* history: the bytes handled, in the order of handling

vars == <<at, mReceiveBuffer, mReceiveDataQueue, received, processed>>

Init ==
  /\ at = "armed"
  /\ mReceiveBuffer = <<>>
  /\ mReceiveDataQueue = <<>>
  /\ received = 0
  /\ processed = <<>>

\* Fault: the whole of mReceiveBuf is appended, bytes never received (0) included.
GrowBufferWhole(dataSize) ==
  /\ at = "armed"
  /\ received + dataSize <= MaxBytes
  /\ mReceiveBuffer' = mReceiveBuffer \o
       [i \in 1 .. MAX_SOCK_RECVBUF |-> IF i <= dataSize THEN received + i ELSE 0]
  /\ received' = received + dataSize
  /\ at' = "emit"
  /\ UNCHANGED <<mReceiveDataQueue, processed>>

GrowBuffer(dataSize) ==
  /\ at = "armed"
  /\ received + dataSize <= MaxBytes
  /\ mReceiveBuffer' = mReceiveBuffer \o [i \in 1 .. dataSize |-> received + i]
  /\ received' = received + dataSize
  /\ at' = "emit"
  /\ UNCHANGED <<mReceiveDataQueue, processed>>

\* The value push returns is not looked at.
Push(packet) ==
  mReceiveDataQueue' = IF Len(mReceiveDataQueue) < Capacity
                       THEN Append(mReceiveDataQueue, packet)
                       ELSE mReceiveDataQueue

\* Fault: the rest of the buffer starts one byte too late.
EmitSkipping ==
  /\ at = "emit"
  /\ Len(mReceiveBuffer) > mBufferSize
  /\ Push(SubSeq(mReceiveBuffer, 1, mBufferSize))
  /\ mReceiveBuffer' = SubSeq(mReceiveBuffer, mBufferSize + 2, Len(mReceiveBuffer))
  /\ UNCHANGED <<at, received, processed>>

\* One round of the while loop.
Emit ==
  /\ at = "emit"
  /\ Len(mReceiveBuffer) > mBufferSize
  /\ Push(SubSeq(mReceiveBuffer, 1, mBufferSize))
  /\ mReceiveBuffer' = SubSeq(mReceiveBuffer, mBufferSize + 1, Len(mReceiveBuffer))
  /\ UNCHANGED <<at, received, processed>>

\* The loop ends; without a DataPacket the next WSARecv is posted at once.
EmitEnds ==
  /\ at = "emit"
  /\ Len(mReceiveBuffer) <= mBufferSize
  /\ at' = IF mReceiveDataQueue = <<>> THEN "armed" ELSE "work"
  /\ UNCHANGED <<mReceiveBuffer, mReceiveDataQueue, received, processed>>

\* Fault: the next WSARecv is posted after the first DataPacket.
ReceiveInternalWorkOnce ==
  /\ at = "work"
  /\ processed' = processed \o Head(mReceiveDataQueue)
  /\ mReceiveDataQueue' = Tail(mReceiveDataQueue)
  /\ at' = "armed"
  /\ UNCHANGED <<mReceiveBuffer, received>>

\* One call of the recursion; the last one posts the next WSARecv.
ReceiveInternalWork ==
  /\ at = "work"
  /\ processed' = processed \o Head(mReceiveDataQueue)
  /\ mReceiveDataQueue' = Tail(mReceiveDataQueue)
  /\ at' = IF mReceiveDataQueue' = <<>> THEN "armed" ELSE "work"
  /\ UNCHANGED <<mReceiveBuffer, received>>

Next ==
  \/ \E dataSize \in 1 .. MAX_SOCK_RECVBUF : GrowBuffer(dataSize)
  \/ Emit \/ EmitEnds
  \/ ReceiveInternalWork

Spec == Init /\ [][Next]_vars

-----------------------------------------------------------------------------
(* Properties. *)

Positions == Nat \ {0}

TypeOK ==
  /\ at \in {"armed", "emit", "work"}
  /\ mReceiveBuffer \in Seq(Positions)
  /\ mReceiveDataQueue \in Seq(Seq(Positions))
  /\ received \in Nat
  /\ processed \in Seq(Positions)

\* The n bytes of the stream that follow the first `before` ones.
Bytes(before, n) == [i \in 1 .. n |-> before + i]

\* What is handled, then what is queued, then what is buffered is the stream
\* as received: whatever the sizes in which it arrives, no byte is lost,
\* repeated or moved, by a push that found the queue full among other things.
StreamPreserved ==
  /\ processed = Bytes(0, Len(processed))
  /\ \A k \in DOMAIN mReceiveDataQueue :
       mReceiveDataQueue[k] = Bytes(Len(processed) + (k - 1) * mBufferSize, mBufferSize)
  /\ mReceiveBuffer =
       Bytes(Len(processed) + Len(mReceiveDataQueue) * mBufferSize, Len(mReceiveBuffer))
  /\ received = Len(processed) + Len(mReceiveDataQueue) * mBufferSize + Len(mReceiveBuffer)

\* When the next WSARecv is posted no DataPacket is left behind, so nothing
\* waits for a later packet but the last mBufferSize bytes at most.
NothingLeftBehind ==
  at = "armed" => mReceiveDataQueue = <<>> /\ Len(mReceiveBuffer) <= mBufferSize

\* Strengthening: each byte of the queue leaves as much room for the buffer.
RoomForTheRest ==
  at = "emit" => Len(mReceiveDataQueue) * mBufferSize + Len(mReceiveBuffer)
                   <= (Capacity + 1) * mBufferSize
WorkLeft == at = "work" => mReceiveDataQueue # <<>> /\ Len(mReceiveBuffer) <= mBufferSize

\* The inductive invariant.
IInv == TypeOK /\ StreamPreserved /\ NothingLeftBehind /\ RoomForTheRest /\ WorkLeft
=============================================================================

----------------------- MODULE ReceiveReassembly_proofs -----------------------
(***************************************************************************)
(* Proofs about ReceiveReassembly, for every size of the DataPackets, of   *)
(* the receive buffer and of the queue that BufferAssumption allows.       *)
(***************************************************************************)
EXTENDS ReceiveReassembly, SequenceTheorems, TLAPS

-----------------------------------------------------------------------------
(* Stretches of the stream. *)

\* A stretch of n bytes is a sequence of n positions.
LEMMA BytesSequence ==
  ASSUME NEW before \in Nat, NEW n \in Nat
  PROVE  /\ Bytes(before, n) \in Seq(Positions)
         /\ Len(Bytes(before, n)) = n
         /\ \A i \in 1 .. n : Bytes(before, n)[i] = before + i
<1>1. \A i \in 1 .. n : before + i \in Positions
  BY SMT DEF Positions
<1>2. Bytes(before, n) \in [1 .. n -> Positions]
  BY <1>1, Zenon DEF Bytes
<1>3. Bytes(before, n) \in Seq(Positions)
  BY <1>2, SMT
<1>4. DOMAIN Bytes(before, n) = 1 .. n
  BY Zenon DEF Bytes
<1>5. Len(Bytes(before, n)) = n
  BY <1>3, <1>4, SMT
<1>6. \A i \in 1 .. n : Bytes(before, n)[i] = before + i
  BY Zenon DEF Bytes
<1> QED
  BY <1>3, <1>5, <1>6, Zenon

\* A stretch followed by the next one is a stretch (grow_by, and handling).
LEMMA BytesConcat ==
  ASSUME NEW before \in Nat, NEW n \in Nat, NEW m \in Nat
  PROVE  Bytes(before, n) \o Bytes(before + n, m) = Bytes(before, n + m)
<1> DEFINE s == Bytes(before, n)
           t == Bytes(before + n, m)
           u == Bytes(before, n + m)
<1>1. /\ s \in Seq(Positions) /\ Len(s) = n
      /\ \A i \in 1 .. n : s[i] = before + i
  BY BytesSequence, Zenon
<1>2. before + n \in Nat /\ n + m \in Nat
  BY SMT
<1>3. /\ t \in Seq(Positions) /\ Len(t) = m
      /\ \A i \in 1 .. m : t[i] = (before + n) + i
  BY <1>2, BytesSequence, Zenon
<1>4. /\ u \in Seq(Positions) /\ Len(u) = n + m
      /\ \A i \in 1 .. n + m : u[i] = before + i
  BY <1>2, BytesSequence, Zenon
<1> HIDE DEF s, t, u
<1>5. s \o t \in Seq(Positions) /\ Len(s \o t) = n + m
  BY <1>1, <1>3, ConcatProperties
<1>6. ASSUME NEW i \in 1 .. n + m
      PROVE  (s \o t)[i] = u[i]
  <2>1. (s \o t)[i] = IF i <= Len(s) THEN s[i] ELSE t[i - Len(s)]
    <3>1. i \in 1 .. Len(s) + Len(t)
      BY <1>1, <1>3, Zenon
    <3> QED
      BY <3>1, <1>1, <1>3, ConcatProperties, Zenon
  <2>2. CASE i <= n
    BY <2>1, <2>2, <1>1, <1>4, SMT
  <2>3. CASE i > n
    <3>1. i - n \in 1 .. m
      BY <2>3, SMT
    <3>2. t[i - n] = (before + n) + (i - n)
      BY <3>1, <1>3, Zenon
    <3> QED
      BY <2>1, <2>3, <3>2, <1>1, <1>4, SMT
  <2>4. i <= n \/ i > n
    BY SMT
  <2> QED
    BY <2>2, <2>3, <2>4, Zenon
<1>7. s \o t = u
  <2>1. Len(s \o t) = Len(u)
    BY <1>4, <1>5, Zenon
  <2>2. \A i \in 1 .. Len(s \o t) : (s \o t)[i] = u[i]
    BY <1>5, <1>6, Zenon
  <2> QED
    BY <1>4, <1>5, <2>1, <2>2, SeqEqual, Zenon
<1> QED
  BY <1>7, Zenon DEF s, t, u

\* Both parts of a stretch that is cut in two are stretches (copy_n, assign).
LEMMA BytesCut ==
  ASSUME NEW before \in Nat, NEW n \in Nat, NEW k \in 0 .. n
  PROVE  /\ SubSeq(Bytes(before, n), 1, k) = Bytes(before, k)
         /\ SubSeq(Bytes(before, n), k + 1, n) = Bytes(before + k, n - k)
<1> DEFINE s == Bytes(before, n)
<1>1. /\ s \in Seq(Positions) /\ Len(s) = n
      /\ \A i \in 1 .. n : s[i] = before + i
  BY BytesSequence, Zenon
<1>0. k \in Nat /\ k <= n
  BY SMT
<1>2. /\ Bytes(before, k) \in Seq(Positions) /\ Len(Bytes(before, k)) = k
      /\ \A i \in 1 .. k : Bytes(before, k)[i] = before + i
  BY <1>0, BytesSequence, Zenon
<1>3. before + k \in Nat /\ n - k \in Nat
  BY SMT
<1>4. /\ Bytes(before + k, n - k) \in Seq(Positions)
      /\ Len(Bytes(before + k, n - k)) = n - k
      /\ \A i \in 1 .. n - k : Bytes(before + k, n - k)[i] = (before + k) + i
  BY <1>3, BytesSequence, Zenon
<1> HIDE DEF s
<1>5. SubSeq(s, 1, k) = Bytes(before, k)
  <2>1. /\ SubSeq(s, 1, k) \in Seq(Positions)
        /\ Len(SubSeq(s, 1, k)) = k
        /\ \A i \in 1 .. k : SubSeq(s, 1, k)[i] = s[i]
    BY <1>1, SMT
  <2>2. \A i \in 1 .. k : SubSeq(s, 1, k)[i] = Bytes(before, k)[i]
    BY <2>1, <1>1, <1>2, SMT
  <2> QED
    BY <2>1, <2>2, <1>2, SeqEqual, SMT
<1>6. SubSeq(s, k + 1, n) = Bytes(before + k, n - k)
  <2>1. /\ SubSeq(s, k + 1, n) \in Seq(Positions)
        /\ Len(SubSeq(s, k + 1, n)) = n - k
        /\ \A i \in 1 .. n - k : SubSeq(s, k + 1, n)[i] = s[k + i]
    BY <1>1, <1>3, SMT
  <2>2. ASSUME NEW i \in 1 .. n - k
        PROVE  SubSeq(s, k + 1, n)[i] = Bytes(before + k, n - k)[i]
    <3>1. k + i \in 1 .. n /\ before + (k + i) = (before + k) + i
      BY SMT
    <3> QED
      BY <3>1, <2>1, <1>1, <1>4, SMT
  <2> QED
    BY <2>1, <2>2, <1>4, SeqEqual, SMT
<1> QED
  BY <1>5, <1>6, Zenon DEF s

-----------------------------------------------------------------------------
(* The inductive invariant. *)

LEMMA InitIInv == Init => IInv
<1> SUFFICES ASSUME Init PROVE IInv
  OBVIOUS
<1> USE BufferAssumption
<1>1. TypeOK
  BY SMT DEF Init, TypeOK
<1>2. Bytes(0, 0) = <<>>
  <2>1. Bytes(0, 0) \in Seq(Positions) /\ Len(Bytes(0, 0)) = 0
    BY BytesSequence, SMT
  <2> QED
    BY <2>1, EmptySeq, SMT
<1>3. StreamPreserved
  BY <1>2, SMT DEF Init, StreamPreserved
<1>4. NothingLeftBehind /\ RoomForTheRest /\ WorkLeft
  BY SMT DEF Init, NothingLeftBehind, RoomForTheRest, WorkLeft
<1> QED
  BY <1>1, <1>3, <1>4 DEF IInv

\* What the invariant says of the lengths, as numbers.
LEMMA Lengths ==
  ASSUME IInv
  PROVE  /\ Len(processed) \in Nat
         /\ Len(mReceiveDataQueue) \in Nat
         /\ Len(mReceiveBuffer) \in Nat
         /\ Len(mReceiveDataQueue) * mBufferSize \in Nat
         /\ received \in Nat
  BY BufferAssumption, SMT DEF IInv, TypeOK

LEMMA GrowKeeps ==
  ASSUME IInv, NEW dataSize \in 1 .. MAX_SOCK_RECVBUF, GrowBuffer(dataSize)
  PROVE  IInv'
<1> USE BufferAssumption
<1> DEFINE start == Len(processed) + Len(mReceiveDataQueue) * mBufferSize
<1>1. /\ start \in Nat /\ Len(mReceiveBuffer) \in Nat /\ dataSize \in Nat
      /\ received = start + Len(mReceiveBuffer)
      /\ mReceiveBuffer = Bytes(start, Len(mReceiveBuffer))
  BY Lengths, SMT DEF IInv, StreamPreserved
<1>2. mReceiveBuffer' = mReceiveBuffer \o Bytes(received, dataSize)
  BY Zenon DEF GrowBuffer, Bytes
<1>3. mReceiveBuffer' = Bytes(start, Len(mReceiveBuffer) + dataSize)
  <2>1. start \in Nat /\ Len(mReceiveBuffer) \in Nat /\ dataSize \in Nat
    BY <1>1
  <2>2. Bytes(start, Len(mReceiveBuffer)) \o Bytes(start + Len(mReceiveBuffer), dataSize)
          = Bytes(start, Len(mReceiveBuffer) + dataSize)
    BY <2>1, BytesConcat
  <2> QED
    BY <2>2, <1>1, <1>2, SMT
<1>4. Len(mReceiveBuffer) + dataSize \in Nat
  BY <1>1, SMT
<1>5. /\ mReceiveBuffer' \in Seq(Positions)
      /\ Len(mReceiveBuffer') = Len(mReceiveBuffer) + dataSize
  BY <1>1, <1>3, <1>4, BytesSequence, Zenon
<1>6. UNCHANGED <<mReceiveDataQueue, processed>> /\ at' = "emit" /\ at = "armed"
      /\ received' = received + dataSize
  BY DEF GrowBuffer
<1>7. TypeOK'
  BY <1>1, <1>5, <1>6, SMT DEF IInv, TypeOK
<1>8. mReceiveBuffer' = Bytes(start, Len(mReceiveBuffer'))
  BY <1>3, <1>5, Zenon
<1>9. received' = start + Len(mReceiveBuffer')
  BY <1>1, <1>5, <1>6, SMT
<1>10. StreamPreserved'
  BY <1>6, <1>8, <1>9, Zenon DEF IInv, StreamPreserved
<1>11. mReceiveDataQueue = <<>> /\ Len(mReceiveBuffer) <= mBufferSize
  BY <1>6 DEF IInv, NothingLeftBehind
<1>12. RoomForTheRest'
  <2>1. Len(mReceiveDataQueue') = 0
    BY <1>6, <1>11, SMT
  <2>2. Len(mReceiveBuffer') <= mBufferSize + Capacity * mBufferSize
    BY <1>1, <1>5, <1>11, SMT
  <2> QED
    BY <2>1, <2>2, <1>1, <1>4, <1>5, SMT DEF RoomForTheRest
<1>13. NothingLeftBehind' /\ WorkLeft'
  BY <1>6, SMT DEF NothingLeftBehind, WorkLeft
<1> QED
  BY <1>7, <1>10, <1>12, <1>13 DEF IInv

\* The queue is not full when a DataPacket is pushed.
LEMMA RoomForOne ==
  ASSUME IInv, Emit
  PROVE  Len(mReceiveDataQueue) < Capacity
<1> DEFINE q == Len(mReceiveDataQueue)
<1>1. /\ q \in Nat /\ Len(mReceiveBuffer) \in Nat
      /\ mBufferSize \in Nat \ {0} /\ Capacity \in Nat
  BY Lengths, BufferAssumption
<1>2. /\ q * mBufferSize + Len(mReceiveBuffer) <= (Capacity + 1) * mBufferSize
      /\ Len(mReceiveBuffer) > mBufferSize
  BY DEF IInv, RoomForTheRest, Emit
<1>3. q * mBufferSize < Capacity * mBufferSize
  BY <1>1, <1>2, SMT
<1>4. ASSUME q >= Capacity PROVE FALSE
  <2>1. q * mBufferSize >= Capacity * mBufferSize
    BY <1>1, <1>4, SMT
  <2> QED
    BY <1>1, <1>3, <2>1, SMT
<1> QED
  BY <1>1, <1>4, SMT

LEMMA EmitKeeps ==
  ASSUME IInv, Emit
  PROVE  IInv'
<1> USE BufferAssumption
<1> DEFINE q == Len(mReceiveDataQueue)
           b == Len(mReceiveBuffer)
           start == Len(processed) + q * mBufferSize
           packet == SubSeq(mReceiveBuffer, 1, mBufferSize)
<1>1. /\ q \in Nat /\ b \in Nat /\ start \in Nat /\ mBufferSize \in Nat
      /\ Len(processed) \in Nat
      /\ received = start + b
      /\ mReceiveBuffer = Bytes(start, b)
  BY Lengths, SMT DEF IInv, StreamPreserved
<1>2. /\ at = "emit" /\ b > mBufferSize /\ UNCHANGED <<at, received, processed>>
      /\ mReceiveBuffer' = SubSeq(mReceiveBuffer, mBufferSize + 1, b)
  BY DEF Emit
<1>3. mReceiveDataQueue' = Append(mReceiveDataQueue, packet)
  BY RoomForOne DEF Emit, Push
<1>4. /\ packet = Bytes(start, mBufferSize)
      /\ mReceiveBuffer' = Bytes(start + mBufferSize, b - mBufferSize)
  <2>1. start \in Nat /\ b \in Nat /\ mBufferSize \in 0 .. b
    BY <1>1, <1>2, SMT
  <2> HIDE DEF start, b
  <2>2. /\ SubSeq(Bytes(start, b), 1, mBufferSize) = Bytes(start, mBufferSize)
        /\ SubSeq(Bytes(start, b), mBufferSize + 1, b)
             = Bytes(start + mBufferSize, b - mBufferSize)
    BY <2>1, BytesCut, Zenon
  <2> QED
    BY <2>2, <1>1, <1>2, SMT
<1>5. start + mBufferSize \in Nat /\ b - mBufferSize \in Nat
  BY <1>1, <1>2, SMT
<1>6. /\ packet \in Seq(Positions)
      /\ mReceiveBuffer' \in Seq(Positions)
      /\ Len(mReceiveBuffer') = b - mBufferSize
  <2>1. start \in Nat /\ mBufferSize \in Nat
    BY <1>1
  <2>2. Bytes(start, mBufferSize) \in Seq(Positions)
    BY <2>1, BytesSequence
  <2>3. /\ Bytes(start + mBufferSize, b - mBufferSize) \in Seq(Positions)
        /\ Len(Bytes(start + mBufferSize, b - mBufferSize)) = b - mBufferSize
    BY <1>5, BytesSequence
  <2> QED
    BY <2>2, <2>3, <1>4, SMT
<1>7. mReceiveDataQueue \in Seq(Seq(Positions))
  BY DEF IInv, TypeOK
<1> HIDE DEF packet
<1>8. /\ mReceiveDataQueue' \in Seq(Seq(Positions))
      /\ Len(mReceiveDataQueue') = q + 1
      /\ \A k \in 1 .. q : mReceiveDataQueue'[k] = mReceiveDataQueue[k]
      /\ mReceiveDataQueue'[q + 1] = packet
  BY <1>3, <1>6, <1>7, AppendProperties, SMT
<1>9. TypeOK'
  BY <1>2, <1>6, <1>8 DEF IInv, TypeOK
<1>10. StreamPreserved'
  <2>1. processed' = Bytes(0, Len(processed'))
    BY <1>2 DEF IInv, StreamPreserved
  <2>2. ASSUME NEW k \in DOMAIN mReceiveDataQueue'
        PROVE  mReceiveDataQueue'[k] =
                 Bytes(Len(processed) + (k - 1) * mBufferSize, mBufferSize)
    <3>1. k \in 1 .. q + 1
      BY <1>1, <1>8, SMT
    <3>2. CASE k \in 1 .. q
      <4>1. k \in DOMAIN mReceiveDataQueue
        BY <1>7, <3>2, SMT
      <4> QED
        BY <4>1, <3>2, <1>8 DEF IInv, StreamPreserved
    <3>3. CASE k = q + 1
      <4>1. k - 1 = q
        BY <3>3, <1>1, SMT
      <4> QED
        BY <4>1, <3>3, <1>4, <1>8, Zenon
    <3> QED
      BY <3>1, <3>2, <3>3, <1>1, SMT
  <2>3. Len(processed) + Len(mReceiveDataQueue') * mBufferSize = start + mBufferSize
    BY <1>1, <1>8, SMT
  <2>4. mReceiveBuffer' =
          Bytes(Len(processed) + Len(mReceiveDataQueue') * mBufferSize, Len(mReceiveBuffer'))
    BY <2>3, <1>4, <1>6, Zenon
  <2>5. received = Len(processed) + Len(mReceiveDataQueue') * mBufferSize + Len(mReceiveBuffer')
    <3>1. received = (start + mBufferSize) + Len(mReceiveBuffer')
      BY <1>1, <1>6, SMT
    <3> QED
      BY <3>1, <2>3, Zenon
  <2> QED
    BY <1>2, <2>1, <2>2, <2>4, <2>5, Zenon DEF StreamPreserved
<1>11. RoomForTheRest'
  <2>1. q * mBufferSize + b <= (Capacity + 1) * mBufferSize
    BY <1>2 DEF IInv, RoomForTheRest
  <2>2. (q + 1) * mBufferSize + (b - mBufferSize) = q * mBufferSize + b
    BY <1>1, SMT
  <2>3. Len(mReceiveDataQueue') * mBufferSize + Len(mReceiveBuffer')
          <= (Capacity + 1) * mBufferSize
    BY <2>1, <2>2, <1>6, <1>8, Zenon
  <2> QED
    BY <2>3 DEF RoomForTheRest
<1>12. NothingLeftBehind' /\ WorkLeft'
  BY <1>2, SMT DEF NothingLeftBehind, WorkLeft
<1> QED
  BY <1>9, <1>10, <1>11, <1>12 DEF IInv

LEMMA EmitEndsKeeps ==
  ASSUME IInv, EmitEnds
  PROVE  IInv'
<1>1. UNCHANGED <<mReceiveBuffer, mReceiveDataQueue, received, processed>>
  BY DEF EmitEnds
<1>2. StreamPreserved'
  BY <1>1 DEF IInv, StreamPreserved, Bytes
<1>3. TypeOK'
  BY <1>1 DEF IInv, TypeOK, EmitEnds
<1>4. NothingLeftBehind' /\ RoomForTheRest' /\ WorkLeft'
  BY <1>1 DEF EmitEnds, NothingLeftBehind, RoomForTheRest, WorkLeft
<1> QED
  BY <1>2, <1>3, <1>4 DEF IInv

LEMMA WorkKeeps ==
  ASSUME IInv, ReceiveInternalWork
  PROVE  IInv'
<1> USE BufferAssumption
<1> DEFINE p == Len(processed)
           q == Len(mReceiveDataQueue)
           b == Len(mReceiveBuffer)
<1>1. /\ p \in Nat /\ q \in Nat /\ b \in Nat /\ mBufferSize \in Nat
      /\ processed = Bytes(0, p)
      /\ mReceiveBuffer = Bytes(p + q * mBufferSize, b)
      /\ received = p + q * mBufferSize + b
  BY Lengths DEF IInv, StreamPreserved
<1>2. /\ at = "work"
      /\ processed' = processed \o Head(mReceiveDataQueue)
      /\ mReceiveDataQueue' = Tail(mReceiveDataQueue)
      /\ UNCHANGED <<mReceiveBuffer, received>>
  BY DEF ReceiveInternalWork
<1>3. /\ mReceiveDataQueue # <<>> /\ b <= mBufferSize
      /\ mReceiveDataQueue \in Seq(Seq(Positions))
  BY <1>2 DEF IInv, WorkLeft, TypeOK
<1>4. /\ Head(mReceiveDataQueue) = mReceiveDataQueue[1]
      /\ mReceiveDataQueue' \in Seq(Seq(Positions))
      /\ Len(mReceiveDataQueue') = q - 1
      /\ q >= 1
      /\ \A k \in 1 .. q - 1 : mReceiveDataQueue'[k] = mReceiveDataQueue[k + 1]
  BY <1>2, <1>3, HeadTailProperties, SMT
<1>5. \A k \in 1 .. q :
        mReceiveDataQueue[k] = Bytes(p + (k - 1) * mBufferSize, mBufferSize)
  <2>1. DOMAIN mReceiveDataQueue = 1 .. q
    BY <1>3, SMT
  <2> QED
    BY <2>1 DEF IInv, StreamPreserved
<1>6. processed' = Bytes(0, p + mBufferSize)
  <2>1. 1 \in 1 .. q /\ p + (1 - 1) * mBufferSize = 0 + p
    BY <1>1, <1>4, SMT
  <2>2. Head(mReceiveDataQueue) = Bytes(0 + p, mBufferSize)
    BY <2>1, <1>4, <1>5, Zenon
  <2>3. p \in Nat /\ mBufferSize \in Nat /\ 0 \in Nat
    BY <1>1, SMT
  <2>4. Bytes(0, p) \o Bytes(0 + p, mBufferSize) = Bytes(0, p + mBufferSize)
    BY <2>3, BytesConcat
  <2>5. processed' = Bytes(0, p) \o Head(mReceiveDataQueue)
    BY <1>1, <1>2, Zenon
  <2> QED
    BY <2>2, <2>4, <2>5, Zenon
<1>7. p + mBufferSize \in Nat
  BY <1>1, SMT
<1>8. processed' \in Seq(Positions) /\ Len(processed') = p + mBufferSize
  <2>1. 0 \in Nat
    BY SMT
  <2> QED
    BY <2>1, <1>6, <1>7, BytesSequence, Zenon
<1>9. at' \in {"armed", "work"} /\ (at' = "armed" <=> mReceiveDataQueue' = <<>>)
  BY DEF ReceiveInternalWork
<1>10. TypeOK'
  BY <1>2, <1>4, <1>8, <1>9 DEF IInv, TypeOK
<1>11. p + q * mBufferSize = (p + mBufferSize) + (q - 1) * mBufferSize
  BY <1>1, SMT
<1>12. StreamPreserved'
  <2>1. processed' = Bytes(0, Len(processed'))
    BY <1>6, <1>8, Zenon
  <2>2. ASSUME NEW k \in DOMAIN mReceiveDataQueue'
        PROVE  mReceiveDataQueue'[k] =
                 Bytes(Len(processed') + (k - 1) * mBufferSize, mBufferSize)
    <3>1. k \in 1 .. q - 1
      BY <1>1, <1>4, SMT
    <3>2. k + 1 \in 1 .. q /\ k \in Nat
      BY <1>1, <3>1, SMT
    <3>3. p + ((k + 1) - 1) * mBufferSize = (p + mBufferSize) + (k - 1) * mBufferSize
      BY <1>1, <3>2, SMT
    <3>4. mReceiveDataQueue[k + 1] = Bytes(p + ((k + 1) - 1) * mBufferSize, mBufferSize)
      BY <1>5, <3>2, Zenon
    <3> QED
      BY <1>4, <1>8, <3>1, <3>3, <3>4, Zenon
  <2>3. mReceiveBuffer' =
          Bytes(Len(processed') + Len(mReceiveDataQueue') * mBufferSize, Len(mReceiveBuffer'))
    BY <1>1, <1>2, <1>4, <1>8, <1>11, Zenon
  <2>4. received' =
          Len(processed') + Len(mReceiveDataQueue') * mBufferSize + Len(mReceiveBuffer')
    BY <1>1, <1>2, <1>4, <1>8, <1>11, Zenon
  <2> QED
    BY <2>1, <2>2, <2>3, <2>4, Zenon DEF StreamPreserved
<1>13. NothingLeftBehind' /\ RoomForTheRest' /\ WorkLeft'
  BY <1>2, <1>3, <1>9 DEF NothingLeftBehind, RoomForTheRest, WorkLeft
<1> QED
  BY <1>10, <1>12, <1>13 DEF IInv

\* In every reachable state the invariant holds.
THEOREM Invariance == Spec => []IInv
<1>1. IInv /\ [Next]_vars => IInv'
  <2> SUFFICES ASSUME IInv, [Next]_vars PROVE IInv'
    OBVIOUS
  <2>1. CASE \E dataSize \in 1 .. MAX_SOCK_RECVBUF : GrowBuffer(dataSize)
    BY <2>1, GrowKeeps
  <2>2. CASE Emit
    BY <2>2, EmitKeeps
  <2>3. CASE EmitEnds
    BY <2>3, EmitEndsKeeps
  <2>4. CASE ReceiveInternalWork
    BY <2>4, WorkKeeps
  <2>5. CASE UNCHANGED vars
    BY <2>5 DEF vars, IInv, TypeOK, StreamPreserved, NothingLeftBehind,
                RoomForTheRest, WorkLeft, Bytes
  <2> QED
    BY <2>1, <2>2, <2>3, <2>4, <2>5 DEF Next
<1> QED
  BY <1>1, InitIInv, PTL DEF Spec

\* FeedBack_Receive and ReceiveInternalWork: what is buffered, queued and handled are
\* sequences of bytes that were received, never of bytes that were not.
THEOREM TypeCorrect == Spec => []TypeOK
<1>1. IInv => TypeOK
  BY DEF IInv
<1> QED
  BY <1>1, Invariance, PTL

\* FeedBack_Receive and ReceiveInternalWork keep the client's stream: for every
\* DataPacket size, every receive buffer and every stream, no byte is lost,
\* repeated or moved on its way to the handler.
THEOREM StreamIsPreserved == Spec => []StreamPreserved
<1>1. IInv => StreamPreserved
  BY DEF IInv
<1> QED
  BY <1>1, Invariance, PTL

\* The next WSARecv is posted only when every DataPacket has been handled.
THEOREM NoneIsLeftBehind == Spec => []NothingLeftBehind
<1>1. IInv => NothingLeftBehind
  BY DEF IInv
<1> QED
  BY <1>1, Invariance, PTL
=============================================================================

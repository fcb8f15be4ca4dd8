------------------------ MODULE PacketOwnership_proofs ------------------------
(***************************************************************************)
(* Proofs about PacketOwnership, for every ring of at least two slots and  *)
(* every set of blocks.                                                    *)
(***************************************************************************)
EXTENDS PacketOwnership, TLAPS

\* The named objects are different from one another and from the slots.
LEMMA ObjectsAreDistinct ==
  /\ newPacket \in Objects /\ front \in Objects /\ packet \in Objects
  /\ data \in Objects /\ result \in Objects
  /\ newPacket # front /\ newPacket # packet /\ newPacket # data /\ newPacket # result
  /\ front # packet /\ front # data /\ front # result
  /\ packet # data /\ packet # result /\ data # result
  /\ \A i \in 0 .. MAX_QUEUE_SIZE - 1 :
       i \in Objects /\ i # newPacket /\ i # front /\ i # packet /\ i # data /\ i # result
  BY SizeAssumption, SMT DEF newPacket, front, packet, data, result, Objects

\* Types and OneOwner distinguish by answers, which no step changes.
LEMMA AnswersStays ==
  ASSUME UNCHANGED answers
  PROVE  (answers' => answers) /\ (answers => answers')
  OBVIOUS

\* Replacing what an object holds keeps the blocks in order: the one it held is gone,
\* a new one is its own.
LEMMA ReplaceKeeps ==
  ASSUME Types, Owned, OneOwner, NEW dst \in Objects, NEW holds \in BOOLEAN,
         Replace(dst, Buffer[dst], holds), UNCHANGED <<leaked, answers>>
  PROVE  /\ heap' \in SUBSET Blocks /\ leaked' \in SUBSET heap'
         /\ Buffer' \in [Objects -> Blocks \union {None}]
         /\ badFree' \in BOOLEAN
         /\ Owned' /\ OneOwner'
         /\ \A o \in Objects \ {dst} : Buffer'[o] = Buffer[o]
         /\ ~holds => Buffer'[dst] = None
<1> DEFINE b == Buffer[dst]
<1>1. /\ heap \in SUBSET Blocks /\ leaked \in SUBSET heap
      /\ Buffer \in [Objects -> Blocks \union {None}]
      /\ b \in Blocks \union {None} /\ None \notin Blocks
      /\ leaked' = leaked /\ answers' = answers
      /\ badFree \in BOOLEAN
  BY BlocksAssumption DEF Types
<1>2. b \notin leaked
  BY <1>1, Zenon DEF Types, OneOwner
<1>3. PICK new \in Blocks \union {None} :
        /\ Buffer' = [Buffer EXCEPT ![dst] = new]
        /\ heap' = (heap \ {b}) \union ({new} \ {None})
        /\ new \notin heap \ {b}
        /\ ~holds => new = None
  <2>1. CASE holds
    <3>1. PICK fresh \in Blocks \ (heap \ {b}) :
            heap' = (heap \ {b}) \union {fresh} /\ Buffer' = [Buffer EXCEPT ![dst] = fresh]
      BY <2>1, Zenon DEF Replace
    <3> QED
      BY <2>1, <3>1, <1>1, Zenon
  <2>2. CASE ~holds
    <3>1. heap' = heap \ {b} /\ Buffer' = [Buffer EXCEPT ![dst] = None]
      BY <2>2, Zenon DEF Replace
    <3> QED
      BY <2>2, <3>1, <1>1, Zenon
  <2> QED
    BY <2>1, <2>2
<1>4. badFree' = (badFree \/ b \notin heap \union {None})
  BY Zenon DEF Replace
<1> HIDE DEF b
<1>5. Buffer'[dst] = new /\ \A o \in Objects \ {dst} : Buffer'[o] = Buffer[o]
  BY <1>1, <1>3, Zenon
<1>6. Buffer' \in [Objects -> Blocks \union {None}]
  BY <1>1, <1>3, SMT
<1>7. heap' \in SUBSET Blocks /\ leaked' \in SUBSET heap'
  BY <1>1, <1>2, <1>3, Zenon
<1>8. Owned'
  <2> SUFFICES ASSUME NEW c \in heap' \ leaked'
               PROVE  \E o \in Objects : Buffer'[o] = c
    BY DEF Owned
  <2>1. CASE c = new
    BY <2>1, <1>5
  <2>2. CASE c # new
    <3>1. c \in heap \ leaked /\ c # b
      BY <2>2, <1>1, <1>3, Zenon
    <3>2. PICK o \in Objects : Buffer[o] = c
      BY <3>1 DEF Owned
    <3>3. o # dst
      BY <3>1, <3>2 DEF b
    <3> QED
      BY <3>2, <3>3, <1>5
  <2> QED
    BY <2>1, <2>2
<1>9. OneOwner'
  <2> SUFFICES ASSUME ~answers
               PROVE  /\ ~badFree'
                      /\ \A o \in Objects : Buffer'[o] \in (heap' \ leaked') \union {None}
                      /\ \A o, p \in Objects :
                           Buffer'[o] = Buffer'[p] => o = p \/ Buffer'[o] = None
    BY AnswersStays, Zenon DEF OneOwner
  <2>1. /\ ~badFree
        /\ \A o \in Objects : Buffer[o] \in (heap \ leaked) \union {None}
        /\ \A o, p \in Objects : Buffer[o] = Buffer[p] => o = p \/ Buffer[o] = None
    BY DEF OneOwner
  <2>2. ~badFree'
    BY <2>1, <1>4, Zenon DEF b
  <2>3. new \in (heap' \ leaked') \union {None}
    BY <1>1, <1>2, <1>3, Zenon
  <2>4. ASSUME NEW o \in Objects, o # dst, Buffer[o] # None
        PROVE  Buffer[o] \in (heap \ {b}) \ leaked /\ Buffer[o] # new
    <3>1. Buffer[o] \in heap \ leaked /\ Buffer[o] # b
      BY <2>1, <2>4, Zenon DEF b
    <3> QED
      BY <3>1, <1>3, Zenon
  <2>5. ASSUME NEW o \in Objects
        PROVE  Buffer'[o] \in (heap' \ leaked') \union {None}
    BY <2>3, <2>4, <1>1, <1>3, <1>5, Zenon
  <2>6. ASSUME NEW o \in Objects, NEW p \in Objects, Buffer'[o] = Buffer'[p]
        PROVE  o = p \/ Buffer'[o] = None
    <3>1. CASE o = dst /\ p = dst
      BY <3>1
    <3>2. CASE o = dst /\ p # dst
      BY <3>2, <2>4, <2>6, <1>5, Zenon
    <3>3. CASE o # dst /\ p = dst
      BY <3>3, <2>4, <2>6, <1>5, Zenon
    <3>4. CASE o # dst /\ p # dst
      BY <3>4, <2>1, <2>6, <1>5, Zenon
    <3> QED
      BY <3>1, <3>2, <3>3, <3>4, Zenon
  <2> QED
    BY <2>2, <2>5, <2>6, Zenon
<1>10. badFree' \in BOOLEAN
  BY <1>1, <1>4
<1> QED
  BY <1>3, <1>5, <1>6, <1>7, <1>8, <1>9, <1>10, Zenon

LEMMA InitIInv == Init => IInv
<1> SUFFICES ASSUME Init PROVE IInv
  OBVIOUS
<1>1. Types
  <2>1. 0 \in 0 .. MAX_QUEUE_SIZE - 1
    BY SizeAssumption, SMT
  <2> QED
    BY <2>1, Zenon DEF Init, Types
<1>2. \A o \in Objects : Buffer[o] = None
  BY DEF Init
<1>3. Unborn
  BY <1>2, ObjectsAreDistinct, Zenon DEF Unborn
<1>4. Owned /\ OneOwner
  BY <1>2, Zenon DEF Init, Owned, OneOwner
<1> QED
  BY <1>1, <1>3, <1>4 DEF IInv

-----------------------------------------------------------------------------
(* The steps that construct, assign or destroy a Packet. *)

\* What every such step has in common.
LEMMA PacketStepKeeps ==
  ASSUME IInv, NEW dst \in Objects, NEW holds \in BOOLEAN,
         Replace(dst, Buffer[dst], holds),
         UNCHANGED <<leaked, answers, contexts>>,
         UNCHANGED indices
  PROVE  /\ Types' /\ Owned' /\ OneOwner'
         /\ \A o \in Objects \ {dst} : Buffer'[o] = Buffer[o]
         /\ ~holds => Buffer'[dst] = None
<1>1. Types /\ Owned /\ OneOwner
  BY DEF IInv
<1>2. /\ heap' \in SUBSET Blocks /\ leaked' \in SUBSET heap'
      /\ Buffer' \in [Objects -> Blocks \union {None}]
      /\ badFree' \in BOOLEAN
      /\ Owned' /\ OneOwner'
      /\ \A o \in Objects \ {dst} : Buffer'[o] = Buffer[o]
      /\ ~holds => Buffer'[dst] = None
  BY <1>1, ReplaceKeeps
<1>3. Types'
  BY <1>1, <1>2, Zenon DEF Types, indices
<1> QED
  BY <1>2, <1>3

\* CopyConstruct on an object that is not alive.
LEMMA ConstructIsReplace ==
  ASSUME NEW dst \in Objects, NEW src \in Objects, Buffer[dst] = None,
         CopyConstruct(dst, src)
  PROVE  \E holds \in BOOLEAN : Replace(dst, Buffer[dst], holds)
  BY Zenon DEF CopyConstruct

LEMMA NewPacketKeeps ==
  ASSUME IInv, NewPacket, UNCHANGED answers
  PROVE  IInv'
<1>1. /\ Replace(newPacket, Buffer[newPacket], TRUE)
      /\ UNCHANGED <<leaked, answers, contexts>> /\ UNCHANGED indices
      /\ dispatcher' = "push" /\ worker' = worker
  BY DEF NewPacket, Set, DispatcherOnly, Dispatch
<1>2. /\ Types' /\ Owned' /\ OneOwner'
      /\ \A o \in Objects \ {newPacket} : Buffer'[o] = Buffer[o]
  BY <1>1, ObjectsAreDistinct, PacketStepKeeps
<1>3. Unborn'
  BY <1>1, <1>2, ObjectsAreDistinct, SMT DEF IInv, Unborn
<1> QED
  BY <1>2, <1>3 DEF IInv

LEMMA PushAssignsKeeps ==
  ASSUME IInv, PushAssigns, UNCHANGED answers
  PROVE  IInv'
<1>1. inputIndex \in 0 .. MAX_QUEUE_SIZE - 1
  BY DEF IInv, Types
<1>2. /\ inputIndex \in Objects /\ inputIndex # newPacket /\ inputIndex # front
      /\ inputIndex # packet /\ inputIndex # data /\ inputIndex # result
  BY <1>1, ObjectsAreDistinct, Zenon
<1>3. PICK holds \in BOOLEAN : Replace(inputIndex, Buffer[inputIndex], holds)
  BY Zenon DEF PushAssigns, CopyAssign
<1>4. /\ UNCHANGED <<leaked, answers, contexts>> /\ UNCHANGED indices
      /\ dispatcher = "push" /\ dispatcher' = "store" /\ worker' = worker
  BY DEF PushAssigns, DispatcherOnly, Dispatch
<1>5. /\ Types' /\ Owned' /\ OneOwner'
      /\ \A o \in Objects \ {inputIndex} : Buffer'[o] = Buffer[o]
  BY <1>2, <1>3, <1>4, PacketStepKeeps
<1>6. Unborn'
  BY <1>2, <1>4, <1>5, ObjectsAreDistinct, SMT DEF IInv, Unborn
<1> QED
  BY <1>5, <1>6 DEF IInv

LEMMA DestroyNewPacketKeeps ==
  ASSUME IInv, DestroyNewPacket, UNCHANGED answers
  PROVE  IInv'
<1>1. /\ Replace(newPacket, Buffer[newPacket], FALSE)
      /\ UNCHANGED <<leaked, answers, contexts>> /\ UNCHANGED indices
      /\ dispatcher' = "idle" /\ worker' = worker
  BY DEF DestroyNewPacket, Destroy, DispatcherOnly, Dispatch
<1>2. /\ Types' /\ Owned' /\ OneOwner' /\ Buffer'[newPacket] = None
      /\ \A o \in Objects \ {newPacket} : Buffer'[o] = Buffer[o]
  BY <1>1, ObjectsAreDistinct, PacketStepKeeps
<1>3. Unborn'
  BY <1>1, <1>2, ObjectsAreDistinct, SMT DEF IInv, Unborn
<1> QED
  BY <1>2, <1>3 DEF IInv

\* A step of the worker that constructs one of its objects as it comes alive.
LEMMA WorkerConstructs ==
  ASSUME IInv, UNCHANGED answers,
         NEW dst \in {front, packet, data, result}, NEW src \in Objects,
         Buffer[dst] = None, CopyConstruct(dst, src),
         UNCHANGED <<inputIndex, dispatcher, outputIndex, leaked, contexts>>
  PROVE  /\ Types' /\ Owned' /\ OneOwner' /\ dispatcher' = dispatcher
         /\ \A o \in Objects \ {dst} : Buffer'[o] = Buffer[o]
<1>1. dst \in Objects
  BY ObjectsAreDistinct, Zenon
<1>2. PICK holds \in BOOLEAN : Replace(dst, Buffer[dst], holds)
  BY <1>1, ConstructIsReplace
<1>3. UNCHANGED <<leaked, answers, contexts>> /\ UNCHANGED indices
  BY DEF indices
<1> QED
  BY <1>1, <1>2, <1>3, PacketStepKeeps

\* A step of the worker that destroys one of them.
LEMMA WorkerDestroys ==
  ASSUME IInv, UNCHANGED answers,
         NEW dst \in {front, packet, data, result}, Destroy(dst),
         UNCHANGED <<inputIndex, dispatcher, outputIndex, leaked, contexts>>
  PROVE  /\ Types' /\ Owned' /\ OneOwner' /\ dispatcher' = dispatcher
         /\ Buffer'[dst] = None
         /\ \A o \in Objects \ {dst} : Buffer'[o] = Buffer[o]
<1>1. dst \in Objects
  BY ObjectsAreDistinct, Zenon
<1>2. Replace(dst, Buffer[dst], FALSE)
  BY DEF Destroy
<1>3. UNCHANGED <<leaked, answers, contexts>> /\ UNCHANGED indices
  BY DEF indices
<1> QED
  BY <1>1, <1>2, <1>3, PacketStepKeeps

LEMMA FrontKeeps ==
  ASSUME IInv, Front, UNCHANGED answers
  PROVE  IInv'
<1>1. outputIndex \in Objects
  BY ObjectsAreDistinct DEF IInv, Types
<1>2. /\ worker = "idle" /\ worker' = "call" /\ CopyConstruct(front, outputIndex)
      /\ UNCHANGED <<inputIndex, dispatcher, outputIndex, leaked, contexts>>
  BY DEF Front, Work, WorkerOnly
<1>3. Buffer[front] = None
  BY <1>2, SMT DEF IInv, Unborn
<1>4. /\ Types' /\ Owned' /\ OneOwner' /\ dispatcher' = dispatcher
      /\ \A o \in Objects \ {front} : Buffer'[o] = Buffer[o]
  BY <1>1, <1>2, <1>3, WorkerConstructs
<1>5. Unborn'
  BY <1>2, <1>4, ObjectsAreDistinct, SMT DEF IInv, Unborn
<1> QED
  BY <1>4, <1>5 DEF IInv

LEMMA CallKeeps ==
  ASSUME IInv, Call, UNCHANGED answers
  PROVE  IInv'
<1>1. /\ worker = "call" /\ worker' = "callback" /\ CopyConstruct(packet, front)
      /\ UNCHANGED <<inputIndex, dispatcher, outputIndex, leaked, contexts>>
  BY DEF Call, Work, WorkerOnly
<1>2. Buffer[packet] = None
  BY <1>1, SMT DEF IInv, Unborn
<1>3. /\ Types' /\ Owned' /\ OneOwner' /\ dispatcher' = dispatcher
      /\ \A o \in Objects \ {packet} : Buffer'[o] = Buffer[o]
  BY <1>1, <1>2, ObjectsAreDistinct, WorkerConstructs
<1>4. Unborn'
  BY <1>1, <1>3, ObjectsAreDistinct, SMT DEF IInv, Unborn
<1> QED
  BY <1>3, <1>4 DEF IInv

LEMMA ReturnKeeps ==
  ASSUME IInv, Return, UNCHANGED answers
  PROVE  IInv'
<1>1. /\ worker = "return" /\ worker' = "returned" /\ Destroy(packet)
      /\ UNCHANGED <<inputIndex, dispatcher, outputIndex, leaked, contexts>>
  BY DEF Return, Work, WorkerOnly
<1>2. /\ Types' /\ Owned' /\ OneOwner' /\ dispatcher' = dispatcher /\ Buffer'[packet] = None
      /\ \A o \in Objects \ {packet} : Buffer'[o] = Buffer[o]
  BY <1>1, WorkerDestroys
<1>3. Unborn'
  BY <1>1, <1>2, ObjectsAreDistinct, SMT DEF IInv, Unborn
<1> QED
  BY <1>2, <1>3 DEF IInv

LEMMA DestroyFrontKeeps ==
  ASSUME IInv, DestroyFront, UNCHANGED answers
  PROVE  IInv'
<1>1. /\ worker = "returned" /\ worker' = "pop" /\ Destroy(front)
      /\ UNCHANGED <<inputIndex, dispatcher, outputIndex, leaked, contexts>>
  BY DEF DestroyFront, Work, WorkerOnly
<1>2. /\ Types' /\ Owned' /\ OneOwner' /\ dispatcher' = dispatcher /\ Buffer'[front] = None
      /\ \A o \in Objects \ {front} : Buffer'[o] = Buffer[o]
  BY <1>1, WorkerDestroys
<1>3. Unborn'
  BY <1>1, <1>2, ObjectsAreDistinct, SMT DEF IInv, Unborn
<1> QED
  BY <1>2, <1>3 DEF IInv

LEMMA PopCopiesKeeps ==
  ASSUME IInv, PopCopies, UNCHANGED answers
  PROVE  IInv'
<1>1. outputIndex \in Objects
  BY ObjectsAreDistinct DEF IInv, Types
<1>2. /\ worker = "pop" /\ worker' = "release" /\ CopyConstruct(data, outputIndex)
      /\ UNCHANGED <<inputIndex, dispatcher, outputIndex, leaked, contexts>>
  BY DEF PopCopies, Work, WorkerOnly
<1>3. Buffer[data] = None
  BY <1>2, SMT DEF IInv, Unborn
<1>4. /\ Types' /\ Owned' /\ OneOwner' /\ dispatcher' = dispatcher
      /\ \A o \in Objects \ {data} : Buffer'[o] = Buffer[o]
  BY <1>1, <1>2, <1>3, WorkerConstructs
<1>5. Unborn'
  BY <1>2, <1>4, ObjectsAreDistinct, SMT DEF IInv, Unborn
<1> QED
  BY <1>4, <1>5 DEF IInv

LEMMA PopReturnsKeeps ==
  ASSUME IInv, PopReturns, UNCHANGED answers
  PROVE  IInv'
<1>1. UNCHANGED <<inputIndex, dispatcher, outputIndex, leaked, contexts>>
  BY DEF PopReturns, WorkerOnly
<1>2. CASE worker = "result" /\ worker' = "drop" /\ CopyConstruct(result, data)
  <2>1. Buffer[result] = None
    BY <1>2, SMT DEF IInv, Unborn
  <2>2. /\ Types' /\ Owned' /\ OneOwner' /\ dispatcher' = dispatcher
        /\ \A o \in Objects \ {result} : Buffer'[o] = Buffer[o]
    BY <1>1, <1>2, <2>1, ObjectsAreDistinct, WorkerConstructs
  <2>3. Unborn'
    BY <1>2, <2>2, ObjectsAreDistinct, SMT DEF IInv, Unborn
  <2> QED
    BY <2>2, <2>3 DEF IInv
<1>3. CASE worker = "result" /\ worker' = "last" /\ Destroy(data)
  <2>1. /\ Types' /\ Owned' /\ OneOwner' /\ dispatcher' = dispatcher /\ Buffer'[data] = None
        /\ \A o \in Objects \ {data} : Buffer'[o] = Buffer[o]
    BY <1>1, <1>3, WorkerDestroys
  <2>2. Unborn'
    BY <1>3, <2>1, ObjectsAreDistinct, SMT DEF IInv, Unborn
  <2> QED
    BY <2>1, <2>2 DEF IInv
<1> QED
  BY <1>2, <1>3 DEF PopReturns, Work

LEMMA DropDataKeeps ==
  ASSUME IInv, DropData, UNCHANGED answers
  PROVE  IInv'
<1>1. /\ worker = "drop" /\ worker' = "last" /\ Destroy(data)
      /\ UNCHANGED <<inputIndex, dispatcher, outputIndex, leaked, contexts>>
  BY DEF DropData, Work, WorkerOnly
<1>2. /\ Types' /\ Owned' /\ OneOwner' /\ dispatcher' = dispatcher /\ Buffer'[data] = None
      /\ \A o \in Objects \ {data} : Buffer'[o] = Buffer[o]
  BY <1>1, WorkerDestroys
<1>3. Unborn'
  BY <1>1, <1>2, ObjectsAreDistinct, SMT DEF IInv, Unborn
<1> QED
  BY <1>2, <1>3 DEF IInv

LEMMA DropResultKeeps ==
  ASSUME IInv, DropResult, UNCHANGED answers
  PROVE  IInv'
<1>1. /\ worker = "last" /\ worker' = "idle" /\ Destroy(result)
      /\ UNCHANGED <<inputIndex, dispatcher, outputIndex, leaked, contexts>>
  BY DEF DropResult, Work, WorkerOnly
<1>2. /\ Types' /\ Owned' /\ OneOwner' /\ dispatcher' = dispatcher /\ Buffer'[result] = None
      /\ \A o \in Objects \ {result} : Buffer'[o] = Buffer[o]
  BY <1>1, WorkerDestroys
<1>3. Unborn'
  BY <1>1, <1>2, ObjectsAreDistinct, SMT DEF IInv, Unborn
<1> QED
  BY <1>2, <1>3 DEF IInv

-----------------------------------------------------------------------------
(* The other steps. *)

LEMMA IndexInRange ==
  ASSUME NEW i \in 0 .. MAX_QUEUE_SIZE - 1
  PROVE  (i + 1) % MAX_QUEUE_SIZE \in 0 .. MAX_QUEUE_SIZE - 1
  BY SizeAssumption, SMT

LEMMA IndexStepKeeps ==
  ASSUME IInv, UNCHANGED answers, PushRefuses \/ PushStores \/ PopStores
  PROVE  IInv'
<1>1. /\ UNCHANGED <<heap, Buffer, badFree, leaked, contexts, answers>>
      /\ inputIndex' \in {inputIndex, (inputIndex + 1) % MAX_QUEUE_SIZE}
      /\ outputIndex' \in {outputIndex, (outputIndex + 1) % MAX_QUEUE_SIZE}
      /\ dispatcher' = "idle" => dispatcher = "idle"
      /\ \/ worker' = worker
         \/ worker = "release" /\ worker' = "result"
  BY DEF PushRefuses, PushStores, PopStores, Dispatch, Work, DispatcherOnly, WorkerOnly, indices
<1>2. Types'
  <2>1. inputIndex \in 0 .. MAX_QUEUE_SIZE - 1 /\ outputIndex \in 0 .. MAX_QUEUE_SIZE - 1
    BY DEF IInv, Types
  <2>2. inputIndex' \in 0 .. MAX_QUEUE_SIZE - 1 /\ outputIndex' \in 0 .. MAX_QUEUE_SIZE - 1
    BY <1>1, <2>1, IndexInRange
  <2> QED
    BY <1>1, <2>2, AnswersStays, Zenon DEF IInv, Types
<1>3. Unborn'
  BY <1>1, SMT DEF IInv, Unborn
<1>4. Owned' /\ OneOwner'
  BY <1>1, AnswersStays, Zenon DEF IInv, Owned, OneOwner
<1> QED
  BY <1>2, <1>3, <1>4 DEF IInv

LEMMA FeedBack_ReceiveKeeps ==
  ASSUME IInv, FeedBack_Receive, UNCHANGED answers
  PROVE  IInv'
<1>1. /\ ~answers /\ worker = "callback" /\ worker' = "return"
      /\ UNCHANGED <<Buffer, inputIndex, outputIndex, dispatcher, contexts, badFree, answers>>
  BY DEF FeedBack_Receive, Work, WorkerOnly
<1>2. Unborn'
  BY <1>1, SMT DEF IInv, Unborn
<1>3. CASE UNCHANGED <<heap, leaked>>
  BY <1>1, <1>2, <1>3, AnswersStays, Zenon DEF IInv, Types, Owned, OneOwner
<1>4. CASE \E fresh \in Blocks \ heap :
             heap' = heap \union {fresh} /\ leaked' = leaked \union {fresh}
  <2>1. PICK fresh \in Blocks \ heap :
          heap' = heap \union {fresh} /\ leaked' = leaked \union {fresh}
    BY <1>4
  <2>2. leaked \in SUBSET heap /\ heap \in SUBSET Blocks
    BY DEF IInv, Types
  <2>3. heap' \ leaked' = heap \ leaked
    BY <2>1, <2>2, Zenon
  <2>4. Types'
    BY <1>1, <2>1, <2>2, AnswersStays, Zenon DEF IInv, Types
  <2>5. Owned' /\ OneOwner'
    BY <1>1, <2>3, AnswersStays, Zenon DEF IInv, Owned, OneOwner
  <2> QED
    BY <1>2, <2>4, <2>5 DEF IInv
<1> QED
  BY <1>3, <1>4 DEF FeedBack_Receive

LEMMA SendRequestKeeps ==
  ASSUME IInv, SendRequest, UNCHANGED answers
  PROVE  IInv'
<1>1. /\ answers /\ worker = "callback" /\ worker' = "return"
      /\ UNCHANGED <<heap, Buffer, inputIndex, outputIndex, dispatcher, leaked, badFree, answers>>
  BY DEF SendRequest, Work, WorkerOnly
<1>2. Unborn'
  BY <1>1, SMT DEF IInv, Unborn
<1>3. Types' /\ Owned' /\ OneOwner'
  BY <1>1, AnswersStays, Zenon DEF IInv, Types, Owned, OneOwner
<1> QED
  BY <1>2, <1>3 DEF IInv

\* The buffer of a context may be that of a Packet; no block is lost by deleting it.
LEMMA FeedBack_SendKeeps ==
  ASSUME IInv, FeedBack_Send, UNCHANGED answers
  PROVE  IInv'
<1>1. /\ contexts # <<>> /\ heap' = heap \ {Head(contexts)}
      /\ badFree' = (badFree \/ Head(contexts) \notin heap)
      /\ UNCHANGED <<Buffer, inputIndex, outputIndex, dispatcher, worker, leaked, answers>>
  BY DEF FeedBack_Send, indices
<1>2. answers /\ leaked = {}
  BY <1>1, Zenon DEF IInv, Types
<1>3. Types'
  BY <1>1, <1>2, Zenon DEF IInv, Types
<1>4. Unborn' /\ Owned' /\ OneOwner'
  BY <1>1, <1>2, Zenon DEF IInv, Unborn, Owned, OneOwner
<1> QED
  BY <1>3, <1>4 DEF IInv

\* In every reachable state the invariant holds.
THEOREM Invariance == Spec => []IInv
<1>1. IInv /\ [Next]_vars => IInv'
  <2> SUFFICES ASSUME IInv, [Next]_vars PROVE IInv'
    OBVIOUS
  <2>1. CASE UNCHANGED vars
    BY <2>1, Zenon DEF vars, IInv, Types, Unborn, Owned, OneOwner
  <2>2. CASE Next
    <3>1. UNCHANGED answers
      BY <2>2 DEF Next
    <3>2. CASE NewPacket
      BY <3>1, <3>2, NewPacketKeeps
    <3>3. CASE PushAssigns
      BY <3>1, <3>3, PushAssignsKeeps
    <3>4. CASE PushRefuses \/ PushStores \/ PopStores
      BY <3>1, <3>4, IndexStepKeeps
    <3>5. CASE DestroyNewPacket
      BY <3>1, <3>5, DestroyNewPacketKeeps
    <3>6. CASE Front
      BY <3>1, <3>6, FrontKeeps
    <3>7. CASE Call
      BY <3>1, <3>7, CallKeeps
    <3>8. CASE FeedBack_Receive
      BY <3>1, <3>8, FeedBack_ReceiveKeeps
    <3>9. CASE SendRequest
      BY <3>1, <3>9, SendRequestKeeps
    <3>10. CASE Return
      BY <3>1, <3>10, ReturnKeeps
    <3>11. CASE DestroyFront
      BY <3>1, <3>11, DestroyFrontKeeps
    <3>12. CASE PopCopies
      BY <3>1, <3>12, PopCopiesKeeps
    <3>13. CASE PopReturns
      BY <3>1, <3>13, PopReturnsKeeps
    <3>14. CASE DropData
      BY <3>1, <3>14, DropDataKeeps
    <3>15. CASE DropResult
      BY <3>1, <3>15, DropResultKeeps
    <3>16. CASE FeedBack_Send
      BY <3>1, <3>16, FeedBack_SendKeeps
    <3> QED
      BY <2>2, <3>2, <3>3, <3>4, <3>5, <3>6, <3>7, <3>8, <3>9, <3>10, <3>11, <3>12,
         <3>13, <3>14, <3>15, <3>16 DEF Next
  <2> QED
    BY <2>1, <2>2
<1> QED
  BY <1>1, InitIInv, PTL DEF Spec

-----------------------------------------------------------------------------

\* Packet's constructors, assignment and destructor, as the queue and the callback use
\* them: for every ring, no block that a Packet holds is shared, used after delete[] or
\* deleted twice, as long as the callback does not hand its packet's buffer on.
THEOREM EveryBlockHasOneOwner == Spec => []OneOwner
<1>1. IInv => OneOwner
  BY DEF IInv
<1> QED
  BY <1>1, Invariance, PTL

\* Whether the callback answers or not, no step of dispatcher or worker loses a block:
\* only the buffers of handled DataPackets are left behind.
THEOREM NoBlockIsLost == Spec => []NoneLost
<1>1. IInv => NoneLost
  BY DEF IInv, Owned, NoneLost
<1> QED
  BY <1>1, Invariance, PTL
=============================================================================

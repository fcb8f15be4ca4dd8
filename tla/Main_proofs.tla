---------------------------- MODULE Main_proofs ----------------------------
(***************************************************************************)
(* Proofs about the whole program, for any number of sockets, clients,     *)
(* segments and packets, and whichever calls of the set-up fail.           *)
(*                                                                         *)
(* The running server comes first: EchoServer's safety properties, and     *)
(* that it implements ConnectionLifecycle.  The chains of a client are     *)
(* numbers of places of the port and the queues.  So first come lemmas on  *)
(* counting the positions of a sequence, then the types, then how each     *)
(* step changes the counts, then the inductive invariant ServerInv, action *)
(* by action.  That no packet is dropped needs more: NoneLost, and the     *)
(* argument that the packets behind the first of a queue and the           *)
(* completion to dispatch are of different clients.                        *)
(*                                                                         *)
(* Then Main: what the set-up leaves behind when a call fails, and that    *)
(* only a set-up in which none did ever has an AcceptEx in flight.  Every  *)
(* step of the program is one of EchoServer or leaves it alone, so what    *)
(* is shown of EchoServer holds of the program, whatever fails.            *)
(***************************************************************************)
EXTENDS Main, FiniteSetTheorems, FunctionTheorems, SequenceTheorems, TLAPS

-----------------------------------------------------------------------------
(* Counting the positions of a sequence that hold a member of a set. *)

Positions(s, M) == {i \in DOMAIN s : s[i] \in M}
Count(s, M) == Cardinality(Positions(s, M))

LEMMA NotEmpty ==
  ASSUME NEW T, IsFiniteSet(T), NEW x \in T
  PROVE  Cardinality(T) \in Nat \ {0}
<1>1. Cardinality(T) \in Nat
  BY FS_CardinalityType
<1>2. Cardinality(T) = 0 => T = {}
  BY FS_EmptySet
<1> QED
  BY <1>1, <1>2

LEMMA CountType ==
  ASSUME NEW S, NEW s \in Seq(S), NEW M
  PROVE  /\ IsFiniteSet(Positions(s, M))
         /\ Count(s, M) \in Nat
<1>1. IsFiniteSet(1 .. Len(s)) /\ DOMAIN s = 1 .. Len(s)
  BY LenProperties, FS_Interval
<1>2. IsFiniteSet(Positions(s, M))
  BY <1>1, FS_Subset DEF Positions
<1> QED
  BY <1>2, FS_CardinalityType DEF Count

\* A position that holds a member is counted, two are counted twice.
LEMMA CountOne ==
  ASSUME NEW S, NEW s \in Seq(S), NEW M, NEW i \in DOMAIN s, s[i] \in M
  PROVE  Count(s, M) >= 1
<1>1. i \in Positions(s, M)
  BY DEF Positions
<1> QED
  BY <1>1, CountType, NotEmpty DEF Count

LEMMA CountTwo ==
  ASSUME NEW S, NEW s \in Seq(S), NEW M,
         NEW i \in DOMAIN s, NEW j \in DOMAIN s, i # j, s[i] \in M, s[j] \in M
  PROVE  Count(s, M) >= 2
<1> DEFINE P == Positions(s, M)
<1>1. i \in P /\ j \in P /\ IsFiniteSet(P) /\ Cardinality(P) \in Nat
  BY CountType DEF Positions, Count
<1>2. Cardinality(P \ {i}) = Cardinality(P) - 1 /\ IsFiniteSet(P \ {i})
  BY <1>1, FS_RemoveElement
<1>3. j \in P \ {i}
  BY <1>1
<1>4. Cardinality(P \ {i}) \in Nat \ {0}
  BY <1>2, <1>3, NotEmpty
<1> QED
  BY <1>1, <1>2, <1>4 DEF Count

LEMMA CountEmpty ==
  ASSUME NEW M
  PROVE  Count(<<>>, M) = 0
<1>1. Positions(<<>>, M) = {}
  <2>1. <<>> \in Seq({}) /\ Len(<<>>) = 0
    BY EmptySeq
  <2>2. DOMAIN <<>> = 1 .. 0
    BY <2>1, LenProperties
  <2> QED
    BY <2>2 DEF Positions
<1> QED
  BY <1>1, FS_EmptySet DEF Count

LEMMA CountAppend ==
  ASSUME NEW S, NEW s \in Seq(S), NEW e \in S, NEW M
  PROVE  Count(Append(s, e), M) = Count(s, M) + (IF e \in M THEN 1 ELSE 0)
<1> DEFINE P == Positions(s, M)
           n == Len(s) + 1
           t == Append(s, e)
<1>1. /\ DOMAIN s = 1 .. Len(s)
      /\ Len(s) \in Nat
      /\ DOMAIN t = 1 .. n
      /\ \A i \in 1 .. Len(s) : t[i] = s[i]
      /\ t[n] = e
  <2>1. t \in Seq(S) /\ Len(t) = n
    BY AppendProperties
  <2>2. DOMAIN t = 1 .. n
    BY <2>1, LenProperties
  <2> QED
    BY <2>2, AppendProperties, LenProperties
<1>2. IsFiniteSet(P) /\ Cardinality(P) \in Nat
  BY CountType DEF Count
<1>3. n \notin P
  BY <1>1 DEF Positions
<1>4. Positions(t, M) = IF e \in M THEN P \union {n} ELSE P
  <2> HIDE DEF t
  <2>1. DOMAIN t = DOMAIN s \union {n}
    BY <1>1
  <2> QED
    BY <1>1, <2>1 DEF Positions
<1> HIDE DEF P, t, n
<1>5. Cardinality(P \union {n}) = Cardinality(P) + 1
  BY <1>2, <1>3, FS_AddElement
<1>6. Cardinality(Positions(t, M)) = Cardinality(P) + (IF e \in M THEN 1 ELSE 0)
  BY <1>2, <1>4, <1>5
<1> QED
  BY <1>6 DEF Count, P, t

LEMMA CountTail ==
  ASSUME NEW S, NEW s \in Seq(S), s # <<>>, NEW M
  PROVE  Count(Tail(s), M) = Count(s, M) - (IF Head(s) \in M THEN 1 ELSE 0)
<1> DEFINE P == Positions(s, M)
           Q == Positions(Tail(s), M)
           f == [i \in Q |-> i + 1]
<1>1. /\ DOMAIN s = 1 .. Len(s)
      /\ Len(s) \in Nat \ {0}
      /\ DOMAIN Tail(s) = 1 .. Len(s) - 1
      /\ \A i \in 1 .. Len(s) - 1 : Tail(s)[i] = s[i + 1]
      /\ Head(s) = s[1]
  <2>1. Tail(s) \in Seq(S) /\ Len(Tail(s)) = Len(s) - 1
    BY HeadTailProperties
  <2>2. DOMAIN Tail(s) = 1 .. Len(s) - 1
    BY <2>1, LenProperties
  <2>3. Len(s) \in Nat \ {0}
    BY EmptySeq
  <2> QED
    BY <2>1, <2>2, <2>3, HeadTailProperties, LenProperties
<1>2. IsFiniteSet(P) /\ IsFiniteSet(Q) /\ Cardinality(P) \in Nat
  BY CountType, HeadTailProperties DEF Count
<1>3. f \in Bijection(Q, P \ {1})
  <2>1. Q \subseteq Nat /\ P \subseteq Nat
    BY <1>1 DEF Positions
  <2>2. f \in [Q -> P \ {1}]
    BY <1>1 DEF Positions
  <2>3. \A i, j \in Q : f[i] = f[j] => i = j
    BY <2>1
  <2>4. \A k \in P \ {1} : k - 1 \in Q /\ f[k - 1] = k
    BY <1>1, <2>1 DEF Positions
  <2>5. \A k \in P \ {1} : \E i \in Q : f[i] = k
    BY <2>4
  <2> HIDE DEF f, P, Q
  <2> QED
    BY <2>2, <2>3, <2>5, Fun_IsBij
<1>4. Cardinality(Q) = Cardinality(P \ {1})
  BY <1>2, <1>3, FS_Bijection DEF ExistsBijection
<1>5. 1 \in P <=> Head(s) \in M
  BY <1>1 DEF Positions
<1> HIDE DEF P, Q
<1>6. Cardinality(P \ {1}) = IF 1 \in P THEN Cardinality(P) - 1 ELSE Cardinality(P)
  BY <1>2, FS_RemoveElement
<1>7. Cardinality(Q) = Cardinality(P) - (IF Head(s) \in M THEN 1 ELSE 0)
  BY <1>2, <1>4, <1>5, <1>6
<1> QED
  BY <1>7 DEF Count, P, Q

-----------------------------------------------------------------------------
(* Types. *)

LEMMA HeadInPort ==
  ASSUME IOCP!TypeOK, port # <<>>
  PROVE  Head(port) \in IOCP!Completion /\ Tail(port) \in Seq(IOCP!Completion)
BY HeadTailProperties DEF IOCP!TypeOK

\* What Dispatch does with the oldest completion.
LEMMA DispatchPushes ==
  ASSUME IOCP!TypeOK, IOCP!Dispatch
  PROVE  /\ IOCP!PacketOf(Head(port)) \in IOCP!Packet
         /\ \A w \in IOCP!Workers :
              queue'[w] = IF w \in IOCP!Destinations(Head(port)) /\ Len(queue[w]) < Capacity
                          THEN Append(queue[w], IOCP!PacketOf(Head(port)))
                          ELSE queue[w]
         /\ queue' \in [IOCP!Workers -> Seq(IOCP!Packet)]
<1> DEFINE h == Head(port)
           pk == IOCP!PacketOf(h)
<1>1. h \in IOCP!Completion
  BY HeadInPort DEF IOCP!Dispatch
<1>2. pk \in IOCP!Packet
  BY <1>1 DEF IOCP!PacketOf, IOCP!Packet, IOCP!Completion
<1>3. \A v, w \in IOCP!Destinations(h) : v = w /\ w \in IOCP!Workers
  BY <1>1 DEF IOCP!Destinations, IOCP!Completion, IOCP!Operations, IOCP!Workers
<1> HIDE DEF pk, h
<1>4. \A w \in IOCP!Workers : Append(queue[w], pk) \in Seq(IOCP!Packet)
  BY <1>2, AppendProperties DEF IOCP!TypeOK
<1>5. \A w \in IOCP!Workers :
        queue'[w] = IF w \in IOCP!Destinations(h) /\ Len(queue[w]) < Capacity
                    THEN Append(queue[w], pk) ELSE queue[w]
  BY <1>3 DEF IOCP!Dispatch, IOCP!Push, IOCP!TypeOK, h, pk
<1>6. queue' \in [IOCP!Workers -> Seq(IOCP!Packet)]
  BY <1>3, <1>4 DEF IOCP!Dispatch, IOCP!Push, IOCP!TypeOK, h, pk
<1> QED
  BY <1>2, <1>5, <1>6 DEF h, pk

LEMMA DispatchKeepsTypes ==
  ASSUME ServerTypes, Dispatcher
  PROVE  ServerTypes'
<1> DEFINE pk == IOCP!PacketOf(Head(port))
<1>1. IOCP!TypeOK /\ IOCP!Dispatch
  BY DEF ServerTypes, TypeOK, Dispatcher
<1>2. /\ pk \in IOCP!Packet
      /\ \A w \in IOCP!Workers :
           queue'[w] = IF w \in IOCP!Destinations(Head(port)) /\ Len(queue[w]) < Capacity
                       THEN Append(queue[w], pk) ELSE queue[w]
      /\ queue' \in [IOCP!Workers -> Seq(IOCP!Packet)]
  BY <1>1, DispatchPushes
<1>3. port' = Tail(port) /\ port # <<>> /\ working' = working
  BY <1>1 DEF IOCP!Dispatch
<1> HIDE DEF pk
<1>4. \A w \in IOCP!Workers :
        /\ Len(Append(queue[w], pk)) = Len(queue[w]) + 1
        /\ Append(queue[w], pk) # <<>>
        /\ queue[w] # <<>> => Head(Append(queue[w], pk)) = Head(queue[w])
        /\ Len(queue[w]) \in Nat
  <2> TAKE w \in IOCP!Workers
  <2>1. queue[w] \in Seq(IOCP!Packet)
    BY <1>1 DEF IOCP!TypeOK
  <2> QED
    BY <1>2, <2>1, AppendProperties, HeadTailAppend, LenProperties
<1>5. \A w \in IOCP!Workers :
        /\ Len(queue'[w]) <= Capacity
        /\ queue[w] # <<>> => queue'[w] # <<>> /\ Head(queue'[w]) = Head(queue[w])
  <2> TAKE w \in IOCP!Workers
  <2>1. CASE w \in IOCP!Destinations(Head(port)) /\ Len(queue[w]) < Capacity
    <3>1. queue'[w] = Append(queue[w], pk)
      BY <1>2, <2>1
    <3>2. Capacity \in Nat /\ Len(queue[w]) \in Nat
      BY <1>4, CapacityAssumption
    <3>3. Len(queue'[w]) <= Capacity
      BY <1>4, <2>1, <3>1, <3>2
    <3> QED
      BY <1>4, <3>1, <3>3
  <2>2. CASE ~(w \in IOCP!Destinations(Head(port)) /\ Len(queue[w]) < Capacity)
    BY <1>1, <1>2, <2>2 DEF IOCP!TypeOK
  <2> QED
    BY <2>1, <2>2
<1>6. IOCP!TypeOK'
  BY <1>1, <1>2, <1>3, <1>5, HeadInPort DEF IOCP!TypeOK
<1>7. TypeOK' /\ InCallback'
  BY <1>3, <1>6 DEF ServerTypes, TypeOK, InCallback, Dispatcher, threadVars, socketVars,
                    supplyVars, peerVars, history, mClientDataConMap
<1>8. InHand'
  BY <1>3, <1>5 DEF ServerTypes, InHand, Callbacks, IOCP!Workers
<1>9. Segments'
  <2>1. DOMAIN port' = 1 .. Len(port) - 1 /\ DOMAIN port = 1 .. Len(port) /\ Len(port) \in Nat
    BY <1>1, <1>3, HeadTailProperties, LenProperties DEF IOCP!TypeOK
  <2>2. \A i \in DOMAIN port' : port'[i] = port[i + 1] /\ i + 1 \in DOMAIN port
    BY <1>1, <1>3, <2>1, HeadTailProperties DEF IOCP!TypeOK
  <2> QED
    BY <2>2 DEF ServerTypes, Segments, Dispatcher, peerVars
<1> QED
  BY <1>7, <1>8, <1>9 DEF ServerTypes

LEMMA StartKeepsTypes ==
  ASSUME ServerTypes, NEW w \in Callbacks, Start(w)
  PROVE  ServerTypes'
<1>1. w \in IOCP!Workers /\ IOCP!Call(w) /\ IOCP!TypeOK
  BY DEF ServerTypes, TypeOK, Start, Callbacks, IOCP!Workers
<1>2. Head(queue[w]) \in IOCP!Packet /\ Head(queue[w]) # None
  BY <1>1, HeadTailProperties, NoneAssumption DEF IOCP!TypeOK, IOCP!Call
<1>3. /\ port' = port /\ queue' = queue
      /\ working' \in [IOCP!Workers -> IOCP!Packet \union {None}]
      /\ working'[w] = Head(queue[w]) /\ queue[w] # <<>>
      /\ \A v \in IOCP!Workers : v # w => working'[v] = working[v]
  BY <1>1, <1>2 DEF IOCP!TypeOK, IOCP!Call
<1>4. IOCP!TypeOK'
  BY <1>1, <1>3 DEF IOCP!TypeOK
<1>5. InHand'
  BY <1>3 DEF ServerTypes, InHand, Callbacks, IOCP!Workers
<1>6. at' = [at EXCEPT ![w] = FirstStep(w)]
  BY DEF Start, Goto
<1>7. /\ FirstStep(w) \in {"return", "load", "feedback"}
      /\ w = "disconnect" => FirstStep(w) # "feedback"
      /\ w # "disconnect" => FirstStep(w) # "load"
  BY DEF FirstStep
<1> HIDE DEF FirstStep
<1>8. InCallback' /\ at' \in [Callbacks -> {"idle", "feedback", "load", "store", "check", "tryAccept", "return"}]
  BY <1>6, <1>7 DEF ServerTypes, TypeOK, InCallback, Callbacks
<1>9. \A v \in Callbacks : at'[v] = "idle" <=> working'[v] = None
  BY <1>2, <1>3, <1>6, <1>7 DEF ServerTypes, TypeOK, Callbacks, IOCP!Workers
<1>10. TypeOK'
  BY <1>4, <1>8, <1>9 DEF ServerTypes, TypeOK, Start, socketVars, supplyVars, peerVars,
                                  history, mClientDataConMap
<1>11. Segments'
  BY <1>3 DEF ServerTypes, Segments, Start, peerVars
<1> QED
  BY <1>5, <1>8, <1>10, <1>11 DEF ServerTypes

LEMMA ReturnKeepsTypes ==
  ASSUME ServerTypes, NEW w \in Callbacks, Return(w)
  PROVE  ServerTypes'
<1>1. w \in IOCP!Workers /\ IOCP!Pop(w) /\ IOCP!TypeOK
  BY DEF ServerTypes, TypeOK, Return, Callbacks, IOCP!Workers
<1>2. queue[w] # <<>> /\ working[w] = Head(queue[w]) /\ queue[w] \in Seq(IOCP!Packet)
  BY <1>1 DEF ServerTypes, InHand, IOCP!Pop, IOCP!TypeOK
<1>3. /\ Tail(queue[w]) \in Seq(IOCP!Packet)
      /\ Len(Tail(queue[w])) = Len(queue[w]) - 1 /\ Len(queue[w]) \in Nat
      /\ working[w] \in IOCP!Packet
  BY <1>2, HeadTailProperties, LenProperties
<1>4. /\ port' = port
      /\ queue' \in [IOCP!Workers -> Seq(IOCP!Packet)]
      /\ queue'[w] = Tail(queue[w])
      /\ \A v \in IOCP!Workers : v # w => working'[v] = working[v] /\ queue'[v] = queue[v]
      /\ working' \in [IOCP!Workers -> IOCP!Packet \union {None}]
      /\ working'[w] = None
  BY <1>1, <1>3 DEF IOCP!TypeOK, IOCP!Pop
<1>5. IOCP!TypeOK'
  <2>1. Len(queue[w]) <= Capacity
    BY <1>1 DEF IOCP!TypeOK
  <2>2. Len(queue'[w]) <= Capacity
    BY <1>3, <1>4, <2>1, CapacityAssumption
  <2> QED
    BY <1>1, <1>4, <2>2 DEF IOCP!TypeOK
<1>6. InHand'
  BY <1>4 DEF ServerTypes, InHand, Callbacks, IOCP!Workers
<1>7. InCallback' /\ at' \in [Callbacks -> {"idle", "feedback", "load", "store", "check", "tryAccept", "return"}]
  BY DEF ServerTypes, TypeOK, InCallback, Callbacks, Return, Goto
<1>8. \A v \in Callbacks : at'[v] = "idle" <=> working'[v] = None
  BY <1>4 DEF ServerTypes, TypeOK, Callbacks, IOCP!Workers, Return, Goto
<1>9. disconnected' \subseteq Clients
  BY <1>3 DEF ServerTypes, TypeOK, Return, Target, IOCP!Packet
<1>10. TypeOK'
  BY <1>5, <1>7, <1>8, <1>9 DEF ServerTypes, TypeOK, Return, socketVars, supplyVars,
                                        peerVars, mClientDataConMap
<1>11. Segments'
  BY <1>4 DEF ServerTypes, Segments, Return, peerVars
<1> QED
  BY <1>6, <1>7, <1>10, <1>11 DEF ServerTypes

\* The packet of a callback that is running.
LEMMA CallbackPacket ==
  ASSUME ServerTypes, NEW w \in Callbacks, at[w] # "idle"
  PROVE  /\ working[w] \in IOCP!Packet /\ Target(w) \in Clients
         /\ queue[w] \in Seq(IOCP!Packet) /\ queue[w] # <<>>
         /\ Head(queue[w]) = working[w]
         /\ 1 \in DOMAIN queue[w] /\ queue[w][1] = working[w]
<1>1. working[w] # None /\ w \in IOCP!Workers
  BY DEF ServerTypes, TypeOK, Callbacks, IOCP!Workers
<1>2. working[w] \in IOCP!Packet /\ queue[w] \in Seq(IOCP!Packet)
  BY <1>1 DEF ServerTypes, TypeOK, IOCP!TypeOK
<1>3. queue[w] # <<>> /\ Head(queue[w]) = working[w]
  BY <1>1 DEF ServerTypes, InHand
<1>4. 1 \in DOMAIN queue[w] /\ queue[w][1] = Head(queue[w])
  BY <1>2, <1>3, EmptySeq, LenProperties
<1> QED
  BY <1>2, <1>3, <1>4 DEF Target, IOCP!Packet

LEMMA ReceiveReadyType ==
  ASSUME ServerTypes, NEW c \in Clients, ReceiveReady(c)
  PROVE  receivePending' \in [Clients -> Nat]
BY DEF ServerTypes, TypeOK, ReceiveReady

LEMMA TryAcceptType ==
  ASSUME ServerTypes, NEW S, TryAccept(S)
  PROVE  acceptPending' \in [Clients -> Nat]
BY DEF ServerTypes, TypeOK, TryAccept

LEMMA PrepareSocketTypes ==
  ASSUME ServerTypes, NEW n \in Nat, PrepareSocket(n)
  PROVE  /\ acceptPending' \in [Clients -> Nat]
         /\ accumulatedClientId' \in Nat /\ currentClientMax' \in Nat
         /\ tied' \subseteq created' /\ created' \subseteq mClientDataConMap'
<1> DEFINE new == accumulatedClientId .. accumulatedClientId + n - 1
<1>1. accumulatedClientId \in Nat /\ currentClientMax \in Nat
  BY DEF ServerTypes, TypeOK
<1>2. accumulatedClientId' = accumulatedClientId + n /\ currentClientMax' = currentClientMax + n
  BY DEF PrepareSocket
<1>3. acceptPending' \in [Clients -> Nat]
  BY TryAcceptType DEF PrepareSocket
<1>4. mClientDataConMap \subseteq mClientDataConMap' /\ new \subseteq mClientDataConMap'
  BY <1>1, <1>2 DEF mClientDataConMap
<1>5. PICK made \in SUBSET new : \E bound \in SUBSET made :
        created' = created \union made /\ tied' = tied \union bound
  BY DEF PrepareSocket, MakeSockets
<1>6. tied \subseteq created /\ created \subseteq mClientDataConMap
  BY DEF ServerTypes, TypeOK
<1> HIDE DEF new
<1>7. tied' \subseteq created' /\ created' \subseteq created \union new
  BY <1>5, <1>6
<1>8. created' \subseteq mClientDataConMap'
  BY <1>4, <1>6, <1>7
<1> QED
  BY <1>1, <1>2, <1>3, <1>7, <1>8

LEMMA PrepareFirstKeepsTypes ==
  ASSUME ServerTypes, PrepareFirst
  PROVE  ServerTypes'
<1> USE DEF ServerTypes, iocpVars, threadVars, peerVars, history
<1>1. /\ acceptPending' \in [Clients -> Nat]
      /\ accumulatedClientId' \in Nat /\ currentClientMax' \in Nat
      /\ tied' \subseteq created' /\ created' \subseteq mClientDataConMap'
  BY CountsAssumption, PrepareSocketTypes DEF PrepareFirst
<1>2. /\ UNCHANGED <<port, queue, working, at, loaded, peer, sent, unread, handled, disconnected>>
      /\ UNCHANGED <<mIsConnet, receivePending, currentClientCount>>
  BY DEF PrepareFirst, PrepareSocket
<1>3. IOCP!TypeOK' /\ InHand' /\ InCallback' /\ Segments'
  BY <1>2 DEF TypeOK, IOCP!TypeOK, InHand, InCallback, Segments
<1>4. TypeOK'
  BY <1>1, <1>2, <1>3 DEF TypeOK
<1> QED
  BY <1>3, <1>4

\* The steps inside a callback leave the port and the queues alone.
LEMMA CallbackKeepsTypes ==
  ASSUME ServerTypes,
         \/ FeedBack_Accept \/ StillRoom \/ PrepareMore \/ FeedBack_Receive
         \/ DisconnectTryAccept
         \/ \E w \in {"accept", "disconnect"} : LoadCount(w)
         \/ StoreCount("accept", 1, "check") \/ StoreCount("disconnect", -1, "tryAccept")
  PROVE  ServerTypes'
<1> USE DEF ServerTypes
<1>1. UNCHANGED iocpVars => IOCP!TypeOK'
  BY DEF TypeOK, iocpVars, IOCP!TypeOK
<1>2. UNCHANGED <<iocpVars, peerVars>> => InHand' /\ Segments'
  BY DEF iocpVars, peerVars, InHand, Segments
<1> USE DEF Goto, iocpVars, socketVars, supplyVars, peerVars, history, Callbacks
<1>a. UNCHANGED accumulatedClientId => mClientDataConMap' = mClientDataConMap
  BY DEF mClientDataConMap
<1>3. CASE FeedBack_Accept
  <2>1. Target("accept") \in Clients /\ receivePending' \in [Clients -> Nat]
    BY <1>3, CallbackPacket, ReceiveReadyType DEF FeedBack_Accept
  <2>2. mIsConnet' \subseteq Clients
    BY <1>3, <2>1 DEF FeedBack_Accept, TypeOK
  <2>3. TypeOK'
    BY <1>a, <1>1, <1>3, <2>1, <2>2 DEF FeedBack_Accept, TypeOK
  <2> QED
    BY <1>2, <1>3, <2>3 DEF FeedBack_Accept, InCallback, TypeOK
<1>4. CASE StillRoom
  <2>1. TypeOK'
    BY <1>a, <1>1, <1>4 DEF StillRoom, TypeOK
  <2> QED
    BY <1>2, <1>4, <2>1 DEF StillRoom, InCallback, TypeOK
<1>5. CASE PrepareMore
  <2>1. /\ acceptPending' \in [Clients -> Nat]
        /\ accumulatedClientId' \in Nat /\ currentClientMax' \in Nat
        /\ tied' \subseteq created' /\ created' \subseteq mClientDataConMap'
    BY <1>5, CountsAssumption, PrepareSocketTypes DEF PrepareMore
  <2>2. TypeOK'
    BY <1>1, <1>5, <2>1 DEF PrepareMore, PrepareSocket, TypeOK
  <2> QED
    BY <1>2, <1>5, <2>2 DEF PrepareMore, InCallback, TypeOK
<1>6. CASE FeedBack_Receive
  <2>1. /\ Target("receive") \in Clients /\ working["receive"].DataSize \in Nat
        /\ receivePending' \in [Clients -> Nat]
    BY <1>6, CallbackPacket, ReceiveReadyType DEF FeedBack_Receive, IOCP!Packet, Sizes
  <2>2. handled' \in [Clients -> Nat]
    BY <1>6, <2>1 DEF FeedBack_Receive, TypeOK
  <2>3. TypeOK'
    BY <1>a, <1>1, <1>6, <2>1, <2>2 DEF FeedBack_Receive, TypeOK
  <2> QED
    BY <1>2, <1>6, <2>3 DEF FeedBack_Receive, InCallback, TypeOK
<1>7. CASE DisconnectTryAccept
  <2>1. acceptPending' \in [Clients -> Nat]
    BY <1>7, TryAcceptType DEF DisconnectTryAccept
  <2>2. TypeOK'
    BY <1>a, <1>1, <1>7, <2>1 DEF DisconnectTryAccept, TypeOK
  <2> QED
    BY <1>2, <1>7, <2>2 DEF DisconnectTryAccept, InCallback, TypeOK
<1>8. CASE \E w \in {"accept", "disconnect"} : LoadCount(w)
  <2> PICK w \in {"accept", "disconnect"} : LoadCount(w)
    BY <1>8
  <2>1. TypeOK'
    BY <1>a, <1>1 DEF LoadCount, TypeOK
  <2> QED
    BY <1>2, <2>1 DEF LoadCount, InCallback, TypeOK
<1>9. CASE StoreCount("accept", 1, "check")
  <2>1. TypeOK'
    BY <1>a, <1>1, <1>9 DEF StoreCount, TypeOK
  <2> QED
    BY <1>2, <1>9, <2>1 DEF StoreCount, InCallback, TypeOK
<1>10. CASE StoreCount("disconnect", -1, "tryAccept")
  <2>1. TypeOK'
    BY <1>a, <1>1, <1>10 DEF StoreCount, TypeOK
  <2> QED
    BY <1>2, <1>10, <2>1 DEF StoreCount, InCallback, TypeOK
<1> QED
  BY <1>3, <1>4, <1>5, <1>6, <1>7, <1>8, <1>9, <1>10

LEMMA PeersKeepTypes ==
  ASSUME ServerTypes, NEW c \in Clients, PeerSends(c) \/ PeerCloses(c) \/ PeerResets(c)
  PROVE  ServerTypes'
<1> USE DEF ServerTypes, serverVars, iocpVars, threadVars, socketVars, supplyVars, history,
            mClientDataConMap
<1>1. /\ port' = port /\ queue' = queue /\ working' = working /\ at' = at
      /\ UNCHANGED <<loaded, socketVars, supplyVars, history>>
  BY DEF PeerSends, PeerCloses, PeerResets
<1>2. IOCP!TypeOK' /\ InHand' /\ InCallback'
  BY <1>1 DEF TypeOK, IOCP!TypeOK, InHand, InCallback
<1>3. /\ peer' \in [Clients -> {"none", "open", "closed", "reset"}]
      /\ sent' \in [Clients -> Nat] /\ unread' \in [Clients -> Nat]
  BY DEF PeerSends, PeerCloses, PeerResets, TypeOK
<1>4. TypeOK'
  BY <1>1, <1>2, <1>3 DEF TypeOK
<1>5. Segments'
  <2>1. \A d \in Clients : unread'[d] <= sent'[d] /\ sent'[d] <= MaxSegments
    BY BoundsAssumption DEF Segments, TypeOK, PeerSends, PeerCloses, PeerResets
  <2> QED
    BY <1>1, <2>1 DEF Segments
<1> QED
  BY <1>2, <1>4, <1>5

\* What Segments says of the port.
PortClean ==
  \A i \in DOMAIN port : /\ port[i].operationType # "send"
                         /\ ~port[i].ok => port[i].bytes = 0

\* A completion is appended to the port.
LEMMA CompletesKeepsTypes ==
  ASSUME ServerTypes, NEW c \in Clients, NEW type \in {"accept", "receive"},
         NEW ok \in BOOLEAN, NEW n \in Sizes \union {0},
         type = "accept" \/ ~ok => n = 0,
         Completes(type, c, ok, n)
  PROVE  /\ [operationType |-> type, id |-> c, ok |-> ok, bytes |-> n] \in IOCP!Completion
         /\ port' = Append(port, [operationType |-> type, id |-> c, ok |-> ok, bytes |-> n])
         /\ IOCP!TypeOK' /\ InHand' /\ InCallback' /\ PortClean'
<1> DEFINE k == [operationType |-> type, id |-> c, ok |-> ok, bytes |-> n]
<1>1. k \in IOCP!Completion
  BY DEF IOCP!Completion, IOCP!Operations
<1>2. /\ port' = Append(port, k)
      /\ queue' = queue /\ working' = working /\ at' = at
  BY DEF Completes, IOCP!Complete, threadVars
<1>3. k.operationType # "send" /\ (~k.ok => k.bytes = 0)
  OBVIOUS
<1> HIDE DEF k
<1>4. port \in Seq(IOCP!Completion)
  BY DEF ServerTypes, TypeOK, IOCP!TypeOK
<1>5. /\ port' \in Seq(IOCP!Completion) /\ DOMAIN port' = 1 .. Len(port) + 1
      /\ DOMAIN port = 1 .. Len(port) /\ Len(port) \in Nat
      /\ \A i \in 1 .. Len(port) : port'[i] = port[i]
      /\ port'[Len(port) + 1] = k
  <2>1. port' \in Seq(IOCP!Completion) /\ Len(port') = Len(port) + 1
    BY <1>1, <1>2, <1>4, AppendProperties
  <2>2. DOMAIN port' = 1 .. Len(port) + 1
    BY <2>1, LenProperties
  <2> QED
    BY <1>1, <1>2, <1>4, <2>1, <2>2, AppendProperties, LenProperties
<1>6. IOCP!TypeOK'
  BY <1>2, <1>5 DEF ServerTypes, TypeOK, IOCP!TypeOK
<1>7. InHand' /\ InCallback'
  BY <1>2 DEF ServerTypes, InHand, InCallback
<1>8. PortClean'
  <2> SUFFICES ASSUME NEW i \in DOMAIN port'
               PROVE  /\ port'[i].operationType # "send"
                      /\ ~port'[i].ok => port'[i].bytes = 0
    BY DEF PortClean
  <2>1. CASE i \in DOMAIN port
    BY <1>5, <2>1 DEF ServerTypes, Segments
  <2>2. CASE i = Len(port) + 1
    BY <1>3, <1>5, <2>2
  <2> QED
    BY <1>5, <2>1, <2>2
<1> QED
  BY <1>1, <1>2, <1>6, <1>7, <1>8 DEF k

LEMMA CompletionsKeepTypes ==
  ASSUME ServerTypes, NEW c \in Clients,
         Connect(c) \/ AcceptFails(c) \/ ReceiveCompletes(c)
  PROVE  ServerTypes'
<1> USE DEF Completes, threadVars, supplyVars, history, peerVars, mClientDataConMap
<1>1. CASE Connect(c)
  <2>1. IOCP!TypeOK' /\ InHand' /\ InCallback' /\ PortClean'
    BY <1>1, CompletesKeepsTypes DEF Connect
  <2>2. TypeOK'
    BY <1>1, <2>1 DEF ServerTypes, TypeOK, Connect
  <2> QED
    BY <1>1, <2>1, <2>2 DEF ServerTypes, Segments, PortClean, Connect
<1>2. CASE AcceptFails(c)
  <2>1. IOCP!TypeOK' /\ InHand' /\ InCallback' /\ PortClean'
    BY <1>2, CompletesKeepsTypes DEF AcceptFails
  <2>2. TypeOK'
    BY <1>2, <2>1 DEF ServerTypes, TypeOK, AcceptFails
  <2> QED
    BY <1>2, <2>1, <2>2 DEF ServerTypes, Segments, PortClean, AcceptFails
<1>3. CASE Received(c)
  <2> PICK n \in 1 .. unread[c] : CompletesReceive(c, TRUE, n)
                                  /\ unread' = [unread EXCEPT ![c] = @ - n]
    BY <1>3 DEF Received
  <2>1. n \in Sizes
    BY BoundsAssumption DEF ServerTypes, TypeOK, Segments, Sizes
  <2>2. IOCP!TypeOK' /\ InHand' /\ InCallback' /\ PortClean'
    BY <2>1, CompletesKeepsTypes DEF CompletesReceive
  <2>3. unread' \in [Clients -> Nat] /\ \A d \in Clients : unread'[d] <= sent[d]
    BY DEF ServerTypes, TypeOK, Segments
  <2>4. TypeOK'
    BY <2>2, <2>3 DEF ServerTypes, TypeOK, CompletesReceive
  <2> QED
    BY <2>2, <2>3, <2>4 DEF ServerTypes, Segments, PortClean, CompletesReceive
<1>4. CASE ReceivedEnd(c)
  <2>1. IOCP!TypeOK' /\ InHand' /\ InCallback' /\ PortClean'
    BY <1>4, CompletesKeepsTypes DEF ReceivedEnd, CompletesReceive
  <2>2. TypeOK'
    BY <1>4, <2>1 DEF ServerTypes, TypeOK, ReceivedEnd, CompletesReceive
  <2> QED
    BY <1>4, <2>1, <2>2 DEF ServerTypes, Segments, PortClean, ReceivedEnd, CompletesReceive
<1>5. CASE ReceiveFails(c)
  <2>1. IOCP!TypeOK' /\ InHand' /\ InCallback' /\ PortClean'
    BY <1>5, CompletesKeepsTypes DEF ReceiveFails, CompletesReceive
  <2>2. TypeOK'
    BY <1>5, <2>1 DEF ServerTypes, TypeOK, ReceiveFails, CompletesReceive
  <2> QED
    BY <1>5, <2>1, <2>2 DEF ServerTypes, Segments, PortClean, ReceiveFails, CompletesReceive
<1> QED
  BY <1>1, <1>2, <1>3, <1>4, <1>5 DEF ReceiveCompletes

LEMMA InitTypes == Init => ServerTypes
<1> SUFFICES ASSUME Init
             PROVE  ServerTypes
  OBVIOUS
<1>1. <<>> \in Seq(IOCP!Completion) /\ <<>> \in Seq(IOCP!Packet) /\ Len(<<>>) = 0
  BY EmptySeq
<1>2. DOMAIN port = {}
  BY <1>1, LenProperties DEF Init, IOCP!Init
<1>3. IOCP!TypeOK
  BY <1>1, CapacityAssumption DEF Init, IOCP!Init, IOCP!TypeOK
<1>4. \A w \in Callbacks : working[w] = None
  BY DEF Init, IOCP!Init, Callbacks, IOCP!Workers
<1>5. TypeOK
  BY <1>3, <1>4 DEF Init, TypeOK
<1>6. Segments
  BY <1>2, BoundsAssumption DEF Init, Segments
<1> QED
  BY <1>4, <1>5, <1>6 DEF ServerTypes, InHand, InCallback, Init, Callbacks

\* One step is of the dispatcher, of a worker around or inside its callback, of a
\* peer, or a completion.
LEMMA Steps ==
  ASSUME Next
  PROVE  \/ PrepareFirst \/ Dispatcher
         \/ \E w \in Callbacks : Start(w) \/ Return(w)
         \/ FeedBack_Accept \/ StillRoom \/ PrepareMore \/ FeedBack_Receive
         \/ DisconnectTryAccept
         \/ \E w \in {"accept", "disconnect"} : LoadCount(w)
         \/ StoreCount("accept", 1, "check") \/ StoreCount("disconnect", -1, "tryAccept")
         \/ \E c \in Clients : PeerSends(c) \/ PeerCloses(c) \/ PeerResets(c)
         \/ \E c \in Clients : Connect(c) \/ AcceptFails(c) \/ ReceiveCompletes(c)
<1>1. CASE Environment
  BY <1>1 DEF Environment
<1>2. CASE AcceptWorker
  BY <1>2 DEF AcceptWorker, Callbacks
<1>3. CASE ReceiveWorker
  BY <1>3 DEF ReceiveWorker, Callbacks
<1>4. CASE DisconnectWorker
  BY <1>4 DEF DisconnectWorker, Callbacks
<1> QED
  BY <1>1, <1>2, <1>3, <1>4 DEF Next

LEMMA NextKeepsTypes == ServerTypes /\ [Next]_vars => ServerTypes'
<1> SUFFICES ASSUME ServerTypes, [Next]_vars
             PROVE  ServerTypes'
  OBVIOUS
<1>1. CASE Next
  BY <1>1, Steps, PrepareFirstKeepsTypes, DispatchKeepsTypes, StartKeepsTypes,
     ReturnKeepsTypes, CallbackKeepsTypes, PeersKeepTypes, CompletionsKeepTypes
<1>2. CASE UNCHANGED vars
  BY <1>2 DEF ServerTypes, TypeOK, IOCP!TypeOK, InHand, InCallback, Segments, vars, iocpVars,
              threadVars, socketVars, supplyVars, peerVars, history, mClientDataConMap
<1> QED
  BY <1>1, <1>2

\* The state of the server stays within its types: in particular no queue grows
\* beyond its capacity, a callback runs exactly while its worker holds a packet,
\* and no counter of calls in flight goes below zero.
THEOREM TypeCorrect == Spec => []TypeOK
<1>1. Spec => []ServerTypes
  BY InitTypes, NextKeepsTypes, PTL DEF Spec
<1>2. ServerTypes => TypeOK
  BY DEF ServerTypes
<1> QED
  BY <1>1, <1>2, PTL

-----------------------------------------------------------------------------
(* The chains of a client, counted. *)

AcceptsOf(c) == {k \in IOCP!Completion : k.id = c /\ k.operationType = "accept" /\ k.ok}
ReceivesOf(c) == {k \in IOCP!Completion : k.id = c /\ k.operationType = "receive"}
PacketsOf(c) == {p \in IOCP!Packet : p.ClientID = c}

LEMMA AcceptPositions ==
  ASSUME NEW s \in Seq(IOCP!Completion), NEW c \in Clients
  PROVE  {i \in DOMAIN s : /\ s[i].id = c
                           /\ s[i].operationType = "accept"
                           /\ "accept" = "accept" => s[i].ok} = Positions(s, AcceptsOf(c))
<1>1. \A i \in DOMAIN s : s[i] \in IOCP!Completion
  BY LenProperties
<1> QED
  BY <1>1 DEF Positions, AcceptsOf

LEMMA ReceivePositions ==
  ASSUME NEW s \in Seq(IOCP!Completion), NEW c \in Clients
  PROVE  {i \in DOMAIN s : /\ s[i].id = c
                           /\ s[i].operationType = "receive"
                           /\ "receive" = "accept" => s[i].ok} = Positions(s, ReceivesOf(c))
<1>1. \A i \in DOMAIN s : s[i] \in IOCP!Completion
  BY LenProperties
<1> QED
  BY <1>1 DEF Positions, ReceivesOf

LEMMA PacketPositions ==
  ASSUME NEW s \in Seq(IOCP!Packet), NEW c \in Clients
  PROVE  {i \in DOMAIN s : s[i].ClientID = c} = Positions(s, PacketsOf(c))
<1>1. \A i \in DOMAIN s : s[i] \in IOCP!Packet
  BY LenProperties
<1> QED
  BY <1>1 DEF Positions, PacketsOf

LEMMA Counted ==
  ASSUME ServerTypes, NEW c \in Clients
  PROVE  /\ InPort(c, "accept") = Count(port, AcceptsOf(c))
         /\ InPort(c, "receive") = Count(port, ReceivesOf(c))
         /\ \A w \in Callbacks : InQueue(c, w) = Count(queue[w], PacketsOf(c))
<1>1. port \in Seq(IOCP!Completion) /\ \A w \in Callbacks : queue[w] \in Seq(IOCP!Packet)
  BY DEF ServerTypes, TypeOK, IOCP!TypeOK, Callbacks, IOCP!Workers
<1>2. InPort(c, "accept") = Count(port, AcceptsOf(c))
  BY <1>1, AcceptPositions DEF InPort, Count
<1>3. InPort(c, "receive") = Count(port, ReceivesOf(c))
  BY <1>1, ReceivePositions DEF InPort, Count
<1>4. \A w \in Callbacks : InQueue(c, w) = Count(queue[w], PacketsOf(c))
  BY <1>1, PacketPositions DEF InQueue, Count
<1> QED
  BY <1>2, <1>3, <1>4

LEMMA CountedNext ==
  ASSUME ServerTypes', NEW c \in Clients
  PROVE  /\ InPort(c, "accept")' = Count(port', AcceptsOf(c))
         /\ InPort(c, "receive")' = Count(port', ReceivesOf(c))
         /\ \A w \in Callbacks : InQueue(c, w)' = Count(queue'[w], PacketsOf(c))
<1>1. port' \in Seq(IOCP!Completion) /\ \A w \in Callbacks : queue'[w] \in Seq(IOCP!Packet)
  BY DEF ServerTypes, TypeOK, IOCP!TypeOK, Callbacks, IOCP!Workers
<1>2. InPort(c, "accept")' = Count(port', AcceptsOf(c))
  BY <1>1, AcceptPositions DEF InPort, Count
<1>3. InPort(c, "receive")' = Count(port', ReceivesOf(c))
  BY <1>1, ReceivePositions DEF InPort, Count
<1>4. \A w \in Callbacks : InQueue(c, w)' = Count(queue'[w], PacketsOf(c))
  BY <1>1, PacketPositions DEF InQueue, Count
<1> QED
  BY <1>2, <1>3, <1>4

LEMMA CountsInNat ==
  ASSUME ServerTypes, NEW c \in Clients
  PROVE  /\ InPort(c, "accept") \in Nat /\ InPort(c, "receive") \in Nat
         /\ \A w \in Callbacks : InQueue(c, w) \in Nat
<1>1. port \in Seq(IOCP!Completion) /\ \A w \in Callbacks : queue[w] \in Seq(IOCP!Packet)
  BY DEF ServerTypes, TypeOK, IOCP!TypeOK, Callbacks, IOCP!Workers
<1> QED
  BY <1>1, Counted, CountType

\* The packet of a callback is still in the queue.
LEMMA TargetCounted ==
  ASSUME ServerTypes, NEW w \in Callbacks, at[w] # "idle"
  PROVE  InQueue(Target(w), w) >= 1
<1>1. /\ queue[w] \in Seq(IOCP!Packet) /\ 1 \in DOMAIN queue[w]
      /\ queue[w][1] \in PacketsOf(Target(w)) /\ Target(w) \in Clients
  BY CallbackPacket DEF PacketsOf, Target
<1>2. Count(queue[w], PacketsOf(Target(w))) >= 1
  BY <1>1, CountOne
<1> QED
  BY <1>1, <1>2, Counted

LEMMA BeyondCounted ==
  ASSUME ServerTypes, NEW c \in Clients, NEW w \in Callbacks, NEW labels, "idle" \notin labels
  PROVE  Beyond(c, w, labels) \in {0, 1} /\ Beyond(c, w, labels) <= InQueue(c, w)
<1>1. CASE at[w] \in labels /\ Target(w) = c
  BY <1>1, TargetCounted, CountsInNat DEF Beyond
<1>2. CASE ~(at[w] \in labels /\ Target(w) = c)
  BY <1>2, CountsInNat DEF Beyond
<1> QED
  BY <1>1, <1>2

LEMMA SameCounts ==
  ASSUME NEW c \in Clients, port' = port, queue' = queue
  PROVE  /\ InPort(c, "accept")' = InPort(c, "accept")
         /\ InPort(c, "receive")' = InPort(c, "receive")
         /\ \A w \in Callbacks : InQueue(c, w)' = InQueue(c, w)
BY DEF InPort, InQueue

LEMMA DispatchCounts ==
  ASSUME ServerTypes, Dispatcher, NEW c \in Clients
  PROVE  LET h == Head(port) IN
         /\ InPort(c, "accept")' = InPort(c, "accept") -
              (IF h.id = c /\ h.operationType = "accept" /\ h.ok THEN 1 ELSE 0)
         /\ InPort(c, "receive")' = InPort(c, "receive") -
              (IF h.id = c /\ h.operationType = "receive" THEN 1 ELSE 0)
         /\ \A w \in Callbacks :
              InQueue(c, w)' = InQueue(c, w) +
                (IF h.id = c /\ w \in IOCP!Destinations(h) /\ Len(queue[w]) < Capacity
                 THEN 1 ELSE 0)
<1> DEFINE h == Head(port)
           pk == IOCP!PacketOf(h)
<1>1. /\ IOCP!TypeOK /\ IOCP!Dispatch /\ ServerTypes'
      /\ port # <<>> /\ port' = Tail(port)
      /\ port \in Seq(IOCP!Completion)
      /\ h \in IOCP!Completion
  BY DispatchKeepsTypes, HeadInPort DEF ServerTypes, TypeOK, Dispatcher, IOCP!Dispatch, IOCP!TypeOK
<1>2. /\ Count(Tail(port), AcceptsOf(c)) = Count(port, AcceptsOf(c)) - (IF h \in AcceptsOf(c) THEN 1 ELSE 0)
      /\ Count(Tail(port), ReceivesOf(c)) = Count(port, ReceivesOf(c)) - (IF h \in ReceivesOf(c) THEN 1 ELSE 0)
  BY <1>1, CountTail
<1>3. /\ h \in AcceptsOf(c) <=> (h.id = c /\ h.operationType = "accept" /\ h.ok)
      /\ h \in ReceivesOf(c) <=> (h.id = c /\ h.operationType = "receive")
  BY <1>1 DEF AcceptsOf, ReceivesOf
<1> HIDE DEF h
<1>4. /\ InPort(c, "accept")' = InPort(c, "accept") -
              (IF h.id = c /\ h.operationType = "accept" /\ h.ok THEN 1 ELSE 0)
      /\ InPort(c, "receive")' = InPort(c, "receive") -
              (IF h.id = c /\ h.operationType = "receive" THEN 1 ELSE 0)
  BY <1>1, <1>2, <1>3, Counted, CountedNext
<1>5. ASSUME NEW w \in Callbacks
      PROVE  InQueue(c, w)' = InQueue(c, w) +
                (IF h.id = c /\ w \in IOCP!Destinations(h) /\ Len(queue[w]) < Capacity
                 THEN 1 ELSE 0)
  <2>1. /\ queue[w] \in Seq(IOCP!Packet) /\ pk \in IOCP!Packet
        /\ queue'[w] = IF w \in IOCP!Destinations(h) /\ Len(queue[w]) < Capacity
                       THEN Append(queue[w], pk) ELSE queue[w]
    BY <1>1, DispatchPushes DEF IOCP!TypeOK, Callbacks, IOCP!Workers, h
  <2>2. pk \in PacketsOf(c) <=> h.id = c
    BY <2>1 DEF PacketsOf, IOCP!PacketOf
  <2> HIDE DEF pk
  <2>3. Count(Append(queue[w], pk), PacketsOf(c)) = Count(queue[w], PacketsOf(c)) + (IF h.id = c THEN 1 ELSE 0)
    BY <2>1, <2>2, CountAppend
  <2>4. Count(queue[w], PacketsOf(c)) \in Nat
    BY <2>1, CountType
  <2>5. InQueue(c, w) = Count(queue[w], PacketsOf(c)) /\ InQueue(c, w)' = Count(queue'[w], PacketsOf(c))
    BY <1>1, Counted, CountedNext
  <2>6. CASE w \in IOCP!Destinations(h) /\ Len(queue[w]) < Capacity
    BY <2>1, <2>3, <2>5, <2>6
  <2>7. CASE ~(w \in IOCP!Destinations(h) /\ Len(queue[w]) < Capacity)
    BY <2>1, <2>4, <2>5, <2>7
  <2> QED
    BY <2>6, <2>7
<1> QED
  BY <1>4, <1>5 DEF h

LEMMA ReturnCounts ==
  ASSUME ServerTypes, NEW w \in Callbacks, Return(w), NEW c \in Clients
  PROVE  /\ InPort(c, "accept")' = InPort(c, "accept")
         /\ InPort(c, "receive")' = InPort(c, "receive")
         /\ InQueue(c, w)' = InQueue(c, w) - (IF Target(w) = c THEN 1 ELSE 0)
         /\ \A v \in Callbacks \ {w} : InQueue(c, v)' = InQueue(c, v)
<1>1. /\ ServerTypes' /\ IOCP!Pop(w) /\ at[w] # "idle"
      /\ port' = port
  BY ReturnKeepsTypes DEF Return, IOCP!Pop
<1>2. /\ queue[w] \in Seq(IOCP!Packet) /\ queue[w] # <<>>
      /\ working[w] \in IOCP!Packet /\ Head(queue[w]) = working[w]
  BY <1>1, CallbackPacket
<1>3. queue'[w] = Tail(queue[w]) /\ \A v \in Callbacks \ {w} : queue'[v] = queue[v]
  BY <1>1 DEF IOCP!Pop, ServerTypes, TypeOK, IOCP!TypeOK, Callbacks, IOCP!Workers
<1>4. Head(queue[w]) \in PacketsOf(c) <=> Target(w) = c
  BY <1>2 DEF PacketsOf, Target
<1>5. Count(Tail(queue[w]), PacketsOf(c)) = Count(queue[w], PacketsOf(c)) - (IF Target(w) = c THEN 1 ELSE 0)
  BY <1>2, <1>4, CountTail
<1>6. InQueue(c, w)' = InQueue(c, w) - (IF Target(w) = c THEN 1 ELSE 0)
  BY <1>1, <1>3, <1>5, Counted, CountedNext
<1> QED
  BY <1>1, <1>3, <1>6 DEF InPort, InQueue

LEMMA CompletesCounts ==
  ASSUME ServerTypes, ServerTypes', NEW d \in Clients, NEW type \in {"accept", "receive"},
         NEW ok \in BOOLEAN, NEW n \in Sizes \union {0},
         type = "accept" \/ ~ok => n = 0,
         Completes(type, d, ok, n), NEW c \in Clients
  PROVE  /\ InPort(c, "accept")' = InPort(c, "accept") +
              (IF c = d /\ type = "accept" /\ ok THEN 1 ELSE 0)
         /\ InPort(c, "receive")' = InPort(c, "receive") +
              (IF c = d /\ type = "receive" THEN 1 ELSE 0)
         /\ \A w \in Callbacks : InQueue(c, w)' = InQueue(c, w)
<1> DEFINE k == [operationType |-> type, id |-> d, ok |-> ok, bytes |-> n]
<1>1. k \in IOCP!Completion /\ port' = Append(port, k) /\ queue' = queue
  BY CompletesKeepsTypes DEF Completes
<1>2. port \in Seq(IOCP!Completion)
  BY DEF ServerTypes, TypeOK, IOCP!TypeOK
<1>3. /\ k \in AcceptsOf(c) <=> (c = d /\ type = "accept" /\ ok)
      /\ k \in ReceivesOf(c) <=> (c = d /\ type = "receive")
  BY <1>1 DEF AcceptsOf, ReceivesOf
<1> HIDE DEF k
<1>4. /\ Count(port', AcceptsOf(c)) = Count(port, AcceptsOf(c)) + (IF k \in AcceptsOf(c) THEN 1 ELSE 0)
      /\ Count(port', ReceivesOf(c)) = Count(port, ReceivesOf(c)) + (IF k \in ReceivesOf(c) THEN 1 ELSE 0)
  BY <1>1, <1>2, CountAppend
<1>5. \A w \in Callbacks : InQueue(c, w)' = InQueue(c, w)
  BY <1>1 DEF InQueue
<1> QED
  BY <1>3, <1>4, <1>5, Counted, CountedNext

\* The completion appended to the port.
LEMMA CompletesAppends ==
  ASSUME ServerTypes, NEW d \in Clients, NEW type \in {"accept", "receive"},
         NEW ok \in BOOLEAN, NEW n \in Sizes \union {0},
         type = "accept" \/ ~ok => n = 0,
         Completes(type, d, ok, n), NEW i \in DOMAIN port'
  PROVE  \/ i \in DOMAIN port /\ port'[i] = port[i]
         \/ port'[i].id = d /\ port'[i].bytes = n /\ port'[i].operationType = type
<1> DEFINE k == [operationType |-> type, id |-> d, ok |-> ok, bytes |-> n]
<1>1. k \in IOCP!Completion /\ port' = Append(port, k)
  BY CompletesKeepsTypes
<1>2. k.id = d /\ k.bytes = n /\ k.operationType = type
  OBVIOUS
<1> HIDE DEF k
<1>3. port \in Seq(IOCP!Completion)
  BY DEF ServerTypes, TypeOK, IOCP!TypeOK
<1>4. port' \in Seq(IOCP!Completion) /\ Len(port') = Len(port) + 1 /\ Len(port) \in Nat
  BY <1>1, <1>3, AppendProperties, LenProperties
<1>5. DOMAIN port' = 1 .. Len(port) + 1 /\ DOMAIN port = 1 .. Len(port)
  BY <1>3, <1>4, LenProperties
<1>6. CASE i \in DOMAIN port
  BY <1>1, <1>3, <1>5, <1>6, AppendProperties
<1>7. CASE i = Len(port) + 1
  BY <1>1, <1>2, <1>3, <1>7, AppendProperties
<1> QED
  BY <1>4, <1>5, <1>6, <1>7

-----------------------------------------------------------------------------
(* What the counts say of the port and the queues. *)

BeyondAccept(c) == Beyond(c, "accept", {"load", "store", "check", "return"})
BeyondReceive(c) == Beyond(c, "receive", {"return"})

LEMMA Terms ==
  ASSUME ServerTypes, NEW c \in Clients
  PROVE  /\ acceptPending[c] \in Nat /\ receivePending[c] \in Nat
         /\ InPort(c, "accept") \in Nat /\ InPort(c, "receive") \in Nat
         /\ InQueue(c, "accept") \in Nat /\ InQueue(c, "receive") \in Nat
         /\ InQueue(c, "disconnect") \in Nat
         /\ BeyondAccept(c) \in {0, 1} /\ BeyondAccept(c) <= InQueue(c, "accept")
         /\ BeyondReceive(c) \in {0, 1} /\ BeyondReceive(c) <= InQueue(c, "receive")
         /\ InSet(c, mIsConnet) \in {0, 1} /\ InSet(c, disconnected) \in {0, 1}
         /\ InSet(c, created) \in {0, 1}
<1>1. acceptPending[c] \in Nat /\ receivePending[c] \in Nat
  BY DEF ServerTypes, TypeOK
<1>2. {"accept", "receive", "disconnect"} = Callbacks
  BY DEF Callbacks
<1> QED
  BY <1>1, <1>2, CountsInNat, BeyondCounted DEF BeyondAccept, BeyondReceive, InSet

\* The sums of the two chains, in terms the counting lemmas speak of.
LEMMA Sums ==
  ASSUME NEW c \in Clients
  PROVE  /\ Accepts(c) = acceptPending[c] + InPort(c, "accept") + InQueue(c, "accept") - BeyondAccept(c)
         /\ Receives(c) = receivePending[c] + InPort(c, "receive") + InQueue(c, "receive") - BeyondReceive(c)
         /\ Disconnects(c) = InQueue(c, "disconnect") + InSet(c, disconnected)
BY DEF Accepts, Receives, Disconnects, BeyondAccept, BeyondReceive

LEMMA SumsNext ==
  ASSUME NEW c \in Clients
  PROVE  /\ Accepts(c)' = acceptPending'[c] + InPort(c, "accept")' + InQueue(c, "accept")' - BeyondAccept(c)'
         /\ Receives(c)' = receivePending'[c] + InPort(c, "receive")' + InQueue(c, "receive")' - BeyondReceive(c)'
         /\ Disconnects(c)' = InQueue(c, "disconnect")' + InSet(c, disconnected)'
BY DEF Accepts, Receives, Disconnects, BeyondAccept, BeyondReceive

LEMMA NoneInPort ==
  ASSUME ServerTypes, NEW c \in Clients, InPort(c, "receive") = 0
  PROVE  \A i \in DOMAIN port : port[i].operationType = "receive" => port[i].id # c
<1> SUFFICES ASSUME NEW i \in DOMAIN port, port[i].operationType = "receive", port[i].id = c
             PROVE  FALSE
  OBVIOUS
<1>1. port \in Seq(IOCP!Completion)
  BY DEF ServerTypes, TypeOK, IOCP!TypeOK
<1>2. port[i] \in ReceivesOf(c)
  BY <1>1, LenProperties DEF ReceivesOf
<1> QED
  BY <1>1, <1>2, CountOne, Counted

\* A count of one leaves a client one position.
LEMMA OneQueued ==
  ASSUME ServerTypes, NEW c \in Clients, NEW w \in Callbacks, InQueue(c, w) <= 1,
         NEW i \in DOMAIN queue[w], NEW j \in DOMAIN queue[w],
         queue[w][i].ClientID = c, queue[w][j].ClientID = c
  PROVE  i = j
<1> SUFFICES ASSUME i # j
             PROVE  FALSE
  OBVIOUS
<1>1. queue[w] \in Seq(IOCP!Packet)
  BY DEF ServerTypes, TypeOK, IOCP!TypeOK, Callbacks, IOCP!Workers
<1>2. queue[w][i] \in PacketsOf(c) /\ queue[w][j] \in PacketsOf(c)
  BY <1>1, LenProperties DEF PacketsOf
<1>3. Count(queue[w], PacketsOf(c)) >= 2
  BY <1>1, <1>2, CountTwo
<1>4. Count(queue[w], PacketsOf(c)) \in Nat /\ InQueue(c, w) = Count(queue[w], PacketsOf(c))
  BY <1>1, Counted, CountType
<1> QED
  BY <1>3, <1>4

LEMMA QueuedCounted ==
  ASSUME ServerTypes, NEW w \in Callbacks, NEW i \in DOMAIN queue[w]
  PROVE  queue[w][i].ClientID \in Clients /\ InQueue(queue[w][i].ClientID, w) >= 1
<1>1. queue[w] \in Seq(IOCP!Packet)
  BY DEF ServerTypes, TypeOK, IOCP!TypeOK, Callbacks, IOCP!Workers
<1> DEFINE c == queue[w][i].ClientID
<1>2. queue[w][i] \in IOCP!Packet /\ c \in Clients
  <2>1. queue[w][i] \in IOCP!Packet
    BY <1>1, LenProperties
  <2> QED
    BY <2>1 DEF IOCP!Packet
<1>3. queue[w][i] \in PacketsOf(c)
  BY <1>2 DEF PacketsOf
<1>4. Count(queue[w], PacketsOf(c)) >= 1
  BY <1>1, <1>3, CountOne
<1> QED
  BY <1>2, <1>4, Counted

\* Where a completion of the server goes.
LEMMA DestinationIs ==
  ASSUME ServerTypes, port # <<>>
  PROVE  LET h == Head(port) IN
         /\ h \in IOCP!Completion /\ h.id \in Clients /\ h.bytes \in Nat
         /\ h.operationType \in {"accept", "receive"}
         /\ "accept" \in IOCP!Destinations(h) <=> h.operationType = "accept" /\ h.ok
         /\ "receive" \in IOCP!Destinations(h) <=> h.operationType = "receive" /\ h.bytes # 0
         /\ "disconnect" \in IOCP!Destinations(h) <=> h.operationType = "receive" /\ h.bytes = 0
<1> DEFINE h == Head(port)
<1>1. h \in IOCP!Completion
  BY HeadInPort DEF ServerTypes, TypeOK
<1>2. h.operationType # "send" /\ (~h.ok => h.bytes = 0)
  <2>1. port \in Seq(IOCP!Completion)
    BY DEF ServerTypes, TypeOK, IOCP!TypeOK
  <2>2. 1 \in DOMAIN port /\ h = port[1]
    BY <2>1, EmptySeq, LenProperties
  <2> QED
    BY <2>2 DEF ServerTypes, Segments
<1>3. h.id \in Clients /\ h.bytes \in Nat /\ h.operationType \in {"accept", "receive", "send"}
      /\ h.ok \in BOOLEAN
      /\ (h.operationType = "accept" => h.bytes = 0)
  <2>1. Sizes \union {0} \subseteq Nat
    BY DEF Sizes
  <2> QED
    BY <1>1, <2>1 DEF IOCP!Completion, IOCP!Operations
<1> HIDE DEF h
<1>4. /\ "accept" \in IOCP!Destinations(h) <=> h.operationType = "accept" /\ h.ok
      /\ "receive" \in IOCP!Destinations(h) <=> h.operationType = "receive" /\ h.bytes # 0
      /\ "disconnect" \in IOCP!Destinations(h) <=> h.operationType = "receive" /\ h.bytes = 0
  BY <1>2, <1>3 DEF IOCP!Destinations, IOCP!Disconnected
<1> QED
  BY <1>1, <1>2, <1>3, <1>4 DEF h

-----------------------------------------------------------------------------
(* Each step keeps the invariant. *)

\* A part of the invariant is kept by the steps that leave its variables alone.
LEMMA FrameConnection ==
  ASSUME ConnectionFirst,
         UNCHANGED <<port, queue, peer, mIsConnet, created>>
  PROVE  ConnectionFirst'
BY DEF ConnectionFirst, InPort, InQueue

LEMMA FrameAccept ==
  ASSUME AcceptChain,
         UNCHANGED <<port, queue, acceptPending, mIsConnet, created>>,
         \A c \in Clients : BeyondAccept(c)' = BeyondAccept(c)
  PROVE  AcceptChain'
<1> SUFFICES ASSUME NEW c \in Clients
             PROVE  (Accepts(c) + InSet(c, mIsConnet) <= InSet(c, created))'
  BY DEF AcceptChain
<1>1. Accepts(c)' = Accepts(c)
  BY SameCounts, Sums, SumsNext DEF Callbacks
<1>2. InSet(c, mIsConnet)' = InSet(c, mIsConnet) /\ InSet(c, created)' = InSet(c, created)
  BY DEF InSet
<1>3. Accepts(c) + InSet(c, mIsConnet) <= InSet(c, created)
  BY DEF AcceptChain
<1> QED
  BY <1>1, <1>2, <1>3

LEMMA FrameReceive ==
  ASSUME AtMostOneChain,
         UNCHANGED <<port, queue, receivePending, mIsConnet, disconnected>>,
         \A c \in Clients : BeyondReceive(c)' = BeyondReceive(c)
  PROVE  AtMostOneChain'
<1> SUFFICES ASSUME NEW c \in Clients
             PROVE  (Receives(c) + Disconnects(c) <= InSet(c, mIsConnet))'
  BY DEF AtMostOneChain
<1>1. /\ InSet(c, mIsConnet)' = InSet(c, mIsConnet)
      /\ InSet(c, disconnected)' = InSet(c, disconnected)
  BY DEF InSet
<1>2. Receives(c)' = Receives(c) /\ Disconnects(c)' = Disconnects(c)
  BY <1>1, SameCounts, Sums, SumsNext DEF Callbacks
<1>3. Receives(c) + Disconnects(c) <= InSet(c, mIsConnet)
  BY DEF AtMostOneChain
<1> QED
  BY <1>1, <1>2, <1>3

LEMMA FrameCount ==
  ASSUME CountInv,
         UNCHANGED <<accumulatedClientId, currentClientCount, currentClientMax, mIsConnet, loaded>>,
         at'["accept"] \in {"load", "store"} <=> at["accept"] \in {"load", "store"},
         at'["accept"] = "store" <=> at["accept"] = "store",
         at'["disconnect"] = "store" <=> at["disconnect"] = "store"
  PROVE  CountInv'
BY DEF CountInv

LEMMA FrameData ==
  ASSUME NothingSkipped,
         UNCHANGED <<port, queue, peerVars, handled, mIsConnet, receivePending, disconnected>>,
         at'["receive"] = "return" <=> at["receive"] = "return"
  PROVE  NothingSkipped'
<1>1. \A c \in Clients : Disconnects(c)' = Disconnects(c)
  BY DEF Disconnects, InQueue, InSet
<1> QED
  BY <1>1 DEF NothingSkipped, Accounted, Finished, peerVars

LEMMA DispatchKeeps ==
  ASSUME ServerInv, Dispatcher
  PROVE  ServerInv'
<1> DEFINE h == Head(port)
           pk == IOCP!PacketOf(h)
<1>1. ServerTypes /\ ServerTypes' /\ IOCP!TypeOK /\ IOCP!Dispatch /\ port # <<>>
  BY DispatchKeepsTypes DEF ServerInv, ServerTypes, TypeOK, Dispatcher, IOCP!Dispatch
<1>2. /\ working' = working /\ port' = Tail(port)
      /\ UNCHANGED <<at, loaded, mIsConnet, acceptPending, receivePending, created, accumulatedClientId,
                     currentClientCount, currentClientMax, peer, sent, unread, handled, disconnected>>
  BY <1>1 DEF Dispatcher, IOCP!Dispatch, threadVars, socketVars, supplyVars, peerVars, history
<1>3. /\ h.id \in Clients /\ h.bytes \in Nat
      /\ h.operationType \in {"accept", "receive"}
      /\ "accept" \in IOCP!Destinations(h) <=> h.operationType = "accept" /\ h.ok
      /\ "receive" \in IOCP!Destinations(h) <=> h.operationType = "receive" /\ h.bytes # 0
      /\ "disconnect" \in IOCP!Destinations(h) <=> h.operationType = "receive" /\ h.bytes = 0
  BY <1>1, DestinationIs
<1>4. /\ port \in Seq(IOCP!Completion)
      /\ 1 \in DOMAIN port /\ port[1] = h
      /\ \A i \in DOMAIN port' : i + 1 \in DOMAIN port /\ port'[i] = port[i + 1]
  <2>1. port \in Seq(IOCP!Completion)
    BY <1>1 DEF IOCP!TypeOK
  <2>2. /\ DOMAIN port = 1 .. Len(port) /\ Len(port) \in Nat \ {0}
        /\ Tail(port) \in Seq(IOCP!Completion) /\ Len(Tail(port)) = Len(port) - 1
        /\ \A i \in 1 .. Len(Tail(port)) : Tail(port)[i] = port[i + 1]
    BY <1>1, <2>1, LenProperties, EmptySeq, HeadTailProperties
  <2>3. DOMAIN Tail(port) = 1 .. Len(port) - 1
    BY <2>2, LenProperties
  <2> QED
    BY <1>2, <2>1, <2>2, <2>3
<1>5. ASSUME NEW c \in Clients
      PROVE  /\ BeyondAccept(c)' = BeyondAccept(c) /\ BeyondReceive(c)' = BeyondReceive(c)
             /\ InSet(c, mIsConnet)' = InSet(c, mIsConnet)
             /\ InSet(c, disconnected)' = InSet(c, disconnected)
  BY <1>2 DEF BeyondAccept, BeyondReceive, Beyond, Target, InSet
<1>6. ASSUME NEW c \in Clients
      PROVE  /\ InPort(c, "accept")' = InPort(c, "accept") -
                  (IF h.id = c /\ h.operationType = "accept" /\ h.ok THEN 1 ELSE 0)
             /\ InPort(c, "receive")' = InPort(c, "receive") -
                  (IF h.id = c /\ h.operationType = "receive" THEN 1 ELSE 0)
             /\ InQueue(c, "accept")' = InQueue(c, "accept") +
                  (IF h.id = c /\ h.operationType = "accept" /\ h.ok /\ Len(queue["accept"]) < Capacity
                   THEN 1 ELSE 0)
             /\ InQueue(c, "receive")' = InQueue(c, "receive") +
                  (IF h.id = c /\ h.operationType = "receive" /\ h.bytes # 0 /\ Len(queue["receive"]) < Capacity
                   THEN 1 ELSE 0)
             /\ InQueue(c, "disconnect")' = InQueue(c, "disconnect") +
                  (IF h.id = c /\ h.operationType = "receive" /\ h.bytes = 0 /\ Len(queue["disconnect"]) < Capacity
                   THEN 1 ELSE 0)
  BY <1>1, <1>3, DispatchCounts DEF Callbacks
<1>7. /\ queue["receive"] \in Seq(IOCP!Packet) /\ pk \in IOCP!Packet
      /\ pk.ClientID = h.id /\ pk.DataSize = h.bytes
      /\ queue'["receive"] = IF h.operationType = "receive" /\ h.bytes # 0 /\ Len(queue["receive"]) < Capacity
                             THEN Append(queue["receive"], pk) ELSE queue["receive"]
  BY <1>1, <1>3, DispatchPushes DEF IOCP!TypeOK, IOCP!Workers, IOCP!PacketOf
<1> HIDE DEF h, pk
<1>8. ConnectionFirst'
  <2>1. ASSUME NEW c \in Clients, (InPort(c, "accept") + InQueue(c, "accept") > 0)'
        PROVE  InPort(c, "accept") + InQueue(c, "accept") > 0
    BY <1>1, <1>6, <2>1, Terms
  <2>2. \A i \in DOMAIN port' : port'[i].id \in created'
    BY <1>2, <1>4 DEF ServerInv, ConnectionFirst
  <2> QED
    BY <1>2, <2>1, <2>2 DEF ServerInv, ConnectionFirst
<1>9. AcceptChain'
  <2> SUFFICES ASSUME NEW c \in Clients
               PROVE  (Accepts(c) + InSet(c, mIsConnet) <= InSet(c, created))'
    BY DEF AcceptChain
  <2>1. Accepts(c) \in Int /\ Accepts(c)' \in Int /\ Accepts(c)' <= Accepts(c)
    <3>1. acceptPending'[c] = acceptPending[c]
      BY <1>2
    <3>2. /\ acceptPending[c] \in Nat /\ BeyondAccept(c) \in {0, 1}
          /\ InPort(c, "accept") \in Nat /\ InQueue(c, "accept") \in Nat
      BY <1>1, Terms
    <3>3. /\ InPort(c, "accept")' \in Int /\ InQueue(c, "accept")' \in Int
          /\ InPort(c, "accept")' + InQueue(c, "accept")' <= InPort(c, "accept") + InQueue(c, "accept")
      BY <1>6, <3>2
    <3>4. BeyondAccept(c)' = BeyondAccept(c)
      BY <1>5
    <3>5. /\ Accepts(c) = acceptPending[c] + InPort(c, "accept") + InQueue(c, "accept") - BeyondAccept(c)
          /\ Accepts(c)' = acceptPending'[c] + InPort(c, "accept")' + InQueue(c, "accept")' - BeyondAccept(c)'
      BY Sums, SumsNext
    <3> QED
      BY <3>1, <3>2, <3>3, <3>4, <3>5
  <2>2. InSet(c, mIsConnet)' = InSet(c, mIsConnet) /\ InSet(c, mIsConnet) \in {0, 1}
    BY <1>1, <1>5, Terms
  <2>3. InSet(c, created)' = InSet(c, created) /\ InSet(c, created) \in {0, 1}
    BY <1>2 DEF InSet
  <2>4. Accepts(c) + InSet(c, mIsConnet) <= InSet(c, created)
    BY DEF ServerInv, AcceptChain
  <2> QED
    BY <2>1, <2>2, <2>3, <2>4
<1>10. AtMostOneChain'
  <2> SUFFICES ASSUME NEW c \in Clients
               PROVE  (Receives(c) + Disconnects(c) <= InSet(c, mIsConnet))'
    BY DEF AtMostOneChain
  <2>1. /\ Receives(c) + Disconnects(c) \in Int /\ Receives(c)' + Disconnects(c)' \in Int
        /\ Receives(c)' + Disconnects(c)' <= Receives(c) + Disconnects(c)
    <3>1. receivePending'[c] = receivePending[c]
      BY <1>2
    <3>2. /\ receivePending[c] \in Nat /\ InPort(c, "receive") \in Nat
          /\ InQueue(c, "receive") \in Nat /\ InQueue(c, "disconnect") \in Nat
          /\ BeyondReceive(c) \in {0, 1} /\ InSet(c, disconnected) \in {0, 1}
      BY <1>1, Terms
    <3>3. /\ BeyondReceive(c)' = BeyondReceive(c)
          /\ InSet(c, disconnected)' = InSet(c, disconnected)
      BY <1>5
    <3>4. \/ /\ InPort(c, "receive")' = InPort(c, "receive")
             /\ InQueue(c, "receive")' = InQueue(c, "receive")
             /\ InQueue(c, "disconnect")' = InQueue(c, "disconnect")
          \/ /\ InPort(c, "receive")' = InPort(c, "receive") - 1
             /\ InQueue(c, "receive")' \in {InQueue(c, "receive"), InQueue(c, "receive") + 1}
             /\ InQueue(c, "disconnect")' = InQueue(c, "disconnect")
          \/ /\ InPort(c, "receive")' = InPort(c, "receive") - 1
             /\ InQueue(c, "receive")' = InQueue(c, "receive")
             /\ InQueue(c, "disconnect")' \in {InQueue(c, "disconnect"), InQueue(c, "disconnect") + 1}
      BY <1>6, <3>2
    <3> QED
      BY <3>1, <3>2, <3>3, <3>4, Sums, SumsNext
  <2>2. InSet(c, mIsConnet)' = InSet(c, mIsConnet) /\ InSet(c, mIsConnet) \in {0, 1}
    BY <1>1, <1>5, Terms
  <2>3. Receives(c) + Disconnects(c) <= InSet(c, mIsConnet)
    BY DEF ServerInv, AtMostOneChain
  <2> QED
    BY <2>1, <2>2, <2>3
<1>11. CountInv'
  BY <1>2 DEF ServerInv, CountInv
<1>12. NothingSkipped'
  <2> USE DEF Accounted, Finished
  <2>1. \A c \in Clients : (c \notin mIsConnet \/ receivePending[c] > 0 => Accounted(c, 0))'
    BY <1>2 DEF ServerInv, NothingSkipped
  <2>2. \A i \in DOMAIN port' :
          (port'[i].operationType = "receive" =>
             /\ Accounted(port[i].id, port[i].bytes)'
             /\ port'[i].bytes = 0 => Finished(port[i].id)')
    BY <1>2, <1>4 DEF ServerInv, NothingSkipped
  <2>3. h.operationType = "receive" =>
          Accounted(h.id, h.bytes) /\ (h.bytes = 0 => Finished(h.id))
    BY <1>4 DEF ServerInv, NothingSkipped
  <2>4. ASSUME NEW i \in DOMAIN queue'["receive"]
        PROVE  \/ i = 1 /\ at'["receive"] = "return"
               \/ /\ queue'["receive"][i].DataSize > 0
                  /\ Accounted(queue["receive"][i].ClientID, queue["receive"][i].DataSize)'
    <3>1. CASE queue'["receive"] = queue["receive"]
      BY <1>2, <2>4, <3>1 DEF ServerInv, NothingSkipped
    <3>2. CASE queue'["receive"] = Append(queue["receive"], pk) /\ h.operationType = "receive" /\ h.bytes # 0
      <4>1. \/ i \in DOMAIN queue["receive"] /\ queue'["receive"][i] = queue["receive"][i]
            \/ queue'["receive"][i] = pk
        <5>1. DOMAIN queue["receive"] = 1 .. Len(queue["receive"]) /\ Len(queue["receive"]) \in Nat
          BY <1>7, LenProperties
        <5>2. DOMAIN Append(queue["receive"], pk) = 1 .. Len(queue["receive"]) + 1
          BY <1>7, AppendProperties, LenProperties
        <5> QED
          BY <1>7, <2>4, <3>2, <5>1, <5>2, AppendProperties
      <4>2. CASE i \in DOMAIN queue["receive"] /\ queue'["receive"][i] = queue["receive"][i]
        BY <1>2, <4>2 DEF ServerInv, NothingSkipped
      <4>3. CASE queue'["receive"][i] = pk
        BY <1>2, <1>3, <1>7, <2>3, <3>2, <4>3
      <4> QED
        BY <4>1, <4>2, <4>3
    <3> QED
      BY <1>7, <3>1, <3>2
  <2>5. ASSUME NEW c \in Clients, Disconnects(c)' > 0
        PROVE  (Finished(c) /\ Accounted(c, 0))'
    <3>1. Disconnects(c) > 0 \/ (h.id = c /\ h.operationType = "receive" /\ h.bytes = 0)
      BY <1>1, <1>5, <1>6, <2>5, Terms, Sums, SumsNext
    <3>2. Finished(c) /\ Accounted(c, 0)
      BY <2>3, <3>1 DEF ServerInv, NothingSkipped
    <3> QED
      BY <1>2, <3>2
  <2> QED
    BY <2>1, <2>2, <2>4, <2>5 DEF NothingSkipped
<1> QED
  BY <1>1, <1>8, <1>9, <1>10, <1>11, <1>12 DEF ServerInv

LEMMA ChainsOf ==
  ASSUME ServerInv, NEW c \in Clients
  PROVE  /\ Accepts(c) \in Nat /\ Receives(c) \in Nat /\ Disconnects(c) \in Nat
         /\ InSet(c, mIsConnet) \in {0, 1}
         /\ InSet(c, mIsConnet) = 1 <=> c \in mIsConnet
         /\ InSet(c, created) \in {0, 1}
         /\ InSet(c, created) = 1 <=> c \in created
         /\ Accepts(c) + InSet(c, mIsConnet) <= InSet(c, created)
         /\ Receives(c) + Disconnects(c) <= InSet(c, mIsConnet)
<1>1. ServerTypes
  BY DEF ServerInv
<1>2. Accepts(c) \in Nat
  BY <1>1, Terms, Sums
<1>3. Receives(c) \in Nat /\ Disconnects(c) \in Nat
  BY <1>1, Terms, Sums
<1>4. /\ InSet(c, mIsConnet) \in {0, 1} /\ (InSet(c, mIsConnet) = 1 <=> c \in mIsConnet)
      /\ InSet(c, created) \in {0, 1} /\ (InSet(c, created) = 1 <=> c \in created)
  BY DEF InSet
<1> QED
  BY <1>2, <1>3, <1>4 DEF ServerInv, AcceptChain, AtMostOneChain

\* The client of a packet is in the map, so the callback is called.
LEMMA StartCalls ==
  ASSUME ServerInv, NEW w \in Callbacks, Start(w)
  PROVE  /\ at[w] = "idle"
         /\ working'[w].ClientID \in mClientDataConMap
         /\ at' = [at EXCEPT ![w] = IF w = "disconnect" THEN "load" ELSE "feedback"]
         /\ \A v \in Callbacks \ {w} : working'[v] = working[v]
         /\ working'[w].ClientID \in Clients
         /\ InQueue(working'[w].ClientID, w) >= 1
<1> DEFINE c == working'[w].ClientID
<1>1. ServerTypes /\ IOCP!TypeOK /\ IOCP!Call(w) /\ w \in IOCP!Workers
  BY DEF ServerInv, ServerTypes, TypeOK, Start, Callbacks, IOCP!Workers
<1>2. at[w] = "idle"
  BY <1>1 DEF ServerTypes, TypeOK, IOCP!Call
<1>3. queue[w] \in Seq(IOCP!Packet) /\ queue[w] # <<>> /\ working'[w] = Head(queue[w])
      /\ \A v \in Callbacks \ {w} : working'[v] = working[v]
  BY <1>1 DEF IOCP!Call, IOCP!TypeOK, Callbacks, IOCP!Workers
<1>4. 1 \in DOMAIN queue[w] /\ Head(queue[w]) = queue[w][1]
  BY <1>3, LenProperties, EmptySeq
<1>5. c \in Clients /\ InQueue(c, w) >= 1
  BY <1>1, <1>3, <1>4, QueuedCounted
<1> HIDE DEF c
<1>6. c \in created
  <2>1. BeyondReceive(c) = 0 \/ w # "receive"
    BY <1>2 DEF BeyondReceive, Beyond
  <2>2. CASE w = "accept"
    BY <1>1, <1>5, <2>2, Terms DEF ServerInv, ConnectionFirst
  <2>3. CASE w # "accept"
    <3>1. Receives(c) + Disconnects(c) >= 1
      BY <1>1, <1>5, <2>1, <2>3, Terms, Sums DEF Callbacks
    <3>2. InSet(c, mIsConnet) = 1
      BY <1>1, <1>5, <3>1, Terms, Sums DEF ServerInv, AtMostOneChain
    <3>3. c \in mIsConnet
      BY <3>2 DEF InSet
    <3> QED
      BY <1>5, <3>3 DEF ServerInv, ConnectionFirst
  <2> QED
    BY <2>2, <2>3
<1>7. /\ c \in mClientDataConMap
      /\ FirstStep(w) = IF w = "disconnect" THEN "load" ELSE "feedback"
  BY <1>1, <1>6 DEF FirstStep, c, ServerTypes, TypeOK
<1>8. at' = [at EXCEPT ![w] = IF w = "disconnect" THEN "load" ELSE "feedback"]
  BY <1>7 DEF Start, Goto
<1> QED
  BY <1>2, <1>3, <1>5, <1>7, <1>8 DEF c

LEMMA StartKeeps ==
  ASSUME ServerInv, NEW w \in Callbacks, Start(w)
  PROVE  ServerInv'
<1>1. ServerTypes'
  BY StartKeepsTypes DEF ServerInv
<1>2. /\ port' = port /\ queue' = queue
      /\ UNCHANGED <<loaded, mIsConnet, acceptPending, receivePending, created, accumulatedClientId,
                     currentClientCount, currentClientMax, peerVars, handled, disconnected>>
  BY DEF Start, IOCP!Call, socketVars, supplyVars, history
<1>3. /\ at[w] = "idle" /\ at' = [at EXCEPT ![w] = IF w = "disconnect" THEN "load" ELSE "feedback"]
      /\ at \in [Callbacks -> {"idle", "feedback", "load", "store", "check", "tryAccept", "return"}]
      /\ \A v \in Callbacks \ {w} : working'[v] = working[v]
  BY StartCalls DEF ServerInv, ServerTypes, TypeOK
<1>4. \A v \in Callbacks \ {w} : at'[v] = at[v]
  BY <1>3
<1>5. /\ \A c \in Clients : BeyondAccept(c)' = BeyondAccept(c)
      /\ \A c \in Clients : BeyondReceive(c)' = BeyondReceive(c)
  BY <1>3, <1>4 DEF BeyondAccept, BeyondReceive, Beyond, Target, Callbacks
<1>6. /\ at'["accept"] \in {"load", "store"} <=> at["accept"] \in {"load", "store"}
      /\ at'["accept"] = "store" <=> at["accept"] = "store"
      /\ at'["disconnect"] = "store" <=> at["disconnect"] = "store"
      /\ at'["receive"] = "return" <=> at["receive"] = "return"
  BY <1>3, <1>4 DEF Callbacks
<1>7. ConnectionFirst'
  BY <1>2, FrameConnection DEF ServerInv, peerVars
<1>8. AcceptChain'
  BY <1>2, <1>5, FrameAccept DEF ServerInv
<1>9. AtMostOneChain'
  BY <1>2, <1>5, FrameReceive DEF ServerInv
<1>10. CountInv'
  BY <1>2, <1>6, FrameCount DEF ServerInv
<1>11. NothingSkipped'
  BY <1>2, <1>6, FrameData DEF ServerInv
<1> QED
  BY <1>1, <1>7, <1>8, <1>9, <1>10, <1>11 DEF ServerInv

LEMMA ReturnKeeps ==
  ASSUME ServerInv, NEW w \in Callbacks, Return(w)
  PROVE  ServerInv'
<1> DEFINE t == Target(w)
<1>1. ServerTypes /\ ServerTypes' /\ IOCP!TypeOK /\ IOCP!Pop(w) /\ w \in IOCP!Workers
  BY ReturnKeepsTypes DEF ServerInv, ServerTypes, TypeOK, Return, Callbacks, IOCP!Workers
<1>2. /\ port' = port
      /\ UNCHANGED <<loaded, mIsConnet, acceptPending, receivePending, created, accumulatedClientId,
                     currentClientCount, currentClientMax, peer, sent, unread, handled>>
  BY <1>1 DEF Return, IOCP!Pop, socketVars, supplyVars, peerVars
<1>3. /\ at[w] = "return" /\ at' = [at EXCEPT ![w] = "idle"]
      /\ at \in [Callbacks -> {"idle", "feedback", "load", "store", "check", "tryAccept", "return"}]
      /\ disconnected' = disconnected \union {c \in {t} : w = "disconnect"}
  BY <1>1 DEF Return, Goto, ServerTypes, TypeOK
<1>4. /\ \A v \in Callbacks \ {w} : at'[v] = at[v] /\ working'[v] = working[v] /\ queue'[v] = queue[v]
      /\ at'[w] = "idle" /\ queue'[w] = Tail(queue[w])
  BY <1>1, <1>3 DEF IOCP!Pop, IOCP!TypeOK, Callbacks, IOCP!Workers
<1>5. t \in Clients /\ queue[w] \in Seq(IOCP!Packet) /\ queue[w] # <<>> /\ InQueue(t, w) >= 1
  BY <1>1, <1>3, CallbackPacket, TargetCounted
<1> HIDE DEF t
<1>6. ASSUME NEW c \in Clients
      PROVE  /\ InPort(c, "accept")' = InPort(c, "accept")
             /\ InPort(c, "receive")' = InPort(c, "receive")
             /\ InQueue(c, w)' = InQueue(c, w) - (IF t = c THEN 1 ELSE 0)
             /\ \A v \in Callbacks \ {w} : InQueue(c, v)' = InQueue(c, v)
             /\ BeyondAccept(c)' = BeyondAccept(c) - (IF w = "accept" /\ t = c THEN 1 ELSE 0)
             /\ BeyondReceive(c)' = BeyondReceive(c) - (IF w = "receive" /\ t = c THEN 1 ELSE 0)
             /\ InSet(c, mIsConnet)' = InSet(c, mIsConnet)
  <2>1. /\ BeyondAccept(c)' = BeyondAccept(c) - (IF w = "accept" /\ t = c THEN 1 ELSE 0)
        /\ BeyondReceive(c)' = BeyondReceive(c) - (IF w = "receive" /\ t = c THEN 1 ELSE 0)
    BY <1>3, <1>4 DEF BeyondAccept, BeyondReceive, Beyond, Target, Callbacks, t
  <2>2. InSet(c, mIsConnet)' = InSet(c, mIsConnet)
    BY <1>2 DEF InSet
  <2> QED
    BY <1>1, <2>1, <2>2, ReturnCounts DEF t
<1>7. ASSUME NEW c \in Clients
      PROVE  Disconnects(c)' = Disconnects(c)
  <2>1. CASE w = "disconnect"
    <3>1. t \notin disconnected
      <4>1. Disconnects(t) <= 1
        BY <1>5, ChainsOf
      <4>2. InQueue(t, "disconnect") >= 1 /\ InQueue(t, "disconnect") \in Nat
        BY <1>1, <1>5, <2>1, Terms
      <4>3. InSet(t, disconnected) # 1
        BY <1>1, <1>5, <4>1, <4>2, Terms, Sums
      <4> QED
        BY <4>3 DEF InSet
    <3>2. InSet(c, disconnected)' = InSet(c, disconnected) + (IF t = c THEN 1 ELSE 0)
      BY <1>3, <2>1, <3>1 DEF InSet
    <3>3. InQueue(c, "disconnect")' = InQueue(c, "disconnect") - (IF t = c THEN 1 ELSE 0)
      BY <1>6, <2>1
    <3>4. InQueue(c, "disconnect") \in Nat /\ InSet(c, disconnected) \in {0, 1}
      BY <1>1, Terms
    <3> QED
      BY <3>2, <3>3, <3>4, Sums, SumsNext
  <2>2. CASE w # "disconnect"
    <3>1. InSet(c, disconnected)' = InSet(c, disconnected)
      BY <1>3, <2>2 DEF InSet
    <3>2. InQueue(c, "disconnect")' = InQueue(c, "disconnect")
      BY <1>6, <2>2 DEF Callbacks
    <3> QED
      BY <3>1, <3>2, Sums, SumsNext
  <2> QED
    BY <2>1, <2>2
<1>8. ConnectionFirst'
  <2>1. ASSUME NEW c \in Clients, (InPort(c, "accept") + InQueue(c, "accept") > 0)'
        PROVE  InPort(c, "accept") + InQueue(c, "accept") > 0
    <3>1. InQueue(c, "accept")' = InQueue(c, "accept") \/ InQueue(c, "accept")' = InQueue(c, "accept") - 1
      BY <1>1, <1>6, Terms DEF Callbacks
    <3> QED
      BY <1>1, <1>6, <2>1, <3>1, Terms
  <2> QED
    BY <1>2, <2>1 DEF ServerInv, ConnectionFirst
<1>9. AcceptChain'
  <2> SUFFICES ASSUME NEW c \in Clients
               PROVE  (Accepts(c) + InSet(c, mIsConnet) <= InSet(c, created))'
    BY DEF AcceptChain
  <2>1. InQueue(c, "accept")' - BeyondAccept(c)' = InQueue(c, "accept") - BeyondAccept(c)
    BY <1>1, <1>6, Terms DEF Callbacks
  <2>2. acceptPending'[c] = acceptPending[c] /\ InPort(c, "accept")' = InPort(c, "accept")
    BY <1>2, <1>6
  <2>3. InQueue(c, "accept")' \in Int /\ BeyondAccept(c)' \in Int
    BY <1>1, <1>6, Terms DEF Callbacks
  <2>4. Accepts(c)' = Accepts(c)
    BY <1>1, <2>1, <2>2, <2>3, Terms, Sums, SumsNext
  <2>5. InSet(c, created)' = InSet(c, created)
    BY <1>2 DEF InSet
  <2> QED
    BY <1>6, <2>4, <2>5 DEF ServerInv, AcceptChain
<1>10. AtMostOneChain'
  <2> SUFFICES ASSUME NEW c \in Clients
               PROVE  (Receives(c) + Disconnects(c) <= InSet(c, mIsConnet))'
    BY DEF AtMostOneChain
  <2>1. InQueue(c, "receive")' - BeyondReceive(c)' = InQueue(c, "receive") - BeyondReceive(c)
    BY <1>1, <1>6, Terms DEF Callbacks
  <2>2. receivePending'[c] = receivePending[c] /\ InPort(c, "receive")' = InPort(c, "receive")
    BY <1>2, <1>6
  <2>3. InQueue(c, "receive")' \in Int /\ BeyondReceive(c)' \in Int
    BY <1>1, <1>6, Terms DEF Callbacks
  <2>4. Receives(c)' = Receives(c)
    BY <1>1, <2>1, <2>2, <2>3, Terms, Sums, SumsNext
  <2> QED
    BY <1>6, <1>7, <2>4 DEF ServerInv, AtMostOneChain
<1>11. CountInv'
  <2>1. /\ at'["accept"] \in {"load", "store"} <=> at["accept"] \in {"load", "store"}
        /\ at'["accept"] = "store" <=> at["accept"] = "store"
        /\ at'["disconnect"] = "store" <=> at["disconnect"] = "store"
    BY <1>3, <1>4 DEF Callbacks
  <2> QED
    BY <1>2, <2>1, FrameCount DEF ServerInv
<1>12. NothingSkipped'
  <2>1. \A c \in Clients : (c \notin mIsConnet \/ receivePending[c] > 0 => Accounted(c, 0))'
    BY <1>2 DEF ServerInv, NothingSkipped, Accounted
  <2>2. \A i \in DOMAIN port' :
          (port'[i].operationType = "receive" =>
             /\ Accounted(port[i].id, port[i].bytes)'
             /\ port'[i].bytes = 0 => Finished(port[i].id)')
    BY <1>2 DEF ServerInv, NothingSkipped, Accounted, Finished
  <2>3. ASSUME NEW i \in DOMAIN queue'["receive"]
        PROVE  \/ i = 1 /\ at'["receive"] = "return"
               \/ /\ queue'["receive"][i].DataSize > 0
                  /\ Accounted(queue["receive"][i].ClientID, queue["receive"][i].DataSize)'
    <3>1. CASE w = "receive"
      <4>1. i + 1 \in DOMAIN queue["receive"] /\ i + 1 # 1 /\ queue'["receive"][i] = queue["receive"][i + 1]
        <5> DEFINE q == queue["receive"]
        <5>1. q \in Seq(IOCP!Packet) /\ q # <<>> /\ queue'["receive"] = Tail(q)
          BY <1>4, <1>5, <3>1
        <5> HIDE DEF q
        <5>2. /\ Tail(q) \in Seq(IOCP!Packet) /\ Len(Tail(q)) = Len(q) - 1
              /\ DOMAIN q = 1 .. Len(q) /\ Len(q) \in Nat
              /\ \A j \in 1 .. Len(Tail(q)) : Tail(q)[j] = q[j + 1]
          BY <5>1, HeadTailProperties, LenProperties
        <5>3. DOMAIN Tail(q) = 1 .. Len(q) - 1
          BY <5>2, LenProperties
        <5>4. i \in 1 .. Len(q) - 1
          BY <2>3, <5>1, <5>3
        <5>5. i + 1 \in DOMAIN q /\ i + 1 # 1 /\ Tail(q)[i] = q[i + 1]
          BY <5>2, <5>4
        <5> QED
          BY <5>1, <5>5 DEF q
      <4> QED
        BY <1>2, <4>1 DEF ServerInv, NothingSkipped, Accounted
    <3>2. CASE w # "receive"
      <4>1. queue'["receive"] = queue["receive"] /\ at'["receive"] = at["receive"]
        BY <1>4, <3>2 DEF Callbacks
      <4> QED
        BY <1>2, <2>3, <4>1 DEF ServerInv, NothingSkipped, Accounted
    <3> QED
      BY <3>1, <3>2
  <2>4. \A c \in Clients : Disconnects(c)' > 0 => (Finished(c) /\ Accounted(c, 0))'
    BY <1>2, <1>7 DEF ServerInv, NothingSkipped, Finished, Accounted
  <2> QED
    BY <2>1, <2>2, <2>3, <2>4 DEF NothingSkipped
<1> QED
  BY <1>1, <1>8, <1>9, <1>10, <1>11, <1>12 DEF ServerInv

LEMMA ClientsFinite == IsFiniteSet(Clients)
<1>1. CLIENT_INCREASE * MaxConnections \in Int
  BY CountsAssumption, BoundsAssumption
<1>2. CLIENT_INIT_COUNT + CLIENT_INCREASE * MaxConnections - 1 \in Int
  BY <1>1, CountsAssumption
<1> QED
  BY <1>2, FS_Interval DEF Clients

LEMMA ConnectedFinite ==
  ASSUME ServerTypes
  PROVE  IsFiniteSet(mIsConnet) /\ Cardinality(mIsConnet) \in Nat
<1>1. mIsConnet \subseteq Clients
  BY DEF ServerTypes, TypeOK
<1> QED
  BY <1>1, ClientsFinite, FS_Subset, FS_CardinalityType

(* Accept. *)

LEMMA FeedBackAcceptKeeps ==
  ASSUME ServerInv, FeedBack_Accept
  PROVE  ServerInv'
<1> DEFINE t == Target("accept")
<1>1. ServerTypes /\ ServerTypes'
  BY CallbackKeepsTypes DEF ServerInv
<1>2. /\ port' = port /\ queue' = queue /\ working' = working
      /\ mIsConnet' = mIsConnet \union {t}
      /\ at["accept"] = "feedback" /\ at' = [at EXCEPT !["accept"] = "load"]
      /\ UNCHANGED <<loaded, acceptPending, created, accumulatedClientId, currentClientCount,
                     currentClientMax, peer, sent, unread, handled, disconnected>>
  BY DEF FeedBack_Accept, Goto, iocpVars, supplyVars, peerVars, history
<1>3. t \in Clients /\ InQueue(t, "accept") >= 1
  BY <1>1, <1>2, CallbackPacket, TargetCounted DEF Callbacks
<1>4. /\ \A c \in Clients \ {t} : receivePending'[c] = receivePending[c]
      /\ receivePending'[t] \in {receivePending[t], receivePending[t] + 1}
  BY <1>1, <1>3 DEF FeedBack_Accept, ReceiveReady, ServerTypes, TypeOK
<1> HIDE DEF t
<1>5. /\ at'["accept"] = "load" /\ at'["receive"] = at["receive"] /\ at'["disconnect"] = at["disconnect"]
  BY <1>1, <1>2 DEF ServerTypes, TypeOK, Callbacks
<1>6. ASSUME NEW c \in Clients
      PROVE  /\ BeyondAccept(c) = 0
             /\ BeyondAccept(c)' = IF c = t THEN 1 ELSE 0
             /\ BeyondReceive(c)' = BeyondReceive(c)
             /\ InPort(c, "accept")' = InPort(c, "accept")
             /\ InPort(c, "receive")' = InPort(c, "receive")
             /\ \A v \in Callbacks : InQueue(c, v)' = InQueue(c, v)
             /\ InSet(c, disconnected)' = InSet(c, disconnected)
             /\ InSet(c, mIsConnet)' = IF c = t THEN 1 ELSE InSet(c, mIsConnet)
  <2>1. /\ BeyondAccept(c) = 0 /\ BeyondAccept(c)' = IF c = t THEN 1 ELSE 0
        /\ BeyondReceive(c)' = BeyondReceive(c)
    BY <1>2, <1>5 DEF BeyondAccept, BeyondReceive, Beyond, Target, t
  <2>2. /\ InSet(c, disconnected)' = InSet(c, disconnected)
        /\ InSet(c, mIsConnet)' = IF c = t THEN 1 ELSE InSet(c, mIsConnet)
    BY <1>2 DEF InSet
  <2> QED
    BY <1>2, <2>1, <2>2, SameCounts
<1>7. Accepts(t) >= 1
  BY <1>1, <1>3, <1>6, Terms, Sums
<1>8. t \notin mIsConnet /\ t \in created /\ Receives(t) = 0 /\ Disconnects(t) = 0
  BY <1>3, <1>7, ChainsOf
<1>9. ConnectionFirst'
  <2>1. peer[t] # "none"
    BY <1>1, <1>3, Terms DEF ServerInv, ConnectionFirst
  <2>2. ASSUME NEW c \in Clients, (InPort(c, "accept") + InQueue(c, "accept") > 0)'
        PROVE  InPort(c, "accept") + InQueue(c, "accept") > 0
    BY <1>6, <2>2 DEF Callbacks
  <2> QED
    BY <1>2, <2>1, <2>2 DEF ServerInv, ConnectionFirst
<1>10. AcceptChain'
  <2> SUFFICES ASSUME NEW c \in Clients
               PROVE  (Accepts(c) + InSet(c, mIsConnet) <= InSet(c, created))'
    BY DEF AcceptChain
  <2>1. Accepts(c)' = Accepts(c) - (IF c = t THEN 1 ELSE 0)
    <3>1. InQueue(c, "accept")' = InQueue(c, "accept") /\ acceptPending'[c] = acceptPending[c]
      BY <1>2, <1>6 DEF Callbacks
    <3> QED
      BY <1>1, <1>6, <3>1, Terms, Sums, SumsNext
  <2>2. InSet(c, created)' = InSet(c, created)
    BY <1>2 DEF InSet
  <2>3. InSet(c, mIsConnet)' = IF c = t THEN 1 ELSE InSet(c, mIsConnet)
    BY <1>6
  <2>4. c = t => Accepts(c) <= 1
    BY <1>3, ChainsOf
  <2> QED
    BY <1>7, <1>8, <2>1, <2>2, <2>3, <2>4, ChainsOf
<1>11. AtMostOneChain'
  <2> SUFFICES ASSUME NEW c \in Clients
               PROVE  (Receives(c) + Disconnects(c) <= InSet(c, mIsConnet))'
    BY DEF AtMostOneChain
  <2>1. /\ Disconnects(c)' = Disconnects(c)
        /\ Receives(c)' = Receives(c) + (receivePending'[c] - receivePending[c])
    <3>1. InQueue(c, "receive")' = InQueue(c, "receive") /\ InQueue(c, "disconnect")' = InQueue(c, "disconnect")
      BY <1>6 DEF Callbacks
    <3>2. receivePending'[c] \in Nat
      BY <1>1 DEF ServerTypes, TypeOK
    <3> QED
      BY <1>1, <1>6, <3>1, <3>2, Terms, Sums, SumsNext
  <2>2. CASE c = t
    BY <1>1, <1>4, <1>6, <1>8, <2>1, <2>2, Terms
  <2>3. CASE c # t
    <3>1. Receives(c)' = Receives(c)
      BY <1>1, <1>4, <2>1, <2>3, ChainsOf, Terms
    <3> QED
      BY <1>6, <2>1, <2>3, <3>1, ChainsOf
  <2> QED
    BY <2>2, <2>3
<1>12. CountInv'
  <2>1. Cardinality(mIsConnet') = Cardinality(mIsConnet) + 1
    BY <1>1, <1>2, <1>8, ConnectedFinite, FS_AddElement
  <2>2. Cardinality(mIsConnet) \in Nat /\ loaded \in [{"accept", "disconnect"} -> Int] /\ currentClientCount \in Int
    BY <1>1, ConnectedFinite DEF ServerTypes, TypeOK
  <2> QED
    BY <1>2, <1>5, <2>1, <2>2 DEF ServerInv, CountInv
<1>13. NothingSkipped'
  <2>1. \A c \in Clients : Disconnects(c)' = Disconnects(c)
    BY <1>6, Sums, SumsNext DEF Callbacks
  <2>2. ASSUME NEW c \in Clients, c \notin mIsConnet' \/ receivePending'[c] > 0
        PROVE  Accounted(c, 0)'
    <3>1. Accounted(c, 0)
      BY <1>2, <1>4, <1>8, <2>2 DEF ServerInv, NothingSkipped
    <3> QED
      BY <1>2, <3>1 DEF Accounted
  <2> QED
    BY <1>2, <1>5, <2>1, <2>2 DEF ServerInv, NothingSkipped, Accounted, Finished
<1> QED
  BY <1>1, <1>9, <1>10, <1>11, <1>12, <1>13 DEF ServerInv

\* The steps that change nothing but the counters, and where their callback is.
LEMMA CounterStepKeeps ==
  ASSUME ServerInv, ServerTypes', CountInv',
         UNCHANGED <<iocpVars, socketVars, created, accumulatedClientId, peerVars, history>>,
         \A c \in Clients : BeyondAccept(c)' = BeyondAccept(c),
         at'["receive"] = at["receive"]
  PROVE  ServerInv'
<1> USE DEF iocpVars, socketVars, peerVars, history
<1>1. \A c \in Clients : BeyondReceive(c)' = BeyondReceive(c)
  BY DEF BeyondReceive, Beyond, Target
<1>2. ConnectionFirst'
  BY FrameConnection DEF ServerInv
<1>3. AcceptChain'
  BY FrameAccept DEF ServerInv
<1>4. AtMostOneChain'
  BY <1>1, FrameReceive DEF ServerInv
<1>5. NothingSkipped'
  BY FrameData DEF ServerInv
<1> QED
  BY <1>2, <1>3, <1>4, <1>5 DEF ServerInv

LEMMA CountersKeep ==
  ASSUME ServerInv,
         \/ \E w \in {"accept", "disconnect"} : LoadCount(w)
         \/ StoreCount("accept", 1, "check") \/ StoreCount("disconnect", -1, "tryAccept")
         \/ StillRoom
  PROVE  ServerInv'
<1>1. ServerTypes /\ ServerTypes'
  BY CallbackKeepsTypes DEF ServerInv
<1>2. /\ Cardinality(mIsConnet) \in Nat /\ loaded \in [{"accept", "disconnect"} -> Int]
      /\ currentClientCount \in Int
      /\ at \in [Callbacks -> {"idle", "feedback", "load", "store", "check", "tryAccept", "return"}]
  BY <1>1, ConnectedFinite DEF ServerTypes, TypeOK
<1> USE DEF Callbacks, Goto, Target, BeyondAccept, Beyond
<1>3. CASE LoadCount("accept")
  <2>1. CountInv'
    BY <1>2, <1>3 DEF LoadCount, ServerInv, CountInv, socketVars, supplyVars
  <2>2. /\ at'["receive"] = at["receive"]
        /\ \A c \in Clients : BeyondAccept(c)' = BeyondAccept(c)
        /\ UNCHANGED <<iocpVars, socketVars, created, accumulatedClientId, peerVars, history>>
    BY <1>2, <1>3 DEF LoadCount, supplyVars, iocpVars
  <2> QED
    BY <1>1, <2>1, <2>2, CounterStepKeeps
<1>4. CASE LoadCount("disconnect")
  <2>1. CountInv'
    BY <1>2, <1>4 DEF LoadCount, ServerInv, CountInv, socketVars, supplyVars
  <2>2. /\ at'["receive"] = at["receive"]
        /\ \A c \in Clients : BeyondAccept(c)' = BeyondAccept(c)
        /\ UNCHANGED <<iocpVars, socketVars, created, accumulatedClientId, peerVars, history>>
    BY <1>2, <1>4 DEF LoadCount, supplyVars, iocpVars
  <2> QED
    BY <1>1, <2>1, <2>2, CounterStepKeeps
<1>5. CASE StoreCount("accept", 1, "check")
  <2>1. CountInv'
    BY <1>2, <1>5 DEF StoreCount, ServerInv, CountInv, socketVars
  <2>2. /\ at'["receive"] = at["receive"]
        /\ \A c \in Clients : BeyondAccept(c)' = BeyondAccept(c)
        /\ UNCHANGED <<iocpVars, socketVars, created, accumulatedClientId, peerVars, history>>
    BY <1>2, <1>5 DEF StoreCount, iocpVars
  <2> QED
    BY <1>1, <2>1, <2>2, CounterStepKeeps
<1>6. CASE StoreCount("disconnect", -1, "tryAccept")
  <2>1. CountInv'
    BY <1>2, <1>6 DEF StoreCount, ServerInv, CountInv, socketVars
  <2>2. /\ at'["receive"] = at["receive"]
        /\ \A c \in Clients : BeyondAccept(c)' = BeyondAccept(c)
        /\ UNCHANGED <<iocpVars, socketVars, created, accumulatedClientId, peerVars, history>>
    BY <1>2, <1>6 DEF StoreCount, iocpVars
  <2> QED
    BY <1>1, <2>1, <2>2, CounterStepKeeps
<1>7. CASE StillRoom
  <2>1. CountInv'
    BY <1>2, <1>7 DEF StillRoom, ServerInv, CountInv, socketVars, supplyVars
  <2>2. /\ at'["receive"] = at["receive"]
        /\ \A c \in Clients : BeyondAccept(c)' = BeyondAccept(c)
        /\ UNCHANGED <<iocpVars, socketVars, created, accumulatedClientId, peerVars, history>>
    BY <1>2, <1>7 DEF StillRoom, supplyVars, iocpVars
  <2> QED
    BY <1>1, <2>1, <2>2, CounterStepKeeps
<1> QED
  BY <1>3, <1>4, <1>5, <1>6, <1>7

\* Sockets are added when every client of the map is connected.
LEMMA ConnectedCreated ==
  ASSUME ServerInv
  PROVE  mIsConnet \subseteq created /\ created \subseteq mClientDataConMap
<1>1. mIsConnet \subseteq Clients /\ created \subseteq mClientDataConMap
  BY DEF ServerInv, ServerTypes, TypeOK
<1>2. \A c \in mIsConnet : c \in created
  BY <1>1, ChainsOf
<1> QED
  BY <1>1, <1>2

LEMMA AllConnected ==
  ASSUME ServerInv, PrepareMore
  PROVE  mIsConnet = created
<1>1. ServerTypes /\ at["accept"] = "check" /\ IsEmpty
  BY DEF ServerInv, PrepareMore
<1>2. currentClientMax \in Nat /\ currentClientCount \in Int /\ accumulatedClientId \in Nat
  BY <1>1 DEF ServerTypes, TypeOK
<1>3. Cardinality(mIsConnet) \in Nat
  BY <1>1, ConnectedFinite
<1>4. accumulatedClientId <= Cardinality(mIsConnet)
  BY <1>1, <1>2, <1>3 DEF ServerInv, CountInv, IsEmpty
<1>5. mIsConnet \subseteq mClientDataConMap
  BY ConnectedCreated
<1>6. IsFiniteSet(mClientDataConMap) /\ Cardinality(mClientDataConMap) = accumulatedClientId
  BY <1>2, FS_Interval DEF mClientDataConMap
<1>7. Cardinality(mIsConnet) <= Cardinality(mClientDataConMap)
  BY <1>5, <1>6, FS_Subset
<1>8. Cardinality(mClientDataConMap) = Cardinality(mIsConnet)
  BY <1>2, <1>3, <1>4, <1>6, <1>7
<1>9. mIsConnet = mClientDataConMap
  BY <1>5, <1>6, <1>8, FS_Subset
<1> QED
  BY <1>9, ConnectedCreated

\* PrepareSocket arms each socket it has made, and no other: those made before it are
\* connected.
LEMMA PrepareSocketArms ==
  ASSUME ServerTypes, mIsConnet = created, NEW n \in Nat, PrepareSocket(n)
  PROVE  /\ created \subseteq created'
         /\ \A c \in Clients : acceptPending'[c] = acceptPending[c] +
                                 (IF c \in created' \ created THEN 1 ELSE 0)
<1>1. created \subseteq created'
  BY DEF PrepareSocket, MakeSockets
<1>2. TryAccept(created') /\ mIsConnet = created
  BY DEF PrepareSocket
<1> QED
  BY <1>1, <1>2 DEF TryAccept

LEMMA PrepareSocketKeeps ==
  ASSUME ServerInv, ServerTypes', mIsConnet = created, NEW n \in Nat, PrepareSocket(n),
         UNCHANGED <<iocpVars, loaded, peerVars, history>>,
         \A c \in Clients : BeyondAccept(c)' = BeyondAccept(c),
         \A c \in Clients : BeyondReceive(c)' = BeyondReceive(c),
         at'["accept"] \in {"load", "store"} <=> at["accept"] \in {"load", "store"},
         at'["accept"] = "store" <=> at["accept"] = "store",
         at'["receive"] = at["receive"], at'["disconnect"] = at["disconnect"]
  PROVE  ServerInv'
<1>1. ServerTypes
  BY DEF ServerInv
<1>2. /\ port' = port /\ queue' = queue /\ working' = working
      /\ UNCHANGED <<loaded, mIsConnet, receivePending, currentClientCount, peerVars,
                     handled, disconnected>>
      /\ accumulatedClientId' = accumulatedClientId + n
      /\ currentClientMax' = currentClientMax + n
  BY DEF PrepareSocket, iocpVars, history
<1>3. /\ created \subseteq created'
      /\ \A c \in Clients : acceptPending'[c] = acceptPending[c] +
                              (IF c \in created' \ created THEN 1 ELSE 0)
  BY <1>1, PrepareSocketArms
<1>4. ConnectionFirst'
  BY <1>2, <1>3 DEF ServerInv, ConnectionFirst, InPort, InQueue, peerVars
<1>5. AcceptChain'
  <2> SUFFICES ASSUME NEW c \in Clients
               PROVE  (Accepts(c) + InSet(c, mIsConnet) <= InSet(c, created))'
    BY DEF AcceptChain
  <2>1. Accepts(c)' = Accepts(c) + (IF c \in created' \ created THEN 1 ELSE 0)
    <3>1. InPort(c, "accept")' = InPort(c, "accept") /\ InQueue(c, "accept")' = InQueue(c, "accept")
      BY <1>2, SameCounts DEF Callbacks
    <3> QED
      BY <1>1, <1>3, <3>1, Terms, Sums, SumsNext
  <2>2. InSet(c, mIsConnet)' = InSet(c, mIsConnet)
    BY <1>2 DEF InSet
  <2>3. InSet(c, created)' = InSet(c, created) + (IF c \in created' \ created THEN 1 ELSE 0)
    BY <1>3 DEF InSet
  <2> QED
    BY <2>1, <2>2, <2>3, ChainsOf
<1>6. AtMostOneChain'
  BY <1>2, FrameReceive DEF ServerInv
<1>7. CountInv'
  BY <1>2 DEF ServerInv, CountInv
<1>8. NothingSkipped'
  BY <1>2, FrameData DEF ServerInv
<1> QED
  BY <1>4, <1>5, <1>6, <1>7, <1>8 DEF ServerInv

LEMMA PrepareMoreKeeps ==
  ASSUME ServerInv, PrepareMore
  PROVE  ServerInv'
<1>1. ServerTypes /\ ServerTypes' /\ mIsConnet = created
  BY CallbackKeepsTypes, AllConnected DEF ServerInv
<1>2. /\ at["accept"] = "check" /\ at' = [at EXCEPT !["accept"] = "return"]
      /\ working' = working /\ UNCHANGED <<iocpVars, loaded, peerVars, history>>
      /\ PrepareSocket(CLIENT_INCREASE)
  BY DEF PrepareMore, Goto, iocpVars
<1>3. at'["accept"] = "return" /\ at'["receive"] = at["receive"] /\ at'["disconnect"] = at["disconnect"]
  BY <1>1, <1>2 DEF ServerTypes, TypeOK, Callbacks
<1>4. \A c \in Clients : BeyondAccept(c)' = BeyondAccept(c) /\ BeyondReceive(c)' = BeyondReceive(c)
  BY <1>2, <1>3 DEF BeyondAccept, BeyondReceive, Beyond, Target
<1> QED
  BY <1>1, <1>2, <1>3, <1>4, CountsAssumption, PrepareSocketKeeps

\* Nobody is connected before the first sockets are made.
LEMMA NoneCreated ==
  ASSUME ServerInv, accumulatedClientId = 0
  PROVE  mClientDataConMap = {} /\ created = {} /\ mIsConnet = {}
<1>1. mClientDataConMap = {}
  BY DEF mClientDataConMap
<1> QED
  BY <1>1, ConnectedCreated

LEMMA PrepareFirstKeeps ==
  ASSUME ServerInv, PrepareFirst
  PROVE  ServerInv'
<1>1. ServerTypes /\ ServerTypes' /\ created = {} /\ mIsConnet = {}
  BY PrepareFirstKeepsTypes, NoneCreated DEF ServerInv, PrepareFirst
<1>2. PrepareSocket(CLIENT_INIT_COUNT) /\ UNCHANGED <<iocpVars, threadVars, peerVars, history>>
  BY DEF PrepareFirst
<1>3. \A c \in Clients : BeyondAccept(c)' = BeyondAccept(c) /\ BeyondReceive(c)' = BeyondReceive(c)
  BY <1>2 DEF BeyondAccept, BeyondReceive, Beyond, Target, iocpVars, threadVars
<1> QED
  BY <1>1, <1>2, <1>3, CountsAssumption, PrepareSocketKeeps DEF threadVars

(* Receive. *)

LEMMA FeedBackReceiveKeeps ==
  ASSUME ServerInv, FeedBack_Receive
  PROVE  ServerInv'
<1> DEFINE n == working["receive"].DataSize
           q == queue["receive"]
<1>1. ServerTypes /\ ServerTypes'
  BY CallbackKeepsTypes DEF ServerInv
<1> PICK t \in Clients : t = Target("receive")
  BY <1>1, CallbackPacket DEF FeedBack_Receive, Callbacks
<1>2. /\ port' = port /\ queue' = queue /\ working' = working
      /\ at["receive"] = "feedback" /\ at' = [at EXCEPT !["receive"] = "return"]
      /\ handled' = [handled EXCEPT ![t] = @ + n]
      /\ UNCHANGED <<loaded, mIsConnet, acceptPending, created, accumulatedClientId, currentClientCount,
                     currentClientMax, peer, sent, unread, disconnected>>
  BY DEF FeedBack_Receive, Goto, iocpVars, supplyVars, peerVars
<1>3. /\ t \in Clients /\ InQueue(t, "receive") >= 1
      /\ 1 \in DOMAIN q /\ q[1].ClientID = t /\ q[1].DataSize = n
      /\ working["receive"] \in IOCP!Packet
  BY <1>1, <1>2, CallbackPacket, TargetCounted DEF Callbacks, Target
<1>4. n \in Nat /\ handled \in [Clients -> Nat] /\ sent \in [Clients -> Nat] /\ unread \in [Clients -> Nat]
  BY <1>1, <1>3 DEF IOCP!Packet, Sizes, ServerTypes, TypeOK
<1>5. /\ \A c \in Clients \ {t} : receivePending'[c] = receivePending[c] /\ handled'[c] = handled[c]
      /\ receivePending'[t] \in {receivePending[t], receivePending[t] + 1}
      /\ handled'[t] = handled[t] + n
  BY <1>1, <1>2, <1>3, <1>4 DEF FeedBack_Receive, ReceiveReady, ServerTypes, TypeOK
<1>6. /\ at'["receive"] = "return" /\ at'["accept"] = at["accept"] /\ at'["disconnect"] = at["disconnect"]
  BY <1>1, <1>2 DEF ServerTypes, TypeOK, Callbacks
<1>7. ASSUME NEW c \in Clients
      PROVE  /\ BeyondAccept(c)' = BeyondAccept(c)
             /\ BeyondReceive(c) = 0
             /\ BeyondReceive(c)' = IF c = t THEN 1 ELSE 0
             /\ InPort(c, "receive")' = InPort(c, "receive")
             /\ InQueue(c, "receive")' = InQueue(c, "receive")
             /\ InQueue(c, "disconnect")' = InQueue(c, "disconnect")
             /\ InSet(c, disconnected)' = InSet(c, disconnected)
             /\ InSet(c, mIsConnet)' = InSet(c, mIsConnet)
  <2>1. /\ BeyondReceive(c) = 0 /\ BeyondReceive(c)' = IF c = t THEN 1 ELSE 0
        /\ BeyondAccept(c)' = BeyondAccept(c)
    BY <1>2, <1>6 DEF BeyondAccept, BeyondReceive, Beyond, Target
  <2>2. /\ InSet(c, disconnected)' = InSet(c, disconnected)
        /\ InSet(c, mIsConnet)' = InSet(c, mIsConnet)
    BY <1>2 DEF InSet
  <2> QED
    BY <1>2, <2>1, <2>2, SameCounts DEF Callbacks
<1> HIDE DEF n, q
\* This packet is the chain of its client: nothing else of it is under way.
<1>8. /\ receivePending[t] = 0 /\ InPort(t, "receive") = 0 /\ InQueue(t, "receive") = 1
      /\ Disconnects(t) = 0 /\ t \in mIsConnet
  <2>1. /\ receivePending[t] \in Nat /\ InPort(t, "receive") \in Nat
        /\ InQueue(t, "receive") \in Nat /\ BeyondReceive(t) = 0
    BY <1>1, <1>3, <1>7, Terms
  <2>2. Receives(t) = receivePending[t] + InPort(t, "receive") + InQueue(t, "receive")
    BY <1>3, <2>1, Sums
  <2>3. Receives(t) >= 1
    BY <1>3, <2>1, <2>2
  <2>4. /\ Disconnects(t) \in Nat /\ InSet(t, mIsConnet) \in {0, 1}
        /\ InSet(t, mIsConnet) = 1 <=> t \in mIsConnet
        /\ Receives(t) + Disconnects(t) <= InSet(t, mIsConnet)
        /\ Receives(t) \in Nat
    BY <1>3, ChainsOf
  <2>5. Receives(t) = 1 /\ Disconnects(t) = 0 /\ InSet(t, mIsConnet) = 1
    BY <2>3, <2>4
  <2> QED
    BY <1>3, <2>1, <2>2, <2>4, <2>5
<1>9. Accounted(t, n)
  BY <1>2, <1>3 DEF ServerInv, NothingSkipped, q
<1>10. ConnectionFirst'
  BY <1>2, FrameConnection DEF ServerInv
<1>11. AcceptChain'
  BY <1>2, <1>7, FrameAccept DEF ServerInv
<1>12. AtMostOneChain'
  <2> SUFFICES ASSUME NEW c \in Clients
               PROVE  (Receives(c) + Disconnects(c) <= InSet(c, mIsConnet))'
    BY DEF AtMostOneChain
  <2>1. Disconnects(c)' = Disconnects(c)
    BY <1>7, Sums, SumsNext
  <2>2. CASE c = t
    <3>1. InSet(c, mIsConnet)' = 1
      BY <1>7, <1>8, <2>2 DEF InSet
    <3>2. Receives(c)' = receivePending'[c]
      BY <1>3, <1>5, <1>7, <1>8, <2>2, SumsNext
    <3> QED
      BY <1>5, <1>8, <2>1, <2>2, <3>1, <3>2
  <2>3. CASE c # t
    <3>1. Receives(c)' = Receives(c)
      BY <1>5, <1>7, <2>3, Sums, SumsNext
    <3> QED
      BY <1>7, <2>1, <3>1, ChainsOf
  <2> QED
    BY <2>2, <2>3
<1>13. CountInv'
  BY <1>2, <1>6, FrameCount DEF ServerInv
<1>14. NothingSkipped'
  <2>1. ASSUME NEW c \in Clients, c # t, NEW k
        PROVE  Accounted(c, k)' <=> Accounted(c, k)
    BY <1>2, <1>5, <2>1 DEF Accounted
  <2>2. Accounted(t, 0)'
    <3>1. handled[t] \in Nat /\ unread[t] \in Nat /\ sent[t] \in Nat
      BY <1>3, <1>4
    <3>2. handled'[t] = handled[t] + n /\ unread' = unread /\ sent' = sent /\ peer' = peer
      BY <1>2, <1>5
    <3> QED
      BY <1>4, <1>9, <3>1, <3>2 DEF Accounted
  <2>3. ASSUME NEW c \in Clients, c \notin mIsConnet' \/ receivePending'[c] > 0
        PROVE  Accounted(c, 0)'
    <3>1. CASE c = t
      BY <2>2, <3>1
    <3>2. CASE c # t
      <4>1. Accounted(c, 0)
        BY <1>2, <1>5, <2>3, <3>2 DEF ServerInv, NothingSkipped
      <4> QED
        BY <1>2, <1>5, <3>2, <4>1 DEF Accounted
    <3> QED
      BY <3>1, <3>2
  <2>4. ASSUME NEW i \in DOMAIN port', port'[i].operationType = "receive"
        PROVE  /\ Accounted(port[i].id, port[i].bytes)'
               /\ port'[i].bytes = 0 => Finished(port[i].id)'
    <3>1. port[i].id # t /\ port[i].id \in Clients
      <4>1. port \in Seq(IOCP!Completion)
        BY <1>1 DEF ServerTypes, TypeOK, IOCP!TypeOK
      <4>2. port[i] \in IOCP!Completion
        BY <1>2, <2>4, <4>1, LenProperties
      <4> QED
        BY <1>1, <1>2, <1>3, <1>8, <2>4, <4>2, NoneInPort DEF IOCP!Completion
    <3> QED
      BY <1>2, <1>5, <2>4, <3>1 DEF ServerInv, NothingSkipped, Finished, Accounted
  <2>5. ASSUME NEW i \in DOMAIN queue'["receive"]
        PROVE  \/ i = 1 /\ at'["receive"] = "return"
               \/ /\ queue'["receive"][i].DataSize > 0
                  /\ Accounted(queue["receive"][i].ClientID, queue["receive"][i].DataSize)'
    <3>1. CASE i = 1
      BY <1>6, <3>1
    <3>2. CASE i # 1
      <4>1. q[i].ClientID # t /\ q[i].ClientID \in Clients
        BY <1>1, <1>2, <1>3, <1>8, <2>5, <3>2, OneQueued, QueuedCounted DEF Callbacks, q
      <4> QED
        BY <1>2, <1>5, <2>5, <3>2, <4>1 DEF ServerInv, NothingSkipped, Accounted, q
    <3> QED
      BY <3>1, <3>2
  <2>6. ASSUME NEW c \in Clients, Disconnects(c)' > 0
        PROVE  (Finished(c) /\ Accounted(c, 0))'
    <3>1. Disconnects(c)' = Disconnects(c) /\ c # t
      BY <1>7, <1>8, <2>6, Sums, SumsNext
    <3> QED
      BY <1>2, <2>1, <2>6, <3>1 DEF ServerInv, NothingSkipped, Finished
  <2> QED
    BY <2>3, <2>4, <2>5, <2>6 DEF NothingSkipped
<1> QED
  BY <1>1, <1>10, <1>11, <1>12, <1>13, <1>14 DEF ServerInv

(* Disconnect. *)

\* The client that leaves is connected, so that its TryAccept does nothing.
LEMMA DisconnectTryAcceptKeeps ==
  ASSUME ServerInv, DisconnectTryAccept
  PROVE  ServerInv' /\ acceptPending' = acceptPending
<1> DEFINE t == Target("disconnect")
<1>1. ServerTypes /\ ServerTypes'
  BY CallbackKeepsTypes DEF ServerInv
<1>2. t \in Clients /\ InQueue(t, "disconnect") >= 1
  BY <1>1, CallbackPacket, TargetCounted DEF DisconnectTryAccept, Callbacks
<1>3. t \in mIsConnet
  <2>1. Disconnects(t) >= 1
    BY <1>1, <1>2, Terms, Sums
  <2> HIDE DEF t
  <2> QED
    BY <1>2, <2>1, ChainsOf
<1>4. acceptPending' = acceptPending
  BY <1>1, <1>3 DEF DisconnectTryAccept, TryAccept, ServerTypes, TypeOK
<1>5. /\ at["disconnect"] = "tryAccept" /\ at' = [at EXCEPT !["disconnect"] = "return"]
      /\ UNCHANGED <<iocpVars, loaded, socketVars, supplyVars, peerVars, history>>
  BY <1>4 DEF DisconnectTryAccept, Goto, socketVars
<1>6. at'["accept"] = at["accept"] /\ at'["receive"] = at["receive"] /\ at'["disconnect"] = "return"
  BY <1>1, <1>5 DEF ServerTypes, TypeOK, Callbacks
<1>7. \A c \in Clients : BeyondAccept(c)' = BeyondAccept(c)
  BY <1>5, <1>6 DEF BeyondAccept, Beyond, Target, iocpVars
<1>8. CountInv'
  BY <1>5, <1>6, FrameCount DEF ServerInv, supplyVars, socketVars
<1>9. ServerInv'
  BY <1>1, <1>5, <1>6, <1>7, <1>8, CounterStepKeeps DEF supplyVars
<1> QED
  BY <1>4, <1>9

(* The peers. *)

\* Nothing is skipped as long as what was accounted for stays so, and the same
\* completions, or accounted ones, are in the port.
LEMMA AccountsKept ==
  ASSUME ServerTypes, ServerTypes', NothingSkipped, queue' = queue, at'["receive"] = at["receive"],
         \A d \in Clients, k \in Nat : Accounted(d, k) => Accounted(d, k)',
         \A d \in Clients : Finished(d) => Finished(d)',
         \A d \in Clients : /\ d \notin mIsConnet' => d \notin mIsConnet
                            /\ receivePending'[d] > 0 => receivePending[d] > 0
                            /\ Disconnects(d)' > 0 => Disconnects(d) > 0,
         \A i \in DOMAIN port' :
           \/ i \in DOMAIN port /\ port'[i] = port[i]
           \/ \E d \in Clients, k \in Nat :
                /\ port'[i].id = d /\ port'[i].bytes = k
                /\ port'[i].operationType = "receive" => Accounted(d, k)' /\ (k = 0 => Finished(d)')
  PROVE  NothingSkipped'
<1>1. \A d \in Clients : (d \notin mIsConnet \/ receivePending[d] > 0 => Accounted(d, 0))'
  BY DEF NothingSkipped
<1>2. ASSUME NEW i \in DOMAIN port', port'[i].operationType = "receive"
      PROVE  /\ Accounted(port[i].id, port[i].bytes)'
             /\ port'[i].bytes = 0 => Finished(port[i].id)'
  <2>1. CASE i \in DOMAIN port /\ port'[i] = port[i]
    <3>1. port[i].id \in Clients /\ port[i].bytes \in Nat
      <4>1. port \in Seq(IOCP!Completion)
        BY DEF ServerTypes, TypeOK, IOCP!TypeOK
      <4>2. port[i] \in IOCP!Completion
        BY <2>1, <4>1, LenProperties
      <4>3. Sizes \union {0} \subseteq Nat
        BY DEF Sizes
      <4> QED
        BY <4>2, <4>3 DEF IOCP!Completion
    <3> PICK d \in Clients, k \in Nat : port[i].id = d /\ port[i].bytes = k
      BY <3>1
    <3>2. Accounted(d, k) /\ (k = 0 => Finished(d))
      BY <1>2, <2>1 DEF NothingSkipped, Accounted, Finished
    <3>3. Accounted(d, k)' /\ (k = 0 => Finished(d)')
      BY <3>2
    <3> QED
      BY <2>1, <3>3 DEF Accounted, Finished
  <2>2. CASE \E d \in Clients, k \in Nat :
               /\ port'[i].id = d /\ port'[i].bytes = k
               /\ port'[i].operationType = "receive" => Accounted(d, k)' /\ (k = 0 => Finished(d)')
    BY <1>2, <2>2 DEF Accounted, Finished
  <2> QED
    BY <2>1, <2>2
<1>3. ASSUME NEW i \in DOMAIN queue'["receive"]
      PROVE  \/ i = 1 /\ at'["receive"] = "return"
             \/ /\ queue'["receive"][i].DataSize > 0
                /\ Accounted(queue["receive"][i].ClientID, queue["receive"][i].DataSize)'
  <2>1. queue["receive"][i].ClientID \in Clients /\ queue["receive"][i].DataSize \in Nat
    <3>1. queue["receive"] \in Seq(IOCP!Packet)
      BY DEF ServerTypes, TypeOK, IOCP!TypeOK, IOCP!Workers
    <3>2. queue["receive"][i] \in IOCP!Packet
      BY <1>3, <3>1, LenProperties
    <3>3. Sizes \union {0} \subseteq Nat
      BY DEF Sizes
    <3> QED
      BY <3>2, <3>3 DEF IOCP!Packet
  <2> PICK d \in Clients, k \in Nat : queue["receive"][i].ClientID = d /\ queue["receive"][i].DataSize = k
    BY <2>1
  <2>2. (i = 1 /\ at["receive"] = "return") \/ (k > 0 /\ Accounted(d, k))
    BY <1>3 DEF NothingSkipped, Accounted
  <2>3. (i = 1 /\ at["receive"] = "return") \/ (k > 0 /\ Accounted(d, k)')
    BY <2>2
  <2> QED
    BY <2>3 DEF Accounted
<1>4. \A d \in Clients : Disconnects(d)' > 0 => (Finished(d) /\ Accounted(d, 0))'
  BY DEF NothingSkipped
<1> QED
  BY <1>1, <1>2, <1>3, <1>4 DEF NothingSkipped

\* What the peer of c does keeps its segments accounted for, and it is not finished.
LEMMA PeersKeep ==
  ASSUME ServerInv, NEW c \in Clients, PeerSends(c) \/ PeerCloses(c) \/ PeerResets(c)
  PROVE  ServerInv'
<1>1. ServerTypes /\ ServerTypes'
  BY PeersKeepTypes DEF ServerInv
<1>2. /\ UNCHANGED <<port, queue, working, at, loaded, mIsConnet, acceptPending, receivePending,
                     created, accumulatedClientId, currentClientCount, currentClientMax, handled, disconnected>>
      /\ peer[c] = "open"
      /\ \A d \in Clients \ {c} : peer'[d] = peer[d] /\ sent'[d] = sent[d] /\ unread'[d] = unread[d]
      /\ peer'[c] \in {"open", "closed", "reset"}
  BY <1>1 DEF PeerSends, PeerCloses, PeerResets, serverVars, iocpVars, threadVars, socketVars,
              supplyVars, history, ServerTypes, TypeOK
<1>3. /\ \A d \in Clients : BeyondAccept(d)' = BeyondAccept(d)
      /\ \A d \in Clients : BeyondReceive(d)' = BeyondReceive(d)
  BY <1>2 DEF BeyondAccept, BeyondReceive, Beyond, Target
<1>4. ConnectionFirst'
  <2>1. \A d \in Clients : peer'[d] # "none" <=> peer[d] # "none"
    BY <1>2
  <2>2. {d \in Clients : peer'[d] # "none"} = {d \in Clients : peer[d] # "none"}
    BY <2>1
  <2>3. mIsConnet \subseteq Clients
    BY <1>1 DEF ServerTypes, TypeOK
  <2> QED
    BY <1>2, <2>1, <2>2, <2>3 DEF ServerInv, ConnectionFirst, InPort, InQueue
<1>5. AcceptChain'
  BY <1>2, <1>3, FrameAccept DEF ServerInv
<1>6. AtMostOneChain'
  BY <1>2, <1>3, FrameReceive DEF ServerInv
<1>7. CountInv'
  BY <1>2, FrameCount DEF ServerInv
<1>8. NothingSkipped'
  <2>1. ~Finished(c)
    BY <1>2 DEF Finished
  <2>2. ASSUME NEW d \in Clients, NEW k \in Nat, Accounted(d, k)
        PROVE  Accounted(d, k)'
    <3>1. CASE d = c
      <4>1. handled[c] \in Nat /\ unread[c] \in Nat /\ sent[c] \in Nat
        BY <1>1 DEF ServerTypes, TypeOK
      <4>2. handled[c] + unread[c] + k = sent[c]
        BY <1>2, <2>2, <3>1 DEF Accounted
      <4>3. CASE PeerSends(c)
        <5>1. unread'[c] = unread[c] + 1 /\ sent'[c] = sent[c] + 1 /\ handled'[c] = handled[c]
          BY <1>1, <4>3 DEF PeerSends, serverVars, history, ServerTypes, TypeOK
        <5> QED
          BY <3>1, <4>1, <4>2, <5>1 DEF Accounted
      <4>4. CASE PeerCloses(c)
        BY <1>2, <2>2, <3>1, <4>2, <4>4 DEF PeerCloses, Accounted
      <4>5. CASE PeerResets(c)
        <5>1. unread'[c] = 0 /\ sent'[c] = sent[c] /\ handled'[c] = handled[c] /\ peer'[c] = "reset"
          BY <1>1, <4>5 DEF PeerResets, serverVars, history, ServerTypes, TypeOK
        <5> QED
          BY <3>1, <4>1, <4>2, <5>1 DEF Accounted
      <4> QED
        BY <4>3, <4>4, <4>5
    <3>2. CASE d # c
      BY <1>2, <2>2, <3>2 DEF Accounted
    <3> QED
      BY <3>1, <3>2
  <2>3. ASSUME NEW d \in Clients, Finished(d)
        PROVE  Finished(d)'
    BY <1>2, <2>1, <2>3 DEF Finished
  <2>4. \A d \in Clients : Disconnects(d)' = Disconnects(d)
    BY <1>2 DEF Disconnects, InQueue, InSet
  <2> QED
    BY <1>1, <1>2, <2>2, <2>3, <2>4, AccountsKept DEF ServerInv
<1> QED
  BY <1>1, <1>4, <1>5, <1>6, <1>7, <1>8 DEF ServerInv

(* The completions. *)

\* What every completion leaves alone.
LEMMA CompletionFrame ==
  ASSUME ServerInv, NEW c \in Clients,
         Connect(c) \/ AcceptFails(c) \/ ReceiveCompletes(c)
  PROVE  /\ ServerTypes /\ ServerTypes'
         /\ UNCHANGED <<queue, working, at, loaded, mIsConnet, created, accumulatedClientId,
                        currentClientCount, currentClientMax, handled, disconnected, sent>>
         /\ CountInv'
         /\ \A d \in Clients : /\ BeyondAccept(d)' = BeyondAccept(d)
                               /\ BeyondReceive(d)' = BeyondReceive(d)
                               /\ InQueue(d, "accept")' = InQueue(d, "accept")
                               /\ InQueue(d, "receive")' = InQueue(d, "receive")
                               /\ InSet(d, mIsConnet)' = InSet(d, mIsConnet)
                               /\ Disconnects(d)' = Disconnects(d)
<1>1. ServerTypes /\ ServerTypes'
  BY CompletionsKeepTypes DEF ServerInv
<1>2. UNCHANGED <<queue, working, at, loaded, mIsConnet, created, accumulatedClientId,
                  currentClientCount, currentClientMax, handled, disconnected, sent>>
  BY DEF Connect, AcceptFails, ReceiveCompletes, Received, ReceivedEnd, ReceiveFails,
         CompletesReceive, Completes, threadVars, supplyVars, history, peerVars
<1>3. CountInv'
  BY <1>2, FrameCount DEF ServerInv
<1>4. ASSUME NEW d \in Clients
      PROVE  /\ BeyondAccept(d)' = BeyondAccept(d)
             /\ BeyondReceive(d)' = BeyondReceive(d)
             /\ InQueue(d, "accept")' = InQueue(d, "accept")
             /\ InQueue(d, "receive")' = InQueue(d, "receive")
             /\ InSet(d, mIsConnet)' = InSet(d, mIsConnet)
             /\ Disconnects(d)' = Disconnects(d)
  BY <1>2 DEF BeyondAccept, BeyondReceive, Beyond, Target, InQueue, InSet, Disconnects
<1> QED
  BY <1>1, <1>2, <1>3, <1>4

\* A completion of an AcceptEx, of a connection or a failure.
LEMMA AcceptCompletes ==
  ASSUME ServerInv, NEW c \in Clients, NEW ok \in BOOLEAN,
         Connect(c) \/ AcceptFails(c),
         acceptPending[c] > 0, acceptPending' = [acceptPending EXCEPT ![c] = @ - 1],
         Completes("accept", c, ok, 0), receivePending' = receivePending, unread' = unread,
         \A d \in Clients : peer[d] # "none" => peer'[d] = peer[d],
         peer'[c] \in {peer[c], "open"},
         \A d \in Clients \ {c} : peer'[d] = peer[d],
         ok => peer'[c] # "none",
         Cardinality({d \in Clients : peer'[d] # "none"}) <= MaxConnections
  PROVE  ServerInv'
<1>1. /\ ServerTypes /\ ServerTypes' /\ CountInv'
      /\ UNCHANGED <<queue, working, at, loaded, mIsConnet, created, accumulatedClientId,
                     currentClientCount, currentClientMax, handled, disconnected, sent>>
  BY CompletionFrame
<1>2. ASSUME NEW d \in Clients
      PROVE  /\ InPort(d, "accept")' = InPort(d, "accept") + (IF d = c /\ ok THEN 1 ELSE 0)
             /\ InPort(d, "receive")' = InPort(d, "receive")
  <2>1. 0 \in Sizes \union {0} /\ "accept" \in {"accept", "receive"}
    OBVIOUS
  <2>2. /\ InPort(d, "accept")' = InPort(d, "accept") +
             (IF d = c /\ "accept" = "accept" /\ ok THEN 1 ELSE 0)
        /\ InPort(d, "receive")' = InPort(d, "receive") +
             (IF d = c /\ "accept" = "receive" THEN 1 ELSE 0)
    BY <1>1, <2>1, CompletesCounts
  <2> QED
    BY <1>1, <2>2, Terms
<1>3. ASSUME NEW d \in Clients
      PROVE  acceptPending'[d] = acceptPending[d] - (IF d = c THEN 1 ELSE 0)
  BY <1>1 DEF ServerTypes, TypeOK
<1>4. c \in created
  <2>1. Accepts(c) >= 1
    BY <1>1, Terms, Sums
  <2> QED
    BY <2>1, ChainsOf
<1>5. ConnectionFirst'
  <2>1. \A d \in Clients : peer'[d] # "none" => d \in created'
    BY <1>1, <1>4 DEF ServerInv, ConnectionFirst
  <2>2. ASSUME NEW d \in Clients, (InPort(d, "accept") + InQueue(d, "accept") > 0)'
        PROVE  peer'[d] # "none"
    <3>1. CASE d = c /\ ok
      BY <3>1
    <3>2. CASE ~(d = c /\ ok)
      <4>1. InPort(d, "accept") + InQueue(d, "accept") > 0
        BY <1>1, <1>2, <2>2, <3>2, CompletionFrame, Terms
      <4> QED
        BY <4>1 DEF ServerInv, ConnectionFirst
    <3> QED
      BY <3>1, <3>2
  <2>3. \A d \in mIsConnet' : peer'[d] # "none"
    BY <1>1 DEF ServerInv, ConnectionFirst, ServerTypes, TypeOK
  <2>4. ASSUME NEW i \in DOMAIN port'
        PROVE  port'[i].id \in created'
    <3>1. \/ i \in DOMAIN port /\ port'[i] = port[i]
          \/ port'[i].id = c
      BY <1>1, CompletesAppends
    <3> QED
      BY <1>1, <1>4, <3>1 DEF ServerInv, ConnectionFirst
  <2> QED
    BY <2>1, <2>2, <2>3, <2>4 DEF ConnectionFirst
<1>6. AcceptChain'
  <2> SUFFICES ASSUME NEW d \in Clients
               PROVE  (Accepts(d) + InSet(d, mIsConnet) <= InSet(d, created))'
    BY DEF AcceptChain
  <2>1. Accepts(d)' <= Accepts(d) /\ Accepts(d)' \in Int
    BY <1>1, <1>2, <1>3, CompletionFrame, Terms, Sums, SumsNext
  <2>2. InSet(d, created)' = InSet(d, created) /\ InSet(d, mIsConnet)' = InSet(d, mIsConnet)
    BY <1>1 DEF InSet
  <2> QED
    BY <2>1, <2>2, ChainsOf
<1>7. AtMostOneChain'
  <2> SUFFICES ASSUME NEW d \in Clients
               PROVE  (Receives(d) + Disconnects(d) <= InSet(d, mIsConnet))'
    BY DEF AtMostOneChain
  <2>1. Receives(d)' = Receives(d)
    BY <1>2, CompletionFrame, Sums, SumsNext
  <2> QED
    BY <2>1, CompletionFrame, ChainsOf
<1>8. NothingSkipped'
  <2>1. \A d \in Clients, k \in Nat : Accounted(d, k) => Accounted(d, k)'
    BY <1>1 DEF Accounted
  <2>2. \A d \in Clients : Finished(d) => Finished(d)'
    BY DEF Finished
  <2>3. ASSUME NEW i \in DOMAIN port'
        PROVE  \/ i \in DOMAIN port /\ port'[i] = port[i]
               \/ port'[i].id = c /\ port'[i].bytes = 0 /\ port'[i].operationType = "accept"
    BY <1>1, CompletesAppends
  <2>4. \A d \in Clients : Disconnects(d)' = Disconnects(d)
    BY CompletionFrame
  <2> HIDE DEF NothingSkipped
  <2>5. \A i \in DOMAIN port' :
           \/ i \in DOMAIN port /\ port'[i] = port[i]
           \/ \E d \in Clients, k \in Nat :
                /\ port'[i].id = d /\ port'[i].bytes = k
                /\ port'[i].operationType = "receive" => Accounted(d, k)' /\ (k = 0 => Finished(d)')
    BY <2>3
  <2> QED
    BY <1>1, <2>1, <2>2, <2>4, <2>5, AccountsKept DEF ServerInv
<1> QED
  BY <1>1, <1>5, <1>6, <1>7, <1>8 DEF ServerInv

LEMMA ConnectKeeps ==
  ASSUME ServerInv, NEW c \in Clients, Connect(c)
  PROVE  ServerInv'
<1> DEFINE U == {d \in Clients : peer[d] # "none"}
<1>1. ServerTypes
  BY DEF ServerInv
<1>2. /\ acceptPending[c] > 0 /\ peer[c] = "none" /\ Cardinality(U) < MaxConnections
      /\ peer' = [peer EXCEPT ![c] = "open"]
      /\ acceptPending' = [acceptPending EXCEPT ![c] = @ - 1]
      /\ Completes("accept", c, TRUE, 0) /\ receivePending' = receivePending /\ unread' = unread
  BY DEF Connect
<1>3. peer'[c] = "open" /\ \A d \in Clients \ {c} : peer'[d] = peer[d]
  BY <1>1, <1>2 DEF ServerTypes, TypeOK
<1>4. {d \in Clients : peer'[d] # "none"} = U \union {c}
  BY <1>3
<1>5. IsFiniteSet(U) /\ Cardinality(U) \in Nat /\ c \notin U
  BY <1>2, ClientsFinite, FS_Subset, FS_CardinalityType
<1>6. Cardinality(U \union {c}) = Cardinality(U) + 1
  BY <1>5, FS_AddElement
<1>7. Cardinality(U \union {c}) <= MaxConnections
  <2>1. MaxConnections \in Nat /\ Cardinality(U) < MaxConnections /\ Cardinality(U) \in Nat
    BY <1>2, <1>5, BoundsAssumption
  <2> HIDE DEF U
  <2> QED
    BY <1>6, <2>1
<1>8. Cardinality({d \in Clients : peer'[d] # "none"}) <= MaxConnections
  BY <1>4, <1>7
<1> QED
  BY <1>2, <1>3, <1>8, AcceptCompletes

LEMMA AcceptFailsKeeps ==
  ASSUME ServerInv, NEW c \in Clients, AcceptFails(c)
  PROVE  ServerInv'
<1>1. /\ acceptPending[c] > 0 /\ acceptPending' = [acceptPending EXCEPT ![c] = @ - 1]
      /\ Completes("accept", c, FALSE, 0)
      /\ receivePending' = receivePending /\ unread' = unread /\ peer' = peer
  BY DEF AcceptFails, peerVars
<1>2. Cardinality({d \in Clients : peer'[d] # "none"}) <= MaxConnections
  BY <1>1 DEF ServerInv, ConnectionFirst
<1> QED
  BY <1>1, <1>2, AcceptCompletes

\* The WSARecv that completes is all there is under way for its client.
LEMMA OnlyReceive ==
  ASSUME ServerInv, NEW c \in Clients, receivePending[c] > 0
  PROVE  /\ receivePending[c] = 1 /\ InPort(c, "receive") = 0
         /\ InQueue(c, "receive") = BeyondReceive(c)
         /\ Disconnects(c) = 0 /\ c \in mIsConnet
<1>1. /\ receivePending[c] \in Nat /\ InPort(c, "receive") \in Nat
      /\ InQueue(c, "receive") \in Nat /\ BeyondReceive(c) \in {0, 1}
      /\ BeyondReceive(c) <= InQueue(c, "receive")
  BY Terms DEF ServerInv
<1>2. Receives(c) = receivePending[c] + InPort(c, "receive") + InQueue(c, "receive") - BeyondReceive(c)
  BY Sums
<1>3. /\ Receives(c) \in Nat /\ Disconnects(c) \in Nat /\ InSet(c, mIsConnet) \in {0, 1}
      /\ InSet(c, mIsConnet) = 1 <=> c \in mIsConnet
      /\ Receives(c) + Disconnects(c) <= InSet(c, mIsConnet)
  BY ChainsOf
<1>4. Receives(c) >= 1
  BY <1>1, <1>2
<1>5. Receives(c) = 1 /\ Disconnects(c) = 0 /\ InSet(c, mIsConnet) = 1
  BY <1>3, <1>4
<1>6. c \in mIsConnet
  BY <1>3, <1>5
<1>7. receivePending[c] + InPort(c, "receive") + InQueue(c, "receive") - BeyondReceive(c) = 1
  BY <1>2, <1>5
<1>8. BeyondReceive(c) \in Nat
  BY <1>1
<1>9. /\ receivePending[c] = 1 /\ InPort(c, "receive") = 0
      /\ InQueue(c, "receive") = BeyondReceive(c)
  BY <1>1, <1>7, <1>8
<1> QED
  BY <1>5, <1>6, <1>9

\* A WSARecv completes, with n segments, with the end of its connection, or with
\* its failure.
LEMMA ReceiveCompletionKeeps ==
  ASSUME ServerInv, NEW c \in Clients, ReceiveCompletes(c),
         NEW ok \in BOOLEAN, NEW n \in Sizes \union {0}, ~ok => n = 0,
         CompletesReceive(c, ok, n),
         n <= unread[c], unread' = [unread EXCEPT ![c] = @ - n], n = 0 => Finished(c)
  PROVE  ServerInv'
<1>1. /\ ServerTypes /\ ServerTypes' /\ CountInv'
      /\ UNCHANGED <<queue, working, at, loaded, mIsConnet, created, accumulatedClientId,
                     currentClientCount, currentClientMax, handled, disconnected, sent>>
  BY CompletionFrame
<1>2. /\ receivePending[c] > 0 /\ receivePending' = [receivePending EXCEPT ![c] = @ - 1]
      /\ Completes("receive", c, ok, n) /\ acceptPending' = acceptPending /\ peer' = peer
  BY DEF CompletesReceive
<1>3. ASSUME NEW d \in Clients
      PROVE  /\ InPort(d, "accept")' = InPort(d, "accept")
             /\ InPort(d, "receive")' = InPort(d, "receive") + (IF d = c THEN 1 ELSE 0)
  <2>1. "receive" \in {"accept", "receive"} /\ ("receive" = "accept" \/ ~ok => n = 0)
    OBVIOUS
  <2>2. /\ InPort(d, "accept")' = InPort(d, "accept") +
             (IF d = c /\ "receive" = "accept" /\ ok THEN 1 ELSE 0)
        /\ InPort(d, "receive")' = InPort(d, "receive") +
             (IF d = c /\ "receive" = "receive" THEN 1 ELSE 0)
    BY <1>1, <1>2, <2>1, CompletesCounts
  <2> QED
    BY <1>1, <2>2, Terms
<1>4. ASSUME NEW d \in Clients
      PROVE  receivePending'[d] = receivePending[d] - (IF d = c THEN 1 ELSE 0)
  BY <1>1, <1>2 DEF ServerTypes, TypeOK
<1>5. /\ receivePending'[c] = 0 /\ InPort(c, "receive") = 0
      /\ InQueue(c, "receive") = BeyondReceive(c)
      /\ Disconnects(c) = 0 /\ c \in mIsConnet
  <2>1. /\ receivePending[c] = 1 /\ InPort(c, "receive") = 0
        /\ InQueue(c, "receive") = BeyondReceive(c)
        /\ Disconnects(c) = 0 /\ c \in mIsConnet
    BY <1>2, OnlyReceive
  <2> QED
    BY <1>4, <2>1
<1>6. ConnectionFirst'
  <2>1. ASSUME NEW d \in Clients, (InPort(d, "accept") + InQueue(d, "accept") > 0)'
        PROVE  peer'[d] # "none"
    BY <1>2, <1>3, <2>1, CompletionFrame DEF ServerInv, ConnectionFirst
  <2>2. ASSUME NEW i \in DOMAIN port'
        PROVE  port'[i].id \in created'
    <3>1. \/ i \in DOMAIN port /\ port'[i] = port[i]
          \/ port'[i].id = c
      BY <1>1, <1>2, CompletesAppends
    <3>2. c \in created
      BY <1>5, ConnectedCreated
    <3> QED
      BY <1>1, <3>1, <3>2 DEF ServerInv, ConnectionFirst
  <2> QED
    BY <1>1, <1>2, <2>1, <2>2 DEF ServerInv, ConnectionFirst
<1>7. AcceptChain'
  <2> SUFFICES ASSUME NEW d \in Clients
               PROVE  (Accepts(d) + InSet(d, mIsConnet) <= InSet(d, created))'
    BY DEF AcceptChain
  <2>1. Accepts(d)' = Accepts(d)
    BY <1>2, <1>3, CompletionFrame, Sums, SumsNext
  <2>2. InSet(d, created)' = InSet(d, created) /\ InSet(d, mIsConnet)' = InSet(d, mIsConnet)
    BY <1>1 DEF InSet
  <2> QED
    BY <2>1, <2>2, ChainsOf
<1>8. AtMostOneChain'
  <2> SUFFICES ASSUME NEW d \in Clients
               PROVE  (Receives(d) + Disconnects(d) <= InSet(d, mIsConnet))'
    BY DEF AtMostOneChain
  <2>1. Receives(d)' = Receives(d)
    <3>1. /\ InPort(d, "receive")' = InPort(d, "receive") + (IF d = c THEN 1 ELSE 0)
          /\ receivePending'[d] = receivePending[d] - (IF d = c THEN 1 ELSE 0)
          /\ InQueue(d, "receive")' = InQueue(d, "receive")
          /\ BeyondReceive(d)' = BeyondReceive(d)
      BY <1>3, <1>4, CompletionFrame
    <3>2. /\ receivePending[d] \in Nat /\ InPort(d, "receive") \in Nat
          /\ InQueue(d, "receive") \in Nat /\ BeyondReceive(d) \in {0, 1}
      BY <1>1, Terms
    <3>3. /\ Receives(d) = receivePending[d] + InPort(d, "receive") + InQueue(d, "receive") - BeyondReceive(d)
          /\ Receives(d)' = receivePending'[d] + InPort(d, "receive")' + InQueue(d, "receive")' - BeyondReceive(d)'
      BY Sums, SumsNext
    <3> QED
      BY <3>1, <3>2, <3>3
  <2> QED
    BY <2>1, CompletionFrame, ChainsOf
<1>9. n \in Nat /\ handled[c] \in Nat /\ unread[c] \in Nat /\ sent[c] \in Nat
      /\ unread'[c] = unread[c] - n /\ \A d \in Clients \ {c} : unread'[d] = unread[d]
  BY <1>1 DEF Sizes, ServerTypes, TypeOK
<1>10. \A d \in Clients \ {c}, k \in Nat : Accounted(d, k) => Accounted(d, k)'
  BY <1>1, <1>2, <1>9 DEF Accounted
<1>11. \A d \in Clients : Finished(d) => Finished(d)'
  <2> SUFFICES ASSUME NEW d \in Clients, Finished(d)
               PROVE  Finished(d)'
    OBVIOUS
  <2>1. CASE d = c
    BY <1>2, <1>9, <2>1 DEF Finished
  <2>2. CASE d # c
    BY <1>2, <1>9, <2>2 DEF Finished
  <2> QED
    BY <2>1, <2>2
<1>12. Accounted(c, n)'
  <2>1. Accounted(c, 0)
    BY <1>2 DEF ServerInv, NothingSkipped
  <2> QED
    BY <1>1, <1>2, <1>9, <2>1 DEF Accounted
<1>13. NothingSkipped'
  <2>1. ASSUME NEW d \in Clients, d \notin mIsConnet' \/ receivePending'[d] > 0
        PROVE  Accounted(d, 0)'
    <3>1. d # c
      BY <1>1, <1>5, <2>1
    <3>2. Accounted(d, 0)
      <4>1. receivePending'[d] = receivePending[d]
        BY <1>1, <1>4, <3>1, Terms
      <4>2. d \notin mIsConnet \/ receivePending[d] > 0
        BY <1>1, <2>1, <4>1
      <4> QED
        BY <4>2 DEF ServerInv, NothingSkipped
    <3> QED
      BY <1>10, <3>1, <3>2
  <2>2. ASSUME NEW i \in DOMAIN port', port'[i].operationType = "receive"
        PROVE  /\ Accounted(port[i].id, port[i].bytes)'
               /\ port'[i].bytes = 0 => Finished(port[i].id)'
    <3>1. CASE i \in DOMAIN port /\ port'[i] = port[i]
      <4>1. port[i].id \in Clients /\ port[i].bytes \in Nat
        <5>1. port \in Seq(IOCP!Completion)
          BY <1>1 DEF ServerTypes, TypeOK, IOCP!TypeOK
        <5>2. port[i] \in IOCP!Completion
          BY <3>1, <5>1, LenProperties
        <5>3. Sizes \union {0} \subseteq Nat
          BY DEF Sizes
        <5> QED
          BY <5>2, <5>3 DEF IOCP!Completion
      <4> PICK d \in Clients, k \in Nat : port[i].id = d /\ port[i].bytes = k
        BY <4>1
      <4>2. d # c
        BY <1>1, <1>5, <2>2, <3>1, NoneInPort
      <4>3. Accounted(d, k) /\ (k = 0 => Finished(d))
        BY <2>2, <3>1 DEF ServerInv, NothingSkipped, Accounted, Finished
      <4>4. Accounted(d, k)' /\ (k = 0 => Finished(d)')
        BY <1>10, <1>11, <4>2, <4>3
      <4> QED
        BY <3>1, <4>4 DEF Accounted, Finished
    <3>2. CASE port'[i].id = c /\ port'[i].bytes = n
      BY <1>11, <1>12, <3>2 DEF Accounted, Finished
    <3>3. \/ i \in DOMAIN port /\ port'[i] = port[i]
          \/ port'[i].id = c /\ port'[i].bytes = n /\ port'[i].operationType = "receive"
      BY <1>1, <1>2, CompletesAppends
    <3> QED
      BY <3>1, <3>2, <3>3
  <2>3. ASSUME NEW i \in DOMAIN queue'["receive"]
        PROVE  \/ i = 1 /\ at'["receive"] = "return"
               \/ /\ queue'["receive"][i].DataSize > 0
                  /\ Accounted(queue["receive"][i].ClientID, queue["receive"][i].DataSize)'
    <3>1. queue["receive"][i].ClientID \in Clients /\ queue["receive"][i].DataSize \in Nat
      <4>1. queue["receive"] \in Seq(IOCP!Packet)
        BY <1>1 DEF ServerTypes, TypeOK, IOCP!TypeOK, IOCP!Workers
      <4>2. queue["receive"][i] \in IOCP!Packet
        BY <1>1, <2>3, <4>1, LenProperties
      <4>3. Sizes \union {0} \subseteq Nat
        BY DEF Sizes
      <4> QED
        BY <4>2, <4>3 DEF IOCP!Packet
    <3> PICK d \in Clients, k \in Nat : queue["receive"][i].ClientID = d /\ queue["receive"][i].DataSize = k
      BY <3>1
    <3>2. (i = 1 /\ at["receive"] = "return") \/ (k > 0 /\ Accounted(d, k))
      BY <1>1, <2>3 DEF ServerInv, NothingSkipped, Accounted
    <3>3. CASE d # c
      <4>1. (i = 1 /\ at["receive"] = "return") \/ (k > 0 /\ Accounted(d, k)')
        BY <1>10, <3>2, <3>3
      <4> QED
        BY <1>1, <4>1 DEF Accounted
    <3>4. CASE d = c
      <4>1. InQueue(c, "receive") >= 1
        BY <1>1, <2>3, <3>4, QueuedCounted DEF Callbacks
      <4>2. at["receive"] = "return" /\ Target("receive") = c /\ InQueue(c, "receive") <= 1
        BY <1>5, <4>1 DEF BeyondReceive, Beyond
      <4>3. 1 \in DOMAIN queue["receive"] /\ queue["receive"][1].ClientID = c
        BY <1>1, <4>2, CallbackPacket DEF Callbacks, Target
      <4>4. i = 1
        BY <1>1, <2>3, <3>4, <4>2, <4>3, OneQueued DEF Callbacks
      <4> QED
        BY <1>1, <4>2, <4>4
    <3> QED
      BY <3>3, <3>4
  <2>4. ASSUME NEW d \in Clients, Disconnects(d)' > 0
        PROVE  (Finished(d) /\ Accounted(d, 0))'
    <3>1. Disconnects(d) > 0
      BY <2>4, CompletionFrame
    <3>2. d # c
      BY <1>5, <3>1
    <3>3. Finished(d) /\ Accounted(d, 0)
      BY <3>1 DEF ServerInv, NothingSkipped
    <3> QED
      BY <1>10, <1>11, <3>2, <3>3
  <2> QED
    BY <2>1, <2>2, <2>3, <2>4 DEF NothingSkipped
<1> QED
  BY <1>1, <1>6, <1>7, <1>8, <1>13 DEF ServerInv

LEMMA ReceiveCompletesKeeps ==
  ASSUME ServerInv, NEW c \in Clients, ReceiveCompletes(c)
  PROVE  ServerInv'
<1>1. ServerTypes
  BY DEF ServerInv
<1>2. CASE Received(c)
  <2> PICK n \in 1 .. unread[c] : CompletesReceive(c, TRUE, n)
                                  /\ unread' = [unread EXCEPT ![c] = @ - n]
    BY <1>2 DEF Received
  <2>1. n \in Sizes /\ n <= unread[c] /\ n # 0
    BY <1>1, BoundsAssumption DEF ServerTypes, TypeOK, Segments, Sizes
  <2> QED
    BY <2>1, ReceiveCompletionKeeps
<1>3. ASSUME NEW ok \in BOOLEAN, CompletesReceive(c, ok, 0), unread' = unread, Finished(c)
      PROVE  ServerInv'
  <2>1. unread' = [unread EXCEPT ![c] = @ - 0] /\ 0 <= unread[c]
    BY <1>1, <1>3 DEF ServerTypes, TypeOK
  <2> QED
    BY <1>3, <2>1, ReceiveCompletionKeeps
<1>4. CASE ReceivedEnd(c)
  BY <1>3, <1>4 DEF ReceivedEnd, Finished
<1>5. CASE ReceiveFails(c)
  BY <1>3, <1>5 DEF ReceiveFails, Finished
<1> QED
  BY <1>2, <1>4, <1>5 DEF ReceiveCompletes

(* Every step. *)

LEMMA InitInv == Init => ServerInv
<1> SUFFICES ASSUME Init
             PROVE  ServerInv
  OBVIOUS
<1>1. ServerTypes
  BY InitTypes
<1>2. /\ port = <<>> /\ \A w \in Callbacks : queue[w] = <<>> /\ at[w] = "idle"
  BY DEF Init, IOCP!Init, Callbacks, IOCP!Workers
<1>3. ASSUME NEW c \in Clients
      PROVE  /\ InPort(c, "accept") = 0 /\ InPort(c, "receive") = 0
             /\ \A w \in Callbacks : InQueue(c, w) = 0
             /\ BeyondAccept(c) = 0 /\ BeyondReceive(c) = 0
             /\ InSet(c, mIsConnet) = 0 /\ InSet(c, disconnected) = 0
  <2>1. /\ InPort(c, "accept") = 0 /\ InPort(c, "receive") = 0
        /\ \A w \in Callbacks : InQueue(c, w) = 0
    BY <1>1, <1>2, CountEmpty, Counted
  <2>2. BeyondAccept(c) = 0 /\ BeyondReceive(c) = 0
    BY <1>2 DEF BeyondAccept, BeyondReceive, Beyond, Callbacks
  <2> QED
    BY <2>1, <2>2 DEF Init, InSet
<1>4. DOMAIN port = {} /\ \A w \in Callbacks : DOMAIN queue[w] = {}
  BY <1>2
<1>5. ConnectionFirst
  <2>1. {c \in Clients : peer[c] # "none"} = {}
    BY DEF Init
  <2>2. Cardinality({c \in Clients : peer[c] # "none"}) <= MaxConnections
    BY <2>1, FS_EmptySet, BoundsAssumption
  <2> QED
    BY <1>3, <1>4, <2>1, <2>2 DEF ConnectionFirst, Callbacks, Init
<1>6. AcceptChain
  <2> SUFFICES ASSUME NEW c \in Clients
               PROVE  Accepts(c) + InSet(c, mIsConnet) <= InSet(c, created)
    BY DEF AcceptChain
  <2>1. Accepts(c) = acceptPending[c] /\ acceptPending[c] \in Nat
    <3>1. acceptPending[c] \in Nat
      BY <1>1, Terms
    <3>2. InPort(c, "accept") = 0 /\ InQueue(c, "accept") = 0 /\ BeyondAccept(c) = 0
      BY <1>3 DEF Callbacks
    <3> QED
      BY <3>1, <3>2, Sums
  <2>2. acceptPending[c] = InSet(c, created)
    BY DEF Init, InSet
  <2> QED
    BY <1>3, <2>1, <2>2
<1>7. \A c \in Clients : receivePending[c] = 0
  BY DEF Init
<1>8. \A c \in Clients : Receives(c) = 0 /\ Disconnects(c) = 0
  BY <1>3, <1>7, Sums DEF Callbacks
<1>9. AtMostOneChain
  BY <1>3, <1>8 DEF AtMostOneChain
<1>10. CountInv
  BY <1>2, FS_EmptySet DEF CountInv, Init, Callbacks
<1>11. NothingSkipped
  BY <1>4, <1>8 DEF NothingSkipped, Accounted, Finished, Init, Callbacks
<1> QED
  BY <1>1, <1>5, <1>6, <1>9, <1>10, <1>11 DEF ServerInv

LEMMA StutterKeeps ==
  ASSUME ServerInv, UNCHANGED vars
  PROVE  ServerInv'
<1>1. ServerTypes'
  BY NextKeepsTypes DEF ServerInv
<1>2. UNCHANGED <<port, queue, working, at, loaded, mIsConnet, acceptPending, receivePending,
                  created, accumulatedClientId, currentClientCount, currentClientMax, peerVars,
                  handled, disconnected, peer>>
  BY DEF vars, iocpVars, threadVars, socketVars, supplyVars, peerVars, history
<1>3. /\ \A c \in Clients : BeyondAccept(c)' = BeyondAccept(c)
      /\ \A c \in Clients : BeyondReceive(c)' = BeyondReceive(c)
  BY <1>2 DEF BeyondAccept, BeyondReceive, Beyond, Target
<1>4. ConnectionFirst'
  BY <1>2, FrameConnection DEF ServerInv
<1>5. AcceptChain' /\ AtMostOneChain'
  BY <1>2, <1>3, FrameAccept, FrameReceive DEF ServerInv
<1>6. CountInv' /\ NothingSkipped'
  BY <1>2, FrameCount, FrameData DEF ServerInv
<1> QED
  BY <1>1, <1>4, <1>5, <1>6 DEF ServerInv

LEMMA NextKeeps == ServerInv /\ [Next]_vars => ServerInv'
<1> SUFFICES ASSUME ServerInv, [Next]_vars
             PROVE  ServerInv'
  OBVIOUS
<1>1. CASE Next
  BY <1>1, Steps, DispatchKeeps, StartKeeps, ReturnKeeps, FeedBackAcceptKeeps, CountersKeep,
     PrepareFirstKeeps, PrepareMoreKeeps, FeedBackReceiveKeeps, DisconnectTryAcceptKeeps, PeersKeep,
     ConnectKeeps, AcceptFailsKeeps, ReceiveCompletesKeeps
<1>2. CASE UNCHANGED vars
  BY <1>2, StutterKeeps
<1> QED
  BY <1>1, <1>2

\* The conjunction of the invariants below and what makes them inductive.
LEMMA ServerInvariance == Spec => []ServerInv
BY InitInv, NextKeeps, PTL DEF Spec

\* Whatever the interleaving of the dispatcher, the workers and the peers, a
\* socket has at most one AcceptEx on its way to Accept, none once it is
\* connected, and none before PrepareSocket has made it.
THEOREM SocketsArmedOnce == Spec => []AcceptChain
<1>1. ServerInv => AcceptChain
  BY DEF ServerInv
<1> QED
  BY <1>1, ServerInvariance, PTL

\* However Accept and Disconnect overlap, currentClientCount does not exceed the
\* number of connected sockets.
THEOREM CountBounded == Spec => []CountAtMostConnected
<1>1. ServerInv => CountAtMostConnected
  <2> SUFFICES ASSUME ServerInv
               PROVE  CountAtMostConnected
    OBVIOUS
  <2>1. Cardinality(mIsConnet) \in Nat /\ currentClientCount \in Int
    BY ConnectedFinite DEF ServerInv, ServerTypes, TypeOK
  <2> QED
    BY <2>1 DEF ServerInv, CountInv, CountAtMostConnected
<1> QED
  BY <1>1, ServerInvariance, PTL

\* When Disconnect runs for a client whose peer has closed its connection, all
\* the peer sent has been handled, although receives and disconnects are popped
\* by two threads from two queues.
THEOREM HandledBeforeDisconnect == Spec => []DataBeforeDisconnect
<1>1. ServerInv => DataBeforeDisconnect
  <2> SUFFICES ASSUME ServerInv, NEW c \in Clients, at["disconnect"] # "idle",
                      Target("disconnect") = c, peer[c] = "closed"
               PROVE  handled[c] = sent[c]
    BY DEF DataBeforeDisconnect
  <2>1. InQueue(c, "disconnect") >= 1
    BY TargetCounted DEF ServerInv, Callbacks
  <2>2. Disconnects(c) > 0
    <3>1. InQueue(c, "disconnect") \in Nat /\ InSet(c, disconnected) \in {0, 1}
      BY Terms DEF ServerInv
    <3> QED
      BY <2>1, <3>1, Sums
  <2>3. Finished(c) /\ Accounted(c, 0)
    BY <2>2 DEF ServerInv, NothingSkipped
  <2>4. handled[c] \in Nat /\ unread[c] \in Nat /\ sent[c] \in Nat
    BY DEF ServerInv, ServerTypes, TypeOK
  <2> QED
    BY <2>3, <2>4 DEF Finished, Accounted
<1> QED
  BY <1>1, ServerInvariance, PTL

-----------------------------------------------------------------------------
(* No packet is lost as long as a queue holds more than there are clients. *)

\* What is under way for a connected client.
Chains(c) == Receives(c) + Disconnects(c)

NoneLost == \A c \in mIsConnet : peer[c] # "reset" => Chains(c) = 1

\* Behind the packet in its callback, a queue holds at most one packet of a
\* client, and none when the completion to dispatch is of that client.
LEMMA BehindTheFirst ==
  ASSUME ServerInv, NEW w \in {"receive", "disconnect"}, queue[w] # <<>>, NEW c \in Clients
  PROVE  /\ Count(Tail(queue[w]), PacketsOf(c)) \in Nat
         /\ Count(Tail(queue[w]), PacketsOf(c)) + InPort(c, "receive") <= 1
         /\ Count(Tail(queue[w]), PacketsOf(c)) + InPort(c, "receive") > 0 => c \in mIsConnet
<1> DEFINE rest == Count(Tail(queue[w]), PacketsOf(c))
<1>1. /\ ServerTypes /\ w \in Callbacks
      /\ queue[w] \in Seq(IOCP!Packet) /\ Tail(queue[w]) \in Seq(IOCP!Packet)
  BY HeadTailProperties DEF ServerInv, ServerTypes, TypeOK, IOCP!TypeOK, Callbacks, IOCP!Workers
<1>2. /\ rest = Count(queue[w], PacketsOf(c)) - (IF Head(queue[w]) \in PacketsOf(c) THEN 1 ELSE 0)
      /\ rest \in Nat
  BY <1>1, CountTail, CountType
<1>3. Count(queue[w], PacketsOf(c)) = InQueue(c, w)
  BY <1>1, Counted
<1>4. w = "receive" => rest <= InQueue(c, w) - BeyondReceive(c)
  <2>1. InQueue(c, w) \in Nat /\ BeyondReceive(c) \in {0, 1}
    BY <1>1, Terms, CountsInNat
  <2>2. w = "receive" /\ BeyondReceive(c) = 1 => Head(queue[w]) \in PacketsOf(c)
    <3>1. ASSUME w = "receive", at[w] = "return", Target(w) = c
          PROVE  Head(queue[w]) \in PacketsOf(c)
      BY <1>1, <3>1, CallbackPacket DEF PacketsOf, Target
    <3> QED
      BY <3>1 DEF BeyondReceive, Beyond
  <2> HIDE DEF rest
  <2> QED
    BY <1>2, <1>3, <2>1, <2>2
<1> HIDE DEF rest
<1>5. /\ receivePending[c] \in Nat /\ InPort(c, "receive") \in Nat
      /\ InQueue(c, "receive") \in Nat /\ InQueue(c, "disconnect") \in Nat
      /\ BeyondReceive(c) \in {0, 1} /\ BeyondReceive(c) <= InQueue(c, "receive")
      /\ InSet(c, disconnected) \in {0, 1}
  BY <1>1, Terms
<1>6. rest + InPort(c, "receive") <= Receives(c) + Disconnects(c)
  <2>1. CASE w = "receive"
    BY <1>2, <1>4, <1>5, <2>1, Sums
  <2>2. CASE w = "disconnect"
    <3>1. rest <= InQueue(c, "disconnect")
      BY <1>2, <1>3, <1>5, <2>2
    <3> QED
      BY <1>2, <1>5, <3>1, Sums
  <2> QED
    BY <2>1, <2>2
<1>7. /\ Receives(c) \in Nat /\ Disconnects(c) \in Nat /\ InSet(c, mIsConnet) \in {0, 1}
      /\ InSet(c, mIsConnet) = 1 <=> c \in mIsConnet
      /\ Receives(c) + Disconnects(c) <= InSet(c, mIsConnet)
  BY ChainsOf
<1>8. rest + InPort(c, "receive") <= InSet(c, mIsConnet)
  BY <1>2, <1>5, <1>6, <1>7
<1>9. rest + InPort(c, "receive") > 0 => InSet(c, mIsConnet) = 1
  BY <1>2, <1>5, <1>7, <1>8
<1> QED
  BY <1>2, <1>5, <1>7, <1>8, <1>9 DEF rest

LEMMA ConnectedAtMost ==
  ASSUME ServerInv
  PROVE  IsFiniteSet(mIsConnet) /\ Cardinality(mIsConnet) <= MaxConnections
<1> DEFINE U == {d \in Clients : peer[d] # "none"}
<1>1. mIsConnet \subseteq U
  BY DEF ServerInv, ServerTypes, TypeOK, ConnectionFirst
<1>2. IsFiniteSet(U) /\ Cardinality(U) \in Nat /\ Cardinality(U) <= MaxConnections
  BY ClientsFinite, FS_Subset, FS_CardinalityType DEF ServerInv, ConnectionFirst
<1> HIDE DEF U
<1>3. IsFiniteSet(mIsConnet) /\ Cardinality(mIsConnet) <= Cardinality(U)
  BY <1>1, <1>2, FS_Subset
<1>4. Cardinality(mIsConnet) \in Nat
  BY <1>3, FS_CardinalityType
<1> QED
  BY <1>2, <1>3, <1>4, BoundsAssumption

\* The packets behind the first and the completion to dispatch are of different
\* clients, so the completion finds room.
LEMMA FindsRoom ==
  ASSUME ServerInv, Capacity > MaxConnections, port # <<>>,
         Head(port).operationType = "receive", NEW w \in {"receive", "disconnect"}
  PROVE  Len(queue[w]) < Capacity
<1> SUFFICES ASSUME Len(queue[w]) >= Capacity
             PROVE  FALSE
  <2>1. queue[w] \in Seq(IOCP!Packet)
    BY DEF ServerInv, ServerTypes, TypeOK, IOCP!TypeOK, IOCP!Workers
  <2>2. Len(queue[w]) \in Nat
    BY <2>1, LenProperties
  <2> QED
    BY <2>2, CapacityAssumption
<1> DEFINE q == Tail(queue[w])
<1>1. /\ ServerTypes /\ queue[w] \in Seq(IOCP!Packet) /\ queue[w] # <<>>
      /\ Capacity \in Nat \ {0}
  <2>1. ServerTypes /\ queue[w] \in Seq(IOCP!Packet)
    BY DEF ServerInv, ServerTypes, TypeOK, IOCP!TypeOK, IOCP!Workers
  <2>2. Len(<<>>) = 0
    BY EmptySeq
  <2> QED
    BY <2>1, <2>2, CapacityAssumption
<1>2. /\ q \in Seq(IOCP!Packet) /\ Len(q) = Len(queue[w]) - 1
  BY <1>1, HeadTailProperties
<1>3. ASSUME NEW i \in 1 .. Capacity - 1
      PROVE  i \in DOMAIN q /\ q[i] \in IOCP!Packet /\ q[i].ClientID \in Clients
  <2>1. DOMAIN q = 1 .. Len(q) /\ Len(queue[w]) \in Nat
    BY <1>1, <1>2, LenProperties
  <2>2. i \in DOMAIN q
    BY <1>1, <1>2, <2>1
  <2>3. q[i] \in IOCP!Packet
    BY <1>2, <2>1, <2>2, LenProperties
  <2> QED
    BY <2>2, <2>3 DEF IOCP!Packet
<1> PICK c \in Clients : c = Head(port).id
  BY <1>1, DestinationIs
<1>4. InPort(c, "receive") >= 1
  <2>1. port \in Seq(IOCP!Completion) /\ Head(port) \in IOCP!Completion
    BY <1>1, HeadInPort DEF ServerTypes, TypeOK, IOCP!TypeOK
  <2>2. 1 \in DOMAIN port /\ port[1] = Head(port)
    BY <2>1, EmptySeq, LenProperties
  <2>3. port[1] \in ReceivesOf(c)
    BY <2>1, <2>2 DEF ReceivesOf
  <2> QED
    BY <1>1, <2>1, <2>2, <2>3, CountOne, Counted
<1>5. \A d \in Clients : /\ Count(q, PacketsOf(d)) \in Nat
                         /\ Count(q, PacketsOf(d)) + InPort(d, "receive") <= 1
                         /\ Count(q, PacketsOf(d)) + InPort(d, "receive") > 0 => d \in mIsConnet
                         /\ InPort(d, "receive") \in Nat
  BY <1>1, BehindTheFirst, Terms
<1> HIDE DEF q
<1>6. ASSUME NEW i \in 1 .. Capacity - 1
      PROVE  q[i].ClientID \in mIsConnet /\ q[i].ClientID # c
  <2> PICK d \in Clients : d = q[i].ClientID
    BY <1>3
  <2>1. q[i] \in PacketsOf(d)
    BY <1>3 DEF PacketsOf
  <2>2. Count(q, PacketsOf(d)) >= 1
    BY <1>2, <1>3, <2>1, CountOne
  <2> QED
    BY <1>4, <1>5, <2>2
<1>7. ASSUME NEW i \in 1 .. Capacity - 1, NEW j \in 1 .. Capacity - 1,
             q[i].ClientID = q[j].ClientID
      PROVE  i = j
  <2> SUFFICES ASSUME i # j
               PROVE  FALSE
    OBVIOUS
  <2> PICK d \in Clients : d = q[i].ClientID
    BY <1>3
  <2>1. q[i] \in PacketsOf(d) /\ q[j] \in PacketsOf(d)
    BY <1>3, <1>7 DEF PacketsOf
  <2>2. Count(q, PacketsOf(d)) >= 2
    BY <1>2, <1>3, <2>1, CountTwo
  <2> QED
    BY <1>5, <2>2
<1>8. c \in mIsConnet
  BY <1>4, <1>5
<1> DEFINE f == [i \in 1 .. Capacity |-> IF i = Capacity THEN c ELSE q[i].ClientID]
<1>9. \A i \in 1 .. Capacity : i = Capacity \/ i \in 1 .. Capacity - 1
  BY <1>1
<1>10. f \in Injection(1 .. Capacity, mIsConnet)
  <2>1. f \in [1 .. Capacity -> mIsConnet]
    BY <1>6, <1>8, <1>9
  <2>2. ASSUME NEW i \in 1 .. Capacity, NEW j \in 1 .. Capacity, f[i] = f[j]
        PROVE  i = j
    BY <1>6, <1>7, <1>9, <2>2
  <2> HIDE DEF f
  <2> QED
    BY <2>1, <2>2, Fun_IsInj
<1> HIDE DEF f
<1>11. Cardinality(1 .. Capacity) <= Cardinality(mIsConnet)
  BY <1>10, ConnectedAtMost, FS_Injection
<1>12. Cardinality(1 .. Capacity) = Capacity
  BY <1>1, FS_Interval
<1>13. Cardinality(mIsConnet) \in Nat /\ Cardinality(mIsConnet) <= MaxConnections
  BY ConnectedAtMost, FS_CardinalityType
<1> QED
  BY <1>1, <1>11, <1>12, <1>13, BoundsAssumption

LEMMA ChainSums ==
  ASSUME NEW c \in Clients
  PROVE  /\ Chains(c) = receivePending[c] + InPort(c, "receive") + InQueue(c, "receive") - BeyondReceive(c)
                          + (InQueue(c, "disconnect") + InSet(c, disconnected))
         /\ Chains(c)' = receivePending'[c] + InPort(c, "receive")' + InQueue(c, "receive")' - BeyondReceive(c)'
                          + (InQueue(c, "disconnect")' + InSet(c, disconnected)')
BY Sums, SumsNext DEF Chains

\* The steps that leave the chains of every client alone.
LEMMA SameChains ==
  ASSUME UNCHANGED <<port, queue, receivePending, disconnected>>,
         \A c \in Clients : BeyondReceive(c)' = BeyondReceive(c)
  PROVE  \A c \in Clients : Chains(c)' = Chains(c)
<1> SUFFICES ASSUME NEW c \in Clients
             PROVE  Chains(c)' = Chains(c)
  OBVIOUS
<1>1. InSet(c, disconnected)' = InSet(c, disconnected)
  BY DEF InSet
<1> QED
  BY <1>1, SameCounts, Sums, SumsNext DEF Chains, Callbacks

LEMMA DispatchLosesNone ==
  ASSUME ServerInv, Capacity > MaxConnections, Dispatcher, NEW c \in Clients
  PROVE  Chains(c)' = Chains(c)
<1> DEFINE h == Head(port)
<1>1. /\ ServerTypes /\ ServerTypes' /\ port # <<>>
      /\ UNCHANGED <<at, working, receivePending, disconnected>>
  BY DispatchKeepsTypes DEF ServerInv, Dispatcher, IOCP!Dispatch, threadVars, socketVars, history
<1>2. /\ h.operationType \in {"accept", "receive"} /\ h.bytes \in Nat
      /\ "receive" \in IOCP!Destinations(h) <=> h.operationType = "receive" /\ h.bytes # 0
      /\ "disconnect" \in IOCP!Destinations(h) <=> h.operationType = "receive" /\ h.bytes = 0
  BY <1>1, DestinationIs
<1>3. h.operationType = "receive" => Len(queue["receive"]) < Capacity /\ Len(queue["disconnect"]) < Capacity
  BY <1>1, FindsRoom
<1>4. /\ InPort(c, "receive")' = InPort(c, "receive") -
           (IF h.id = c /\ h.operationType = "receive" THEN 1 ELSE 0)
      /\ InQueue(c, "receive")' = InQueue(c, "receive") +
           (IF h.id = c /\ "receive" \in IOCP!Destinations(h) /\ Len(queue["receive"]) < Capacity
            THEN 1 ELSE 0)
      /\ InQueue(c, "disconnect")' = InQueue(c, "disconnect") +
           (IF h.id = c /\ "disconnect" \in IOCP!Destinations(h) /\ Len(queue["disconnect"]) < Capacity
            THEN 1 ELSE 0)
  BY <1>1, DispatchCounts DEF Callbacks
<1>5. BeyondReceive(c)' = BeyondReceive(c) /\ InSet(c, disconnected)' = InSet(c, disconnected)
  BY <1>1 DEF BeyondReceive, Beyond, Target, InSet
<1> HIDE DEF h
<1>6. /\ receivePending[c] \in Nat /\ InPort(c, "receive") \in Nat
      /\ InQueue(c, "receive") \in Nat /\ InQueue(c, "disconnect") \in Nat
      /\ BeyondReceive(c) \in {0, 1} /\ InSet(c, disconnected) \in {0, 1}
  BY <1>1, Terms
<1>sums. /\ Chains(c) = receivePending[c] + InPort(c, "receive") + InQueue(c, "receive") - BeyondReceive(c)
                   + (InQueue(c, "disconnect") + InSet(c, disconnected))
      /\ Chains(c)' = receivePending'[c] + InPort(c, "receive")' + InQueue(c, "receive")' - BeyondReceive(c)'
                   + (InQueue(c, "disconnect")' + InSet(c, disconnected)')
  BY ChainSums
<1>same. receivePending'[c] = receivePending[c]
  BY <1>1
<1>7. CASE h.id = c /\ h.operationType = "receive"
  <2>1. InPort(c, "receive")' = InPort(c, "receive") - 1
    BY <1>4, <1>7
  <2>2. CASE h.bytes = 0
    <3>1. InQueue(c, "receive")' = InQueue(c, "receive") /\ InQueue(c, "disconnect")' = InQueue(c, "disconnect") + 1
      BY <1>2, <1>3, <1>4, <1>6, <1>7, <2>2
    <3> QED
      BY <1>sums, <1>same, <1>5, <1>6, <2>1, <3>1
  <2>3. CASE h.bytes # 0
    <3>1. InQueue(c, "receive")' = InQueue(c, "receive") + 1 /\ InQueue(c, "disconnect")' = InQueue(c, "disconnect")
      BY <1>2, <1>3, <1>4, <1>6, <1>7, <2>3
    <3> QED
      BY <1>sums, <1>same, <1>5, <1>6, <2>1, <3>1
  <2> QED
    BY <2>2, <2>3
<1>8. CASE ~(h.id = c /\ h.operationType = "receive")
  <2>1. InQueue(c, "receive")' = InQueue(c, "receive") /\ InQueue(c, "disconnect")' = InQueue(c, "disconnect")
        /\ InPort(c, "receive")' = InPort(c, "receive")
    BY <1>2, <1>4, <1>6, <1>8
  <2> QED
    BY <1>1, <1>5, <1>6, <2>1, ChainSums
<1> QED
  BY <1>7, <1>8

LEMMA StartLosesNone ==
  ASSUME ServerInv, NEW w \in Callbacks, Start(w)
  PROVE  \A c \in Clients : Chains(c)' = Chains(c)
<1>1. UNCHANGED <<port, queue, receivePending, disconnected>>
  BY DEF Start, IOCP!Call, socketVars, history
<1>2. /\ at[w] = "idle" /\ at' = [at EXCEPT ![w] = IF w = "disconnect" THEN "load" ELSE "feedback"]
      /\ at \in [Callbacks -> {"idle", "feedback", "load", "store", "check", "tryAccept", "return"}]
      /\ \A v \in Callbacks \ {w} : working'[v] = working[v]
  BY StartCalls DEF ServerInv, ServerTypes, TypeOK
<1>3. \A v \in Callbacks \ {w} : at'[v] = at[v]
  BY <1>2
<1>4. \A c \in Clients : BeyondReceive(c)' = BeyondReceive(c)
  BY <1>2, <1>3 DEF BeyondReceive, Beyond, Target, Callbacks
<1> QED
  BY <1>1, <1>4, SameChains

LEMMA ReturnLosesNone ==
  ASSUME ServerInv, NEW w \in Callbacks, Return(w), NEW c \in Clients
  PROVE  Chains(c)' = Chains(c)
<1> DEFINE t == Target(w)
<1>1. /\ ServerTypes /\ ServerTypes' /\ at[w] = "return" /\ at' = [at EXCEPT ![w] = "idle"]
      /\ at \in [Callbacks -> {"idle", "feedback", "load", "store", "check", "tryAccept", "return"}]
      /\ disconnected' = disconnected \union {d \in {t} : w = "disconnect"}
      /\ receivePending' = receivePending
  BY ReturnKeepsTypes DEF ServerInv, ServerTypes, TypeOK, Return, Goto, socketVars
<1>2. /\ InPort(c, "receive")' = InPort(c, "receive")
      /\ InQueue(c, w)' = InQueue(c, w) - (IF t = c THEN 1 ELSE 0)
      /\ \A v \in Callbacks \ {w} : InQueue(c, v)' = InQueue(c, v)
  BY <1>1, ReturnCounts
<1>3. \A v \in Callbacks \ {w} : at'[v] = at[v] /\ working'[v] = working[v]
  BY <1>1 DEF Return, IOCP!Pop, ServerTypes, TypeOK, IOCP!TypeOK, Callbacks, IOCP!Workers
<1>4. /\ receivePending[c] \in Nat /\ InPort(c, "receive") \in Nat
      /\ InQueue(c, "receive") \in Nat /\ InQueue(c, "disconnect") \in Nat
      /\ BeyondReceive(c) \in {0, 1} /\ InSet(c, disconnected) \in {0, 1}
  BY <1>1, Terms
<1>sums. /\ Chains(c) = receivePending[c] + InPort(c, "receive") + InQueue(c, "receive") - BeyondReceive(c)
                   + (InQueue(c, "disconnect") + InSet(c, disconnected))
      /\ Chains(c)' = receivePending'[c] + InPort(c, "receive")' + InQueue(c, "receive")' - BeyondReceive(c)'
                   + (InQueue(c, "disconnect")' + InSet(c, disconnected)')
  BY ChainSums
<1>same. receivePending'[c] = receivePending[c]
  BY <1>1
<1>5. CASE w = "receive"
  <2>1. InQueue(c, "receive")' = InQueue(c, "receive") - (IF t = c THEN 1 ELSE 0)
        /\ InQueue(c, "disconnect")' = InQueue(c, "disconnect")
    BY <1>2, <1>5 DEF Callbacks
  <2>2. /\ BeyondReceive(c) = IF t = c THEN 1 ELSE 0
        /\ BeyondReceive(c)' = 0
    BY <1>1, <1>5 DEF BeyondReceive, Beyond, Callbacks
  <2>3. InSet(c, disconnected)' = InSet(c, disconnected)
    BY <1>1, <1>5 DEF InSet
  <2> HIDE DEF t
  <2> QED
    BY <1>sums, <1>same, <1>2, <1>4, <2>1, <2>2, <2>3
<1>6. CASE w = "disconnect"
  <2>1. InQueue(c, "disconnect")' = InQueue(c, "disconnect") - (IF t = c THEN 1 ELSE 0)
        /\ InQueue(c, "receive")' = InQueue(c, "receive")
    BY <1>2, <1>6 DEF Callbacks
  <2>2. BeyondReceive(c)' = BeyondReceive(c)
    BY <1>3, <1>6 DEF BeyondReceive, Beyond, Target, Callbacks
  <2>3. t = c => c \notin disconnected
    <3>1. t = c => InQueue(c, "disconnect") >= 1
      BY <1>1, <1>6, TargetCounted DEF Callbacks
    <3>2. Disconnects(c) <= 1
      BY ChainsOf
    <3>3. Disconnects(c) = InQueue(c, "disconnect") + InSet(c, disconnected)
      BY Sums
    <3>4. t = c => InSet(c, disconnected) = 0
      BY <1>4, <3>1, <3>2, <3>3
    <3> QED
      BY <3>4 DEF InSet
  <2>4. InSet(c, disconnected)' = InSet(c, disconnected) + (IF t = c THEN 1 ELSE 0)
    BY <1>1, <1>6, <2>3 DEF InSet
  <2> HIDE DEF t
  <2> QED
    BY <1>sums, <1>same, <1>2, <1>4, <2>1, <2>2, <2>4
<1>7. CASE w = "accept"
  <2>1. InQueue(c, "receive")' = InQueue(c, "receive") /\ InQueue(c, "disconnect")' = InQueue(c, "disconnect")
    BY <1>2, <1>7 DEF Callbacks
  <2>2. BeyondReceive(c)' = BeyondReceive(c)
    BY <1>3, <1>7 DEF BeyondReceive, Beyond, Target, Callbacks
  <2>3. InSet(c, disconnected)' = InSet(c, disconnected)
    BY <1>1, <1>7 DEF InSet
  <2> QED
    BY <1>1, <1>2, <2>1, <2>2, <2>3, ChainSums
<1> QED
  BY <1>5, <1>6, <1>7 DEF Callbacks

\* The first WSARecv starts the chain of a client; it had none.
LEMMA FeedBackAcceptStarts ==
  ASSUME ServerInv, FeedBack_Accept, NEW c \in mIsConnet', peer[c] # "reset"
  PROVE  Chains(c)' = IF c \in mIsConnet THEN Chains(c) ELSE 1
<1>1. ServerTypes /\ ServerTypes' /\ ServerInv'
  BY CallbackKeepsTypes, FeedBackAcceptKeeps DEF ServerInv
<1> PICK t \in Clients : t = Target("accept")
  BY <1>1, CallbackPacket DEF FeedBack_Accept, Callbacks
<1>2. /\ port' = port /\ queue' = queue /\ working' = working
      /\ mIsConnet' = mIsConnet \union {t}
      /\ at["accept"] = "feedback" /\ at' = [at EXCEPT !["accept"] = "load"]
      /\ disconnected' = disconnected
  BY DEF FeedBack_Accept, Goto, iocpVars, history
<1>3. c \in Clients /\ mIsConnet \subseteq Clients
  BY <1>1 DEF ServerTypes, TypeOK
<1>4. /\ \A d \in Clients \ {t} : receivePending'[d] = receivePending[d]
      /\ peer[t] # "reset" => receivePending'[t] = receivePending[t] + 1
      /\ receivePending'[t] \in {receivePending[t], receivePending[t] + 1}
  BY <1>1, <1>2 DEF FeedBack_Accept, ReceiveReady, ServerTypes, TypeOK
<1>5. at'["receive"] = at["receive"]
  BY <1>1, <1>2 DEF ServerTypes, TypeOK, Callbacks
<1>6. /\ BeyondReceive(c)' = BeyondReceive(c) /\ InSet(c, disconnected)' = InSet(c, disconnected)
      /\ InPort(c, "receive")' = InPort(c, "receive") /\ InQueue(c, "receive")' = InQueue(c, "receive")
      /\ InQueue(c, "disconnect")' = InQueue(c, "disconnect")
  BY <1>2, <1>3, <1>5, SameCounts DEF BeyondReceive, Beyond, Target, InSet, Callbacks
<1>7. /\ receivePending[c] \in Nat /\ InPort(c, "receive") \in Nat
      /\ InQueue(c, "receive") \in Nat /\ InQueue(c, "disconnect") \in Nat
      /\ BeyondReceive(c) \in {0, 1} /\ InSet(c, disconnected) \in {0, 1}
      /\ receivePending'[c] \in Nat
  BY <1>1, <1>3, Terms DEF ServerTypes, TypeOK
<1>8. Chains(c)' = Chains(c) + (receivePending'[c] - receivePending[c])
  BY <1>3, <1>6, <1>7, ChainSums
<1>9. /\ Receives(c) \in Nat /\ Disconnects(c) \in Nat
      /\ InSet(c, mIsConnet) \in {0, 1} /\ (InSet(c, mIsConnet) = 1 <=> c \in mIsConnet)
      /\ Receives(c) + Disconnects(c) <= InSet(c, mIsConnet)
  BY <1>3, ChainsOf
<1>10. CASE c \in mIsConnet
  <2>1. c # t
    <3>1. InQueue(t, "accept") >= 1
      BY <1>1, <1>2, TargetCounted DEF Callbacks
    <3>2. BeyondAccept(t) = 0
      BY <1>2 DEF BeyondAccept, Beyond
    <3>3. Accepts(t) >= 1
      BY <1>1, <3>1, <3>2, Terms, Sums
    <3> QED
      BY <1>10, <3>3, ChainsOf
  <2> QED
    BY <1>3, <1>4, <1>7, <1>8, <1>9, <1>10, <2>1 DEF Chains
<1>11. CASE c \notin mIsConnet
  <2>1. c = t
    BY <1>2, <1>11
  <2>2. Chains(c) = 0
    BY <1>9, <1>11 DEF Chains
  <2>3. receivePending'[c] = receivePending[c] + 1
    BY <1>4, <2>1
  <2> QED
    BY <1>7, <1>8, <1>11, <2>2, <2>3
<1> QED
  BY <1>10, <1>11

\* FeedBack_Receive calls WSARecv again, before its packet is popped.
LEMMA FeedBackReceiveContinues ==
  ASSUME ServerInv, FeedBack_Receive, NEW c \in Clients, peer[c] # "reset"
  PROVE  Chains(c)' = Chains(c)
<1>1. ServerTypes /\ ServerTypes' /\ ServerInv'
  BY CallbackKeepsTypes, FeedBackReceiveKeeps DEF ServerInv
<1> PICK t \in Clients : t = Target("receive")
  BY <1>1, CallbackPacket DEF FeedBack_Receive, Callbacks
<1>2. /\ port' = port /\ queue' = queue /\ working' = working /\ mIsConnet' = mIsConnet
      /\ at["receive"] = "feedback" /\ at' = [at EXCEPT !["receive"] = "return"]
      /\ disconnected' = disconnected
  BY DEF FeedBack_Receive, Goto, iocpVars
<1>3. t \in mIsConnet
  <2>1. InQueue(t, "receive") >= 1
    BY <1>1, <1>2, TargetCounted DEF Callbacks
  <2>2. BeyondReceive(t) = 0
    BY <1>2 DEF BeyondReceive, Beyond
  <2>3. Receives(t) >= 1
    BY <1>1, <2>1, <2>2, Terms, Sums
  <2> QED
    BY <2>3, ChainsOf
<1>4. /\ \A d \in Clients \ {t} : receivePending'[d] = receivePending[d]
      /\ peer[t] # "reset" => receivePending'[t] = receivePending[t] + 1
  BY <1>1, <1>2, <1>3 DEF FeedBack_Receive, ReceiveReady, ServerTypes, TypeOK
<1>5. at'["receive"] = "return"
  BY <1>1, <1>2 DEF ServerTypes, TypeOK, Callbacks
<1>6. /\ BeyondReceive(c) = 0 /\ BeyondReceive(c)' = IF c = t THEN 1 ELSE 0
      /\ InSet(c, disconnected)' = InSet(c, disconnected)
      /\ InPort(c, "receive")' = InPort(c, "receive") /\ InQueue(c, "receive")' = InQueue(c, "receive")
      /\ InQueue(c, "disconnect")' = InQueue(c, "disconnect")
  BY <1>2, <1>5, SameCounts DEF BeyondReceive, Beyond, Target, InSet, Callbacks
<1>7. /\ receivePending[c] \in Nat /\ InPort(c, "receive") \in Nat
      /\ InQueue(c, "receive") \in Nat /\ InQueue(c, "disconnect") \in Nat
      /\ InSet(c, disconnected) \in {0, 1}
  BY <1>1, Terms
<1>8. receivePending'[c] = receivePending[c] + (IF c = t THEN 1 ELSE 0)
  BY <1>4, <1>7
<1> QED
  BY <1>6, <1>7, <1>8, ChainSums

\* A WSARecv that completes goes to the port.
LEMMA CompletionLosesNone ==
  ASSUME ServerInv, NEW c \in Clients,
         Connect(c) \/ AcceptFails(c) \/ ReceiveCompletes(c), NEW d \in Clients
  PROVE  Chains(d)' = Chains(d)
<1>1. /\ ServerTypes /\ ServerTypes'
      /\ BeyondReceive(d)' = BeyondReceive(d) /\ InQueue(d, "receive")' = InQueue(d, "receive")
      /\ Disconnects(d)' = Disconnects(d)
  BY CompletionFrame
<1>2. receivePending'[d] + InPort(d, "receive")' = receivePending[d] + InPort(d, "receive")
  <2>1. ASSUME NEW ok \in BOOLEAN, Completes("accept", c, ok, 0), receivePending' = receivePending
        PROVE  receivePending'[d] + InPort(d, "receive")' = receivePending[d] + InPort(d, "receive")
    <3>1. 0 \in Sizes \union {0} /\ "accept" \in {"accept", "receive"}
      OBVIOUS
    <3>2. InPort(d, "receive")' = InPort(d, "receive") + (IF d = c /\ "accept" = "receive" THEN 1 ELSE 0)
      BY <1>1, <2>1, <3>1, CompletesCounts
    <3> QED
      BY <1>1, <2>1, <3>2, Terms
  <2>2. ASSUME NEW ok \in BOOLEAN, NEW n \in Sizes \union {0}, ~ok => n = 0, CompletesReceive(c, ok, n)
        PROVE  receivePending'[d] + InPort(d, "receive")' = receivePending[d] + InPort(d, "receive")
    <3>1. /\ "receive" \in {"accept", "receive"} /\ ("receive" = "accept" \/ ~ok => n = 0)
          /\ Completes("receive", c, ok, n)
      BY <2>2 DEF CompletesReceive
    <3>2. InPort(d, "receive")' = InPort(d, "receive") + (IF d = c /\ "receive" = "receive" THEN 1 ELSE 0)
      BY <1>1, <3>1, CompletesCounts
    <3>3. receivePending'[d] = receivePending[d] - (IF d = c THEN 1 ELSE 0)
      BY <1>1, <2>2 DEF CompletesReceive, ServerTypes, TypeOK
    <3>4. receivePending[d] \in Nat /\ InPort(d, "receive") \in Nat
      BY <1>1, Terms
    <3> QED
      BY <3>2, <3>3, <3>4
  <2>3. CASE Connect(c) \/ AcceptFails(c)
    BY <2>1, <2>3 DEF Connect, AcceptFails
  <2>4. CASE Received(c)
    <3> PICK n \in 1 .. unread[c] : CompletesReceive(c, TRUE, n)
      BY <2>4 DEF Received
    <3>1. n \in Sizes \union {0}
      BY <1>1, BoundsAssumption DEF ServerTypes, TypeOK, Segments, Sizes
    <3> QED
      BY <2>2, <3>1
  <2>5. CASE ReceivedEnd(c) \/ ReceiveFails(c)
    BY <2>2, <2>5 DEF ReceivedEnd, ReceiveFails
  <2> QED
    BY <2>3, <2>4, <2>5 DEF ReceiveCompletes
<1>3. /\ receivePending[d] \in Nat /\ InPort(d, "receive") \in Nat
      /\ receivePending'[d] \in Nat /\ InPort(d, "receive")' \in Nat
      /\ InQueue(d, "receive") \in Nat /\ BeyondReceive(d) \in {0, 1}
  <2>1. receivePending'[d] \in Nat
    BY <1>1 DEF ServerTypes, TypeOK
  <2>2. InPort(d, "receive")' \in Nat
    <3>1. port' \in Seq(IOCP!Completion)
      BY <1>1 DEF ServerTypes, TypeOK, IOCP!TypeOK
    <3> QED
      BY <1>1, <3>1, CountedNext, CountType
  <2> QED
    BY <1>1, <2>1, <2>2, Terms
<1>4. Receives(d)' = Receives(d)
  BY <1>1, <1>2, <1>3, Sums, SumsNext
<1> QED
  BY <1>1, <1>4 DEF Chains

\* A connection that was reset stays so, and one that is not was not.
LEMMA ResetStays ==
  ASSUME ServerTypes, Next, NEW c \in Clients, peer'[c] # "reset"
  PROVE  peer[c] # "reset"
<1>1. CASE UNCHANGED peer
  BY <1>1
<1>2. ASSUME NEW d \in Clients, PeerCloses(d) \/ PeerResets(d) \/ Connect(d)
      PROVE  peer[c] # "reset"
  BY <1>2 DEF PeerCloses, PeerResets, Connect, ServerTypes, TypeOK
<1>3. \/ UNCHANGED peer
      \/ \E d \in Clients : PeerCloses(d) \/ PeerResets(d) \/ Connect(d)
  BY Steps DEF Dispatcher, Start, Return, FeedBack_Accept, StillRoom, PrepareFirst, PrepareMore,
               FeedBack_Receive, DisconnectTryAccept, LoadCount, StoreCount, PeerSends, AcceptFails,
               ReceiveCompletes, Received, ReceivedEnd, ReceiveFails, CompletesReceive, peerVars
<1> QED
  BY <1>1, <1>2, <1>3

LEMMA StepLosesNone ==
  ASSUME ServerInv, Capacity > MaxConnections, Next, NEW c \in Clients, peer[c] # "reset",
         ~FeedBack_Accept
  PROVE  Chains(c)' = Chains(c) /\ mIsConnet' = mIsConnet
<1>1. mIsConnet' = mIsConnet
  BY Steps DEF Dispatcher, Start, Return, StillRoom, PrepareFirst, PrepareMore, PrepareSocket,
               FeedBack_Receive, DisconnectTryAccept, LoadCount, StoreCount, PeerSends, PeerCloses,
               PeerResets, Connect, AcceptFails, ReceiveCompletes, Received, ReceivedEnd, ReceiveFails,
               CompletesReceive, Completes, serverVars, socketVars
<1>2. ServerTypes
  BY DEF ServerInv
<1>3. CASE Dispatcher
  BY <1>1, <1>3, DispatchLosesNone
<1>4. CASE \E w \in Callbacks : Start(w) \/ Return(w)
  BY <1>1, <1>4, StartLosesNone, ReturnLosesNone
<1>5. CASE FeedBack_Receive
  BY <1>1, <1>5, FeedBackReceiveContinues
<1>6. CASE \E d \in Clients : Connect(d) \/ AcceptFails(d) \/ ReceiveCompletes(d)
  BY <1>1, <1>6, CompletionLosesNone
<1>7. CASE \/ PrepareFirst \/ StillRoom \/ PrepareMore \/ DisconnectTryAccept
           \/ \E w \in {"accept", "disconnect"} : LoadCount(w)
           \/ StoreCount("accept", 1, "check") \/ StoreCount("disconnect", -1, "tryAccept")
           \/ \E d \in Clients : PeerSends(d) \/ PeerCloses(d) \/ PeerResets(d)
  <2>1. UNCHANGED <<port, queue, working, receivePending, disconnected>>
    BY <1>7 DEF StillRoom, PrepareFirst, PrepareMore, PrepareSocket, DisconnectTryAccept,
                LoadCount, StoreCount,
                PeerSends, PeerCloses, PeerResets, serverVars, iocpVars, socketVars, history
  <2>2. at'["receive"] = at["receive"]
    BY <1>2, <1>7 DEF StillRoom, PrepareFirst, PrepareMore, DisconnectTryAccept, LoadCount,
                StoreCount,
                PeerSends, PeerCloses, PeerResets, serverVars, threadVars, Goto,
                ServerTypes, TypeOK, Callbacks
  <2>3. \A d \in Clients : BeyondReceive(d)' = BeyondReceive(d)
    BY <2>1, <2>2 DEF BeyondReceive, Beyond, Target
  <2> QED
    BY <1>1, <2>1, <2>3, SameChains
<1>8. Chains(c)' = Chains(c)
  BY Steps, <1>3, <1>4, <1>5, <1>6, <1>7
<1> QED
  BY <1>1, <1>8

LEMMA NoneLostKept ==
  ASSUME ServerInv, NoneLost, Capacity > MaxConnections, [Next]_vars
  PROVE  NoneLost'
<1>1. ServerTypes /\ mIsConnet \subseteq Clients
  BY DEF ServerInv, ServerTypes, TypeOK
<1>2. CASE Next
  <2>1. ServerInv' /\ mIsConnet' \subseteq Clients
    BY NextKeeps DEF ServerInv, ServerTypes, TypeOK
  <2> SUFFICES ASSUME NEW c \in Clients, c \in mIsConnet', peer'[c] # "reset"
               PROVE  Chains(c)' = 1
    BY <2>1 DEF NoneLost, Chains, Receives, Disconnects, InPort, InQueue, Beyond, Target, InSet
  <2>2. peer[c] # "reset"
    BY <1>1, <1>2, ResetStays
  <2>3. c \in mIsConnet => Chains(c) = 1
    BY <2>2 DEF NoneLost
  <2>4. CASE FeedBack_Accept
    BY <2>2, <2>3, <2>4, FeedBackAcceptStarts
  <2>5. CASE ~FeedBack_Accept
    BY <1>2, <2>2, <2>3, <2>5, StepLosesNone
  <2> QED
    BY <2>4, <2>5
<1>3. CASE UNCHANGED vars
  <2>1. UNCHANGED <<port, queue, working, at, receivePending, disconnected, mIsConnet, peer>>
    BY <1>3 DEF vars, iocpVars, threadVars, socketVars, peerVars, history
  <2>2. \A c \in Clients : BeyondReceive(c)' = BeyondReceive(c)
    BY <2>1 DEF BeyondReceive, Beyond, Target
  <2>3. \A c \in Clients : Chains(c)' = Chains(c)
    BY <2>1, <2>2, SameChains
  <2> QED
    BY <1>1, <2>1, <2>3 DEF NoneLost
<1> QED
  BY <1>2, <1>3

\* As long as a queue holds more packets than connections are made, no packet of
\* a connected client is dropped: it always has exactly one WSARecv on its way to
\* FeedBack_Receive, or its Disconnect.
THEOREM NoPacketDropped ==
  ASSUME Capacity > MaxConnections
  PROVE  Spec => []ReceiveChain
<1>1. Init => ServerInv /\ NoneLost
  BY InitInv DEF Init, NoneLost
<1>2. ServerInv /\ NoneLost /\ [Next]_vars => (ServerInv /\ NoneLost)'
  BY NextKeeps, NoneLostKept
<1>3. ServerInv /\ NoneLost => ReceiveChain
  BY DEF ServerInv, AtMostOneChain, NoneLost, Chains, ReceiveChain
<1> QED
  BY <1>1, <1>2, <1>3, PTL DEF Spec

-----------------------------------------------------------------------------
(* The life of a client. *)

DisconnectSteps == {"load", "store", "tryAccept", "return"}

Gone(c) == c \in disconnected \/ (at["disconnect"] \in DisconnectSteps /\ Target("disconnect") = c)

LEMMA PhaseIs ==
  ASSUME NEW c \in Clients
  PROVE  Phase(c) = IF Gone(c) THEN "gone" ELSE IF c \in mIsConnet THEN "connected"
                    ELSE IF c \in created THEN "armed" ELSE "new"
BY DEF Phase, Gone, Beyond, DisconnectSteps

LEMMA PhaseIsNext ==
  ASSUME NEW c \in Clients
  PROVE  Phase(c)' = IF Gone(c)' THEN "gone" ELSE IF c \in mIsConnet' THEN "connected"
                     ELSE IF c \in created' THEN "armed" ELSE "new"
BY DEF Phase, Gone, Beyond, DisconnectSteps

\* The Disconnect of a client that left is under way or over.
LEMMA GoneCounted ==
  ASSUME ServerInv, NEW c \in Clients, Gone(c)
  PROVE  Disconnects(c) = 1 /\ Receives(c) = 0 /\ c \in mIsConnet /\ Finished(c)
<1>1. ServerTypes
  BY DEF ServerInv
<1>2. InQueue(c, "disconnect") \in Nat /\ InSet(c, disconnected) \in {0, 1}
  BY <1>1, Terms
<1>3. InQueue(c, "disconnect") >= 1 \/ InSet(c, disconnected) = 1
  BY <1>1, TargetCounted DEF Gone, DisconnectSteps, InSet, Callbacks
<1>4. Disconnects(c) >= 1
  BY <1>2, <1>3, Sums
<1>5. /\ Receives(c) \in Nat /\ Disconnects(c) \in Nat
      /\ InSet(c, mIsConnet) \in {0, 1} /\ (InSet(c, mIsConnet) = 1 <=> c \in mIsConnet)
      /\ Receives(c) + Disconnects(c) <= InSet(c, mIsConnet)
  BY ChainsOf
<1>6. Disconnects(c) = 1 /\ Receives(c) = 0 /\ InSet(c, mIsConnet) = 1
  BY <1>4, <1>5
<1>7. Disconnects(c) > 0 => Finished(c)
  BY DEF ServerInv, NothingSkipped
<1> QED
  BY <1>5, <1>6, <1>7

\* An open connection is of a socket that was armed, and was not left.
LEMMA OpenPhase ==
  ASSUME ServerInv, NEW c \in Clients, peer[c] = "open"
  PROVE  Phase(c) \in {"armed", "connected"}
<1>1. c \in created
  BY DEF ServerInv, ConnectionFirst
<1>2. ~Gone(c)
  BY GoneCounted DEF Finished
<1> QED
  BY <1>1, <1>2, PhaseIs

\* The steps that leave the phases alone.
LEMMA SamePhases ==
  ASSUME UNCHANGED <<mIsConnet, created>>, \A c \in Clients : Gone(c)' <=> Gone(c)
  PROVE  [c \in Clients |-> Phase(c)]' = [c \in Clients |-> Phase(c)]
<1>1. \A c \in Clients : Phase(c)' = Phase(c)
  BY PhaseIs, PhaseIsNext
<1> QED
  BY <1>1

LEMMA SameGone ==
  ASSUME UNCHANGED disconnected, at'["disconnect"] = at["disconnect"], working'["disconnect"] = working["disconnect"]
  PROVE  \A c \in Clients : Gone(c)' <=> Gone(c)
BY DEF Gone, Target

\* Only the first call of Disconnect changes who is gone.
LEMMA WorkersGone ==
  ASSUME ServerTypes, Next, ~Start("disconnect")
  PROVE  \A c \in Clients : Gone(c)' <=> Gone(c)
<1>1. CASE Return("disconnect")
  <2>1. /\ at["disconnect"] = "return" /\ at'["disconnect"] = "idle"
        /\ disconnected' = disconnected \union {Target("disconnect")}
    BY <1>1 DEF Return, Goto, ServerTypes, TypeOK, Callbacks
  <2> QED
    BY <2>1 DEF Gone, DisconnectSteps
<1>2. CASE \E v \in {"accept", "receive"} : Start(v) \/ Return(v)
  BY <1>2, SameGone DEF Start, Return, Goto, IOCP!Call, IOCP!Pop, IOCP!Workers, history,
          ServerTypes, TypeOK, IOCP!TypeOK, Callbacks
<1>3. CASE \/ FeedBack_Accept \/ StillRoom \/ PrepareMore \/ FeedBack_Receive
           \/ LoadCount("accept") \/ StoreCount("accept", 1, "check") \/ PrepareFirst
  BY <1>3, SameGone DEF PrepareFirst, threadVars, FeedBack_Accept, StillRoom, PrepareMore, FeedBack_Receive, LoadCount, StoreCount,
          Goto, iocpVars, history, ServerTypes, TypeOK, Callbacks
<1>4. CASE DisconnectTryAccept \/ LoadCount("disconnect") \/ StoreCount("disconnect", -1, "tryAccept")
  <2>1. /\ at["disconnect"] \in DisconnectSteps /\ at'["disconnect"] \in DisconnectSteps
        /\ UNCHANGED <<working, disconnected>>
    BY <1>4 DEF DisconnectTryAccept, LoadCount, StoreCount, Goto, iocpVars, history, ServerTypes, TypeOK,
            Callbacks, DisconnectSteps
  <2> QED
    BY <2>1 DEF Gone, Target
<1>5. CASE Dispatcher
  BY <1>5, SameGone DEF Dispatcher, IOCP!Dispatch, threadVars, history
<1>6. CASE \E d \in Clients : PeerSends(d) \/ PeerCloses(d) \/ PeerResets(d)
  BY <1>6, SameGone DEF PeerSends, PeerCloses, PeerResets, serverVars, iocpVars, threadVars, history
<1>7. CASE \E d \in Clients : Connect(d) \/ AcceptFails(d) \/ ReceiveCompletes(d)
  BY <1>7, SameGone DEF Connect, AcceptFails, ReceiveCompletes, Received, ReceivedEnd, ReceiveFails,
          CompletesReceive, Completes, threadVars, history
<1> QED
  BY Steps, <1>1, <1>2, <1>3, <1>4, <1>5, <1>6, <1>7 DEF Callbacks

LEMMA LeaveStep ==
  ASSUME ServerInv, Start("disconnect")
  PROVE  \E c \in Clients : Lifecycle!Leave(c)
<1> DEFINE w == "disconnect"
<1>1. /\ ServerTypes /\ at[w] = "idle" /\ at' = [at EXCEPT ![w] = "load"]
      /\ working'[w].ClientID \in Clients /\ InQueue(working'[w].ClientID, w) >= 1
      /\ UNCHANGED <<mIsConnet, created, peer, sent, handled, disconnected>>
  BY StartCalls DEF ServerInv, Start, socketVars, supplyVars, peerVars, history, Callbacks
<1> PICK t \in Clients : t = working'[w].ClientID
  BY <1>1
<1>2. at'[w] = "load"
  BY <1>1 DEF ServerTypes, TypeOK, Callbacks
<1>3. /\ \A c \in Clients \ {t} : Gone(c)' <=> Gone(c)
      /\ Gone(t)'
  BY <1>1, <1>2 DEF Gone, DisconnectSteps, Target
<1>4. Disconnects(t) > 0
  BY <1>1, Terms, Sums
<1>5. t \in mIsConnet /\ t \notin disconnected
  <2>1. /\ Receives(t) \in Nat /\ Disconnects(t) \in Nat
        /\ InSet(t, mIsConnet) \in {0, 1} /\ (InSet(t, mIsConnet) = 1 <=> t \in mIsConnet)
        /\ Receives(t) + Disconnects(t) <= InSet(t, mIsConnet)
    BY ChainsOf
  <2>2. Disconnects(t) = InQueue(t, w) + InSet(t, disconnected)
    BY Sums
  <2>3. InSet(t, disconnected) = 0
    BY <1>1, <2>1, <2>2, Terms
  <2> QED
    BY <1>4, <2>1, <2>3 DEF InSet
<1>6. ~Gone(t)
  BY <1>1, <1>5 DEF Gone, DisconnectSteps
<1>7. Phase(t) = "connected" /\ Phase(t)' = "gone"
  BY <1>3, <1>5, <1>6, PhaseIs, PhaseIsNext
<1>9. \A c \in Clients \ {t} : Phase(c)' = Phase(c)
  BY <1>1, <1>3, PhaseIs, PhaseIsNext
<1>10. handled[t] = sent[t] \/ peer[t] = "reset"
  <2>1. Finished(t) /\ Accounted(t, 0)
    BY <1>4 DEF ServerInv, NothingSkipped
  <2>2. handled[t] \in Nat /\ unread[t] \in Nat /\ sent[t] \in Nat
    BY <1>1 DEF ServerTypes, TypeOK
  <2> QED
    BY <2>1, <2>2 DEF Finished, Accounted
<1>11. [c \in Clients |-> Phase(c)]' = [[c \in Clients |-> Phase(c)] EXCEPT ![t] = "gone"]
  BY <1>7, <1>9
<1>12. {c \in Clients : peer[c] = "reset"}' = {c \in Clients : peer[c] = "reset"}
  BY <1>1
<1>13. Lifecycle!Leave(t)
  BY <1>1, <1>7, <1>10, <1>11, <1>12 DEF Lifecycle!Leave
<1> QED
  BY <1>13

LEMMA ConnectStep ==
  ASSUME ServerInv, FeedBack_Accept
  PROVE  \E c \in Clients : Lifecycle!Connect(c)
<1>1. ServerTypes
  BY DEF ServerInv
<1> PICK t \in Clients : t = Target("accept")
  BY <1>1, CallbackPacket DEF FeedBack_Accept, Callbacks
<1>2. /\ mIsConnet' = mIsConnet \union {t} /\ at["accept"] = "feedback"
      /\ UNCHANGED <<created, peer, sent, handled, disconnected>>
  BY DEF FeedBack_Accept, supplyVars, peerVars, history
<1>3. t \notin mIsConnet /\ t \in created
  <2>1. InQueue(t, "accept") >= 1
    BY <1>1, <1>2, TargetCounted DEF Callbacks
  <2>2. BeyondAccept(t) = 0
    BY <1>2 DEF BeyondAccept, Beyond
  <2>3. Accepts(t) >= 1
    BY <1>1, <2>1, <2>2, Terms, Sums
  <2> QED
    BY <2>3, ChainsOf
<1>4. ~Gone(t)
  BY <1>3, GoneCounted
<1>5. \A c \in Clients : Gone(c)' <=> Gone(c)
  <2>1. UNCHANGED <<working, disconnected>> /\ at'["disconnect"] = at["disconnect"]
    BY <1>1 DEF FeedBack_Accept, Goto, iocpVars, history, ServerTypes, TypeOK, Callbacks
  <2> QED
    BY <2>1, SameGone
<1>6. Phase(t) = "armed" /\ Phase(t)' = "connected"
  BY <1>2, <1>3, <1>4, <1>5, PhaseIs, PhaseIsNext
<1>8. \A c \in Clients \ {t} : Phase(c)' = Phase(c)
  BY <1>2, <1>5, PhaseIs, PhaseIsNext
<1>9. [c \in Clients |-> Phase(c)]' = [[c \in Clients |-> Phase(c)] EXCEPT ![t] = "connected"]
  BY <1>6, <1>8
<1>10. {c \in Clients : peer[c] = "reset"}' = {c \in Clients : peer[c] = "reset"}
  BY <1>2
<1>11. Lifecycle!Connect(t)
  BY <1>2, <1>6, <1>9, <1>10 DEF Lifecycle!Connect
<1> QED
  BY <1>11

LEMMA ArmStep ==
  ASSUME ServerInv, PrepareFirst \/ PrepareMore
  PROVE  \E S \in SUBSET Clients : Lifecycle!Arm(S)
<1>1. ServerTypes /\ mIsConnet = created
  BY AllConnected, NoneCreated DEF ServerInv, PrepareFirst
<1>2. UNCHANGED <<mIsConnet, peer, sent, handled>> /\ created \subseteq created'
  BY DEF PrepareFirst, PrepareMore, PrepareSocket, MakeSockets, peerVars, history
<1> PICK S \in SUBSET Clients : S = {c \in Clients : c \in created' \ created}
  OBVIOUS
<1>3. \A c \in Clients : Gone(c)' <=> Gone(c)
  <2>1. UNCHANGED <<working, disconnected>> /\ at'["disconnect"] = at["disconnect"]
    BY <1>1 DEF PrepareFirst, PrepareMore, Goto, iocpVars, threadVars, history, ServerTypes,
                TypeOK, Callbacks
  <2> QED
    BY <2>1, SameGone
<1>4. \A c \in S : ~Gone(c) /\ Phase(c) = "new" /\ Phase(c)' = "armed"
  BY <1>1, <1>2, <1>3, GoneCounted, PhaseIs, PhaseIsNext
<1>5. \A c \in Clients \ S : Phase(c)' = Phase(c)
  BY <1>2, <1>3, PhaseIs, PhaseIsNext
<1>6. [c \in Clients |-> Phase(c)]' = [c \in Clients |-> IF c \in S THEN "armed" ELSE [d \in Clients |-> Phase(d)][c]]
  BY <1>4, <1>5
<1>7. {c \in Clients : peer[c] = "reset"}' = {c \in Clients : peer[c] = "reset"}
  BY <1>2
<1>8. Lifecycle!Arm(S)
  BY <1>2, <1>4, <1>6, <1>7 DEF Lifecycle!Arm
<1> QED
  BY <1>8

LEMMA HandleStep ==
  ASSUME ServerInv, FeedBack_Receive
  PROVE  \E c \in Clients : Lifecycle!Handle(c)
<1>1. ServerTypes
  BY DEF ServerInv
<1> PICK t \in Clients : t = Target("receive")
  BY <1>1, CallbackPacket DEF FeedBack_Receive, Callbacks
<1> DEFINE n == working["receive"].DataSize
<1>2. /\ UNCHANGED <<mIsConnet, created, peer, sent, disconnected>> /\ at["receive"] = "feedback"
      /\ handled' = [handled EXCEPT ![t] = @ + n]
  BY DEF FeedBack_Receive, supplyVars, peerVars
<1>3. /\ 1 \in DOMAIN queue["receive"] /\ queue["receive"][1] = working["receive"]
      /\ queue["receive"][1].ClientID = t /\ working["receive"] \in IOCP!Packet
  BY <1>1, <1>2, CallbackPacket DEF Callbacks, Target
<1>4. n > 0 /\ Accounted(t, n)
  BY <1>2, <1>3 DEF ServerInv, NothingSkipped
<1>5. n \in Nat /\ handled[t] \in Nat /\ unread[t] \in Nat /\ sent[t] \in Nat
  BY <1>1, <1>3 DEF IOCP!Packet, Sizes, ServerTypes, TypeOK
<1> HIDE DEF n
<1>6. n \in 1 .. sent[t] - handled[t]
  BY <1>4, <1>5 DEF Accounted
<1>7. Receives(t) >= 1
  <2>1. InQueue(t, "receive") >= 1
    BY <1>1, <1>2, TargetCounted DEF Callbacks
  <2>2. BeyondReceive(t) = 0
    BY <1>2 DEF BeyondReceive, Beyond
  <2> QED
    BY <1>1, <2>1, <2>2, Terms, Sums
<1>8. t \in mIsConnet /\ ~Gone(t)
  BY <1>7, ChainsOf, GoneCounted
<1>9. Phase(t) = "connected"
  BY <1>8, PhaseIs
<1>10. [c \in Clients |-> Phase(c)]' = [c \in Clients |-> Phase(c)]
  <2>1. UNCHANGED <<working, disconnected>> /\ at'["disconnect"] = at["disconnect"]
    BY <1>1 DEF FeedBack_Receive, Goto, iocpVars, history, ServerTypes, TypeOK, Callbacks
  <2> QED
    BY <1>2, <2>1, SameGone, SamePhases
<1>11. {c \in Clients : peer[c] = "reset"}' = {c \in Clients : peer[c] = "reset"}
  BY <1>2
<1>12. Lifecycle!Handle(t)
  BY <1>2, <1>6, <1>9, <1>10, <1>11 DEF Lifecycle!Handle
<1> QED
  BY <1>12

LEMMA PeerSteps ==
  ASSUME ServerInv, NEW c \in Clients, PeerSends(c) \/ PeerResets(c)
  PROVE  Lifecycle!Send(c) \/ Lifecycle!Reset(c)
<1>1. ServerTypes /\ Phase(c) \in {"armed", "connected"}
  BY OpenPhase DEF ServerInv, PeerSends, PeerResets
<1>2. [d \in Clients |-> Phase(d)]' = [d \in Clients |-> Phase(d)]
  <2>1. UNCHANGED <<working, at, disconnected, mIsConnet, created>>
    BY DEF PeerSends, PeerResets, serverVars, iocpVars, threadVars, socketVars, supplyVars, history
  <2> QED
    BY <2>1, SameGone, SamePhases
<1>3. handled' = handled
  BY DEF PeerSends, PeerResets, serverVars, history
<1>4. CASE PeerSends(c)
  <2>1. {d \in Clients : peer[d] = "reset"}' = {d \in Clients : peer[d] = "reset"}
    BY <1>4 DEF PeerSends
  <2> QED
    BY <1>1, <1>2, <1>3, <1>4, <2>1 DEF PeerSends, Lifecycle!Send
<1>5. CASE PeerResets(c)
  <2>1. {d \in Clients : peer[d] = "reset"}' = {d \in Clients : peer[d] = "reset"} \union {c}
    BY <1>1, <1>5 DEF PeerResets, ServerTypes, TypeOK
  <2> QED
    BY <1>1, <1>2, <1>3, <1>5, <2>1 DEF PeerResets, Lifecycle!Reset
<1> QED
  BY <1>4, <1>5

\* Every other step leaves the life of every client alone.
LEMMA OtherSteps ==
  ASSUME ServerInv, Next, ~Start("disconnect"), ~FeedBack_Accept, ~PrepareFirst, ~PrepareMore,
         ~FeedBack_Receive, \A c \in Clients : ~PeerSends(c) /\ ~PeerResets(c)
  PROVE  UNCHANGED Lifecycle!vars
<1>1. ServerTypes
  BY DEF ServerInv
<1>2. UNCHANGED <<mIsConnet, created, sent, handled>>
  BY Steps DEF Dispatcher, Start, Return, StillRoom, DisconnectTryAccept, LoadCount, StoreCount,
       PeerCloses, Connect, AcceptFails, ReceiveCompletes, Received, ReceivedEnd, ReceiveFails,
       CompletesReceive, Completes, serverVars, socketVars, supplyVars, peerVars, history
<1>3. {c \in Clients : peer[c] = "reset"}' = {c \in Clients : peer[c] = "reset"}
  <2>1. CASE UNCHANGED peer
    BY <2>1
  <2>2. ASSUME NEW d \in Clients, PeerCloses(d) \/ Connect(d)
        PROVE  {c \in Clients : peer[c] = "reset"}' = {c \in Clients : peer[c] = "reset"}
    <3>1. \A c \in Clients : peer'[c] = "reset" <=> peer[c] = "reset"
      BY <1>1, <2>2 DEF PeerCloses, Connect, ServerTypes, TypeOK
    <3> QED
      BY <3>1
  <2>3. UNCHANGED peer \/ \E d \in Clients : PeerCloses(d) \/ Connect(d)
    BY Steps DEF Dispatcher, Start, Return, StillRoom, DisconnectTryAccept, LoadCount, StoreCount,
         AcceptFails, ReceiveCompletes, Received, ReceivedEnd, ReceiveFails, CompletesReceive, peerVars
  <2> QED
    BY <2>1, <2>2, <2>3
<1>4. [c \in Clients |-> Phase(c)]' = [c \in Clients |-> Phase(c)]
  BY <1>1, <1>2, WorkersGone, SamePhases
<1> QED
  BY <1>2, <1>3, <1>4 DEF Lifecycle!vars

LEMMA LifeStep ==
  ASSUME ServerInv, [Next]_vars
  PROVE  [Lifecycle!Next]_Lifecycle!vars
<1>1. CASE UNCHANGED vars
  <2>1. UNCHANGED <<working, at, disconnected, mIsConnet, created, sent, handled, peer>>
    BY <1>1 DEF vars, iocpVars, threadVars, socketVars, supplyVars, peerVars, history
  <2>2. [c \in Clients |-> Phase(c)]' = [c \in Clients |-> Phase(c)]
    BY <2>1, SameGone, SamePhases
  <2>3. {c \in Clients : peer[c] = "reset"}' = {c \in Clients : peer[c] = "reset"}
    BY <2>1
  <2> QED
    BY <2>1, <2>2, <2>3 DEF Lifecycle!vars
<1>2. CASE Next
  <2>1. CASE Start("disconnect")
    BY <2>1, LeaveStep DEF Lifecycle!Next
  <2>2. CASE FeedBack_Accept
    BY <2>2, ConnectStep DEF Lifecycle!Next
  <2>3. CASE PrepareFirst \/ PrepareMore
    BY <2>3, ArmStep DEF Lifecycle!Next
  <2>4. CASE FeedBack_Receive
    BY <2>4, HandleStep DEF Lifecycle!Next
  <2>5. CASE \E c \in Clients : PeerSends(c) \/ PeerResets(c)
    BY <2>5, PeerSteps DEF Lifecycle!Next
  <2>6. CASE /\ ~Start("disconnect") /\ ~FeedBack_Accept /\ ~PrepareFirst /\ ~PrepareMore
             /\ ~FeedBack_Receive
             /\ \A c \in Clients : ~PeerSends(c) /\ ~PeerResets(c)
    BY <1>2, <2>6, OtherSteps
  <2> QED
    BY <2>1, <2>2, <2>3, <2>4, <2>5, <2>6
<1> QED
  BY <1>1, <1>2

LEMMA LifeInit == Init => Lifecycle!Init
<1> SUFFICES ASSUME Init
             PROVE  Lifecycle!Init
  OBVIOUS
<1>1. \A c \in Clients : ~Gone(c)
  BY DEF Init, Gone, DisconnectSteps, Callbacks
<1>2. \A c \in Clients : Phase(c) = "new"
  BY <1>1, PhaseIs DEF Init
<1>3. {c \in Clients : peer[c] = "reset"} = {}
  BY DEF Init
<1> QED
  BY <1>2, <1>3 DEF Init, Lifecycle!Init

\* Whatever the interleaving, a socket lives once: armed, connected, given what
\* its peer sent in the order it was sent, and left when all of it was handled.
THEOREM LivesOnce == Spec => ImplementsLifecycle
<1>1. ServerInv /\ [Next]_vars => [Lifecycle!Next]_Lifecycle!vars
  BY LifeStep
<1> QED
  BY LifeInit, <1>1, ServerInvariance, PTL DEF Spec, ImplementsLifecycle, Lifecycle!Spec

-----------------------------------------------------------------------------
(* The server as a user of the port: what IOCompletionPort_proofs shows of any use. *)

Port == INSTANCE IOCompletionPort_proofs WITH MaxWaiting <- Capacity

\* Each step of the server is one of the port, or leaves the port alone.
LEMMA StepUsesThePort ==
  ASSUME ServerTypes, [Next]_vars
  PROVE  IOCP!PortNext \/ UNCHANGED IOCP!vars
<1>1. CASE Dispatcher
  BY <1>1 DEF Dispatcher, IOCP!PortNext
<1>2. ASSUME NEW w \in Callbacks, Start(w) \/ Return(w)
      PROVE  IOCP!PortNext
  <2>1. w \in IOCP!Workers /\ (IOCP!Call(w) \/ IOCP!Pop(w))
    BY <1>2 DEF Start, Return, Callbacks, IOCP!Workers
  <2> QED
    BY <2>1 DEF IOCP!PortNext
<1>3. ASSUME NEW type \in {"accept", "receive"}, NEW c \in Clients, NEW ok \in BOOLEAN,
             NEW n \in Sizes \union {0}, type = "accept" \/ ~ok => n = 0,
             Completes(type, c, ok, n)
      PROVE  IOCP!PortNext
  <2> DEFINE k == [operationType |-> type, id |-> c, ok |-> ok, bytes |-> n]
  <2>1. k \in IOCP!Completion
    BY <1>3, CompletesKeepsTypes
  <2>2. IOCP!Complete(k) /\ UNCHANGED <<queue, working>>
    BY <1>3 DEF Completes
  <2> HIDE DEF k
  <2> QED
    BY <2>1, <2>2 DEF IOCP!PortNext
<1>4. ASSUME NEW c \in Clients, Connect(c) \/ AcceptFails(c) PROVE IOCP!PortNext
  BY <1>3, <1>4 DEF Connect, AcceptFails
<1>5. ASSUME NEW c \in Clients, ReceiveCompletes(c) PROVE IOCP!PortNext
  <2>1. CASE Received(c)
    <3>1. PICK n \in 1 .. unread[c] : CompletesReceive(c, TRUE, n)
      BY <2>1 DEF Received
    <3>2. n \in Sizes
      BY BoundsAssumption DEF ServerTypes, TypeOK, Segments, Sizes
    <3> QED
      BY <1>3, <3>1, <3>2 DEF CompletesReceive
  <2>2. CASE ReceivedEnd(c)
    BY <1>3, <2>2 DEF ReceivedEnd, CompletesReceive
  <2>3. CASE ReceiveFails(c)
    BY <1>3, <2>3 DEF ReceiveFails, CompletesReceive
  <2> QED
    BY <1>5, <2>1, <2>2, <2>3 DEF ReceiveCompletes
<1>6. CASE UNCHANGED iocpVars
  BY <1>6 DEF iocpVars, IOCP!vars
<1>7. CASE \/ PrepareFirst \/ FeedBack_Accept \/ StillRoom \/ PrepareMore \/ FeedBack_Receive
           \/ DisconnectTryAccept
           \/ \E w \in {"accept", "disconnect"} : LoadCount(w)
           \/ StoreCount("accept", 1, "check") \/ StoreCount("disconnect", -1, "tryAccept")
           \/ \E c \in Clients : PeerSends(c) \/ PeerCloses(c) \/ PeerResets(c)
           \/ UNCHANGED vars
  BY <1>6, <1>7 DEF PrepareFirst, FeedBack_Accept, StillRoom, PrepareMore, FeedBack_Receive,
     DisconnectTryAccept, LoadCount, StoreCount, PeerSends, PeerCloses, PeerResets,
     serverVars, vars
<1> QED
  BY <1>1, <1>2, <1>4, <1>5, <1>7, Steps

\* The server uses the port as IOCompletionPort describes: its workers, its callbacks and
\* the operating system do nothing else to the completions, the queues and the packets in
\* the workers' hands.
THEOREM UsesThePort == Spec => IOCP!PortSpec
<1>1. Init => IOCP!Init
  BY DEF Init
<1>2. ServerTypes /\ [Next]_vars => [IOCP!PortNext]_IOCP!vars
  BY StepUsesThePort
<1> QED
  BY <1>1, <1>2, InitTypes, NextKeepsTypes, PTL DEF Spec, IOCP!PortSpec

\* So to the server, too, the port is one first-in first-out channel per callback: between
\* the completion of an operation and the return of its callback a packet is not
\* overtaken, repeated or lost, except to a full queue.
THEOREM DeliversInOrder == Spec => Port!ImplementsDelivery
<1>1. IOCP!Init <=> Port!Init
  BY DEF IOCP!Init, Port!Init, IOCP!Workers, Port!Workers
<1>2. [IOCP!PortNext]_IOCP!vars => [Port!PortNext]_Port!vars
  BY DEF IOCP!PortNext, Port!PortNext, IOCP!vars, Port!vars, IOCP!Workers, Port!Workers,
     IOCP!Completion, Port!Completion, IOCP!Operations, Port!Operations,
     IOCP!Complete, Port!Complete, IOCP!Dispatch, Port!Dispatch, IOCP!Call, Port!Call,
     IOCP!Pop, Port!Pop, IOCP!Destinations, Port!Destinations, IOCP!PacketOf, Port!PacketOf,
     IOCP!Push, Port!Push, IOCP!Disconnected, Port!Disconnected
<1>3. IOCP!PortSpec => Port!PortSpec
  BY <1>1, <1>2, PTL DEF IOCP!PortSpec, Port!PortSpec
<1>4. Port!CapacityAssumption /\ Port!SizesAssumption
  BY CapacityAssumption, BoundsAssumption DEF Port!CapacityAssumption, Port!SizesAssumption, Sizes
<1>5. Port!PortSpec => Port!ImplementsDelivery
  BY <1>4, Port!AnyUseDelivers
<1> QED
  BY <1>3, <1>5, UsesThePort, PTL

-----------------------------------------------------------------------------
(* The set-up, and the program from its start. *)

\* Every step of the program is one of the server, or leaves the server alone: the guards
\* of Main add nothing to what was shown of EchoServer, and take nothing away.
LEMMA RunsTheServer == MainSpec => Spec
<1>1. MainInit => Init
  BY DEF MainInit
<1>2. ASSUME [MainNext]_allVars
      PROVE  [Next]_vars
  <2>1. CASE Setup!Next /\ UNCHANGED vars
    BY <2>1
  <2>2. CASE PrepareFirst
    BY <2>2 DEF Next
  <2>3. CASE Setup!TryAcceptCrashes /\ UNCHANGED vars
    BY <2>3
  <2>4. CASE EchoServerProcess
    BY <2>4 DEF EchoServerProcess
  <2>5. CASE UNCHANGED allVars
    BY <2>5 DEF allVars
  <2> QED
    BY <1>2, <2>1, <2>2, <2>3, <2>4, <2>5 DEF MainNext, EchoServerInit
<1> QED
  BY <1>1, <1>2, PTL DEF MainSpec, Spec

LEMMA InitMainInv == MainInit => MainInv
<1>1. MainInit => ServerInv
  BY InitInv DEF MainInit
<1>2. MainInit => SetupInv
  <2> SUFFICES ASSUME MainInit
               PROVE  SetupInv
    OBVIOUS
  <2>1. /\ pc = "WSAStartup" /\ failed = "none"
        /\ winsock = FALSE /\ portOpen = FALSE /\ lostPorts = 0 /\ listenTied = FALSE
        /\ mListenSocket = "INVALID" /\ mIOCPHandle = "INVALID" /\ mAcceptExPointer = FALSE
    BY Zenon DEF MainInit, Setup!Init
  <2>2. created = {}
    BY Zenon DEF MainInit, Init
  <2>3. SetupTypes
    BY <2>1 DEF SetupTypes, Labels
  <2>4. InOrder
    BY <2>1 DEF InOrder, AfterInit
  <2>5. GaveUp
    BY <2>1 DEF GaveUp
  <2>6. LeftByInit
    BY <2>1 DEF LeftByInit, Setup!LeftByInit
  <2>7. ClientsLast
    BY <2>1, <2>2 DEF ClientsLast
  <2> QED
    BY <2>3, <2>4, <2>5, <2>6, <2>7 DEF SetupInv
<1> QED
  BY <1>1, <1>2 DEF MainInv

\* The calls of Init that succeed.
LEMMA CallsKeep ==
  ASSUME SetupInv, UNCHANGED <<created, accumulatedClientId>>,
         \/ Setup!WSAStartup \/ Setup!Socket \/ Setup!Bind \/ Setup!Listen
         \/ Setup!CreateIoCompletionPort \/ Setup!TieListenSocket \/ Setup!WSAIoctl
  PROVE  SetupInv'
<1> USE DEF SetupInv, SetupTypes, InOrder, GaveUp, LeftByInit, Setup!LeftByInit, ClientsLast,
            Labels, AfterInit, Setup!At, Setup!osVars, Setup!memberVars
<1>1. CASE Setup!WSAStartup
  BY <1>1 DEF Setup!WSAStartup
<1>2. CASE Setup!Socket
  BY <1>2 DEF Setup!Socket
<1>3. CASE Setup!Bind
  BY <1>3 DEF Setup!Bind
<1>4. CASE Setup!Listen
  BY <1>4 DEF Setup!Listen
<1>5. CASE Setup!CreateIoCompletionPort
  BY <1>5 DEF Setup!CreateIoCompletionPort
<1>6. CASE Setup!TieListenSocket
  BY <1>6 DEF Setup!TieListenSocket
<1>7. CASE Setup!WSAIoctl
  BY <1>7 DEF Setup!WSAIoctl
<1> QED
  BY <1>1, <1>2, <1>3, <1>4, <1>5, <1>6, <1>7

\* The calls that fail, with what Init then undoes.
LEMMA FailuresKeep ==
  ASSUME SetupInv, UNCHANGED <<created, accumulatedClientId>>,
         \/ Setup!WSAStartupFails \/ Setup!SocketFails \/ Setup!BindFails \/ Setup!ListenFails
         \/ Setup!CreateIoCompletionPortFails \/ Setup!TieListenSocketFails
  PROVE  SetupInv'
<1> USE DEF SetupInv, SetupTypes, InOrder, GaveUp, LeftByInit, Setup!LeftByInit, ClientsLast,
            Labels, AfterInit, Setup!At, Setup!GiveUp, Setup!CloseAndGiveUp
<1>1. CASE Setup!WSAStartupFails
  BY <1>1 DEF Setup!WSAStartupFails
<1>2. CASE Setup!SocketFails
  BY <1>2 DEF Setup!SocketFails
<1>3. CASE Setup!BindFails
  BY <1>3 DEF Setup!BindFails
<1>4. CASE Setup!ListenFails
  BY <1>4 DEF Setup!ListenFails
<1>5. CASE Setup!CreateIoCompletionPortFails
  BY <1>5 DEF Setup!CreateIoCompletionPortFails
<1>6. CASE Setup!TieListenSocketFails
  BY <1>6 DEF Setup!TieListenSocketFails
<1> QED
  BY <1>1, <1>2, <1>3, <1>4, <1>5, <1>6

\* The first sockets: none is made unless Init succeeded and found AcceptEx.
LEMMA PrepareKeeps ==
  ASSUME MainInv, PrepareFirst, Setup!PrepareSocket(created', tied')
  PROVE  SetupInv'
<1>1. created = {} /\ accumulatedClientId' # 0
  BY NoneCreated, CountsAssumption DEF MainInv, PrepareFirst, PrepareSocket
<1>2. /\ pc = "PrepareSocket" /\ pc' = "Process"
      /\ created' # {} => winsock /\ mAcceptExPointer
      /\ \/ mIOCPHandle = "NULL" /\ lostPorts' \in 0 .. CLIENT_INIT_COUNT
         \/ lostPorts' = lostPorts
      /\ UNCHANGED <<failed, winsock, portOpen, listenTied, mListenSocket, mIOCPHandle,
                     mAcceptExPointer>>
  BY DEF Setup!PrepareSocket, Setup!At, Setup!memberVars
<1>3. lostPorts' \in Nat
  BY <1>2, CountsAssumption DEF MainInv, SetupInv, SetupTypes
<1>4. failed = "none" => mIOCPHandle # "NULL"
  BY <1>2 DEF MainInv, SetupInv, SetupTypes, InOrder
<1>5. SetupTypes' /\ InOrder' /\ GaveUp'
  BY <1>2, <1>3 DEF MainInv, SetupInv, SetupTypes, InOrder, GaveUp, Labels, AfterInit
<1>6. LeftByInit'
  BY <1>2, <1>4 DEF MainInv, SetupInv, GaveUp, LeftByInit, Setup!LeftByInit
<1>7. ClientsLast'
  <2> SUFFICES ASSUME created' # {}
               PROVE  Heard'
    BY <1>1, <1>2 DEF ClientsLast
  <2>1. failed = "none"
    BY <1>2 DEF MainInv, SetupInv, LeftByInit, Setup!LeftByInit
  <2> QED
    BY <1>2, <2>1 DEF MainInv, SetupInv, InOrder, Heard, AfterInit
<1> QED
  BY <1>5, <1>6, <1>7 DEF SetupInv

LEMMA CrashKeeps ==
  ASSUME SetupInv, UNCHANGED <<created, accumulatedClientId>>, Setup!TryAcceptCrashes
  PROVE  SetupInv'
BY DEF SetupInv, SetupTypes, InOrder, GaveUp, LeftByInit, Setup!LeftByInit, ClientsLast,
       Labels, AfterInit, Setup!At, Setup!TryAcceptCrashes, Setup!osVars, Setup!memberVars

\* A server without a socket gets none any more: PrepareSocket is called again for a
\* client that was accepted.
LEMMA NoneFromNone ==
  ASSUME ServerInv, Next, accumulatedClientId # 0
  PROVE  accumulatedClientId' # 0 /\ (created' # {} => created # {})
<1>1. CASE PrepareMore
  <2>1. accumulatedClientId \in Nat /\ accumulatedClientId' = accumulatedClientId + CLIENT_INCREASE
    BY <1>1 DEF ServerInv, ServerTypes, TypeOK, PrepareMore, PrepareSocket
  <2>2. Target("accept") \in Clients /\ InQueue(Target("accept"), "accept") >= 1
    BY <1>1, CallbackPacket, TargetCounted DEF ServerInv, PrepareMore, Callbacks
  <2>3. peer[Target("accept")] # "none"
    BY <2>2, Terms DEF ServerInv, ConnectionFirst
  <2>4. created # {}
    BY <2>2, <2>3 DEF ServerInv, ConnectionFirst
  <2> QED
    BY <2>1, <2>4, CountsAssumption
<1>2. CASE ~PrepareMore
  <2>1. UNCHANGED <<created, accumulatedClientId>>
    BY <1>2, Steps DEF PrepareFirst, Dispatcher, Start, Return, FeedBack_Accept, StillRoom,
       FeedBack_Receive, DisconnectTryAccept, LoadCount, StoreCount, PeerSends, PeerCloses,
       PeerResets, Connect, AcceptFails, ReceiveCompletes, Received, ReceivedEnd, ReceiveFails,
       CompletesReceive, Completes, serverVars, supplyVars
  <2> QED
    BY <2>1
<1> QED
  BY <1>1, <1>2

\* The set-up is over while Process runs.
LEMMA ProcessKeeps ==
  ASSUME MainInv, EchoServerProcess
  PROVE  SetupInv'
<1>1. accumulatedClientId' # 0 /\ (created' # {} => created # {}) /\ UNCHANGED setupVars
  BY NoneFromNone DEF MainInv, SetupInv, ClientsLast, EchoServerProcess
<1>2. SetupTypes' /\ InOrder' /\ GaveUp' /\ LeftByInit'
  BY <1>1 DEF MainInv, SetupInv, SetupTypes, InOrder, GaveUp, LeftByInit, Setup!LeftByInit,
              setupVars
<1>3. ClientsLast'
  BY <1>1 DEF MainInv, SetupInv, ClientsLast, Heard, setupVars
<1> QED
  BY <1>2, <1>3 DEF SetupInv

LEMMA MainStepKeeps == MainInv /\ [MainNext]_allVars => MainInv'
<1> SUFFICES ASSUME MainInv, [MainNext]_allVars
             PROVE  MainInv'
  OBVIOUS
<1>1. ServerInv'
  <2>1. [Next]_vars
    BY DEF MainNext, EchoServerInit, EchoServerProcess, allVars, Next
  <2> QED
    BY <2>1, NextKeeps DEF MainInv
<1>2. CASE Setup!Next /\ UNCHANGED vars
  <2>1. SetupInv /\ UNCHANGED <<created, accumulatedClientId>>
    BY <1>2 DEF MainInv, vars, supplyVars
  <2> QED
    BY <1>1, <1>2, <2>1, CallsKeep, FailuresKeep DEF MainInv, Setup!Next
<1>3. CASE PrepareFirst /\ Setup!PrepareSocket(created', tied')
  BY <1>1, <1>3, PrepareKeeps DEF MainInv
<1>4. CASE Setup!TryAcceptCrashes /\ UNCHANGED vars
  BY <1>1, <1>4, CrashKeeps DEF MainInv, vars, supplyVars
<1>5. CASE EchoServerProcess
  BY <1>1, <1>5, ProcessKeeps DEF MainInv
<1>6. CASE UNCHANGED allVars
  <2>1. UNCHANGED setupVars /\ UNCHANGED <<created, accumulatedClientId>>
    BY <1>6 DEF allVars, vars, supplyVars
  <2>2. SetupInv'
    BY <2>1 DEF MainInv, SetupInv, SetupTypes, InOrder, GaveUp, LeftByInit, Setup!LeftByInit,
                ClientsLast, Heard, setupVars
  <2> QED
    BY <1>1, <2>2 DEF MainInv
<1> QED
  BY <1>2, <1>3, <1>4, <1>5, <1>6 DEF MainNext, EchoServerInit

\* The invariant of the whole program, by induction on its steps.
LEMMA MainInvariance == MainSpec => []MainInv
BY InitMainInv, MainStepKeeps, PTL DEF MainSpec

\* IOCompletionPort::Init: whichever call fails, Winsock is down and the listening socket
\* closed afterwards; of the ports only the one that line 119 could not use stays, and those
\* that PrepareSocket makes after a failed CreateIoCompletionPort.
THEOREM FailureLeaves == MainSpec => []LeftByInit
<1>1. MainInv => LeftByInit
  BY DEF MainInv, SetupInv
<1> QED
  BY <1>1, MainInvariance, PTL

\* Process runs whatever has failed before it.  Yet a program in which an AcceptEx is in
\* flight, a completion waits or a client is connected is one whose whole Init succeeded:
\* it never waits for a connection that nobody would hear of.
THEOREM ArmedMeansHeard == MainSpec => []ArmedIsHeard
<1>1. MainInv => ArmedIsHeard
  <2> SUFFICES ASSUME MainInv, port # <<>> \/ mIsConnet # {} \/ (\E c \in Clients : acceptPending[c] > 0)
               PROVE  Heard
    BY DEF ArmedIsHeard
  <2>1. ServerInv /\ ServerTypes
    BY DEF MainInv, ServerInv
  <2>2. CASE port # <<>>
    <3>1. 1 \in DOMAIN port
      BY <2>1, <2>2, EmptySeq, LenProperties DEF ServerTypes, TypeOK, IOCP!TypeOK
    <3>2. created # {}
      BY <2>1, <3>1 DEF ServerInv, ConnectionFirst
    <3> QED
      BY <3>2 DEF MainInv, SetupInv, ClientsLast
  <2>3. CASE mIsConnet # {}
    BY <2>1, <2>3, ConnectedCreated DEF MainInv, SetupInv, ClientsLast
  <2>4. CASE \E c \in Clients : acceptPending[c] > 0
    <3> PICK c \in Clients : acceptPending[c] > 0
      BY <2>4
    <3>3. Accepts(c) = acceptPending[c] + InPort(c, "accept") + InQueue(c, "accept")
                       - BeyondAccept(c)
      BY <2>4, Sums
    <3>4. /\ acceptPending[c] \in Nat /\ InPort(c, "accept") \in Nat
          /\ InQueue(c, "accept") \in Nat /\ BeyondAccept(c) \in {0, 1}
          /\ BeyondAccept(c) <= InQueue(c, "accept")
      BY <2>1, Terms
    <3>1. Accepts(c) >= 1
      BY <3>3, <3>4
    <3>2. c \in created
      BY <2>1, <3>1, ChainsOf
    <3> QED
      BY <3>2 DEF MainInv, SetupInv, ClientsLast
  <2> QED
    BY <2>2, <2>3, <2>4
<1> QED
  BY <1>1, MainInvariance, PTL

-----------------------------------------------------------------------------
(* What the runs check of the whole program. *)

COROLLARY ProgramSafe ==
  MainSpec => [](TypeOK /\ AcceptChain /\ DataBeforeDisconnect /\ CountAtMostConnected)
BY RunsTheServer, TypeCorrect, SocketsArmedOnce, HandledBeforeDisconnect, CountBounded, PTL

COROLLARY ProgramDropsNone ==
  ASSUME Capacity > MaxConnections
  PROVE  MainSpec => []ReceiveChain
BY RunsTheServer, NoPacketDropped, PTL

COROLLARY ProgramLivesOnce == MainSpec => ImplementsLifecycle
BY RunsTheServer, LivesOnce, PTL

COROLLARY ProgramDeliversInOrder == MainSpec => Port!ImplementsDelivery
BY RunsTheServer, DeliversInOrder, PTL
=============================================================================

------------------------ MODULE IOCompletionPort_proofs ------------------------
(***************************************************************************)
(* The dispatcher, the four queues and the four workers are one first-in   *)
(* first-out channel per callback, for any clients, sizes and capacity.    *)
(*                                                                         *)
(* The packets of a channel are those of its queue and then those selected *)
(* from the port, so the lemmas are first about the k-th smallest element  *)
(* of a set (Nth...), then about what an arrival and a removal do to the   *)
(* selection (Selected...), and last one for each action.                  *)
(***************************************************************************)
EXTENDS IOCompletionPort, FiniteSetTheorems, FunctionTheorems,
        SequenceTheorems, TLAPS

LEMMA EmptyTuple ==
  ASSUME NEW S, NEW q \in Seq(S)
  PROVE  q = <<>> <=> Len(q) = 0
OBVIOUS

-----------------------------------------------------------------------------
(* Types. *)

LEMMA PacketOfType ==
  ASSUME NEW c \in Completion
  PROVE  PacketOf(c) \in Packet
BY DEF PacketOf, Completion, Packet

LEMMA DestinationsAre ==
  ASSUME NEW c \in Completion
  PROVE  /\ Destinations(c) \subseteq Workers
         /\ \A v, w \in Destinations(c) : v = w
BY DEF Completion, Destinations, Workers, Operations

LEMMA InitTypes == Init => IInv
BY CapacityAssumption DEF Init, IInv, TypeOK, InHand, Workers

LEMMA PushKeeps ==
  ASSUME IInv, NEW w \in Workers, NEW p \in Packet, Push(w, p), UNCHANGED working
  PROVE  /\ queue' \in [Workers -> Seq(Packet)]
         /\ \A v \in Workers : Len(queue'[v]) <= Capacity
         /\ InHand'
<1>1. /\ queue \in [Workers -> Seq(Packet)]
      /\ \A v \in Workers : Len(queue[v]) <= Capacity
      /\ Capacity \in Nat
  BY CapacityAssumption DEF IInv, TypeOK
<1>2. CASE Len(queue[w]) < Capacity
  <2>1. queue' = [queue EXCEPT ![w] = Append(@, p)]
    BY <1>2 DEF Push
  <2>2. queue[w] \in Seq(Packet) /\ Append(queue[w], p) \in Seq(Packet)
        /\ Len(Append(queue[w], p)) = Len(queue[w]) + 1 /\ Len(queue[w]) \in Nat
    BY <1>1
  <2>3. /\ queue'[w] = Append(queue[w], p)
        /\ \A v \in Workers : v # w => queue'[v] = queue[v]
    BY <1>1, <2>1
  <2>4. queue' \in [Workers -> Seq(Packet)]
    BY <1>1, <2>1, <2>2
  <2>5. \A v \in Workers : Len(queue'[v]) <= Capacity
    BY <1>1, <1>2, <2>2, <2>3
  <2>6. queue[w] # <<>> => queue'[w] # <<>> /\ Head(queue'[w]) = Head(queue[w])
    BY <2>2, <2>3
  <2> QED
    BY <2>3, <2>4, <2>5, <2>6 DEF IInv, InHand
<1>3. CASE ~(Len(queue[w]) < Capacity)
  BY <1>1, <1>3 DEF Push, IInv, InHand
<1> QED
  BY <1>2, <1>3

LEMMA DispatchKeeps ==
  ASSUME IInv, Dispatch
  PROVE  IInv'
<1>1. port \in Seq(Completion) /\ port # <<>> /\ port' = Tail(port) /\ UNCHANGED working
  BY DEF IInv, TypeOK, Dispatch
<1>2. Head(port) \in Completion /\ port' \in Seq(Completion)
  BY <1>1
<1>3. ASSUME NEW w \in Destinations(Head(port)), Push(w, PacketOf(Head(port)))
      PROVE  IInv'
  <2>1. w \in Workers /\ PacketOf(Head(port)) \in Packet
    BY <1>2, DestinationsAre, PacketOfType
  <2> QED
    BY <1>1, <1>2, <1>3, <2>1, PushKeeps DEF IInv, TypeOK
<1>4. CASE UNCHANGED queue
  BY <1>1, <1>2, <1>4 DEF IInv, TypeOK, InHand
<1> QED
  BY <1>3, <1>4 DEF Dispatch

LEMMA CallKeeps ==
  ASSUME IInv, NEW w \in Workers, Call(w)
  PROVE  IInv'
<1>1. queue[w] \in Seq(Packet) /\ queue[w] # <<>>
  BY DEF IInv, TypeOK, Call
<1>2. Head(queue[w]) \in Packet
  BY <1>1
<1> QED
  BY <1>1, <1>2 DEF IInv, TypeOK, InHand, Call

LEMMA PopKeeps ==
  ASSUME IInv, NEW w \in Workers, Pop(w)
  PROVE  IInv'
<1>1. /\ queue \in [Workers -> Seq(Packet)] /\ working \in [Workers -> Packet \union {None}]
      /\ \A v \in Workers : Len(queue[v]) <= Capacity
      /\ Capacity \in Nat
      /\ queue[w] # <<>>
      /\ port' = port /\ queue' = [queue EXCEPT ![w] = Tail(@)]
      /\ working' = [working EXCEPT ![w] = None]
  BY CapacityAssumption DEF IInv, TypeOK, InHand, Pop
<1>2. queue[w] \in Seq(Packet) /\ Tail(queue[w]) \in Seq(Packet)
      /\ Len(Tail(queue[w])) = Len(queue[w]) - 1 /\ Len(queue[w]) \in Nat
  BY <1>1
<1>3. /\ queue'[w] = Tail(queue[w]) /\ working'[w] = None
      /\ \A v \in Workers : v # w => queue'[v] = queue[v] /\ working'[v] = working[v]
  BY <1>1
<1>4. \A v \in Workers : Len(queue'[v]) <= Capacity
  BY <1>1, <1>2, <1>3
<1>5. queue' \in [Workers -> Seq(Packet)] /\ working' \in [Workers -> Packet \union {None}]
  BY <1>1, <1>2
<1> QED
  BY <1>1, <1>3, <1>4, <1>5 DEF IInv, TypeOK, InHand

LEMMA StepKeeps == IInv /\ [PortNext]_vars => IInv'
<1> SUFFICES ASSUME IInv, [PortNext]_vars PROVE IInv'
  OBVIOUS
<1>1. ASSUME NEW c \in Completion, Complete(c), UNCHANGED <<queue, working>>
      PROVE  IInv'
  BY <1>1 DEF IInv, TypeOK, InHand, Complete
<1>2. CASE Dispatch
  BY <1>2, DispatchKeeps
<1>3. ASSUME NEW w \in Workers, Call(w) PROVE IInv'
  BY <1>3, CallKeeps
<1>4. ASSUME NEW w \in Workers, Pop(w) PROVE IInv'
  BY <1>4, PopKeeps
<1>5. CASE UNCHANGED vars
  BY <1>5 DEF vars, IInv, TypeOK, InHand
<1> QED
  BY <1>1, <1>2, <1>3, <1>4, <1>5 DEF PortNext

LEMMA Invariance == PortSpec => []IInv
BY InitTypes, StepKeeps, PTL DEF PortSpec

\* The port alone is a use of it; the bound plays no part in what follows.
LEMMA AloneIsAUse == Spec => PortSpec
<1>1. [Next]_vars => [PortNext]_vars
  BY DEF Next, PortNext
<1> QED
  BY <1>1, PTL DEF Spec, PortSpec

\* Whatever completes in whatever order, packets and completions stay of their kinds, and
\* no queue holds more than its capacity.
THEOREM TypeCorrect == Spec => []TypeOK
<1>1. IInv => TypeOK
  BY DEF IInv
<1> QED
  BY <1>1, Invariance, AloneIsAUse, PTL

-----------------------------------------------------------------------------
(* The k-th smallest element of a finite set of numbers. *)

LEMMA RankType ==
  ASSUME NEW S \in SUBSET Nat, IsFiniteSet(S), NEW i \in S
  PROVE  Cardinality({j \in S : j <= i}) \in 1 .. Cardinality(S)
<1> DEFINE T == {j \in S : j <= i}
<1>1. IsFiniteSet(T) /\ Cardinality(T) <= Cardinality(S)
  BY FS_Subset
<1>2. Cardinality(T) \in Nat /\ Cardinality(S) \in Nat
  BY <1>1, FS_CardinalityType
<1>3. i \in T
  OBVIOUS
<1>4. Cardinality(T) # 0
  BY <1>1, <1>3, FS_EmptySet
<1> QED
  BY <1>1, <1>2, <1>4

LEMMA RankGrows ==
  ASSUME NEW S \in SUBSET Nat, IsFiniteSet(S), NEW i \in S, NEW j \in S, i < j
  PROVE  Cardinality({k \in S : k <= i}) < Cardinality({k \in S : k <= j})
<1> DEFINE T == {k \in S : k <= i}
           U == {k \in S : k <= j}
<1>1. IsFiniteSet(U)
  BY FS_Subset
<1>0. i \in Nat /\ j \in Nat /\ \A k \in S : k \in Nat
  OBVIOUS
<1>2. T \in SUBSET U /\ j \in U /\ j \notin T
  <2>1. \A k \in S : k <= i => k <= j
    BY <1>0
  <2>2. ~(j <= i) /\ j <= j
    BY <1>0
  <2> QED
    BY <2>1, <2>2
<1>3. IsFiniteSet(T) /\ Cardinality(T) <= Cardinality(U) /\ Cardinality(T) # Cardinality(U)
  BY <1>1, <1>2, FS_Subset
<1>4. Cardinality(T) \in Nat /\ Cardinality(U) \in Nat
  BY <1>1, <1>3, FS_CardinalityType
<1> QED
  BY <1>3, <1>4

LEMMA RankOnce ==
  ASSUME NEW S \in SUBSET Nat, IsFiniteSet(S), NEW i \in S, NEW j \in S,
         Cardinality({k \in S : k <= i}) = Cardinality({k \in S : k <= j})
  PROVE  i = j
<1> DEFINE r(l) == Cardinality({k \in S : k <= l})
<1>1. r(i) \in Nat /\ r(j) \in Nat
  <2>1. r(i) \in 1 .. Cardinality(S) /\ r(j) \in 1 .. Cardinality(S)
    BY RankType
  <2>2. Cardinality(S) \in Nat
    BY FS_CardinalityType
  <2> HIDE DEF r
  <2> QED
    BY <2>1, <2>2
<1>2. i < j => r(i) < r(j)
  BY RankGrows
<1>3. j < i => r(j) < r(i)
  BY RankGrows
<1>4. r(i) = r(j)
  OBVIOUS
<1> HIDE DEF r
<1> QED
  BY <1>1, <1>2, <1>3, <1>4

\* The ranks are all the numbers up to the cardinality, because they are all different.
LEMMA RankExists ==
  ASSUME NEW S \in SUBSET Nat, IsFiniteSet(S), NEW k \in 1 .. Cardinality(S)
  PROVE  \E i \in S : Cardinality({j \in S : j <= i}) = k
<1> DEFINE n == Cardinality(S)
           f == [i \in S |-> Cardinality({j \in S : j <= i})]
<1>0. n \in Nat
  BY FS_CardinalityType
<1>1. f \in [S -> 1 .. n]
  BY RankType
<1>2. \A i, j \in S : f[i] = f[j] => i = j
  BY RankOnce
<1>3. f \in Injection(S, 1 .. n)
  <2> HIDE DEF f
  <2> QED
    BY <1>1, <1>2 DEF Injection, IsInjective
<1>4. IsFiniteSet(1 .. n) /\ Cardinality(1 .. n) = n
  BY <1>0, FS_Interval
<1>5. f \in Surjection(S, 1 .. n)
  <2> HIDE DEF f
  <2> QED
    BY <1>3, <1>4, FS_Injection
<1>6. \E i \in S : f[i] = k
  <2> HIDE DEF f
  <2> QED
    BY <1>5 DEF Surjection
<1> QED
  BY <1>6

LEMMA NthIs ==
  ASSUME NEW S \in SUBSET Nat, IsFiniteSet(S), NEW k \in 1 .. Cardinality(S)
  PROVE  /\ Nth(S, k) \in S
         /\ Cardinality({j \in S : j <= Nth(S, k)}) = k
<1>1. \E i \in S : Cardinality({j \in S : j <= i}) = k
  BY RankExists
<1> QED
  BY <1>1, Zenon DEF Nth

LEMMA IsNth ==
  ASSUME NEW S \in SUBSET Nat, IsFiniteSet(S), NEW i \in S,
         NEW k, Cardinality({j \in S : j <= i}) = k
  PROVE  Nth(S, k) = i
<1>1. k \in 1 .. Cardinality(S)
  BY RankType
<1>2. /\ Nth(S, k) \in S
      /\ Cardinality({j \in S : j <= Nth(S, k)}) = k
  BY <1>1, NthIs
<1>3. Cardinality({j \in S : j <= Nth(S, k)}) = Cardinality({j \in S : j <= i})
  BY <1>2
<1> QED
  BY <1>2, <1>3, RankOnce

\* A number beyond all others comes last.
LEMMA NthOfMore ==
  ASSUME NEW S \in SUBSET Nat, IsFiniteSet(S), NEW n \in Nat, \A i \in S : i < n
  PROVE  LET T == S \union {n} IN
         /\ IsFiniteSet(T) /\ Cardinality(T) = Cardinality(S) + 1
         /\ \A k \in 1 .. Cardinality(S) : Nth(T, k) = Nth(S, k)
         /\ Nth(T, Cardinality(S) + 1) = n
<1> DEFINE T == S \union {n}
<1>1. n \notin S
  OBVIOUS
<1>2. IsFiniteSet(T) /\ Cardinality(T) = Cardinality(S) + 1
  BY <1>1, FS_AddElement
<1>3. ASSUME NEW k \in 1 .. Cardinality(S) PROVE Nth(T, k) = Nth(S, k)
  <2>1. Nth(S, k) \in S /\ Cardinality({j \in S : j <= Nth(S, k)}) = k
    BY NthIs
  <2>2. {j \in T : j <= Nth(S, k)} = {j \in S : j <= Nth(S, k)}
    <3> DEFINE m == Nth(S, k)
    <3>1. m < n /\ m \in Nat
      BY <2>1
    <3> HIDE DEF m
    <3>2. ~(n <= m)
      BY <3>1
    <3>3. {j \in T : j <= m} = {j \in S : j <= m}
      BY <3>2
    <3> QED
      BY <3>3 DEF m
  <2>3. Nth(S, k) \in T /\ T \in SUBSET Nat
    BY <2>1
  <2> HIDE DEF T
  <2> QED
    BY <1>2, <2>1, <2>2, <2>3, IsNth
<1>4. Nth(T, Cardinality(S) + 1) = n
  <2>1. {j \in T : j <= n} = T
    <3>1. \A j \in T : j <= n
      OBVIOUS
    <3> QED
      BY <3>1
  <2>2. n \in T /\ T \in SUBSET Nat
    OBVIOUS
  <2> HIDE DEF T
  <2> QED
    BY <1>2, <2>1, <2>2, IsNth
<1> QED
  BY <1>2, <1>3, <1>4

LEMMA ShiftedCount ==
  ASSUME NEW R \in SUBSET (Nat \ {0, 1}), IsFiniteSet(R),
         NEW T \in SUBSET (Nat \ {0}), \A i \in Nat \ {0} : i \in T <=> i + 1 \in R
  PROVE  IsFiniteSet(T) /\ Cardinality(T) = Cardinality(R)
<1> DEFINE g == [i \in R |-> i - 1]
<1>1. ASSUME NEW i \in R PROVE i - 1 \in T
  <2>1. i \in Nat \ {0, 1}
    OBVIOUS
  <2>2. i - 1 \in Nat \ {0} /\ (i - 1) + 1 = i
    BY <2>1
  <2> QED
    BY <2>2
<1>2. g \in [R -> T]
  BY <1>1
<1>3. \A i, j \in R : g[i] = g[j] => i = j
  OBVIOUS
<1>4. ASSUME NEW a \in T PROVE \E i \in R : g[i] = a
  <2>1. a \in Nat \ {0} /\ a + 1 \in R
    OBVIOUS
  <2>2. g[a + 1] = a
    BY <2>1
  <2> QED
    BY <2>1, <2>2
<1> HIDE DEF g
<1>5. g \in Bijection(R, T)
  BY <1>2, <1>3, <1>4 DEF Bijection, Injection, Surjection, IsInjective
<1>6. ExistsBijection(R, T)
  BY <1>5 DEF ExistsBijection
<1> QED
  BY <1>6, FS_Bijection

\* All numbers one less, without the first.
LEMMA NthOfRest ==
  ASSUME NEW S \in SUBSET (Nat \ {0}), IsFiniteSet(S),
         NEW T \in SUBSET (Nat \ {0}), \A i \in Nat \ {0} : i \in T <=> i + 1 \in S,
         NEW gone, gone = IF 1 \in S THEN 1 ELSE 0
  PROVE  /\ IsFiniteSet(T) /\ Cardinality(T) = Cardinality(S) - gone
         /\ \A k \in 1 .. Cardinality(T) : Nth(S, k + gone) = Nth(T, k) + 1
         /\ 1 \in S => Nth(S, 1) = 1
<1> DEFINE R == S \ {1}
<1>1. IsFiniteSet(R) /\ Cardinality(R) = Cardinality(S) - gone
  <2>1. Cardinality(S) \in Nat
    BY FS_CardinalityType
  <2>2. IsFiniteSet(R)
        /\ Cardinality(R) = IF 1 \in S THEN Cardinality(S) - 1 ELSE Cardinality(S)
    BY FS_RemoveElement
  <2> QED
    BY <2>1, <2>2
<1>2. /\ R \in SUBSET (Nat \ {0, 1})
      /\ \A i \in Nat \ {0} : i \in T <=> i + 1 \in R
  <2>1. \A i \in Nat \ {0} : i + 1 # 1
    OBVIOUS
  <2> QED
    BY <2>1
<1>3. IsFiniteSet(T) /\ Cardinality(T) = Cardinality(R)
  <2> HIDE DEF R
  <2> QED
    BY <1>1, <1>2, ShiftedCount
<1>4. ASSUME NEW k \in 1 .. Cardinality(T) PROVE Nth(S, k + gone) = Nth(T, k) + 1
  <2> DEFINE m == Nth(T, k)
             A == {i \in T : i <= m}
             B == {i \in R : i <= m + 1}
             C == {i \in S : i <= m + 1}
  <2>1. m \in T /\ Cardinality(A) = k
    <3>1. T \in SUBSET Nat
      OBVIOUS
    <3> QED
      BY <1>3, <3>1, NthIs
  <2> HIDE DEF m
  <2>2. m \in Nat \ {0} /\ m + 1 \in R /\ m + 1 \in S
    BY <1>2, <2>1
  <2>3. IsFiniteSet(C) /\ B = C \ {1} /\ (1 \in C <=> 1 \in S)
    <3>1. IsFiniteSet(C)
      BY FS_Subset
    <3>2. 1 <= m + 1
      BY <2>2
    <3> QED
      BY <3>1, <3>2
  <2>4. IsFiniteSet(B) /\ Cardinality(C) = Cardinality(B) + gone
    <3>1. Cardinality(C) \in Nat
      BY <2>3, FS_CardinalityType
    <3>2. IsFiniteSet(B)
          /\ Cardinality(B) = IF 1 \in C THEN Cardinality(C) - 1 ELSE Cardinality(C)
      <4> HIDE DEF B, C
      <4> QED
        BY <2>3, FS_RemoveElement
    <3> HIDE DEF B, C
    <3> QED
      BY <2>3, <3>1, <3>2
  <2>5. Cardinality(A) = Cardinality(B)
    <3>1. B \in SUBSET (Nat \ {0, 1}) /\ A \in SUBSET (Nat \ {0})
      BY <1>2
    <3>2. ASSUME NEW i \in Nat \ {0} PROVE i \in A <=> i + 1 \in B
      <4>1. i <= m <=> i + 1 <= m + 1
        BY <2>2
      <4>2. i \in T <=> i + 1 \in R
        BY <1>2
      <4>3. i \in A <=> i \in T /\ i <= m
        OBVIOUS
      <4>4. i + 1 \in B <=> i + 1 \in R /\ i + 1 <= m + 1
        OBVIOUS
      <4> HIDE DEF A, B, R
      <4> QED
        BY <4>1, <4>2, <4>3, <4>4
    <3> HIDE DEF A, B
    <3> QED
      BY <2>4, <3>1, <3>2, ShiftedCount
  <2>6. Cardinality(C) = k + gone
    BY <2>1, <2>4, <2>5
  <2>7. S \in SUBSET Nat
    OBVIOUS
  <2>8. Nth(S, k + gone) = m + 1
    BY <2>2, <2>6, <2>7, IsNth
  <2> QED
    BY <2>8 DEF m
<1>5. ASSUME 1 \in S PROVE Nth(S, 1) = 1
  <2>1. {j \in S : j <= 1} = {1}
    <3>1. \A j \in S : j \in Nat /\ j # 0
      OBVIOUS
    <3>2. \A j \in S : j <= 1 => j = 1
      BY <3>1
    <3>3. 1 <= 1
      OBVIOUS
    <3> QED
      BY <1>5, <3>2, <3>3
  <2>2. Cardinality({j \in S : j <= 1}) = 1
    BY <2>1, FS_Singleton
  <2>3. S \in SUBSET Nat
    OBVIOUS
  <2> QED
    BY <1>5, <2>2, <2>3, IsNth
<1> QED
  BY <1>1, <1>3, <1>4, <1>5

-----------------------------------------------------------------------------
(* What an arrival and a removal do to the packets selected from the port. *)

LEMMA PlacesType ==
  ASSUME NEW q \in Seq(Completion), NEW w
  PROVE  /\ Places(q, w) \in SUBSET (1 .. Len(q)) /\ IsFiniteSet(Places(q, w))
         /\ Places(q, w) \in SUBSET (Nat \ {0}) /\ Places(q, w) \in SUBSET Nat
         /\ Cardinality(Places(q, w)) \in Nat
<1>1. Len(q) \in Nat /\ DOMAIN q = 1 .. Len(q)
  OBVIOUS
<1>2. Places(q, w) \in SUBSET (1 .. Len(q))
  BY <1>1 DEF Places
<1>3. IsFiniteSet(1 .. Len(q))
  BY <1>1, FS_Interval
<1>4. IsFiniteSet(Places(q, w))
  BY <1>2, <1>3, FS_Subset
<1>5. Cardinality(Places(q, w)) \in Nat
  BY <1>4, FS_CardinalityType
<1>6. 1 .. Len(q) \subseteq Nat \ {0}
  BY <1>1
<1> QED
  BY <1>2, <1>4, <1>5, <1>6

LEMMA SelectedType ==
  ASSUME NEW q \in Seq(Completion), NEW w
  PROVE  /\ Selected(q, w) \in Seq(Packet)
         /\ Len(Selected(q, w)) = Cardinality(Places(q, w))
         /\ \A k \in 1 .. Cardinality(Places(q, w)) :
              Selected(q, w)[k] = PacketOf(q[Nth(Places(q, w), k)])
<1> DEFINE P == Places(q, w)
           n == Cardinality(P)
<1>1. P \in SUBSET (1 .. Len(q)) /\ IsFiniteSet(P) /\ P \in SUBSET Nat /\ n \in Nat
  BY PlacesType
<1> HIDE DEF P
<1>2. ASSUME NEW k \in 1 .. n PROVE PacketOf(q[Nth(P, k)]) \in Packet
  <2>1. Nth(P, k) \in 1 .. Len(q)
    BY <1>1, NthIs
  <2>2. q[Nth(P, k)] \in Completion
    BY <2>1
  <2> QED
    BY <2>2, PacketOfType
<1>3. Selected(q, w) = [k \in 1 .. n |-> PacketOf(q[Nth(P, k)])]
  BY DEF Selected, P
<1> HIDE DEF n
<1>4. Selected(q, w) \in [1 .. n -> Packet]
  BY <1>2, <1>3
<1>5. Selected(q, w) \in Seq(Packet) /\ Len(Selected(q, w)) = n
  BY <1>1, <1>4
<1> QED
  BY <1>3, <1>5 DEF n, P

LEMMA SelectedAppend ==
  ASSUME NEW q \in Seq(Completion), NEW c \in Completion, NEW w
  PROVE  Selected(Append(q, c), w) = IF w \in Destinations(c)
                                     THEN Append(Selected(q, w), PacketOf(c))
                                     ELSE Selected(q, w)
<1> DEFINE r == Append(q, c)
           l == Len(q) + 1
           P == Places(q, w)
           R == Places(r, w)
           n == Cardinality(P)
<1>1. /\ r \in Seq(Completion) /\ Len(r) = l /\ Len(q) \in Nat /\ l \in Nat
      /\ r[l] = c /\ \A i \in 1 .. Len(q) : r[i] = q[i]
      /\ DOMAIN q = 1 .. Len(q) /\ DOMAIN r = 1 .. l
  OBVIOUS
<1>2. P \in SUBSET (1 .. Len(q)) /\ IsFiniteSet(P) /\ P \in SUBSET Nat /\ n \in Nat
  BY PlacesType
<1>3. R = P \union (IF w \in Destinations(c) THEN {l} ELSE {})
  <2>1. 1 .. l = (1 .. Len(q)) \union {l}
    BY <1>1
  <2> HIDE DEF r, l
  <2> QED
    BY <1>1, <2>1 DEF Places
<1>t. /\ Selected(q, w) \in Seq(Packet) /\ Len(Selected(q, w)) = n
      /\ \A k \in 1 .. n : Selected(q, w)[k] = PacketOf(q[Nth(P, k)])
      /\ Selected(r, w) \in Seq(Packet) /\ Len(Selected(r, w)) = Cardinality(R)
      /\ \A k \in 1 .. Cardinality(R) : Selected(r, w)[k] = PacketOf(r[Nth(R, k)])
      /\ PacketOf(c) \in Packet
  BY <1>1, SelectedType, PacketOfType
<1>p. \A k \in 1 .. n : Nth(P, k) \in 1 .. Len(q)
  BY <1>2, NthIs
<1> HIDE DEF r, l, P, R, n
<1>4. CASE w \in Destinations(c)
  <2>1. \A i \in P : i < l
    BY <1>1, <1>2 DEF l
  <2>2. R = P \union {l}
    BY <1>3, <1>4
  <2>3. /\ Cardinality(R) = n + 1
        /\ \A k \in 1 .. n : Nth(R, k) = Nth(P, k)
        /\ Nth(R, n + 1) = l
    BY <1>1, <1>2, <2>1, <2>2, NthOfMore DEF n
  <2>4. Selected(r, w) = Append(Selected(q, w), PacketOf(c))
    <3>1. /\ Append(Selected(q, w), PacketOf(c)) \in Seq(Packet)
          /\ Len(Append(Selected(q, w), PacketOf(c))) = n + 1
          /\ Append(Selected(q, w), PacketOf(c))[n + 1] = PacketOf(c)
          /\ \A k \in 1 .. n : Append(Selected(q, w), PacketOf(c))[k] = Selected(q, w)[k]
      BY <1>t
    <3>2. ASSUME NEW k \in 1 .. n + 1
          PROVE  Selected(r, w)[k] = Append(Selected(q, w), PacketOf(c))[k]
      <4>1. CASE k = n + 1
        BY <1>1, <1>t, <2>3, <3>1, <4>1
      <4>2. CASE k # n + 1
        <5>1. k \in 1 .. n
          BY <1>2, <4>2
        <5>2. r[Nth(R, k)] = q[Nth(P, k)]
          BY <1>1, <1>p, <2>3, <5>1
        <5> QED
          BY <1>t, <2>3, <3>1, <5>1, <5>2
      <4> QED
        BY <4>1, <4>2
    <3>3. Len(Selected(r, w)) = n + 1
      BY <1>t, <2>3
    <3> QED
      BY <1>2, <1>t, <3>1, <3>2, <3>3
  <2> QED
    BY <1>4, <2>4 DEF r
<1>5. CASE w \notin Destinations(c)
  <2>1. R = P
    BY <1>3, <1>5
  <2>2. \A k \in 1 .. n : r[Nth(P, k)] = q[Nth(P, k)]
    BY <1>1, <1>p
  <2>3. Selected(r, w) = Selected(q, w)
    BY <1>t, <2>1, <2>2 DEF n
  <2> QED
    BY <1>5, <2>3 DEF r
<1> QED
  BY <1>4, <1>5

LEMMA SelectedTail ==
  ASSUME NEW q \in Seq(Completion), q # <<>>, NEW w
  PROVE  IF w \in Destinations(Head(q))
         THEN /\ Selected(q, w) # <<>>
              /\ Head(Selected(q, w)) = PacketOf(Head(q))
              /\ Tail(Selected(q, w)) = Selected(Tail(q), w)
         ELSE Selected(Tail(q), w) = Selected(q, w)
<1> DEFINE r == Tail(q)
           P == Places(q, w)
           R == Places(r, w)
           gone == IF 1 \in P THEN 1 ELSE 0
           n == Cardinality(R)
<1>1. /\ r \in Seq(Completion) /\ Len(q) \in Nat \ {0} /\ Len(r) = Len(q) - 1
      /\ \A i \in 1 .. Len(r) : r[i] = q[i + 1]
      /\ DOMAIN q = 1 .. Len(q) /\ DOMAIN r = 1 .. Len(r)
      /\ Head(q) = q[1] /\ Head(q) \in Completion
  OBVIOUS
<1>2. /\ P \in SUBSET (1 .. Len(q)) /\ IsFiniteSet(P) /\ P \in SUBSET (Nat \ {0})
      /\ R \in SUBSET (1 .. Len(r)) /\ R \in SUBSET (Nat \ {0}) /\ R \in SUBSET Nat
      /\ IsFiniteSet(R) /\ n \in Nat /\ Cardinality(P) \in Nat
  BY <1>1, PlacesType
<1>3. 1 \in P <=> w \in Destinations(Head(q))
  BY <1>1 DEF Places
<1>4. \A i \in Nat \ {0} : i \in R <=> i + 1 \in P
  <2> SUFFICES ASSUME NEW i \in Nat \ {0} PROVE i \in R <=> i + 1 \in P
    OBVIOUS
  <2>1. i \in 1 .. Len(r) <=> i + 1 \in 1 .. Len(q)
    BY <1>1
  <2>2. i \in 1 .. Len(r) => r[i] = q[i + 1]
    BY <1>1
  <2>3. i \in R <=> i \in 1 .. Len(r) /\ w \in Destinations(r[i])
    BY <1>1 DEF Places
  <2>4. i + 1 \in P <=> i + 1 \in 1 .. Len(q) /\ w \in Destinations(q[i + 1])
    BY <1>1 DEF Places
  <2> QED
    BY <2>1, <2>2, <2>3, <2>4
<1>t. /\ Selected(q, w) \in Seq(Packet) /\ Len(Selected(q, w)) = Cardinality(P)
      /\ \A k \in 1 .. Cardinality(P) : Selected(q, w)[k] = PacketOf(q[Nth(P, k)])
      /\ Selected(r, w) \in Seq(Packet) /\ Len(Selected(r, w)) = n
      /\ \A k \in 1 .. n : Selected(r, w)[k] = PacketOf(r[Nth(R, k)])
  BY <1>1, SelectedType
<1>g. gone = IF 1 \in P THEN 1 ELSE 0
  OBVIOUS
<1> HIDE DEF r, P, R, gone
<1>5. /\ n = Cardinality(P) - gone
      /\ \A k \in 1 .. n : Nth(P, k + gone) = Nth(R, k) + 1
      /\ 1 \in P => Nth(P, 1) = 1
  <2>1. P \in SUBSET (Nat \ {0}) /\ IsFiniteSet(P) /\ R \in SUBSET (Nat \ {0})
    BY <1>2
  <2>2. /\ IsFiniteSet(R) /\ Cardinality(R) = Cardinality(P) - gone
        /\ \A k \in 1 .. Cardinality(R) : Nth(P, k + gone) = Nth(R, k) + 1
        /\ 1 \in P => Nth(P, 1) = 1
    BY <1>4, <1>g, <2>1, NthOfRest
  <2> QED
    BY <2>2
<1>p. \A k \in 1 .. n : Nth(R, k) \in 1 .. Len(r)
  BY <1>2, NthIs
<1> HIDE DEF n
<1>6. \A k \in 1 .. n : r[Nth(R, k)] = q[Nth(P, k + gone)]
  <2> SUFFICES ASSUME NEW k \in 1 .. n PROVE r[Nth(R, k)] = q[Nth(P, k + gone)]
    OBVIOUS
  <2>1. r[Nth(R, k)] = q[Nth(R, k) + 1]
    BY <1>1, <1>p
  <2>2. Nth(P, k + gone) = Nth(R, k) + 1
    BY <1>5
  <2> QED
    BY <2>1, <2>2
<1>7. CASE w \in Destinations(Head(q))
  <2>1. gone = 1 /\ Cardinality(P) = n + 1
    BY <1>2, <1>3, <1>5, <1>7, <1>g
  <2>2. Selected(q, w)[1] = PacketOf(Head(q)) /\ Selected(q, w) # <<>>
    <3>1. 1 \in 1 .. Cardinality(P)
      BY <1>2, <2>1
    <3>2. Nth(P, 1) = 1
      BY <1>3, <1>5, <1>7
    <3> QED
      BY <1>1, <1>t, <3>1, <3>2
  <2>3. Tail(Selected(q, w)) = Selected(r, w)
    <3>1. /\ Tail(Selected(q, w)) \in Seq(Packet) /\ Len(Tail(Selected(q, w))) = n
          /\ \A k \in 1 .. n : Tail(Selected(q, w))[k] = Selected(q, w)[k + 1]
      BY <1>2, <1>t, <2>1, <2>2
    <3>2. ASSUME NEW k \in 1 .. n PROVE Tail(Selected(q, w))[k] = Selected(r, w)[k]
      <4>1. k + 1 \in 1 .. Cardinality(P)
        BY <1>2, <2>1
      <4>2. r[Nth(R, k)] = q[Nth(P, k + 1)]
        BY <1>6, <2>1
      <4> QED
        BY <1>t, <3>1, <4>1, <4>2
    <3> QED
      BY <1>t, <3>1, <3>2
  <2>4. Head(Selected(q, w)) = Selected(q, w)[1]
    BY <1>t, <2>2
  <2> QED
    BY <1>7, <2>2, <2>3, <2>4 DEF r
<1>8. CASE w \notin Destinations(Head(q))
  <2>1. gone = 0 /\ Cardinality(P) = n
    BY <1>2, <1>3, <1>5, <1>8, <1>g
  <2>2. ASSUME NEW k \in 1 .. n PROVE Selected(r, w)[k] = Selected(q, w)[k]
    <3>1. k + 0 = k
      BY <1>2
    <3>2. r[Nth(R, k)] = q[Nth(P, k)]
      BY <1>6, <2>1, <3>1
    <3> QED
      BY <1>t, <2>1, <3>2
  <2>3. Selected(r, w) = Selected(q, w)
    BY <1>t, <2>1, <2>2
  <2> QED
    BY <1>8, <2>3 DEF r
<1> QED
  BY <1>7, <1>8

-----------------------------------------------------------------------------
(* Two sequences, one behind the other. *)

LEMMA AppendBehind ==
  ASSUME NEW S, NEW a \in Seq(S), NEW b \in Seq(S), NEW x \in S
  PROVE  a \o Append(b, x) = Append(a \o b, x)
<1> DEFINE u == a \o Append(b, x)
           v == Append(a \o b, x)
<1>1. u \in Seq(S) /\ v \in Seq(S) /\ Len(u) = Len(v)
  OBVIOUS
<1>2. \A i \in 1 .. Len(u) : u[i] = v[i]
  OBVIOUS
<1> HIDE DEF u, v
<1> QED
  BY <1>1, <1>2

LEMMA MoveOver ==
  ASSUME NEW S, NEW a \in Seq(S), NEW b \in Seq(S), b # <<>>
  PROVE  Append(a, Head(b)) \o Tail(b) = a \o b
<1> DEFINE u == Append(a, Head(b)) \o Tail(b)
           v == a \o b
<1>1. u \in Seq(S) /\ v \in Seq(S) /\ Len(u) = Len(v)
  OBVIOUS
<1>2. \A i \in 1 .. Len(u) : u[i] = v[i]
  OBVIOUS
<1> HIDE DEF u, v
<1> QED
  BY <1>1, <1>2

LEMMA DropBehind ==
  ASSUME NEW S, NEW a \in Seq(S), NEW b \in Seq(S), b # <<>>
  PROVE  /\ a \o Tail(b) = Delivery!RemoveAt(a \o b, Len(a) + 1)
         /\ Len(a \o b) > Len(a)
<1> DEFINE u == a \o Tail(b)
           c == a \o b
           n == Len(a) + 1
           f == SubSeq(c, 1, n - 1)
           g == SubSeq(c, n + 1, Len(c))
<1>1. /\ Len(a) \in Nat /\ Len(b) \in Nat \ {0} /\ c \in Seq(S) /\ Len(c) = Len(a) + Len(b)
      /\ \A i \in 1 .. Len(a) : c[i] = a[i]
      /\ \A i \in 1 .. Len(b) : c[Len(a) + i] = b[i]
  OBVIOUS
<1>2. Tail(b) \in Seq(S) /\ Len(Tail(b)) = Len(b) - 1
      /\ \A i \in 1 .. Len(b) - 1 : Tail(b)[i] = b[i + 1]
  BY <1>1
<1>n. n = Len(a) + 1 /\ n - 1 = Len(a) /\ n + 1 = Len(a) + 2
  BY <1>1
<1> HIDE DEF c, n
<1>3. f = a
  <2>1. 1 \in Int /\ n - 1 \in Int /\ \A i \in 1 .. n - 1 : c[i] \in S
    BY <1>1, <1>n
  <2>2. /\ f \in Seq(S) /\ Len(f) = IF 1 <= n - 1 THEN (n - 1) - 1 + 1 ELSE 0
        /\ \A i \in 1 .. (n - 1) - 1 + 1 : f[i] = c[1 + i - 1]
    BY <2>1, SubSeqProperties
  <2> HIDE DEF f
  <2>3. Len(f) = Len(a) /\ \A i \in 1 .. Len(a) : f[i] = c[i]
    BY <1>1, <1>n, <2>2
  <2> QED
    BY <1>1, <2>2, <2>3
<1>4. g = Tail(b)
  <2>1. n + 1 \in Int /\ Len(c) \in Int /\ \A i \in n + 1 .. Len(c) : c[i] \in S
    BY <1>1, <1>n
  <2>2. /\ g \in Seq(S) /\ Len(g) = IF n + 1 <= Len(c) THEN Len(c) - (n + 1) + 1 ELSE 0
        /\ \A i \in 1 .. Len(c) - (n + 1) + 1 : g[i] = c[(n + 1) + i - 1]
    BY <2>1, SubSeqProperties
  <2> HIDE DEF g
  <2>a. Len(c) - (n + 1) + 1 = Len(b) - 1
    BY <1>1, <1>n
  <2>b. Len(g) = Len(b) - 1
    <3>1. Len(g) = IF n + 1 <= Len(c) THEN Len(b) - 1 ELSE 0
      BY <2>2, <2>a
    <3>2. ~(n + 1 <= Len(c)) => Len(b) - 1 = 0
      <4>1. Len(a) \in Nat /\ Len(b) \in Nat \ {0}
        BY <1>1
      <4>2. n + 1 = Len(a) + 2 /\ Len(c) = Len(a) + Len(b)
        BY <1>1, <1>n
      <4>3. \A i \in Nat, j \in Nat \ {0} : i + 2 <= i + j \/ j - 1 = 0
        OBVIOUS
      <4> QED
        BY <4>1, <4>2, <4>3
    <3> QED
      BY <3>1, <3>2
  <2>3. ASSUME NEW i \in 1 .. Len(b) - 1 PROVE g[i] = c[Len(a) + (i + 1)]
    <3>1. g[i] = c[(n + 1) + i - 1]
      BY <2>2, <2>a
    <3>2. (n + 1) + i - 1 = Len(a) + (i + 1)
      BY <1>1, <1>n
    <3> QED
      BY <3>1, <3>2
  <2>4. ASSUME NEW i \in 1 .. Len(b) - 1 PROVE g[i] = Tail(b)[i]
    <3>1. i + 1 \in 1 .. Len(b)
      BY <1>1
    <3>2. c[Len(a) + (i + 1)] = b[i + 1]
      BY <1>1, <3>1
    <3> QED
      BY <1>2, <2>3, <3>2
  <2> QED
    BY <1>2, <2>2, <2>b, <2>4
<1>5. Delivery!RemoveAt(c, n) = f \o g
  BY DEF Delivery!RemoveAt
<1> HIDE DEF f, g
<1>6. Delivery!RemoveAt(c, n) = a \o Tail(b)
  BY <1>3, <1>4, <1>5
<1>7. Len(c) > Len(a)
  BY <1>1
<1> QED
  BY <1>6, <1>7 DEF c, n

LEMMA FrontOf ==
  ASSUME NEW S, NEW a \in Seq(S), NEW b \in Seq(S), a # <<>>
  PROVE  /\ a \o b # <<>> /\ Head(a \o b) = Head(a)
         /\ Tail(a \o b) = Tail(a) \o b
<1> DEFINE u == Tail(a \o b)
           v == Tail(a) \o b
<1>0. Len(a) \in Nat \ {0} /\ Len(b) \in Nat /\ a \o b \in Seq(S)
      /\ Len(a \o b) = Len(a) + Len(b) /\ (a \o b)[1] = a[1]
  OBVIOUS
<1>1. u \in Seq(S) /\ v \in Seq(S) /\ Len(u) = Len(v)
  BY <1>0
<1>2. \A i \in 1 .. Len(u) : u[i] = v[i]
  BY <1>0
<1> HIDE DEF u, v
<1>3. u = v
  BY <1>1, <1>2
<1>4. a \o b # <<>> /\ Head(a \o b) = Head(a)
  BY <1>0
<1> QED
  BY <1>3, <1>4 DEF u, v

-----------------------------------------------------------------------------
(* The refinement. *)

Channel == [w \in Workers |-> Undelivered(w)]

LEMMA UndeliveredType ==
  ASSUME IInv, NEW w \in Workers
  PROVE  /\ queue[w] \in Seq(Packet) /\ Selected(port, w) \in Seq(Packet)
         /\ Channel[w] = queue[w] \o Selected(port, w)
         /\ Channel[w] \in Seq(Packet)
<1>1. queue[w] \in Seq(Packet) /\ port \in Seq(Completion)
  BY DEF IInv, TypeOK
<1>2. Selected(port, w) \in Seq(Packet)
  BY <1>1, SelectedType
<1> QED
  BY <1>1, <1>2 DEF Channel, Undelivered

LEMMA CompletionArrives ==
  ASSUME IInv, NEW c \in Completion, Complete(c), UNCHANGED <<queue, working>>
  PROVE  \/ \E w \in Workers, p \in Packet : Delivery!Arrive(w, p)
         \/ UNCHANGED Delivery!vars
<1>1. port \in Seq(Completion) /\ port' = Append(port, c) /\ PacketOf(c) \in Packet
  BY PacketOfType DEF IInv, TypeOK, Complete
<1>2. ASSUME NEW w \in Workers
      PROVE  Channel'[w] = IF w \in Destinations(c) THEN Append(Channel[w], PacketOf(c))
                                                    ELSE Channel[w]
  <2>1. Channel'[w] = queue[w] \o Selected(Append(port, c), w)
    BY <1>1 DEF Channel, Undelivered
  <2>2. Selected(Append(port, c), w) = IF w \in Destinations(c)
                                       THEN Append(Selected(port, w), PacketOf(c))
                                       ELSE Selected(port, w)
    BY <1>1, SelectedAppend
  <2>3. /\ queue[w] \in Seq(Packet) /\ Selected(port, w) \in Seq(Packet)
        /\ Channel[w] = queue[w] \o Selected(port, w)
    BY UndeliveredType
  <2>4. queue[w] \o Append(Selected(port, w), PacketOf(c))
          = Append(queue[w] \o Selected(port, w), PacketOf(c))
    <3> DEFINE a == queue[w]
               b == Selected(port, w)
               p == PacketOf(c)
    <3>1. a \in Seq(Packet) /\ b \in Seq(Packet) /\ p \in Packet
      BY <1>1, <2>3
    <3> HIDE DEF a, b, p
    <3>2. a \o Append(b, p) = Append(a \o b, p)
      BY <3>1, AppendBehind
    <3> QED
      BY <3>2 DEF a, b, p
  <2> QED
    BY <2>1, <2>2, <2>3, <2>4
<1>f. Channel = [w \in Workers |-> Channel[w]] /\ Channel' = [w \in Workers |-> Channel'[w]]
  BY DEF Channel
<1>3. CASE Destinations(c) = {}
  <2>1. \A w \in Workers : Channel'[w] = Channel[w]
    BY <1>2, <1>3
  <2>2. Channel' = Channel
    BY <1>f, <2>1
  <2> QED
    BY <2>2 DEF Channel, Delivery!vars
<1>4. CASE Destinations(c) # {}
  <2>1. PICK w \in Workers : w \in Destinations(c)
    BY <1>4, DestinationsAre
  <2>2. /\ Channel'[w] = Append(Channel[w], PacketOf(c))
        /\ \A v \in Workers : v # w => Channel'[v] = Channel[v]
    BY <1>2, <2>1, DestinationsAre
  <2>3. Channel' = [Channel EXCEPT ![w] = Append(Channel[w], PacketOf(c))]
    BY <1>f, <2>2
  <2>4. Delivery!Arrive(w, PacketOf(c))
    BY <2>3 DEF Delivery!Arrive, Channel
  <2> QED
    BY <1>1, <2>4
<1> QED
  BY <1>3, <1>4

LEMMA DispatchDelivers ==
  ASSUME IInv, Dispatch
  PROVE  (\E w \in Workers : Delivery!Lose(w)) \/ UNCHANGED Delivery!vars
<1> DEFINE c == Head(port)
<1>1. /\ port \in Seq(Completion) /\ port # <<>> /\ port' = Tail(port)
      /\ UNCHANGED working
      /\ queue \in [Workers -> Seq(Packet)]
      /\ \A w \in Workers : Len(queue[w]) <= Capacity
      /\ Capacity \in Nat
  BY CapacityAssumption DEF IInv, TypeOK, Dispatch
<1>2. c \in Completion /\ PacketOf(c) \in Packet
  BY <1>1, PacketOfType
<1>t. ASSUME NEW w \in Workers
      PROVE  /\ queue[w] \in Seq(Packet) /\ Selected(port, w) \in Seq(Packet)
             /\ Channel[w] = queue[w] \o Selected(port, w)
             /\ Channel'[w] = queue'[w] \o Selected(Tail(port), w)
  BY <1>1, UndeliveredType DEF Channel, Undelivered
<1>f. Channel = [w \in Workers |-> Channel[w]] /\ Channel' = [w \in Workers |-> Channel'[w]]
  BY DEF Channel
<1>s. ASSUME NEW w \in Workers
      PROVE  IF w \in Destinations(c)
             THEN /\ Selected(port, w) # <<>>
                  /\ Head(Selected(port, w)) = PacketOf(c)
                  /\ Tail(Selected(port, w)) = Selected(Tail(port), w)
             ELSE Selected(Tail(port), w) = Selected(port, w)
  BY <1>1, SelectedTail
<1>o. \A w \in Workers : w \notin Destinations(c) /\ queue'[w] = queue[w]
                           => Channel'[w] = Channel[w]
  BY <1>t, <1>s
<1>3. CASE Destinations(c) = {} /\ UNCHANGED queue
  <2>1. Channel' = Channel
    BY <1>3, <1>f, <1>o
  <2> QED
    BY <1>1, <2>1 DEF Channel, Delivery!vars
<1>4. ASSUME NEW w \in Destinations(c), Push(w, PacketOf(c))
      PROVE  Delivery!Lose(w) \/ UNCHANGED Delivery!vars
  <2>0. w \in Workers /\ \A v \in Workers : v # w => v \notin Destinations(c)
    BY <1>2, DestinationsAre
  <2>1. /\ Selected(port, w) # <<>> /\ Head(Selected(port, w)) = PacketOf(c)
        /\ Tail(Selected(port, w)) = Selected(Tail(port), w)
        /\ queue[w] \in Seq(Packet) /\ Selected(port, w) \in Seq(Packet)
    BY <1>s, <1>t, <2>0
  <2>2. CASE Len(queue[w]) < Capacity
    <3>1. queue' = [queue EXCEPT ![w] = Append(queue[w], PacketOf(c))]
      BY <1>4, <2>2 DEF Push
    <3>2. /\ queue'[w] = Append(queue[w], PacketOf(c))
          /\ \A v \in Workers : v # w => queue'[v] = queue[v]
      BY <1>1, <2>0, <3>1
    <3>3. Append(queue[w], Head(Selected(port, w))) \o Tail(Selected(port, w))
            = queue[w] \o Selected(port, w)
      BY <2>1, MoveOver
    <3>4. Channel'[w] = Channel[w]
      BY <1>t, <2>0, <2>1, <3>2, <3>3
    <3>5. \A v \in Workers : Channel'[v] = Channel[v]
      BY <1>o, <2>0, <3>2, <3>4
    <3>6. Channel' = Channel
      BY <1>f, <3>5
    <3> QED
      BY <1>1, <3>6 DEF Channel, Delivery!vars
  <2>3. CASE ~(Len(queue[w]) < Capacity)
    <3>1. queue' = queue
      BY <1>4, <2>3 DEF Push
    <3>2. Len(queue[w]) = Capacity
      <4>1. Len(queue[w]) \in Nat /\ Len(queue[w]) <= Capacity
        BY <1>1, <2>0, <2>1
      <4> QED
        BY <1>1, <2>3, <4>1
    <3>3. /\ queue[w] \o Tail(Selected(port, w))
               = Delivery!RemoveAt(queue[w] \o Selected(port, w), Len(queue[w]) + 1)
          /\ Len(queue[w] \o Selected(port, w)) > Len(queue[w])
      BY <2>1, DropBehind
    <3>4. /\ Channel'[w] = Delivery!RemoveAt(Channel[w], Capacity + 1)
          /\ Len(Channel[w]) > Capacity
      BY <1>t, <2>0, <2>1, <3>1, <3>2, <3>3
    <3>5. \A v \in Workers : v # w => Channel'[v] = Channel[v]
      BY <1>o, <2>0, <3>1
    <3>6. Channel' = [Channel EXCEPT ![w] = Delivery!RemoveAt(Channel[w], Capacity + 1)]
      BY <1>f, <2>0, <3>4, <3>5
    <3>7. Delivery!Lose(w)
      BY <1>1, <3>4, <3>6 DEF Delivery!Lose, Channel
    <3> QED
      BY <3>7
  <2> QED
    BY <2>2, <2>3
<1>5. \A w \in Destinations(c) : w \in Workers
  BY <1>2, DestinationsAre
<1> QED
  BY <1>3, <1>4, <1>5 DEF Dispatch

LEMMA CallBegins ==
  ASSUME IInv, NEW w \in Workers, Call(w)
  PROVE  Delivery!Begin(w)
<1>1. /\ queue[w] \in Seq(Packet) /\ Selected(port, w) \in Seq(Packet)
      /\ Channel[w] = queue[w] \o Selected(port, w)
  BY UndeliveredType
<1>2. queue[w] # <<>>
  BY DEF Call
<1>3. Channel[w] # <<>> /\ Head(Channel[w]) = Head(queue[w])
  BY <1>1, <1>2, FrontOf
<1>4. Channel' = Channel
  BY DEF Channel, Undelivered, Call
<1> QED
  BY <1>3, <1>4 DEF Delivery!Begin, Call, Channel

LEMMA PopEnds ==
  ASSUME IInv, NEW w \in Workers, Pop(w)
  PROVE  Delivery!End(w)
<1>1. /\ queue[w] \in Seq(Packet) /\ Selected(port, w) \in Seq(Packet)
      /\ Channel[w] = queue[w] \o Selected(port, w)
  BY UndeliveredType
<1>2. /\ working[w] # None /\ queue[w] # <<>> /\ working[w] = Head(queue[w])
      /\ port' = port /\ queue' = [queue EXCEPT ![w] = Tail(@)]
      /\ working' = [working EXCEPT ![w] = None]
      /\ queue \in [Workers -> Seq(Packet)]
  BY DEF IInv, TypeOK, InHand, Pop
<1>3. /\ Head(Channel[w]) = Head(queue[w])
      /\ Tail(Channel[w]) = Tail(queue[w]) \o Selected(port, w)
  BY <1>1, <1>2, FrontOf
<1>4. /\ queue'[w] = Tail(queue[w])
      /\ \A v \in Workers : v # w => queue'[v] = queue[v]
  BY <1>2
<1>5. /\ Channel'[w] = Tail(Channel[w])
      /\ \A v \in Workers : v # w => Channel'[v] = Channel[v]
  BY <1>2, <1>3, <1>4 DEF Channel, Undelivered
<1>6. Channel = [v \in Workers |-> Channel[v]] /\ Channel' = [v \in Workers |-> Channel'[v]]
  BY DEF Channel
<1>7. Channel' = [Channel EXCEPT ![w] = Tail(Channel[w])]
  BY <1>5, <1>6
<1> QED
  BY <1>2, <1>3, <1>7 DEF Delivery!End, Channel

LEMMA InitDelivers == Init => Delivery!Init
<1> SUFFICES ASSUME Init PROVE Delivery!Init
  OBVIOUS
<1>1. ASSUME NEW w \in Workers PROVE Undelivered(w) = <<>>
  <2>1. port = <<>> /\ port \in Seq(Completion) /\ queue[w] = <<>>
    BY <1>1 DEF Init
  <2>2. Places(port, w) = {}
    BY <2>1 DEF Places
  <2>3. Selected(port, w) \in Seq(Packet) /\ Len(Selected(port, w)) = 0
    BY <2>1, <2>2, SelectedType, FS_EmptySet
  <2> QED
    BY <2>1, <2>3 DEF Undelivered
<1> QED
  BY <1>1 DEF Init, Delivery!Init

LEMMA StepDelivers == IInv /\ [PortNext]_vars => [Delivery!Next]_Delivery!vars
<1> SUFFICES ASSUME IInv, [PortNext]_vars PROVE Delivery!Next \/ UNCHANGED Delivery!vars
  OBVIOUS
<1>1. ASSUME NEW c \in Completion, Complete(c), UNCHANGED <<queue, working>>
      PROVE  Delivery!Next \/ UNCHANGED Delivery!vars
  BY <1>1, CompletionArrives DEF Delivery!Next
<1>2. CASE Dispatch
  BY <1>2, DispatchDelivers DEF Delivery!Next
<1>3. ASSUME NEW w \in Workers, Call(w) PROVE Delivery!Next
  BY <1>3, CallBegins DEF Delivery!Next
<1>4. ASSUME NEW w \in Workers, Pop(w) PROVE Delivery!Next
  BY <1>4, PopEnds DEF Delivery!Next
<1>5. CASE UNCHANGED vars
  BY <1>5 DEF vars, Delivery!vars, Undelivered
<1> QED
  BY <1>1, <1>2, <1>3, <1>4, <1>5 DEF PortNext

\* For any clients, sizes and capacity, and whoever uses the port: dispatcher, queues and
\* workers together are one first-in first-out channel per callback. The handling of one
\* kind of event cannot reorder, duplicate or swallow another's, and a packet is lost only
\* when its queue is full.
THEOREM AnyUseDelivers == PortSpec => ImplementsDelivery
BY InitDelivers, StepDelivers, Invariance, PTL
   DEF PortSpec, ImplementsDelivery, Delivery!Spec

\* So it is for the port alone.
THEOREM RefinesDelivery == Spec => ImplementsDelivery
BY AloneIsAUse, AnyUseDelivers, PTL
=============================================================================

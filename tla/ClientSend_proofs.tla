--------------------------- MODULE ClientSend_proofs ---------------------------
(***************************************************************************)
(* Proofs about ClientSend, for every capacity of the queue from two on    *)
(* and every number of requests.                                           *)
(***************************************************************************)
EXTENDS ClientSend, SequenceTheorems, TLAPS

\* A sequence is empty when its length is.
LEMMA EmptyOrNot ==
  ASSUME NEW s \in Seq(Nat)
  PROVE  /\ Len(s) \in Nat
         /\ s = <<>> <=> Len(s) = 0
  BY EmptySeq, LenProperties, SMT

\* What the invariant says of the lengths, as numbers.
LEMMA Lengths ==
  ASSUME Types, Ordered
  PROVE  /\ Len(mSendDataQueue) \in Nat /\ Len(stored) \in Nat
         /\ Len(started) \in Nat /\ Len(inFlight) \in Nat
         /\ Removed \in Nat /\ Len(stored) = Removed + Len(mSendDataQueue)
  BY SMT DEF Types, Ordered, Removed

\* A queue that is not empty has a front.
LEMMA FrontOf ==
  ASSUME NEW s \in Seq(Nat), s # <<>>
  PROVE  Len(s) >= 1 /\ Head(s) = s[1] /\ s[1] \in Nat
  BY EmptyOrNot, HeadTailProperties, SMT

LEMMA Appended ==
  ASSUME NEW s \in Seq(Nat), NEW e \in Nat
  PROVE  /\ Append(s, e) \in Seq(Nat) /\ Len(Append(s, e)) = Len(s) + 1
         /\ \A i \in 1 .. Len(s) : Append(s, e)[i] = s[i]
         /\ Append(s, e)[Len(s) + 1] = e
  BY SMT

\* How long the queue was before a push that may have found it full.
LEMMA BeforePush ==
  ASSUME NEW n \in Nat, NEW m, m = n + 1 \/ (n >= 2 /\ m = n)
  PROVE  m = 1 <=> n = 0
  BY SMT

LEMMA OneMore ==
  ASSUME NEW n \in Nat, NEW i \in 1 .. (n + 1)
  PROVE  i \in 1 .. n \/ i = n + 1
  BY SMT

\* What WaitsForOne says of its three numbers.
LEMMA OneOfThree ==
  ASSUME NEW n \in Nat, NEW m \in Nat, NEW b \in BOOLEAN, NEW k \in {0, 1},
         n + m + (IF b THEN 1 ELSE 0) = k
  PROVE  /\ k = 0 => n = 0 /\ m = 0 /\ ~b
         /\ n # 0 => n = 1 /\ m = 0 /\ ~b /\ k = 1
         /\ m # 0 => n = 0 /\ m = 1 /\ ~b /\ k = 1
<1>1. CASE b
  BY <1>1, SMT
<1>2. CASE ~b
  BY <1>2, SMT
<1> QED
  BY <1>1, <1>2

\* The same of the variables.
LEMMA Waiting ==
  ASSUME Types, WaitsForOne
  PROVE  /\ mSendDataQueue = <<>> => Len(inFlight) = 0 /\ completions = 0 /\ ~callFailed
         /\ Len(inFlight) # 0 => Len(inFlight) = 1 /\ completions = 0 /\ ~callFailed
         /\ completions # 0 => /\ Len(inFlight) = 0 /\ completions = 1 /\ ~callFailed
                               /\ mSendDataQueue # <<>>
<1> DEFINE k == IF mSendDataQueue = <<>> THEN 0 ELSE 1
<1>1. /\ Len(inFlight) \in Nat /\ completions \in Nat /\ callFailed \in BOOLEAN
      /\ Len(inFlight) + completions + (IF callFailed THEN 1 ELSE 0) = k
  BY EmptyOrNot DEF Types, WaitsForOne
<1>2. k \in {0, 1} /\ (k = 0 <=> mSendDataQueue = <<>>)
  BY SMT
<1> HIDE DEF k
<1>3. /\ k = 0 => Len(inFlight) = 0 /\ completions = 0 /\ ~callFailed
      /\ Len(inFlight) # 0 => Len(inFlight) = 1 /\ completions = 0 /\ ~callFailed /\ k = 1
      /\ completions # 0 => Len(inFlight) = 0 /\ completions = 1 /\ ~callFailed /\ k = 1
  BY <1>1, <1>2, OneOfThree
<1>4. 1 # 0
  BY SMT
<1> QED
  BY <1>2, <1>3, <1>4

LEMMA InitIInv == Init => IInv
<1> SUFFICES ASSUME Init PROVE IInv
  OBVIOUS
<1>1. Types
  <2>1. <<>> \in Seq(Nat) /\ 0 \in Nat /\ FALSE \in BOOLEAN
    BY EmptySeq, SMT
  <2> QED
    BY <2>1 DEF Init, Types
<1>2. Len(mSendDataQueue) = 0 /\ Len(stored) = 0 /\ Len(started) = 0 /\ Len(inFlight) = 0
  BY <1>1, EmptyOrNot DEF Init, Types
<1>3. Ordered
  BY <1>2, SMT DEF Init, Ordered, Removed
<1> QED
  BY <1>1, <1>2, <1>3, SMT DEF Init, IInv, FrontInFlight, WaitsForOne

-----------------------------------------------------------------------------
(* WSASend with the front of the queue. *)

\* Of a queue that nobody waits for, and of which nothing has been started, the front is
\* the next in the order of the requests; once it is started, it is what is waited for.
LEMMA StartKeeps ==
  ASSUME Types, inFlight = <<>>, completions' = 0, ~callFailed,
         Len(started) = Removed', Removed' \in Nat,
         \A i \in 1 .. Len(started) : started[i] = stored'[i],
         mSendDataQueue' \in Seq(Nat), mSendDataQueue' # <<>>,
         stored' \in Seq(Nat), Len(stored') = Removed' + Len(mSendDataQueue'),
         \A i \in 1 .. Len(mSendDataQueue') : mSendDataQueue'[i] = stored'[Removed' + i],
         SendInternalWork(Head(mSendDataQueue')), requests' \in Nat
  PROVE  IInv'
<1> DEFINE front == mSendDataQueue'[1]
<1>1. /\ Len(mSendDataQueue') \in Nat /\ Len(mSendDataQueue') >= 1
      /\ front \in Nat /\ Head(mSendDataQueue') = front
  BY FrontOf, EmptyOrNot, Zenon
<1>2. front = stored'[Removed' + 1]
  <2>1. 1 \in 1 .. Len(mSendDataQueue')
    BY <1>1, SMT
  <2> QED
    BY <2>1, Zenon
<1> HIDE DEF front
<1>3. /\ started' \in Seq(Nat) /\ Len(started') = Removed' + 1
      /\ \A i \in 1 .. Len(started) : started'[i] = started[i]
      /\ started'[Len(started) + 1] = front
  <2>1. started \in Seq(Nat) /\ started' = Append(started, front)
    BY <1>1, Zenon DEF SendInternalWork, Types
  <2>2. /\ started' \in Seq(Nat) /\ Len(started') = Len(started) + 1
        /\ \A i \in 1 .. Len(started) : started'[i] = started[i]
        /\ started'[Len(started) + 1] = front
    BY <1>1, <2>1, Appended, Zenon
  <2> QED
    BY <2>2
<1>4. \/ inFlight' = <<front>> /\ callFailed' = callFailed
      \/ inFlight' = <<>> /\ callFailed' = TRUE
  <2>1. Append(<<>>, front) = <<front>>
    BY <1>1, SMT
  <2> QED
    BY <1>1, <2>1, Zenon DEF SendInternalWork
<1>5. /\ inFlight' \in Seq(Nat) /\ callFailed' \in BOOLEAN
      /\ inFlight' # <<>> => inFlight'[1] = front
      /\ Len(inFlight') = IF callFailed' THEN 0 ELSE 1
  <2>1. CASE inFlight' = <<front>> /\ callFailed' = callFailed
    BY <1>1, <2>1, SMT DEF Types
  <2>2. CASE inFlight' = <<>> /\ callFailed' = TRUE
    BY <2>2, EmptySeq, SMT
  <2> QED
    BY <1>4, <2>1, <2>2
<1>6. Types'
  BY <1>3, <1>5, SMT DEF Types
<1>7. Ordered'
  <2>1. ASSUME NEW i \in 1 .. Len(started')
        PROVE  started'[i] = stored'[i]
    <3>1. i \in 1 .. Len(started) \/ i = Len(started) + 1
      <4>1. Len(started') = Len(started) + 1 /\ Len(started) \in Nat
        BY <1>3
      <4>2. i \in 1 .. (Len(started) + 1)
        BY <4>1, Zenon
      <4> QED
        BY <4>1, <4>2, OneMore, Zenon
    <3> QED
      BY <1>2, <1>3, <3>1
  <2>2. Len(mSendDataQueue') <= Len(stored')
    BY <1>1, SMT
  <2> QED
    BY <1>3, <2>1, <2>2, SMT DEF Ordered
<1>8. FrontInFlight'
  BY <1>5 DEF FrontInFlight, front
<1>9. WaitsForOne'
  BY <1>5, SMT DEF WaitsForOne
<1> QED
  BY <1>6, <1>7, <1>8, <1>9 DEF IInv

-----------------------------------------------------------------------------
(* One lemma for each operation. *)

\* The push of SendRequest: the queue stays the end of what was stored.
LEMMA PushKeeps ==
  ASSUME Types, Ordered, Push
  PROVE  /\ mSendDataQueue' \in Seq(Nat) /\ stored' \in Seq(Nat) /\ requests' \in Nat
         /\ Removed' = Removed
         /\ Len(stored') = Removed + Len(mSendDataQueue')
         /\ \A i \in 1 .. Len(mSendDataQueue') : mSendDataQueue'[i] = stored'[Removed + i]
         /\ \A i \in 1 .. Len(stored) : stored'[i] = stored[i]
         /\ \/ Len(mSendDataQueue') = Len(mSendDataQueue) + 1
            \/ Len(mSendDataQueue) >= 2 /\ Len(mSendDataQueue') = Len(mSendDataQueue)
         /\ mSendDataQueue # <<>> => mSendDataQueue'[1] = mSendDataQueue[1]
<1> DEFINE q == Len(mSendDataQueue)
<1>1. /\ q \in Nat /\ Len(stored) \in Nat /\ Len(stored) = Removed + q /\ Removed \in Nat
      /\ requests' = requests + 1 /\ requests' \in Nat
  BY Lengths, SMT DEF Push, Types
<1>2. CASE q < Capacity
  <2>1. /\ mSendDataQueue' = Append(mSendDataQueue, requests')
        /\ stored' = Append(stored, requests')
    BY <1>2 DEF Push
  <2>2. /\ mSendDataQueue' \in Seq(Nat) /\ stored' \in Seq(Nat)
        /\ Len(mSendDataQueue') = q + 1 /\ Len(stored') = Len(stored) + 1
        /\ \A i \in 1 .. q : mSendDataQueue'[i] = mSendDataQueue[i]
        /\ \A i \in 1 .. Len(stored) : stored'[i] = stored[i]
        /\ mSendDataQueue'[q + 1] = requests' /\ stored'[Len(stored) + 1] = requests'
    BY <1>1, <2>1, SMT DEF Types
  <2>3. Removed' = Removed
    BY <1>1, <2>2, SMT DEF Removed
  <2>4. ASSUME NEW i \in 1 .. q + 1
        PROVE  mSendDataQueue'[i] = stored'[Removed + i]
    <3>1. CASE i = q + 1
      BY <3>1, <1>1, <2>2, SMT
    <3>2. CASE i \in 1 .. q
      <4>1. Removed + i \in 1 .. Len(stored)
        BY <3>2, <1>1, SMT
      <4>2. mSendDataQueue[i] = stored[Removed + i]
        BY <3>2 DEF Ordered
      <4> QED
        BY <3>2, <4>1, <4>2, <2>2
    <3> QED
      BY <3>1, <3>2, <1>1, SMT
  <2>5. mSendDataQueue # <<>> => 1 \in 1 .. q
    BY <1>1, EmptyOrNot, SMT DEF Types
  <2>6. Len(stored') = Removed + Len(mSendDataQueue')
    BY <1>1, <2>2, SMT
  <2> HIDE DEF q
  <2>7. \A i \in 1 .. Len(mSendDataQueue') : mSendDataQueue'[i] = stored'[Removed + i]
    BY <2>2, <2>4
  <2> QED
    BY <1>1, <2>2, <2>3, <2>5, <2>6, <2>7 DEF q
<1>3. CASE q >= Capacity
  <2>1. mSendDataQueue' = mSendDataQueue /\ stored' = stored /\ q >= 2
    BY <1>1, <1>3, CapacityAssumption, SMT DEF Push, queueVars
  <2> QED
    BY <1>1, <2>1 DEF Types, Ordered, Removed
<1> QED
  BY <1>1, <1>2, <1>3, CapacityAssumption, SMT

\* A message that is alone in the queue found it empty: nobody waits, and it is started.
\* Any other leaves the front as it was.
LEMMA SendRequestKeeps ==
  ASSUME IInv, SendRequest
  PROVE  IInv'
<1> DEFINE q == Len(mSendDataQueue)
<1>1. /\ Types /\ Ordered /\ FrontInFlight /\ WaitsForOne
      /\ Push /\ completions' = completions
      /\ q \in Nat /\ Len(started) \in Nat /\ Len(stored) \in Nat /\ Removed \in Nat
      /\ Len(stored) = Removed + q /\ Len(inFlight) \in Nat /\ completions \in Nat
      /\ callFailed \in BOOLEAN
      /\ mSendDataQueue = <<>> <=> q = 0
  BY Lengths, EmptyOrNot DEF IInv, SendRequest, Types
<1>2. /\ mSendDataQueue' \in Seq(Nat) /\ stored' \in Seq(Nat) /\ requests' \in Nat
      /\ Removed' = Removed
      /\ Len(stored') = Removed + Len(mSendDataQueue')
      /\ \A i \in 1 .. Len(mSendDataQueue') : mSendDataQueue'[i] = stored'[Removed + i]
      /\ \A i \in 1 .. Len(stored) : stored'[i] = stored[i]
      /\ Len(mSendDataQueue') = q + 1 \/ (q >= 2 /\ Len(mSendDataQueue') = q)
      /\ mSendDataQueue # <<>> => mSendDataQueue'[1] = mSendDataQueue[1]
  BY <1>1, PushKeeps
<1>3. /\ Len(mSendDataQueue') \in Nat /\ mSendDataQueue' = <<>> <=> Len(mSendDataQueue') = 0
  BY <1>2, EmptyOrNot
<1>4. mSendDataQueue' # <<>>
  BY <1>1, <1>2, <1>3, SMT
<1>5. Len(started) <= Len(stored)
  BY <1>1, SMT DEF Ordered
<1>6. \A i \in 1 .. Len(started) : started[i] = stored'[i]
  <2> SUFFICES ASSUME NEW i \in 1 .. Len(started)
               PROVE  started[i] = stored'[i]
    OBVIOUS
  <2>1. i \in 1 .. Len(stored)
    BY <1>1, <1>5, SMT
  <2> QED
    BY <1>1, <1>2, <2>1 DEF Ordered
<1>7. CASE Len(mSendDataQueue') = 1
  <2>1. mSendDataQueue = <<>>
    <3>1. q = 0
      BY <1>1, <1>2, <1>7, BeforePush, Zenon
    <3> QED
      BY <1>1, <3>1
  <2>2. Len(started) = Removed /\ Len(inFlight) = 0 /\ completions = 0 /\ ~callFailed
    <3>1. Len(started) = Removed
      BY <1>1, <2>1, SMT DEF Ordered
    <3> QED
      BY <1>1, <2>1, <3>1, Waiting
  <2>3. inFlight = <<>>
    BY <1>1, <2>2, EmptyOrNot DEF Types
  <2>4. SendInternalWork(Head(mSendDataQueue'))
    BY <1>7 DEF SendRequest
  <2> QED
    BY <1>1, <1>2, <1>4, <1>6, <2>2, <2>3, <2>4, StartKeeps
<1>8. CASE Len(mSendDataQueue') # 1
  <2>1. UNCHANGED ioVars /\ mSendDataQueue # <<>>
    <3>1. UNCHANGED ioVars
      BY <1>8 DEF SendRequest
    <3>2. q # 0
      BY <1>1, <1>2, <1>8, BeforePush, Zenon
    <3> QED
      BY <1>1, <3>1, <3>2
  <2>2. Types'
    BY <1>1, <1>2, <2>1 DEF Types, ioVars
  <2>3. Ordered'
    <3>1. Len(mSendDataQueue') <= Len(stored')
      BY <1>1, <1>2, <1>3, SMT
    <3>2. Len(started') = Removed' + 1
      BY <1>1, <1>2, <2>1 DEF Ordered, ioVars
    <3> QED
      BY <1>2, <1>4, <1>6, <2>1, <3>1, <3>2 DEF Ordered, ioVars
  <2>4. FrontInFlight' /\ WaitsForOne'
    BY <1>1, <1>2, <1>4, <2>1 DEF FrontInFlight, WaitsForOne, ioVars
  <2> QED
    BY <2>2, <2>3, <2>4 DEF IInv
<1> QED
  BY <1>7, <1>8

\* The completion fed back is what the queue waited for: when it is removed nobody waits,
\* and the next front is started.
LEMMA FeedBack_SendKeepsInv ==
  ASSUME IInv, FeedBack_Send
  PROVE  IInv'
<1> DEFINE q == Len(mSendDataQueue)
<1>1. /\ Types /\ Ordered /\ FrontInFlight /\ WaitsForOne
      /\ completions > 0 /\ completions' = completions - 1
      /\ mSendDataQueue' = Tail(mSendDataQueue)
      /\ stored' = stored /\ requests' = requests
      /\ q \in Nat /\ Len(started) \in Nat /\ Len(stored) \in Nat /\ Removed \in Nat
      /\ Len(stored) = Removed + q /\ Len(inFlight) \in Nat /\ completions \in Nat
      /\ callFailed \in BOOLEAN
      /\ mSendDataQueue = <<>> <=> q = 0
  BY Lengths, EmptyOrNot DEF IInv, FeedBack_Send, Types
<1>2. /\ mSendDataQueue # <<>> /\ completions' = 0 /\ Len(inFlight) = 0 /\ ~callFailed
  <2>1. completions # 0
    BY <1>1, SMT
  <2>2. Len(inFlight) = 0 /\ completions = 1 /\ ~callFailed /\ mSendDataQueue # <<>>
    BY <1>1, <2>1, Waiting
  <2> QED
    BY <1>1, <2>2, SMT
<1>3. inFlight = <<>> /\ q >= 1 /\ Len(started) = Removed + 1
  BY <1>1, <1>2, EmptyOrNot, SMT DEF Ordered, Types
<1>4. /\ mSendDataQueue' \in Seq(Nat) /\ Len(mSendDataQueue') = q - 1
      /\ \A i \in 1 .. q - 1 : mSendDataQueue'[i] = mSendDataQueue[i + 1]
  BY <1>1, <1>2, <1>3, SMT DEF Types
<1>5. Removed' = Removed + 1 /\ Removed' \in Nat
  BY <1>1, <1>4, SMT DEF Removed
<1>6. \A i \in 1 .. Len(mSendDataQueue') : mSendDataQueue'[i] = stored'[Removed' + i]
  <2> SUFFICES ASSUME NEW i \in 1 .. q - 1
               PROVE  mSendDataQueue'[i] = stored[(Removed + 1) + i]
    BY <1>1, <1>4, <1>5
  <2>1. i + 1 \in 1 .. q /\ Removed + (i + 1) = (Removed + 1) + i
    BY <1>1, SMT
  <2>2. mSendDataQueue[i + 1] = stored[Removed + (i + 1)]
    BY <1>1, <2>1 DEF Ordered
  <2> QED
    BY <1>4, <2>1, <2>2, SMT
<1>7. Len(stored') = Removed' + Len(mSendDataQueue')
  BY <1>1, <1>4, <1>5, SMT
<1>8. \A i \in 1 .. Len(started) : started[i] = stored'[i]
  BY <1>1 DEF Ordered
<1>9. Len(started) = Removed' /\ stored' \in Seq(Nat) /\ requests' \in Nat
  BY <1>1, <1>3, <1>5 DEF Types
<1>10. CASE mSendDataQueue' # <<>>
  <2>1. SendInternalWork(Head(mSendDataQueue'))
    BY <1>10 DEF FeedBack_Send
  <2> QED
    BY <1>1, <1>2, <1>3, <1>4, <1>5, <1>6, <1>7, <1>8, <1>9, <1>10, <2>1, StartKeeps
<1>11. CASE mSendDataQueue' = <<>>
  <2>1. UNCHANGED ioVars
    BY <1>11 DEF FeedBack_Send
  <2>2. Types'
    BY <1>1, <1>2, <1>4, <2>1, SMT DEF Types, ioVars
  <2>3. Ordered'
    <3>1. Len(mSendDataQueue') <= Len(stored')
      BY <1>1, <1>4, SMT
    <3>2. Len(started') = Removed'
      BY <1>9, <2>1 DEF ioVars
    <3>3. Removed' + 0 = Removed'
      BY <1>5, SMT
    <3> QED
      BY <1>6, <1>8, <1>11, <2>1, <3>1, <3>2, <3>3 DEF Ordered, ioVars
  <2>4. FrontInFlight' /\ WaitsForOne'
    BY <1>2, <1>3, <1>11, <2>1, SMT DEF FrontInFlight, WaitsForOne, ioVars
  <2> QED
    BY <2>2, <2>3, <2>4 DEF IInv
<1> QED
  BY <1>10, <1>11

LEMMA CompletesKeeps ==
  ASSUME IInv, Completes
  PROVE  IInv'
<1>1. /\ Types /\ Ordered /\ FrontInFlight /\ WaitsForOne
      /\ inFlight # <<>> /\ inFlight' = Tail(inFlight) /\ completions' = completions + 1
      /\ UNCHANGED <<queueVars, started, callFailed, requests>>
      /\ Len(inFlight) \in Nat /\ completions \in Nat /\ callFailed \in BOOLEAN
      /\ Len(inFlight) # 0
  BY EmptyOrNot DEF IInv, Completes, Types
<1>2. /\ Len(inFlight) = 1 /\ completions = 0 /\ ~callFailed /\ mSendDataQueue # <<>>
  BY <1>1, Waiting DEF FrontInFlight
<1>3. inFlight' \in Seq(Nat) /\ Len(inFlight') = 0
  BY <1>1, <1>2, HeadTailProperties, SMT DEF Types
<1>4. inFlight' = <<>>
  BY <1>3, EmptyOrNot
<1>5. Types' /\ Ordered'
  BY <1>1, <1>3, SMT DEF Types, Ordered, Removed, queueVars
<1>6. WaitsForOne'
  BY <1>1, <1>2, <1>3, SMT DEF WaitsForOne, queueVars
<1> QED
  BY <1>4, <1>5, <1>6 DEF IInv, FrontInFlight

\* In every reachable state the invariant holds.
THEOREM Invariance == Spec => []IInv
<1>1. IInv /\ [Next]_vars => IInv'
  <2> SUFFICES ASSUME IInv, [Next]_vars PROVE IInv'
    OBVIOUS
  <2>1. CASE SendRequest
    BY <2>1, SendRequestKeeps
  <2>2. CASE FeedBack_Send
    BY <2>2, FeedBack_SendKeepsInv
  <2>3. CASE Completes
    BY <2>3, CompletesKeeps
  <2>4. CASE UNCHANGED vars
    BY <2>4 DEF vars, queueVars, ioVars, IInv, Types, Ordered, FrontInFlight, WaitsForOne,
                Removed
  <2> QED
    BY <2>1, <2>2, <2>3, <2>4 DEF Next
<1> QED
  BY <1>1, InitIInv, PTL DEF Spec

-----------------------------------------------------------------------------

\* SendRequest and FeedBack_Send, in any order and for every capacity of mSendDataQueue
\* from two on: a queue that holds messages waits for one WSASend, its completion, or a
\* WSASend that failed when it was called; an empty one waits for nothing.
THEOREM OneIsWaitedFor == Spec => []WaitsForOne
<1>1. IInv => WaitsForOne
  BY DEF IInv
<1> QED
  BY <1>1, Invariance, PTL

\* For every capacity of mSendDataQueue from two on, the message FeedBack_Send deletes,
\* the front, is the one whose WSASend completed.
THEOREM FrontIsCompleted == Spec => []CompletesTheFront
<1>1. IInv => CompletesTheFront
  <2> SUFFICES ASSUME IInv PROVE CompletesTheFront
    OBVIOUS
  <2>1. /\ Types /\ Ordered /\ FrontInFlight /\ WaitsForOne
        /\ Len(mSendDataQueue) \in Nat /\ Len(started) \in Nat /\ Removed \in Nat
        /\ Len(inFlight) \in Nat /\ completions \in Nat /\ callFailed \in BOOLEAN
    BY Lengths DEF IInv, Types
  <2>2. ASSUME inFlight # <<>>
        PROVE  mSendDataQueue # <<>> /\ inFlight = <<Head(mSendDataQueue)>>
    <3>1. mSendDataQueue # <<>> /\ inFlight[1] = mSendDataQueue[1] /\ Len(inFlight) # 0
      BY <2>1, <2>2, EmptyOrNot DEF FrontInFlight, Types
    <3>2. Len(inFlight) = 1
      BY <2>1, <3>1, Waiting
    <3>3. Head(mSendDataQueue) = mSendDataQueue[1] /\ mSendDataQueue[1] \in Nat
      BY <2>1, <3>1, FrontOf, Zenon DEF Types
    <3> DEFINE t == <<Head(mSendDataQueue)>>
    <3>4. t \in Seq(Nat) /\ Len(t) = 1 /\ t[1] = Head(mSendDataQueue)
      BY <3>3, SMT
    <3> HIDE DEF t
    <3>5. inFlight = t
      BY <2>1, <3>1, <3>2, <3>3, <3>4, SeqEqual, SMT DEF Types
    <3> QED
      BY <3>1, <3>5 DEF t
  <2>3. ASSUME completions > 0
        PROVE  mSendDataQueue # <<>> /\ Last(started) = Head(mSendDataQueue)
    <3>1. mSendDataQueue # <<>>
      <4>1. completions # 0
        BY <2>1, <2>3, SMT
      <4> QED
        BY <2>1, <4>1, Waiting
    <3>2. Len(started) = Removed + 1
      BY <2>1, <3>1 DEF Ordered
    <3>3. Len(mSendDataQueue) >= 1 /\ Head(mSendDataQueue) = mSendDataQueue[1]
      BY <2>1, <3>1, FrontOf, Zenon DEF Types
    <3>4. mSendDataQueue[1] = stored[Removed + 1] /\ started[Removed + 1] = stored[Removed + 1]
      BY <2>1, <3>2, <3>3, SMT DEF Ordered
    <3> QED
      BY <3>1, <3>2, <3>3, <3>4 DEF Last
  <2> QED
    BY <2>2, <2>3 DEF CompletesTheFront
<1> QED
  BY <1>1, Invariance, PTL

\* SendRequest and FeedBack_Send between them start each message that found room
\* once, in the order of the requests.
THEOREM OrderIsKept == Spec => []StartedInOrder
<1>1. IInv => StartedInOrder
  <2> SUFFICES ASSUME IInv PROVE StartedInOrder
    OBVIOUS
  <2> DEFINE n == Len(started)
  <2>1. /\ started \in Seq(Nat) /\ stored \in Seq(Nat) /\ n \in Nat
        /\ Len(stored) \in Nat /\ Len(mSendDataQueue) \in Nat /\ Removed \in Nat
        /\ Len(stored) = Removed + Len(mSendDataQueue)
        /\ mSendDataQueue # <<>> => Len(mSendDataQueue) # 0
        /\ \A i \in 1 .. n : started[i] = stored[i]
    BY Lengths, EmptyOrNot DEF IInv, Types, Ordered
  <2>2. n <= Len(stored)
    BY <2>1, SMT DEF IInv, Ordered
  <2>3. /\ SubSeq(stored, 1, n) \in Seq(Nat) /\ Len(SubSeq(stored, 1, n)) = n
        /\ \A i \in 1 .. n : SubSeq(stored, 1, n)[i] = stored[i]
    BY <2>1, <2>2, SMT
  <2>4. SubSeq(started, 1, n) = started
    BY <2>1, SubSeqFull
  <2>5. started = SubSeq(stored, 1, n)
    BY <2>1, <2>3, SeqEqual, SMT
  <2> QED
    BY <2>1, <2>2, <2>4, <2>5 DEF StartedInOrder, IsPrefix
<1> QED
  BY <1>1, Invariance, PTL
=============================================================================

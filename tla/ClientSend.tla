------------------------------- MODULE ClientSend -------------------------------
(***************************************************************************)
(* The sending half of one connected client (ClientDataSet.h): SendRequest *)
(* queues a message and starts a WSASend when it is alone in the queue;    *)
(* FeedBack_Send removes the message that was sent and starts the next.    *)
(*                                                                         *)
(* At this commit SendRequest is called only for a packet of sendQueue,    *)
(* which comes only from a completed WSASend, and FeedBack_Send is not     *)
(* called: nothing is ever sent.  The module says what the two promise an  *)
(* owner that calls them from one thread: any number of requests, and      *)
(* FeedBack_Send once for each completed WSASend, whenever it likes.       *)
(***************************************************************************)
EXTENDS Naturals, Sequences, SequencesExt

CONSTANTS
  Capacity,     \* what mSendDataQueue holds (99 in the code)
  MaxRequests   \* bound: calls of SendRequest

\* In a queue of one, size() would be 1 also after a request that found it full.
ASSUME CapacityAssumption == Capacity \in Nat /\ Capacity >= 2
ASSUME BoundAssumption == MaxRequests \in Nat

VARIABLES
  mSendDataQueue,  \* the contexts queued; one is named by its request's number
  inFlight,        \* the contexts of the WSASend calls in flight
  completions,     \* WSASend calls that completed and are not fed back yet
  requests,        \* messages given to SendRequest so far
  stored,          \* history: the contexts that found room in the queue
  started,         \* history: the contexts given to WSASend, in order
  callFailed       \* history: whether a WSASend failed when it was called

queueVars == <<mSendDataQueue, stored>>
ioVars == <<inFlight, started, callFailed>>
vars == <<queueVars, ioVars, completions, requests>>

Init ==
  /\ mSendDataQueue = <<>> /\ stored = <<>>
  /\ inFlight = <<>> /\ started = <<>> /\ callFailed = FALSE
  /\ completions = 0
  /\ requests = 0

-----------------------------------------------------------------------------
\* WSASend with the overlapped of the front.  Its result is ignored: when the call
\* fails nothing completes.
SendInternalWork(context) ==
  /\ started' = Append(started, context)
  /\ \/ inFlight' = Append(inFlight, context) /\ UNCHANGED callFailed
     \/ callFailed' = TRUE /\ UNCHANGED inFlight

(* SendRequest of a connected client. *)

\* A message for a full queue is lost: what push returns is ignored.
Push ==
  /\ requests < MaxRequests
  /\ requests' = requests + 1
  /\ IF Len(mSendDataQueue) < Capacity
     THEN /\ mSendDataQueue' = Append(mSendDataQueue, requests')
          /\ stored' = Append(stored, requests')
     ELSE UNCHANGED queueVars

\* Fault: a WSASend is started for every request.
SendRequestStartsAlways ==
  /\ Push
  /\ SendInternalWork(Head(mSendDataQueue'))
  /\ UNCHANGED completions

SendRequest ==
  /\ Push
  /\ IF Len(mSendDataQueue') = 1 THEN SendInternalWork(Head(mSendDataQueue')) ELSE UNCHANGED ioVars
  /\ UNCHANGED completions

(* FeedBack_Send. *)

\* Fault: the context that was sent stays in the queue.
FeedBack_SendKeeps ==
  /\ completions > 0
  /\ completions' = completions - 1
  /\ SendInternalWork(Head(mSendDataQueue))
  /\ UNCHANGED <<queueVars, requests>>

\* Fault: the next message is left to the next request.
FeedBack_SendStops ==
  /\ completions > 0
  /\ completions' = completions - 1
  /\ mSendDataQueue' = Tail(mSendDataQueue)
  /\ UNCHANGED <<stored, ioVars, requests>>

FeedBack_Send ==
  /\ completions > 0
  /\ completions' = completions - 1
  /\ mSendDataQueue' = Tail(mSendDataQueue)
  /\ IF mSendDataQueue' # <<>> THEN SendInternalWork(Head(mSendDataQueue')) ELSE UNCHANGED ioVars
  /\ UNCHANGED <<stored, requests>>

-----------------------------------------------------------------------------
\* The operating system completes a WSASend (external).
Completes ==
  /\ inFlight # <<>>
  /\ inFlight' = Tail(inFlight)
  /\ completions' = completions + 1
  /\ UNCHANGED <<queueVars, started, callFailed, requests>>

Next == SendRequest \/ FeedBack_Send \/ Completes

Spec == Init /\ [][Next]_vars

-----------------------------------------------------------------------------
(* Properties. *)

\* The WSASend that is in flight, or whose completion waits to be fed back, is
\* that of the front of the queue: FeedBack_Send, which looks only at the front,
\* deletes the context that has completed, and never finds the queue empty.
CompletesTheFront ==
  /\ inFlight # <<>> => mSendDataQueue # <<>> /\ inFlight = <<Head(mSendDataQueue)>>
  /\ completions > 0 => mSendDataQueue # <<>> /\ Last(started) = Head(mSendDataQueue)

\* What found room in the queue is started once and in the order of the
\* requests, also after messages were lost on a full queue or a call failed.
StartedInOrder == IsPrefix(started, stored)

\* The messages of a queue wait for one thing: a WSASend in flight, a completion to
\* feed back, or a WSASend that failed when it was called, and then for ever.  So size()
\* of 1 and empty() hand the duty to start the next message over without a gap: a queue
\* whose front nobody has started, behind which every later request would wait, is
\* never left behind, nor a second WSASend started beside the first.
WaitsForOne ==
  Len(inFlight) + completions + (IF callFailed THEN 1 ELSE 0)
    = (IF mSendDataQueue = <<>> THEN 0 ELSE 1)
-----------------------------------------------------------------------------
(* The inductive invariant. *)

Types ==
  /\ mSendDataQueue \in Seq(Nat) /\ stored \in Seq(Nat)
  /\ inFlight \in Seq(Nat) /\ started \in Seq(Nat)
  /\ completions \in Nat /\ requests \in Nat
  /\ callFailed \in BOOLEAN

\* How many contexts have been removed from the queue.
Removed == Len(stored) - Len(mSendDataQueue)

\* The queue is the end of what was stored, what was started is its beginning:
\* all that was removed, and the front.
Ordered ==
  /\ Len(mSendDataQueue) <= Len(stored)
  /\ Len(started) = Removed + (IF mSendDataQueue = <<>> THEN 0 ELSE 1)
  /\ \A i \in 1 .. Len(mSendDataQueue) : mSendDataQueue[i] = stored[Removed + i]
  /\ \A i \in 1 .. Len(started) : started[i] = stored[i]

FrontInFlight == inFlight # <<>> => mSendDataQueue # <<>> /\ inFlight[1] = mSendDataQueue[1]

IInv == Types /\ Ordered /\ FrontInFlight /\ WaitsForOne
=============================================================================

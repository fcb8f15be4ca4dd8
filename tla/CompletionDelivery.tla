-------------------------- MODULE CompletionDelivery --------------------------
(***************************************************************************)
(* What IOCompletionPort promises to the owner of its callbacks: one       *)
(* first-in first-out channel per callback, from the completion of an      *)
(* operation to the call.  Each packet is handled by one call, the calls   *)
(* of one callback do not overlap, and a packet is lost only when more     *)
(* packets than a queue holds are waiting for its callback.                *)
(***************************************************************************)
EXTENDS Naturals, Sequences, SequencesExt

CONSTANTS Callbacks, Packets, Capacity, None

VARIABLES
  waiting,   \* per callback, the packets not handled yet, the oldest first
  handling   \* per callback, the packet of the call in progress, or None

vars == <<waiting, handling>>

Init ==
  /\ waiting = [w \in Callbacks |-> <<>>]
  /\ handling = [w \in Callbacks |-> None]

Arrive(w, p) ==
  /\ waiting' = [waiting EXCEPT ![w] = Append(@, p)]
  /\ UNCHANGED handling

\* The queue is full of the Capacity oldest packets; the next one is lost.
Lose(w) ==
  /\ Len(waiting[w]) > Capacity
  /\ waiting' = [waiting EXCEPT ![w] = RemoveAt(@, Capacity + 1)]
  /\ UNCHANGED handling

Begin(w) ==
  /\ handling[w] = None
  /\ waiting[w] # <<>>
  /\ handling' = [handling EXCEPT ![w] = Head(waiting[w])]
  /\ UNCHANGED waiting

End(w) ==
  /\ handling[w] # None
  /\ handling[w] = Head(waiting[w])
  /\ waiting' = [waiting EXCEPT ![w] = Tail(@)]
  /\ handling' = [handling EXCEPT ![w] = None]

Next ==
  \E w \in Callbacks :
    \/ \E p \in Packets : Arrive(w, p)
    \/ Lose(w) \/ Begin(w) \/ End(w)

Spec == Init /\ [][Next]_vars
=============================================================================

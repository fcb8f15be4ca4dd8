------------------------- MODULE ConnectionLifecycle -------------------------
(***************************************************************************)
(* What EchoServer promises about each of its clients: a socket is armed   *)
(* once, serves one connection, hands what the peer sent to the server in  *)
(* order and while it is connected only, and is left when there is nothing *)
(* more to hand over, or the connection was reset.                         *)
(***************************************************************************)
EXTENDS Naturals

CONSTANT Clients

VARIABLES
  phase,     \* per client: "new", "armed", "connected" or "gone"
  reset,     \* the clients whose connection was reset
  sent,      \* per client, what its peer has sent
  handled    \* per client, how much of it the server was given

vars == <<phase, reset, sent, handled>>

Init ==
  /\ phase = [c \in Clients |-> "new"]
  /\ reset = {}
  /\ sent = [c \in Clients |-> 0]
  /\ handled = [c \in Clients |-> 0]

Arm(S) ==
  /\ \A c \in S : phase[c] = "new"
  /\ phase' = [c \in Clients |-> IF c \in S THEN "armed" ELSE phase[c]]
  /\ UNCHANGED <<reset, sent, handled>>

Connect(c) ==
  /\ phase[c] = "armed"
  /\ phase' = [phase EXCEPT ![c] = "connected"]
  /\ UNCHANGED <<reset, sent, handled>>

\* A peer may send, and reset, before the server knows of the connection.
Send(c) ==
  /\ phase[c] \in {"armed", "connected"}
  /\ sent' = [sent EXCEPT ![c] = @ + 1]
  /\ UNCHANGED <<phase, reset, handled>>

Reset(c) ==
  /\ phase[c] \in {"armed", "connected"}
  /\ reset' = reset \union {c}
  /\ UNCHANGED <<phase, sent, handled>>

Handle(c) ==
  /\ phase[c] = "connected"
  /\ \E n \in 1 .. sent[c] - handled[c] : handled' = [handled EXCEPT ![c] = @ + n]
  /\ UNCHANGED <<phase, reset, sent>>

Leave(c) ==
  /\ phase[c] = "connected"
  /\ handled[c] = sent[c] \/ c \in reset
  /\ phase' = [phase EXCEPT ![c] = "gone"]
  /\ UNCHANGED <<reset, sent, handled>>

Next ==
  \/ \E S \in SUBSET Clients : Arm(S)
  \/ \E c \in Clients : Connect(c) \/ Send(c) \/ Reset(c) \/ Handle(c) \/ Leave(c)

Spec == Init /\ [][Next]_vars
=============================================================================

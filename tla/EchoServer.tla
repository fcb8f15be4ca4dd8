------------------------------ MODULE EchoServer ------------------------------
(***************************************************************************)
(* EchoServer.h with the part of ClientDataSet.h it drives: the callbacks  *)
(* Accept, Receive and Disconnect, each run by the worker thread of its    *)
(* queue (IOCompletionPort), the sockets they arm, and the three counters  *)
(* they share.  At this commit the bodies of EchoServer::Init and Process  *)
(* are commented out; the module models the server as those bodies wire it *)
(* (lines 76-98 and 123), from PrepareSocket at the end of Init on: the    *)
(* calls before it are in WinsockSetup, and Main puts the two together.    *)
(*                                                                         *)
(* The operating system and the peers are external: they connect, send,    *)
(* close and reset, and they complete the AcceptEx and WSARecv calls.  A   *)
(* socket serves one connection, so a client id names both.                *)
(*                                                                         *)
(* sendQueue stays empty: WSASend is called only by SendRequest, which only*)
(* the callback of a completed send calls.  The send worker never acts.    *)
(***************************************************************************)
EXTENDS Integers, Sequences, FiniteSets

CONSTANTS
  CLIENT_INIT_COUNT,  \* sockets prepared by Init (1 in the code)
  CLIENT_INCREASE,    \* sockets added when none is free (1 in the code)
  Capacity,           \* what one packet queue holds (99 in the code)
  None,               \* no packet
  MaxConnections,     \* bound: connections made in a behaviour
  MaxSegments,        \* bound: segments one peer sends
  PeersLeave,         \* whether peers close and reset their connections
  AcceptMayFail,      \* whether an AcceptEx may fail
  CallsMayFail        \* whether making a socket, or tying it to the port, may fail

ASSUME CountsAssumption ==
  /\ CLIENT_INIT_COUNT \in Nat \ {0}
  /\ CLIENT_INCREASE \in Nat \ {0}
ASSUME CapacityAssumption == Capacity \in Nat \ {0}
ASSUME BoundsAssumption == MaxConnections \in Nat /\ MaxSegments \in Nat
ASSUME SwitchesAssumption == {PeersLeave, AcceptMayFail, CallsMayFail} \subseteq BOOLEAN

\* Every accepted connection makes the server prepare sockets at most once.
Clients == 0 .. CLIENT_INIT_COUNT + CLIENT_INCREASE * MaxConnections - 1
Sizes == 1 .. MaxSegments

VARIABLES
  port, queue, working,  \* the state of IOCompletionPort
  at,                    \* where each worker is in its callback
  loaded,                \* the currentClientCount its callback has loaded
  created,               \* the clients whose socket WSASocket returned
  tied,                  \* those whose socket is tied to the port
  mIsConnet,             \* the clients whose mIsConnet is true
  acceptPending,         \* AcceptEx calls in flight, per client
  receivePending,        \* WSARecv calls in flight, per client
  accumulatedClientId,
  currentClientCount,
  currentClientMax,
  peer,                  \* the other end of each socket (external)
  sent,                  \* segments the peer has sent (external)
  unread,                \* segments no WSARecv has returned yet (external)
  handled,               \* history: segments given to FeedBack_Receive
  disconnected           \* history: clients whose Disconnect has returned

iocpVars == <<port, queue, working>>
threadVars == <<at, loaded>>
socketVars == <<mIsConnet, acceptPending, receivePending>>
supplyVars == <<accumulatedClientId, currentClientCount, currentClientMax, created, tied>>
peerVars == <<peer, sent, unread>>
history == <<handled, disconnected>>
vars == <<iocpVars, threadVars, socketVars, supplyVars, peerVars, history>>

\* The bound MaxWaiting is for the port alone and plays no part here.
IOCP == INSTANCE IOCompletionPort WITH MaxWaiting <- Capacity

ASSUME NoneAssumption == None \notin IOCP!Packet

Callbacks == {"accept", "receive", "disconnect"}

\* ClientFinder: entries are never erased, and an id is looked up only after
\* its AcceptEx was called, so the keys of the map are the ids handed out.
mClientDataConMap == 0 .. accumulatedClientId - 1

-----------------------------------------------------------------------------
(* ClientDataSet: arming a socket. *)

\* Fault: a connected client is not skipped.
TryAcceptAnyway(S) ==
  acceptPending' = [c \in Clients |-> acceptPending[c] + IF c \in S THEN 1 ELSE 0]

\* TryAccept of each client in S: AcceptEx unless mIsConnet.  The SO_ERROR of a
\* socket that was never connected is 0.
TryAccept(S) ==
  acceptPending' = [c \in Clients |->
                      acceptPending[c] + IF c \in S \ mIsConnet THEN 1 ELSE 0]

\* WSARecv unless the client is not connected.  Its result is ignored: on a
\* connection that was reset it may fail at once, and then nothing completes.
ReceiveReady(c) ==
  \/ /\ c \in mIsConnet'
     /\ receivePending' = [receivePending EXCEPT ![c] = @ + 1]
  \/ /\ c \notin mIsConnet' \/ peer[c] = "reset"
     /\ UNCHANGED receivePending

-----------------------------------------------------------------------------
(* EchoServer::PrepareSocket. *)

\* WSASocket and CreateIoCompletionPort for each new client; neither is checked, so
\* a client of the map may have no socket, or one whose WSARecv nobody hears of.
MakeSockets(new) ==
  \E made \in SUBSET new : \E bound \in SUBSET made :
    /\ CallsMayFail \/ bound = new
    /\ created' = created \union made
    /\ tied' = tied \union bound

\* The new sockets, then TryAccept of every client in the map: on a client without a
\* socket AcceptEx fails, if it is called at all.
PrepareSocket(count) ==
  /\ accumulatedClientId' = accumulatedClientId + count
  /\ currentClientMax' = currentClientMax + count
  /\ MakeSockets(accumulatedClientId .. accumulatedClientId + count - 1)
  /\ TryAccept(created')
  /\ UNCHANGED <<mIsConnet, receivePending, currentClientCount>>

\* The end of Init: the first sockets, before any thread runs.
PrepareFirst ==
  /\ accumulatedClientId = 0
  /\ PrepareSocket(CLIENT_INIT_COUNT)
  /\ UNCHANGED <<iocpVars, threadVars, peerVars, history>>

-----------------------------------------------------------------------------
(* The workers: empty(), Front() and the lookup, the callback, then pop(). *)

\* The client of the packet in a worker's hands.
Target(w) == working[w].ClientID

Goto(w, label) == at' = [at EXCEPT ![w] = label]

\* The callback starts, or returns at once when ClientFinder finds nobody.
FirstStep(w) ==
  IF working'[w].ClientID \notin mClientDataConMap THEN "return"
  ELSE IF w = "disconnect" THEN "load" ELSE "feedback"

\* Fault: the receive worker posts the next WSARecv before its callback.
StartAndRearm(w) ==
  /\ IOCP!Call(w)
  /\ Goto(w, FirstStep(w))
  /\ receivePending' = [receivePending EXCEPT ![working'[w].ClientID] =
                          @ + IF w = "receive" THEN 1 ELSE 0]
  /\ UNCHANGED <<loaded, mIsConnet, acceptPending, supplyVars, peerVars, history>>

Start(w) ==
  /\ IOCP!Call(w)
  /\ Goto(w, FirstStep(w))
  /\ UNCHANGED <<loaded, socketVars, supplyVars, peerVars, history>>

\* Fault: the packet is not popped after its callback.
ReturnUnpopped(w) ==
  /\ at[w] = "return"
  /\ Goto(w, "idle")
  /\ disconnected' = disconnected \union {c \in {Target(w)} : w = "disconnect"}
  /\ UNCHANGED <<iocpVars, loaded, socketVars, supplyVars, peerVars, handled>>

Return(w) ==
  /\ at[w] = "return"
  /\ IOCP!Pop(w)
  /\ Goto(w, "idle")
  /\ disconnected' = disconnected \union {c \in {Target(w)} : w = "disconnect"}
  /\ UNCHANGED <<loaded, socketVars, supplyVars, peerVars, handled>>

\* Accept and Disconnect both load currentClientCount, then store what they have
\* loaded plus 1 or minus 1: two steps.
LoadCount(w) ==
  /\ at[w] = "load"
  /\ loaded' = [loaded EXCEPT ![w] = currentClientCount]
  /\ Goto(w, "store")
  /\ UNCHANGED <<iocpVars, socketVars, supplyVars, peerVars, history>>

StoreCount(w, change, next) ==
  /\ at[w] = "store"
  /\ currentClientCount' = loaded[w] + change
  /\ loaded' = [loaded EXCEPT ![w] = 0]
  /\ Goto(w, next)
  /\ UNCHANGED <<iocpVars, socketVars, accumulatedClientId, currentClientMax,
                 created, tied, peerVars, history>>

(* Accept *)

\* Fault: the flag is not set before the first WSARecv.
FeedBack_AcceptUnset ==
  /\ at["accept"] = "feedback"
  /\ UNCHANGED mIsConnet
  /\ receivePending' = [receivePending EXCEPT ![Target("accept")] = @ + 1]
  /\ Goto("accept", "load")
  /\ UNCHANGED <<iocpVars, loaded, acceptPending, supplyVars, peerVars, history>>

FeedBack_Accept ==
  /\ at["accept"] = "feedback"
  /\ mIsConnet' = mIsConnet \union {Target("accept")}
  /\ ReceiveReady(Target("accept"))
  /\ Goto("accept", "load")
  /\ UNCHANGED <<iocpVars, loaded, acceptPending, supplyVars, peerVars, history>>

\* Fault: sockets are added only when there are more clients than sockets.
IsEmptyBeyond == currentClientMax - currentClientCount < 0

\* Line 134; only this worker changes currentClientMax.
IsEmpty == currentClientMax - currentClientCount <= 0

StillRoom ==
  /\ at["accept"] = "check"
  /\ ~IsEmpty
  /\ Goto("accept", "return")
  /\ UNCHANGED <<iocpVars, loaded, socketVars, supplyVars, peerVars, history>>

\* PrepareSocket when none is free.  No other thread reads these counters, nor
\* mIsConnet of a client still to be accepted, so the call is one step.
PrepareMore ==
  /\ at["accept"] = "check"
  /\ IsEmpty
  /\ PrepareSocket(CLIENT_INCREASE)
  /\ Goto("accept", "return")
  /\ UNCHANGED <<iocpVars, loaded, peerVars, history>>

AcceptWorker ==
  \/ Start("accept")
  \/ FeedBack_Accept
  \/ LoadCount("accept")
  \/ StoreCount("accept", 1, "check")
  \/ StillRoom \/ PrepareMore
  \/ Return("accept")

(* Receive *)

\* Fault: WSARecv is not called again.
FeedBack_ReceiveOnce ==
  /\ at["receive"] = "feedback"
  /\ handled' = [handled EXCEPT ![Target("receive")] = @ + working["receive"].DataSize]
  /\ UNCHANGED <<mIsConnet, receivePending>>
  /\ Goto("receive", "return")
  /\ UNCHANGED <<iocpVars, loaded, acceptPending, supplyVars, peerVars,
                 disconnected>>

\* FeedBack_Receive buffers and handles the bytes (module ReceiveReassembly)
\* and calls ReceiveReady once, at its end.
FeedBack_Receive ==
  /\ at["receive"] = "feedback"
  /\ handled' = [handled EXCEPT ![Target("receive")] = @ + working["receive"].DataSize]
  /\ UNCHANGED mIsConnet
  /\ ReceiveReady(Target("receive"))
  /\ Goto("receive", "return")
  /\ UNCHANGED <<iocpVars, loaded, acceptPending, supplyVars, peerVars,
                 disconnected>>

ReceiveWorker == Start("receive") \/ FeedBack_Receive \/ Return("receive")

(* Disconnect *)

\* Nothing resets mIsConnet, so this TryAccept returns false.
DisconnectTryAccept ==
  /\ at["disconnect"] = "tryAccept"
  /\ TryAccept({Target("disconnect")})
  /\ Goto("disconnect", "return")
  /\ UNCHANGED <<iocpVars, loaded, mIsConnet, receivePending, supplyVars,
                 peerVars, history>>

DisconnectWorker ==
  \/ Start("disconnect")
  \/ LoadCount("disconnect")
  \/ StoreCount("disconnect", -1, "tryAccept")
  \/ DisconnectTryAccept
  \/ Return("disconnect")

\* The thread in IOCompletionPort::Process.
Dispatcher ==
  /\ IOCP!Dispatch
  /\ UNCHANGED <<threadVars, socketVars, supplyVars, peerVars, history>>

-----------------------------------------------------------------------------
(* The peers (external). *)

serverVars == <<iocpVars, threadVars, socketVars, supplyVars, history>>

PeerSends(c) ==
  /\ peer[c] = "open" /\ sent[c] < MaxSegments
  /\ sent' = [sent EXCEPT ![c] = @ + 1]
  /\ unread' = [unread EXCEPT ![c] = @ + 1]
  /\ UNCHANGED peer /\ UNCHANGED serverVars

PeerCloses(c) ==
  /\ PeersLeave /\ peer[c] = "open"
  /\ peer' = [peer EXCEPT ![c] = "closed"]
  /\ UNCHANGED <<sent, unread>> /\ UNCHANGED serverVars

\* A reset discards what was not received yet.
PeerResets(c) ==
  /\ PeersLeave /\ peer[c] = "open"
  /\ peer' = [peer EXCEPT ![c] = "reset"]
  /\ unread' = [unread EXCEPT ![c] = 0]
  /\ UNCHANGED sent /\ UNCHANGED serverVars

(* The operating system completes calls (external). *)

Completes(type, c, succeeded, transferred) ==
  /\ IOCP!Complete([operationType |-> type, id |-> c,
                    ok |-> succeeded, bytes |-> transferred])
  /\ UNCHANGED <<queue, working, threadVars, mIsConnet, supplyVars, history>>

\* What happens to a socket that is not tied is not heard of.
CompletesReceive(c, succeeded, transferred) ==
  /\ receivePending[c] > 0 /\ c \in tied
  /\ receivePending' = [receivePending EXCEPT ![c] = @ - 1]
  /\ Completes("receive", c, succeeded, transferred)
  /\ UNCHANGED <<acceptPending, peer, sent>>

\* A connection of the listen backlog meets an AcceptEx, which completes through the
\* listening socket, whether or not the client's own is tied.
Connect(c) ==
  /\ acceptPending[c] > 0 /\ peer[c] = "none"
  /\ Cardinality({d \in Clients : peer[d] # "none"}) < MaxConnections
  /\ peer' = [peer EXCEPT ![c] = "open"]
  /\ acceptPending' = [acceptPending EXCEPT ![c] = @ - 1]
  /\ Completes("accept", c, TRUE, 0)
  /\ UNCHANGED <<receivePending, sent, unread>>

\* Also an AcceptEx that fails when it is called: TryAccept ignores its result,
\* and Dispatch ignores the completion.
AcceptFails(c) ==
  /\ AcceptMayFail /\ acceptPending[c] > 0
  /\ acceptPending' = [acceptPending EXCEPT ![c] = @ - 1]
  /\ Completes("accept", c, FALSE, 0)
  /\ UNCHANGED <<receivePending, peerVars>>

Received(c) ==
  \E n \in 1 .. unread[c] :
    /\ CompletesReceive(c, TRUE, n)
    /\ unread' = [unread EXCEPT ![c] = @ - n]

ReceivedEnd(c) ==
  /\ peer[c] = "closed" /\ unread[c] = 0
  /\ CompletesReceive(c, TRUE, 0)
  /\ UNCHANGED unread

ReceiveFails(c) ==
  /\ peer[c] = "reset"
  /\ CompletesReceive(c, FALSE, 0)
  /\ UNCHANGED unread

ReceiveCompletes(c) == Received(c) \/ ReceivedEnd(c) \/ ReceiveFails(c)

-----------------------------------------------------------------------------
Init ==
  /\ IOCP!Init
  /\ at = [w \in Callbacks |-> "idle"]
  /\ loaded = [w \in {"accept", "disconnect"} |-> 0]
  /\ mIsConnet = {}
  /\ acceptPending = [c \in Clients |-> 0]
  /\ receivePending = [c \in Clients |-> 0]
  /\ accumulatedClientId = 0 /\ created = {} /\ tied = {}
  /\ currentClientCount = 0
  /\ currentClientMax = 0
  /\ peer = [c \in Clients |-> "none"]
  /\ sent = [c \in Clients |-> 0]
  /\ unread = [c \in Clients |-> 0]
  /\ handled = [c \in Clients |-> 0]
  /\ disconnected = {}

Environment ==
  \E c \in Clients :
    \/ PeerSends(c) \/ PeerCloses(c) \/ PeerResets(c)
    \/ Connect(c) \/ AcceptFails(c) \/ ReceiveCompletes(c)

Next ==
  \/ PrepareFirst
  \/ Dispatcher
  \/ AcceptWorker \/ ReceiveWorker \/ DisconnectWorker
  \/ Environment

Spec == Init /\ [][Next]_vars

\* Init ends, threads never leave their loops, and a WSARecv of a tied socket
\* completes once its connection has data, an end or an error.  Peers may do nothing
\* for ever.
FairSpec ==
  /\ Spec
  /\ WF_vars(PrepareFirst) /\ WF_vars(Dispatcher)
  /\ WF_vars(AcceptWorker) /\ WF_vars(ReceiveWorker) /\ WF_vars(DisconnectWorker)
  /\ \A c \in Clients : WF_vars(ReceiveCompletes(c))

-----------------------------------------------------------------------------
(* Properties. *)

TypeOK ==
  /\ IOCP!TypeOK
  /\ at \in [Callbacks -> {"idle", "feedback", "load", "store", "check", "tryAccept", "return"}]
  /\ \A w \in Callbacks : at[w] = "idle" <=> working[w] = None
  /\ loaded \in [{"accept", "disconnect"} -> Int]
  /\ mIsConnet \subseteq Clients
  /\ {acceptPending, receivePending, sent, unread, handled} \subseteq [Clients -> Nat]
  /\ accumulatedClientId \in Nat
  /\ tied \subseteq created /\ created \subseteq mClientDataConMap
  /\ currentClientCount \in Int
  /\ currentClientMax \in Nat
  /\ peer \in [Clients -> {"none", "open", "closed", "reset"}]
  /\ disconnected \subseteq Clients

(* The calls that can lead to a callback for a client, wherever they are. *)

InPort(c, type) ==
  Cardinality({i \in DOMAIN port : /\ port[i].id = c
                                   /\ port[i].operationType = type
                                   /\ type = "accept" => port[i].ok})
InQueue(c, w) == Cardinality({i \in DOMAIN queue[w] : queue[w][i].ClientID = c})
Beyond(c, w, labels) ==
  IF at[w] \in labels /\ Target(w) = c THEN 1 ELSE 0
InSet(c, S) == IF c \in S THEN 1 ELSE 0

Accepts(c) ==
  acceptPending[c] + InPort(c, "accept") + InQueue(c, "accept")
  - Beyond(c, "accept", {"load", "store", "check", "return"})

Receives(c) ==
  receivePending[c] + InPort(c, "receive") + InQueue(c, "receive")
  - Beyond(c, "receive", {"return"})

Disconnects(c) == InQueue(c, "disconnect") + InSet(c, disconnected)

\* A socket is in one place: an AcceptEx is on its way to the accept callback,
\* or it is connected, never both and never twice, so neither PrepareSocket's
\* loop over the whole map nor Disconnect's TryAccept reuses an mAcceptContext
\* in flight or arms a socket that is in use.
AcceptChain ==
  \A c \in Clients :
    Accepts(c) + InSet(c, mIsConnet) <= InSet(c, created)

\* A connected client has exactly one WSARecv on its way to the receive
\* callback, or its disconnect: no packet is dropped, mReceiveContext is never
\* reused in flight, and Disconnect is called at most once.  Only a reset may
\* leave a client with neither.  Other clients have none.  (The WSARecv of a socket
\* that is not tied to the port stays in flight.)
ReceiveChain ==
  \A c \in Clients :
    LET chains == Receives(c) + Disconnects(c) IN
    /\ chains <= InSet(c, mIsConnet)
    /\ c \in mIsConnet /\ peer[c] # "reset" => chains = 1

\* Receive and Disconnect run on two threads, fed by two queues; yet the
\* Disconnect of a client that closed its connection starts when all it sent
\* has been handled.
DataBeforeDisconnect ==
  \A c \in Clients :
    /\ at["disconnect"] # "idle"
    /\ Target("disconnect") = c
    /\ peer[c] = "closed"
    => handled[c] = sent[c]

\* Updates of currentClientCount are lost when Accept and Disconnect meet, but
\* it never exceeds the number of connected sockets.
CountAtMostConnected == currentClientCount <= Cardinality(mIsConnet)

\* Over its whole life a socket goes through one connection: armed once (the
\* AcceptEx that PrepareSocket issues), connected once (FeedBack_Accept), its data
\* handed to FeedBack_Receive, never after its Disconnect has begun, and left
\* once.  In particular no interleaving of the workers brings a client back.
Phase(c) ==
  IF c \in disconnected \/ Beyond(c, "disconnect", {"load", "store", "tryAccept", "return"}) = 1
    THEN "gone"
  ELSE IF c \in mIsConnet THEN "connected"
  ELSE IF c \in created THEN "armed" ELSE "new"

Lifecycle == INSTANCE ConnectionLifecycle
               WITH phase <- [c \in Clients |-> Phase(c)],
                    reset <- {c \in Clients : peer[c] = "reset"}

ImplementsLifecycle == Lifecycle!Spec

\* What the peers have sent reaches FeedBack_Receive, unless a peer resets or its
\* client's socket could not be tied to the port: that client does not hold up the
\* others.  MaxSegments bounds what a peer sends, so everything it sent is handled
\* again and again.
SegmentsHandled ==
  []<>(\A c \in tied : handled[c] = sent[c] \/ peer[c] = "reset")

\* Connections of tied sockets that were closed are noticed: Disconnect is called for
\* them.
CloseNoticed ==
  []<>(\A c \in tied : peer[c] = "closed" => c \in disconnected)

\* As long as nobody leaves, no WSASocket and no AcceptEx fails, the server always
\* comes back to having an AcceptEx in flight for the next connection, also when
\* sockets could not be tied.
KeepsAccepting ==
  [](\A c \in mClientDataConMap :
       IF peer[c] = "none" THEN acceptPending[c] > 0 ELSE peer[c] = "open")
  => []<>(\/ \E c \in Clients : acceptPending[c] > 0
          \/ Cardinality({c \in Clients : peer[c] # "none"}) = MaxConnections)

\* ClientDataSet.h:31: sockets are being recycled.  The socket of a client that
\* has left is armed for another connection.
SocketsRecycled == \A c \in Clients : c \in disconnected ~> acceptPending[c] > 0
-----------------------------------------------------------------------------
(* The inductive invariant of the safety properties. *)

\* A worker keeps the oldest packet of its queue until it pops it.
InHand ==
  \A w \in Callbacks :
    working[w] # None => queue[w] # <<>> /\ working[w] = Head(queue[w])

\* Where the body of each callback can be.
InCallback ==
  /\ at["accept"] \in {"idle", "feedback", "load", "store", "check", "return"}
  /\ at["receive"] \in {"idle", "feedback", "return"}
  /\ at["disconnect"] \in {"idle", "load", "store", "tryAccept", "return"}

\* No WSASend is made, a WSARecv of a stream that fails has received nothing, and no
\* segment is unread that was not sent.
Segments ==
  /\ \A i \in DOMAIN port : /\ port[i].operationType # "send"
                            /\ ~port[i].ok => port[i].bytes = 0
  /\ \A c \in Clients : unread[c] <= sent[c] /\ sent[c] <= MaxSegments

ServerTypes == TypeOK /\ InHand /\ InCallback /\ Segments

\* A connection is made with a socket that exists, before its client is accepted, and
\* only sockets that exist complete operations.
ConnectionFirst ==
  /\ Cardinality({c \in Clients : peer[c] # "none"}) <= MaxConnections
  /\ \A c \in Clients : peer[c] # "none" => c \in created
  /\ \A i \in DOMAIN port : port[i].id \in created
  /\ \A c \in Clients : InPort(c, "accept") + InQueue(c, "accept") > 0 => peer[c] # "none"
  /\ \A c \in mIsConnet : peer[c] # "none"

\* The part of ReceiveChain that holds whatever the size of the queues.
AtMostOneChain ==
  \A c \in Clients : Receives(c) + Disconnects(c) <= InSet(c, mIsConnet)

\* What Accept has still to store, and what either callback has loaded.
CountInv ==
  /\ currentClientMax = accumulatedClientId
  /\ currentClientCount + (IF at["accept"] \in {"load", "store"} THEN 1 ELSE 0)
       <= Cardinality(mIsConnet)
  /\ at["accept"] = "store" => loaded["accept"] < Cardinality(mIsConnet)
  /\ at["disconnect"] = "store" => loaded["disconnect"] <= Cardinality(mIsConnet)

\* All that the peer of c has sent was handled, is unread, or is among the n
\* segments under way; a reset may have discarded some.
Accounted(c, n) ==
  /\ handled[c] + unread[c] + n <= sent[c]
  /\ peer[c] # "reset" => handled[c] + unread[c] + n = sent[c]

\* A receive that returned no data is the last one.
Finished(c) ==
  /\ peer[c] \in {"closed", "reset"}
  /\ peer[c] = "closed" => unread[c] = 0

\* Wherever the next segments of a client are, nothing is missing before them.
NothingSkipped ==
  /\ \A c \in Clients :
       c \notin mIsConnet \/ receivePending[c] > 0 => Accounted(c, 0)
  /\ \A i \in DOMAIN port :
       port[i].operationType = "receive" =>
         /\ Accounted(port[i].id, port[i].bytes)
         /\ port[i].bytes = 0 => Finished(port[i].id)
  /\ \A i \in DOMAIN queue["receive"] :
       \/ i = 1 /\ at["receive"] = "return"
       \/ /\ queue["receive"][i].DataSize > 0
          /\ Accounted(queue["receive"][i].ClientID, queue["receive"][i].DataSize)
  /\ \A c \in Clients : Disconnects(c) > 0 => Finished(c) /\ Accounted(c, 0)

ServerInv ==
  /\ ServerTypes /\ ConnectionFirst
  /\ AcceptChain /\ AtMostOneChain /\ CountInv /\ NothingSkipped
=============================================================================

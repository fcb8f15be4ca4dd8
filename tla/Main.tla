---------------------------------- MODULE Main ----------------------------------
(***************************************************************************)
(* main: EchoServer::Init, which sets Winsock up (WinsockSetup) and        *)
(* prepares the first sockets, then EchoServer::Process, in which the      *)
(* dispatcher and the workers run (EchoServer).  At this commit the bodies *)
(* of Init and Process are commented out; here they do what they say.      *)
(* Init returns nothing: Process runs whatever has failed before it.       *)
(***************************************************************************)
EXTENDS EchoServer

VARIABLES
  pc, failed, winsock, mListenSocket, mIOCPHandle, portOpen, lostPorts, listenTied,
  mAcceptExPointer, mServerOn  \* the state of WinsockSetup

setupVars == <<pc, failed, winsock, mListenSocket, mIOCPHandle, portOpen, lostPorts,
               listenTied, mAcceptExPointer, mServerOn>>
allVars == <<setupVars, vars>>

Setup == INSTANCE WinsockSetup

\* IOCompletionPort::Init, then PrepareSocket(CLIENT_INIT_COUNT), in which a null
\* mAcceptExPointer may end the program.
EchoServerInit ==
  \/ Setup!Next /\ UNCHANGED vars
  \/ PrepareFirst /\ Setup!PrepareSocket(created', tied')
  \/ Setup!TryAcceptCrashes /\ UNCHANGED vars

\* The threads, and all that the peers and the operating system do meanwhile.
EchoServerProcess == pc = "Process" /\ Next /\ UNCHANGED setupVars

MainInit == Setup!Init /\ Init

MainNext == EchoServerInit \/ EchoServerProcess

MainSpec == MainInit /\ [][MainNext]_allVars

-----------------------------------------------------------------------------
(* Properties. *)

\* What IOCompletionPort::Init leaves behind when one of its calls fails: Winsock down,
\* no listening socket, and no port but the one line 119 could not use and those
\* that PrepareSocket makes when there is none.
LeftByInit == Setup!LeftByInit

\* A server that waits for a connection, has a completion to handle or a client
\* connected is one whose set-up succeeded up to AcceptEx, although nobody asked: with
\* every failure of Init the first PrepareSocket gets no socket at all.  So an AcceptEx
\* in flight is always one whose completion reaches the dispatcher.
Heard ==
  /\ failed = "none" /\ winsock /\ mListenSocket = "listening"
  /\ portOpen /\ listenTied /\ mAcceptExPointer

ArmedIsHeard ==
  port # <<>> \/ mIsConnet # {} \/ (\E c \in Clients : acceptPending[c] > 0) => Heard
-----------------------------------------------------------------------------
(* The inductive invariant: the set-up, and what the server has of it. *)

Labels == {"WSAStartup", "socket", "bind", "listen", "create", "tie", "WSAIoctl",
           "PrepareSocket", "Process", "crashed"}

AfterInit == {"PrepareSocket", "Process", "crashed"}

SetupTypes ==
  /\ pc \in Labels
  /\ {winsock, portOpen, listenTied, mAcceptExPointer} \subseteq BOOLEAN
  /\ lostPorts \in Nat

\* What has been done when nothing has failed yet: a call after the other.
InOrder ==
  failed = "none" =>
    /\ winsock <=> pc # "WSAStartup"
    /\ pc \in {"WSAStartup", "socket"} => mListenSocket = "INVALID"
    /\ pc \in {"create", "tie", "WSAIoctl"} \union AfterInit => mListenSocket = "listening"
    /\ portOpen <=> pc \in {"tie", "WSAIoctl"} \union AfterInit
    /\ listenTied <=> pc \in {"WSAIoctl"} \union AfterInit
    /\ mIOCPHandle = IF portOpen THEN "created" ELSE "INVALID"

\* After a failure nothing more is done, and only a failed CreateIoCompletionPort
\* leaves a handle of NULL.
GaveUp ==
  failed # "none" =>
    /\ pc \in AfterInit
    /\ mIOCPHandle = "NULL" => failed = "create"

\* No socket before PrepareSocket, which Init calls once, nor after an Init that gave up.
ClientsLast ==
  /\ pc = "Process" => accumulatedClientId # 0
  /\ created # {} => pc = "Process" /\ Heard

SetupInv == SetupTypes /\ InOrder /\ GaveUp /\ LeftByInit /\ ClientsLast

MainInv == SetupInv /\ ServerInv
=============================================================================

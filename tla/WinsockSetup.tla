----------------------------- MODULE WinsockSetup -----------------------------
(***************************************************************************)
(* IOCompletionPort::Init: a sequence of Winsock calls, each of which may  *)
(* fail.  Init returns nothing, so its caller goes on whatever happened:   *)
(* EchoServer::Init prepares the first sockets, and Process runs.          *)
(***************************************************************************)
EXTENDS Naturals

CONSTANTS
  CLIENT_INIT_COUNT,  \* sockets prepared (1 in the code)
  CallsMayFail        \* whether a call may fail

VARIABLES
  pc,              \* where Init and its caller are
  failed,          \* the call at which Init returned early, or "none"
  winsock,         \* whether Winsock is started (external)
  mListenSocket,   \* "INVALID", "created", "bound", "listening" or "closed"
  mIOCPHandle,     \* "INVALID", "NULL" or "created"
  portOpen,        \* whether the port of mIOCPHandle exists (external)
  lostPorts,       \* ports no handle of the program refers to (external)
  listenTied,      \* whether the listening socket is tied to the port
  mAcceptExPointer,\* whether it points to AcceptEx
  mServerOn

osVars == <<winsock, portOpen, lostPorts, listenTied>>
memberVars == <<mListenSocket, mIOCPHandle, mAcceptExPointer, mServerOn>>
vars == <<pc, failed, osVars, memberVars>>

Init ==
  /\ pc = "WSAStartup" /\ failed = "none"
  /\ winsock = FALSE /\ portOpen = FALSE /\ lostPorts = 0 /\ listenTied = FALSE
  /\ mListenSocket = "INVALID" /\ mIOCPHandle = "INVALID"
  /\ mAcceptExPointer = FALSE /\ mServerOn = TRUE

-----------------------------------------------------------------------------
(* IOCompletionPort::Init. *)

At(label, then) == pc = label /\ pc' = then

\* WSACleanup also closes what Winsock still holds.
GiveUp(label) ==
  /\ CallsMayFail
  /\ At(label, "PrepareSocket")
  /\ failed' = label /\ winsock' = FALSE
  /\ UNCHANGED <<lostPorts, mAcceptExPointer, mServerOn>>

CloseAndGiveUp(label) ==
  /\ GiveUp(label)
  /\ mListenSocket' = "closed"
  /\ listenTied' = FALSE

WSAStartup ==
  /\ At("WSAStartup", "socket")
  /\ winsock' = TRUE
  /\ UNCHANGED <<failed, portOpen, lostPorts, listenTied, memberVars>>

WSAStartupFails ==
  GiveUp("WSAStartup") /\ UNCHANGED <<portOpen, listenTied, mListenSocket, mIOCPHandle>>

Socket ==
  /\ At("socket", "bind")
  /\ mListenSocket' = "created"
  /\ UNCHANGED <<failed, osVars, mIOCPHandle, mAcceptExPointer, mServerOn>>

SocketFails ==
  GiveUp("socket") /\ UNCHANGED <<portOpen, listenTied, mListenSocket, mIOCPHandle>>

Bind ==
  /\ At("bind", "listen")
  /\ mListenSocket' = "bound"
  /\ UNCHANGED <<failed, osVars, mIOCPHandle, mAcceptExPointer, mServerOn>>

\* Fault: closesocket is left out.
BindFailsOpen ==
  GiveUp("bind") /\ UNCHANGED <<portOpen, listenTied, mListenSocket, mIOCPHandle>>

BindFails == CloseAndGiveUp("bind") /\ UNCHANGED <<portOpen, mIOCPHandle>>

Listen ==
  /\ At("listen", "create")
  /\ mListenSocket' = "listening"
  /\ UNCHANGED <<failed, osVars, mIOCPHandle, mAcceptExPointer, mServerOn>>

ListenFails == CloseAndGiveUp("listen") /\ UNCHANGED <<portOpen, mIOCPHandle>>

CreateIoCompletionPort ==
  /\ At("create", "tie")
  /\ mIOCPHandle' = "created" /\ portOpen' = TRUE
  /\ UNCHANGED <<failed, winsock, lostPorts, listenTied, mListenSocket,
                 mAcceptExPointer, mServerOn>>

CreateIoCompletionPortFails ==
  CloseAndGiveUp("create") /\ mIOCPHandle' = "NULL" /\ UNCHANGED portOpen

TieListenSocket ==
  /\ At("tie", "WSAIoctl")
  /\ listenTied' = TRUE
  /\ UNCHANGED <<failed, winsock, portOpen, lostPorts, memberVars>>

\* Fault: Init goes on, as it does after WSAIoctl.
TieListenSocketIgnored ==
  /\ CallsMayFail
  /\ At("tie", "WSAIoctl")
  /\ UNCHANGED <<failed, osVars, memberVars>>

\* The port's handle is not closed.
TieListenSocketFails == CloseAndGiveUp("tie") /\ UNCHANGED <<portOpen, mIOCPHandle>>

\* A failing WSAIoctl leaves mAcceptExPointer null, and Init goes on.
WSAIoctl ==
  /\ At("WSAIoctl", "PrepareSocket")
  /\ mServerOn' = TRUE
  /\ \/ mAcceptExPointer' = TRUE
     \/ CallsMayFail /\ UNCHANGED mAcceptExPointer
  /\ UNCHANGED <<failed, osVars, mListenSocket, mIOCPHandle>>

Next ==
  \/ WSAStartup \/ Socket \/ Bind \/ Listen
  \/ CreateIoCompletionPort \/ TieListenSocket
  \/ WSAStartupFails \/ SocketFails \/ BindFails \/ ListenFails
  \/ CreateIoCompletionPortFails \/ TieListenSocketFails
  \/ WSAIoctl

-----------------------------------------------------------------------------
(* EchoServer::PrepareSocket, which Init of the server calls last. *)

\* What its calls find: a socket needs Winsock, to be tied it needs the port.  Without
\* Winsock newSocket is INVALID_SOCKET, which has the value INVALID_HANDLE_VALUE: with
\* an mIOCPHandle of NULL each CreateIoCompletionPort then makes a port of its own.
\* It returns when no null pointer was called.
PrepareSocket(made, bound) ==
  /\ At("PrepareSocket", "Process")
  /\ made # {} => winsock /\ mAcceptExPointer
  /\ bound # {} => portOpen
  /\ \/ mIOCPHandle = "NULL" /\ lostPorts' \in 0 .. CLIENT_INIT_COUNT
     \/ mIOCPHandle # "NULL" /\ UNCHANGED lostPorts
  /\ UNCHANGED <<failed, winsock, portOpen, listenTied, memberVars>>

\* TryAccept calls the null pointer for a socket that was made.  For one that was not,
\* getsockopt does not write errorCode, and what it held decides.
TryAcceptCrashes ==
  /\ At("PrepareSocket", "crashed")
  /\ ~mAcceptExPointer
  /\ UNCHANGED <<failed, osVars, memberVars>>

-----------------------------------------------------------------------------
(* Properties. *)

\* What Init leaves behind when it gives up, whichever call failed: Winsock is down
\* and the listening socket is closed if there was one.  Of the ports two kinds stay:
\* the one that the listening socket could not be tied to, and, when that one could
\* not be created, those which PrepareSocket makes unasked.
LeftByInit ==
  /\ failed # "none" =>
       /\ ~winsock /\ ~listenTied
       /\ mListenSocket = IF failed \in {"WSAStartup", "socket"} THEN "INVALID" ELSE "closed"
       /\ portOpen <=> failed = "tie"
  /\ lostPorts > 0 => failed = "create"
=============================================================================

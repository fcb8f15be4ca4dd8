----------------------------- MODULE MessageSchema -----------------------------
(***************************************************************************)
(* MESSAGE_WRAPPER_generated.h: the messages between the server and its    *)
(* clients.  One definition per table stands for its class, its Builder,   *)
(* its Create function and, where there is one, its Create...Direct; what  *)
(* those have in common is in the module GeneratedCode, and what the       *)
(* Verify members have in common in the module Verifier.                   *)
(***************************************************************************)
EXTENDS TableTypes

-----------------------------------------------------------------------------
(* The enumerations, as their names by value. *)

EnumNamesMESSAGETYPE ==
  <<"BEGIN", "REQUEST_LOGIN", "RESOPNSE_LOGIN", "REQUEST_REGIST", "RESPONSE_REGIST",
    "REQUEST_ROOM_CREATE", "RESPONSE_ROOM_CREATE", "REQUEST_ROOM_ENTRANCE",
    "RESPONSE_ROOM_ENTRANCE", "REQUEST_ROOM_LEAVE", "RESPONSE_ROOM_LEAVE",
    "REQUEST_SEND_MESSAGE", "RESPONSE_SEND_MESSAGE", "NOTIFY_MESSAGE", "NOTIFY_ROOMLIST",
    "REQUEST_LOGOUT", "RESPONSE_LOGOUT", "END">>

MESSAGETYPE == 0 .. 17

EnumNameMESSAGETYPE(e) == IF e \in MESSAGETYPE THEN EnumNamesMESSAGETYPE[e + 1] ELSE ""

EnumNamesMessageContent ==
  <<"NONE", "REQUEST_LOGIN", "RESPONSE_LOGIN", "REQUEST_REGIST", "RESPONSE_REGIST",
    "REQUEST_ROOM_CREATE", "RESPONSE_ROOM_CREATE", "REQUEST_ROOM_ENTRANCE",
    "RESPONSE_ROOM_ENTRANCE", "REQUEST_ROOM_LEAVE", "RESPONSE_ROOM_LEAVE",
    "REQUEST_SEND_MESSAGE", "RESPONSE_SEND_MESSAGE", "NOTIFY_MESSAGE", "NOTIFY_ROOMLIST",
    "REQUEST_LOGOUT", "RESPONSE_LOGOUT">>

MessageContent == 0 .. 16

EnumNameMessageContent(e) ==
  IF e \in MessageContent THEN EnumNamesMessageContent[e + 1] ELSE ""

\* MessageContentTraits: the value for a table.
EnumValue(table) == CHOOSE e \in MessageContent : EnumNameMessageContent(e) = table

-----------------------------------------------------------------------------
(* The tables. *)

Bool(name, vt) == Scalar(name, vt, 1)
Id(name, vt) == Scalar(name, vt, 4)

REQUEST_LOGIN == TableType(<<String("name", 4), String("password", 6)>>, <<2, 1>>)

RESPONSE_LOGIN == TableType(<<Id("id", 4), Bool("feedback", 6)>>, <<1, 2>>)

REQUEST_REGIST == TableType(<<String("name", 4), String("password", 6)>>, <<2, 1>>)

RESPONSE_REGIST == TableType(<<Id("id", 4), Bool("feedback", 6)>>, <<1, 2>>)

\* Fault: two fields in one place.
REQUEST_ROOM_CREATE_Shared ==
  TableType(<<Id("id", 4), String("room_name", 6), String("room_password", 6)>>, <<3, 2, 1>>)

REQUEST_ROOM_CREATE ==
  TableType(<<Id("id", 4), String("room_name", 6), String("room_password", 8)>>, <<3, 2, 1>>)

RESPONSE_ROOM_CREATE == TableType(<<Id("room_id", 4), Bool("feedback", 6)>>, <<1, 2>>)

REQUEST_ROOM_ENTRANCE ==
  TableType(<<Id("id", 4), String("room_name", 6), String("room_password", 8)>>, <<3, 2, 1>>)

RESPONSE_ROOM_ENTRANCE == TableType(<<Id("room_id", 4), Bool("feedback", 6)>>, <<1, 2>>)

REQUEST_ROOM_LEAVE == TableType(<<Id("id", 4), Id("room_id", 6)>>, <<2, 1>>)

RESPONSE_ROOM_LEAVE == TableType(<<Id("room_id", 4), Bool("feedback", 6)>>, <<1, 2>>)

REQUEST_SEND_MESSAGE == TableType(<<Id("id", 4), String("content", 6)>>, <<2, 1>>)

RESPONSE_SEND_MESSAGE == TableType(<<Bool("feedback", 4)>>, <<1>>)

REQUEST_LOGOUT == TableType(<<Id("id", 4)>>, <<1>>)

RESPONSE_LOGOUT == TableType(<<Bool("feedback", 4)>>, <<1>>)

NOTIFY_MESSAGE == TableType(<<Id("id", 4), String("content", 6)>>, <<2, 1>>)

NOTIFY_ROOMLIST == TableType(<<String("name", 4)>>, <<1>>)

\* VerifyMessageContent and content_as: the table of each tag, none for NONE.
MessageContentTable == [e \in MessageContent \ {0} |-> EnumNameMessageContent(e)]

MESSAGE_WRAPPER_Fields ==
  <<Scalar("message_type", 4, 4), Scalar("content_type", 6, 1),
    Union("content", 8, MessageContentTable)>>

MESSAGE_WRAPPER == TableType(MESSAGE_WRAPPER_Fields, <<3, 1, 2>>)

MessageTypes ==
  [REQUEST_LOGIN |-> REQUEST_LOGIN, RESPONSE_LOGIN |-> RESPONSE_LOGIN,
   REQUEST_REGIST |-> REQUEST_REGIST, RESPONSE_REGIST |-> RESPONSE_REGIST,
   REQUEST_ROOM_CREATE |-> REQUEST_ROOM_CREATE,
   RESPONSE_ROOM_CREATE |-> RESPONSE_ROOM_CREATE,
   REQUEST_ROOM_ENTRANCE |-> REQUEST_ROOM_ENTRANCE,
   RESPONSE_ROOM_ENTRANCE |-> RESPONSE_ROOM_ENTRANCE,
   REQUEST_ROOM_LEAVE |-> REQUEST_ROOM_LEAVE, RESPONSE_ROOM_LEAVE |-> RESPONSE_ROOM_LEAVE,
   REQUEST_SEND_MESSAGE |-> REQUEST_SEND_MESSAGE,
   RESPONSE_SEND_MESSAGE |-> RESPONSE_SEND_MESSAGE,
   REQUEST_LOGOUT |-> REQUEST_LOGOUT, RESPONSE_LOGOUT |-> RESPONSE_LOGOUT,
   NOTIFY_MESSAGE |-> NOTIFY_MESSAGE, NOTIFY_ROOMLIST |-> NOTIFY_ROOMLIST,
   MESSAGE_WRAPPER |-> MESSAGE_WRAPPER]
=============================================================================

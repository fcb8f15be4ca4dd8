-------------------------- MODULE MCIOCompletionPort --------------------------
(* Instances of IOCompletionPort for TLC. *)
EXTENDS IOCompletionPort

CONSTANTS a, b, none
MCClients == {a, b}
MCSizes == {1}
=============================================================================

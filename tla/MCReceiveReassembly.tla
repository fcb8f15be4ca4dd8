-------------------------- MODULE MCReceiveReassembly --------------------------
(* Instances of ReceiveReassembly for TLC. *)
EXTENDS ReceiveReassembly
=============================================================================

--------------------------- MODULE MCPacketOwnership ---------------------------
(* Instances of PacketOwnership for TLC. *)
EXTENDS PacketOwnership, TLC

CONSTANTS b1, b2, b3, b4, b5, b6, b7, none
MCBlocks == {b1, b2, b3, b4, b5, b6, b7}
BlockSymmetry == Permutations(MCBlocks)
=============================================================================

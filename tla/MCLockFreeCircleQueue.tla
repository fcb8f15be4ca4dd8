----------------------- MODULE MCLockFreeCircleQueue -----------------------
(* Instances of LockFreeCircleQueue for TLC. *)
EXTENDS LockFreeCircleQueue

CONSTANTS d1, d2, none

MCData == {d1, d2}
=============================================================================

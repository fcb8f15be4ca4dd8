----------------------------- MODULE MCBuilderMemory -----------------------------
(***************************************************************************)
(* The memory of a builder: what its vector_downward holds                 *)
(* (VectorDownward) and who owns the blocks it is given (BufferOwnership). *)
(* The two have no state in common, so an invariant of either is one of    *)
(* both together when it is one of each; a behaviour takes steps of one.   *)
(***************************************************************************)
EXTENDS VectorDownward, BufferOwnership, TLC

VARIABLE part      \* the module whose steps a behaviour takes

MCData == {0, 1}

Symmetry ==
  Permutations(Builders) \union Permutations(Detached) \union Permutations(Messengers)
    \union Permutations(Allocators) \union Permutations(Blocks)

MemoryInit == Init /\ OwnershipInit /\ part \in {"contents", "owners"}

MemoryNext ==
  \/ part = "contents" /\ Next /\ UNCHANGED <<ownership, part>>
  \/ part = "owners" /\ OwnershipNext /\ UNCHANGED vars /\ UNCHANGED part

MemorySpec == MemoryInit /\ [][MemoryNext]_<<vars, ownership, part>>
=============================================================================

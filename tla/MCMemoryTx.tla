----------------------------- MODULE MCMemoryTx -----------------------------
(* Small instances of MemoryTx for TLC. *)
EXTENDS MemoryTx, TLC

Symmetry == Permutations(Memories) \cup Permutations(Handlers)
=============================================================================

--------------------------- MODULE MCMemoryStore ---------------------------
(* Small instances of MemoryStore for TLC. *)
EXTENDS MemoryStore, TLC

Symmetry == Permutations(Memories) \cup Permutations(Sources)
=============================================================================

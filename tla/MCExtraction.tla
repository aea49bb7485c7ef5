---------------------------- MODULE MCExtraction ----------------------------
(* Small instances of Extraction for TLC. *)
EXTENDS Extraction, TLC

Symmetry == Permutations(Memories) \cup Permutations(Sources)
              \cup Permutations(Workers) \cup Permutations(Statements)
=============================================================================

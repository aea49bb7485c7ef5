-------------------------- MODULE MCKnowledgeGraph --------------------------
(* Small instances of KnowledgeGraph for TLC. *)
EXTENDS KnowledgeGraph, TLC

Instants == 0..2

Symmetry == Permutations(Handlers) \cup Permutations(Relations) \cup Permutations(Names)
=============================================================================

---------------------------- MODULE MCRetrieval ----------------------------
(* Small instances of Retrieval for TLC. *)
EXTENDS Retrieval, TLC

(* A full-text match need not be a substring. *)
MatchesValue == [b \in {"pgroonga", "ilike"} |->
                   IF b = "pgroonga" THEN Rows ELSE Memories]
Symmetry == Permutations(Memories)
=============================================================================

----------------------------- MODULE MCJobQueue -----------------------------
(* Small instances of JobQueue for TLC. *)
EXTENDS JobQueue

CONSTANTS j1, j2, j3

(* j1 and j2 come from one transaction and tie; j3 is older. *)
MCCreatedAt == [j \in Jobs |-> IF j = j3 THEN 1 ELSE 2]
=============================================================================

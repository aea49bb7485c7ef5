----------------------------- MODULE MCCapture -----------------------------
(* Small instances of Capture for TLC. *)
EXTENDS Capture

CONSTANTS c1, c2, c3, k1

(* c1 and c2 deliver the same event; that of c3 has no external_id. *)
MCKey == [c \in Clients |-> IF c = c3 THEN None ELSE k1]
=============================================================================

---------------------------- MODULE MCChunking ----------------------------
(* Every text of up to Short characters, and those of up to Long made of   *)
(* letters and line ends alone.                                            *)
EXTENDS Chunking
CONSTANTS Short, Long
TextsOf(alphabet, n) == UNION {[1 .. l -> alphabet] : l \in 0 .. n}
MCTexts == TextsOf(Characters, Short) \cup TextsOf({"letter", "newline"}, Long)
=============================================================================

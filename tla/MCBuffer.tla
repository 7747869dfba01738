------------------------------ MODULE MCBuffer ------------------------------
(* An instance of Buffer whose byte strings show every loss and reordering. *)
EXTENDS Buffer

MCChunks == UNION {[1..n -> Byte \ {Zero}] : n \in 0..3}
=============================================================================

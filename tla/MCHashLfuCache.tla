--------------------------- MODULE MCHashLfuCache ---------------------------
(* An instance whose integer keys are their own hash, as with std::hash<int>. *)
EXTENDS HashLfuCache

MCHash == [k \in Keys |-> k]
=============================================================================

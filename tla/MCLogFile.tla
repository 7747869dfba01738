------------------------------ MODULE MCLogFile ------------------------------
(* An instance in which the uninitialised count_ may be negative. *)
EXTENDS LogFile

AnyCount == {-2, 0, 3}
=============================================================================

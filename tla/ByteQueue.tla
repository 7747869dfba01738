----------------------------- MODULE ByteQueue -----------------------------
(***************************************************************************)
(* What Buffer promises its users: an unbounded queue of bytes, appended at  *)
(* one end and retrieved at the other.                                       *)
(***************************************************************************)
EXTENDS Integers, Sequences

CONSTANT Chunks             \* byte strings that are appended at once

VARIABLES content,          \* bytes appended and not yet retrieved
          result            \* the last string retrieveAsString returned

Init == content = <<>> /\ result = <<>>

Put(data) == content' = content \o data /\ UNCHANGED result

Drop(n) ==
  /\ content' = SubSeq(content, n + 1, Len(content))
  /\ UNCHANGED result

Take(n) ==
  /\ result' = SubSeq(content, 1, n)
  /\ content' = SubSeq(content, n + 1, Len(content))

Next == \/ \E data \in Chunks : Put(data)
        \/ \E n \in 0..Len(content) : Drop(n) \/ Take(n)

Spec == Init /\ [][Next]_<<content, result>>
=============================================================================

----------------------------- MODULE TaskQueue -----------------------------
(***************************************************************************)
(* What an EventLoop promises the threads that hand it callbacks: a callback *)
(* given to queueInLoop joins the end of one queue, the loop thread takes    *)
(* callbacks from the front, one at a time, and a callback that the loop     *)
(* thread itself gives to runInLoop runs at once.  Every callback runs at    *)
(* most once, and queued callbacks run in the order they were queued.        *)
(***************************************************************************)
EXTENDS Sequences, Functions

CONSTANT Functors           \* identities of the callbacks, each given once

VARIABLES posted,           \* callbacks given to the loop so far
          queue,            \* callbacks waiting, in order
          ran               \* callbacks started, in order

vars == <<posted, queue, ran>>

Init == posted = {} /\ queue = <<>> /\ ran = <<>>

Post(f) ==
  /\ f \notin posted
  /\ posted' = posted \cup {f}
  /\ queue' = Append(queue, f)
  /\ UNCHANGED ran

RunNow(f) ==
  /\ f \notin posted
  /\ posted' = posted \cup {f}
  /\ ran' = Append(ran, f)
  /\ UNCHANGED queue

RunHead ==
  /\ queue # <<>>
  /\ ran' = Append(ran, Head(queue))
  /\ queue' = Tail(queue)
  /\ UNCHANGED posted

Next == (\E f \in Functors : Post(f) \/ RunNow(f)) \/ RunHead

Spec == Init /\ [][Next]_vars
=============================================================================

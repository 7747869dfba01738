-------------------------- MODULE EventLoopProofs --------------------------
(* Proofs about EventLoop for any threads, callbacks and eventfd width, and about
   EventLoopThread for any number of threads. *)
EXTENDS EventLoop, EventLoopThread, SequenceTheorems, TLAPS

(* The flag, the local vector and the loop's own call follow its program
   counter. *)
LoopShape ==
  /\ callingPendingFunctors <=> pc \in {"functors", "functor"}
  /\ functors # <<>> => pc \in {"functors", "functor"}
  /\ call[Loop] # "idle" => pc \in {"start", "handler", "functor"}
  /\ call[Loop] # "quitting"
  /\ pc = "start" /\ call[Loop] = "queued" => early

(* PendingSignalled, strengthened to hold at every point but those between the
   eventfd read and the swap: there the swap is still to come. *)
PendingCovered ==
  (pendingFunctors # <<>> /\ pc \notin {"events", "handler", "stopped"}) =>
     \/ wakeupFd > 0
     \/ \E t \in Threads : call[t] = "queued"
     \/ early
     \/ call[Loop] = "queued"

IInv == TypeOK /\ LoopShape /\ PendingCovered /\ QuitSignalled

(* The constructor leaves a well-typed loop. *)
LEMMA InitTypeOK == Init => TypeOK
<1> SUFFICES ASSUME Init PROVE TypeOK
  OBVIOUS
<1>1. <<>> \in Seq(Functors)
  BY EmptySeq
<1>2. 0 \in 0..EventfdMax
  BY EventfdAssumption
<1>3. call \in [AllThreads -> {"idle", "queued", "quitting"}]
  BY DEF Init
<1>4. QED BY <1>1, <1>2, <1>3 DEF Init, TypeOK, PCs

(* TypeOK is inductive: the eventfd's counter stays within its width. *)
THEOREM TypeCorrect == Spec => []TypeOK
<1>2. TypeOK /\ [Next]_vars => TypeOK'
  <2> SUFFICES ASSUME TypeOK, [Next]_vars PROVE TypeOK'
    OBVIOUS
  <2> USE EventfdAssumption DEF TypeOK, PCs, Channels, loopVars, taskVars
  <2>1. CASE EnterLoop BY <2>1 DEF EnterLoop
  <2>2. CASE TestQuit BY <2>2 DEF TestQuit
  <2>3. CASE HandleRead BY <2>3 DEF HandleRead
  <2>4. CASE HandleIo BY <2>4 DEF HandleIo
  <2>5. CASE ReturnHandler BY <2>5 DEF ReturnHandler
  <2>6. CASE SwapPending BY <2>6, EmptySeq DEF SwapPending
  <2>7. CASE CallFunctor BY <2>7 DEF CallFunctor
  <2>8. CASE ReturnFunctor BY <2>8 DEF ReturnFunctor
  <2>9. CASE EndPending BY <2>9 DEF EndPending
  <2>10. CASE PollSignalled BY <2>10 DEF PollSignalled, PollReturns
  <2>11. CASE PollOther BY <2>11 DEF PollOther, PollReturns
  <2>12. ASSUME NEW t \in AllThreads, QueueWake(t) PROVE TypeOK'
    BY <2>12 DEF QueueWake, Wakeup
  <2>13. ASSUME NEW t \in AllThreads, QuitStore(t) PROVE TypeOK'
    BY <2>13 DEF QuitStore
  <2>14. ASSUME NEW t \in AllThreads, QuitWake(t) PROVE TypeOK'
    BY <2>14 DEF QuitWake, Wakeup
  <2>15. ASSUME NEW t \in AllThreads, NEW f \in Functors, QueuePush(t, f)
         PROVE TypeOK'
    BY <2>15 DEF QueuePush
  <2>16. ASSUME NEW f \in Functors, RunInLoop(f) PROVE TypeOK'
    BY <2>16 DEF RunInLoop
  <2>17. CASE UNCHANGED vars BY <2>17 DEF vars
  <2>18. QED
    BY <2>1, <2>2, <2>3, <2>4, <2>5, <2>6, <2>7, <2>8, <2>9, <2>10, <2>11,
       <2>12, <2>13, <2>14, <2>15, <2>16, <2>17 DEF Next, LoopStep, Calls
<1>3. QED BY InitTypeOK, <1>2, PTL DEF Spec

(* The inductive invariant behind the theorems below. *)
LEMMA Inductive == Spec => []IInv
<1>1. Init => IInv
  <2>2. Init => LoopShape /\ PendingCovered /\ QuitSignalled
    BY DEF Init, LoopShape, PendingCovered, QuitSignalled, AllThreads
  <2>3. QED BY InitTypeOK, <2>2 DEF IInv
<1>2. TypeOK /\ TypeOK' /\ IInv /\ [Next]_vars => IInv'
  <2> SUFFICES ASSUME TypeOK, TypeOK', LoopShape, PendingCovered,
                      QuitSignalled, [Next]_vars
               PROVE  LoopShape' /\ PendingCovered' /\ QuitSignalled'
    BY DEF IInv
  <2> USE EventfdAssumption, LoopAssumption
      DEF TypeOK, LoopShape, PendingCovered, QuitSignalled,
          PCs, loopVars, taskVars, AllThreads, At, CanCall, isInLoopThread
  <2>1. CASE EnterLoop BY <2>1 DEF EnterLoop
  <2>2. CASE TestQuit BY <2>2 DEF TestQuit
  <2>3. CASE HandleRead BY <2>3 DEF HandleRead
  <2>4. CASE HandleIo BY <2>4 DEF HandleIo
  <2>5. CASE ReturnHandler BY <2>5 DEF ReturnHandler
  <2>6. CASE SwapPending BY <2>6 DEF SwapPending
  <2>7. CASE CallFunctor BY <2>7 DEF CallFunctor
  <2>8. CASE ReturnFunctor BY <2>8 DEF ReturnFunctor
  <2>9. CASE EndPending BY <2>9 DEF EndPending
  <2>10. CASE PollSignalled BY <2>10 DEF PollSignalled, PollReturns
  <2>11. CASE PollOther BY <2>11 DEF PollOther, PollReturns
  <2>12. ASSUME NEW t \in AllThreads, QueueWake(t)
         PROVE  LoopShape' /\ PendingCovered' /\ QuitSignalled'
    <3>1. CASE NeedsWakeup(t)
      <4>1. wakeupFd' > 0
        BY <2>12, <3>1 DEF QueueWake, Wakeup
      <4>2. QED BY <2>12, <4>1 DEF QueueWake
    <3>2. CASE ~NeedsWakeup(t)
      BY <2>12, <3>2 DEF QueueWake, NeedsWakeup
    <3>3. QED BY <3>1, <3>2
  <2>13. ASSUME NEW t \in AllThreads, QuitStore(t)
         PROVE  LoopShape' /\ PendingCovered' /\ QuitSignalled'
    BY <2>13 DEF QuitStore
  <2>14. ASSUME NEW t \in AllThreads, QuitWake(t)
         PROVE  LoopShape' /\ PendingCovered' /\ QuitSignalled'
    BY <2>14 DEF QuitWake, Wakeup
  <2>15. ASSUME NEW t \in AllThreads, NEW f \in Functors, QueuePush(t, f)
         PROVE  LoopShape' /\ PendingCovered' /\ QuitSignalled'
    BY <2>15 DEF QueuePush
  <2>16. ASSUME NEW f \in Functors, RunInLoop(f)
         PROVE  LoopShape' /\ PendingCovered' /\ QuitSignalled'
    BY <2>16 DEF RunInLoop
  <2>17. CASE UNCHANGED vars BY <2>17 DEF vars
  <2>18. QED
    BY <2>1, <2>2, <2>3, <2>4, <2>5, <2>6, <2>7, <2>8, <2>9, <2>10, <2>11,
       <2>12, <2>13, <2>14, <2>15, <2>16, <2>17 DEF Next, LoopStep, Calls
<1>3. QED BY <1>1, <1>2, TypeCorrect, PTL DEF Spec

(* queueInLoop and quit() never lose a wakeup: a loop about to block in
   epoll_wait with callbacks waiting or quit_ set is already signalled, or is
   about to be. *)
THEOREM NeverLosesWakeup == Spec => []NoLostWakeup
<1>1. IInv => NoLostWakeup
  BY DEF IInv, LoopShape, PendingCovered, PendingSignalled, NoLostWakeup
<1>2. QED BY <1>1, Inductive, PTL

(* The loop implements the FIFO executor: the swap of doPendingFunctors is
   invisible, every callback runs at most once and in queueing order. *)
THEOREM Refinement == Spec => ImplementsTaskQueue
<1>1. Init => Tasks!Init
  BY ConcatEmptySeq, EmptySeq DEF Init, Tasks!Init
<1>2. IInv /\ [Next]_vars => [Tasks!Next]_Tasks!vars
  <2> SUFFICES ASSUME TypeOK, LoopShape, [Next]_vars
               PROVE  [Tasks!Next]_Tasks!vars
    BY DEF IInv
  <2> USE DEF Tasks!vars, loopVars, taskVars
  <2>1. CASE EnterLoop BY <2>1 DEF EnterLoop
  <2>2. CASE TestQuit BY <2>2 DEF TestQuit
  <2>3. CASE HandleRead BY <2>3 DEF HandleRead
  <2>4. CASE HandleIo BY <2>4 DEF HandleIo
  <2>5. CASE ReturnHandler BY <2>5 DEF ReturnHandler
  <2>6. CASE SwapPending
    <3>1. functors = <<>>
      BY <2>6 DEF SwapPending, At, LoopShape
    <3>2. functors \o pendingFunctors = pendingFunctors
      BY <3>1, ConcatEmptySeq DEF TypeOK
    <3>3. (functors \o pendingFunctors)' = pendingFunctors
      BY <2>6, ConcatEmptySeq DEF SwapPending, TypeOK
    <3>4. QED BY <2>6, <3>2, <3>3 DEF SwapPending
  <2>7. CASE CallFunctor
    <3>1. /\ functors # <<>>
          /\ functors \in Seq(Functors) /\ pendingFunctors \in Seq(Functors)
          /\ functors' = Tail(functors) /\ pendingFunctors' = pendingFunctors
          /\ executed' = Append(executed, Head(functors)) /\ posted' = posted
      BY <2>7 DEF CallFunctor, TypeOK
    <3>2. /\ functors \o pendingFunctors # <<>>
          /\ Head(functors \o pendingFunctors) = Head(functors)
          /\ Tail(functors \o pendingFunctors) = Tail(functors) \o pendingFunctors
      BY <3>1
    <3>3. QED BY <3>1, <3>2 DEF Tasks!Next, Tasks!RunHead
  <2>8. CASE ReturnFunctor BY <2>8 DEF ReturnFunctor
  <2>9. CASE EndPending BY <2>9 DEF EndPending
  <2>10. CASE PollSignalled BY <2>10 DEF PollSignalled, PollReturns
  <2>11. CASE PollOther BY <2>11 DEF PollOther, PollReturns
  <2>12. ASSUME NEW t \in AllThreads, QueueWake(t) \/ QuitStore(t) \/ QuitWake(t)
         PROVE  [Tasks!Next]_Tasks!vars
    BY <2>12 DEF QueueWake, QuitStore, QuitWake
  <2>13. ASSUME NEW t \in AllThreads, NEW f \in Functors, QueuePush(t, f)
         PROVE  [Tasks!Next]_Tasks!vars
    <3>1. functors \o Append(pendingFunctors, f)
            = Append(functors \o pendingFunctors, f)
      BY DEF TypeOK
    <3>2. QED BY <2>13, <3>1 DEF QueuePush, Tasks!Next, Tasks!Post
  <2>14. ASSUME NEW f \in Functors, RunInLoop(f)
         PROVE  [Tasks!Next]_Tasks!vars
    BY <2>14 DEF RunInLoop, Tasks!Next, Tasks!RunNow
  <2>15. CASE UNCHANGED vars BY <2>15 DEF vars
  <2>16. QED
    BY <2>1, <2>2, <2>3, <2>4, <2>5, <2>6, <2>7, <2>8, <2>9, <2>10, <2>11,
       <2>12, <2>13, <2>14, <2>15 DEF Next, LoopStep, Calls
<1>3. QED
  BY <1>1, <1>2, Inductive, PTL DEF Spec, ImplementsTaskQueue, Tasks!Spec

-----------------------------------------------------------------------------
(* The pool of loops, for any number of threads. *)

(* A thread in its loop that nobody has asked to quit. *)
Looping(t) == child[t] \in {"enter", "while", "poll"} /\ ~quits[t]

(* loop_ and the local EventLoop follow the position in threadFunc, and a thread
   is past its loop only because it saw quit_. *)
ChildShape ==
  \A t \in T :
    /\ loops[t] <=> child[t] \in {"enter", "while", "poll", "unpublish"}
    /\ alive[t] <=> child[t] \in {"publish", "enter", "while", "poll", "unpublish",
                                  "destruct"}
    /\ child[t] \in {"unpublish", "destruct", "ended"} => quits[t]

(* start() has brought up the threads before cur, and the one it works on is as far
   as the semaphore tells. *)
Starting ==
  /\ main \in {"start", "sem", "cond"} =>
       \A t \in T : /\ ~quits[t]
                    /\ t < cur => Looping(t)
                    /\ t > cur => child[t] = "none"
  /\ main = "start" => child[cur] = "none" /\ sem = 0
  /\ main = "sem" => /\ child[cur] # "none"
                     /\ sem = 0 <=> child[cur] = "post"
  /\ main = "cond" => child[cur] \notin {"none", "post"} /\ sem = 0
  /\ main = "running" => cur = 1 /\ \A t \in T : Looping(t)

(* The destructor has ended the threads before cur; those after it loop. *)
Ending ==
  /\ main \in {"dtor", "quit", "wakeup", "join"} =>
       \A t \in T : /\ t < cur => child[t] = "ended"
                    /\ t > cur => Looping(t)
  /\ main \in {"dtor", "quit"} => Looping(cur)
  /\ main \in {"wakeup", "join"} =>
       child[cur] \in {"enter", "while", "poll", "unpublish", "destruct", "ended"}
  /\ main = "destroyed" => \A t \in T : child[t] = "ended"

PoolIInv == PoolTypeOK /\ ChildShape /\ Starting /\ Ending

LEMMA InitPoolIInv == ASSUME PoolInit PROVE PoolIInv
BY ThreadAssumption DEF PoolInit, PoolIInv, PoolTypeOK, ChildShape, Starting, Ending, Looping, T

(* The owner's steps keep the invariant: each moves cur or main on. *)
LEMMA OwnerStep ==
  ASSUME PoolIInv, Owner \/ Destroy PROVE PoolIInv'
<1> USE ThreadAssumption DEF PoolIInv, PoolTypeOK, ChildShape, Starting, Ending, Looping,
            T, shared
<1>1. CASE Start BY <1>1 DEF Start
<1>2. CASE SemWait BY <1>2 DEF SemWait
<1>3. CASE LoopReturned BY <1>3 DEF LoopReturned, LoopPublished
<1>4. CASE Destroy BY <1>4 DEF Destroy
<1>5. CASE DestroyTest BY <1>5 DEF DestroyTest
<1>6. CASE DestroyQuit BY <1>6 DEF DestroyQuit, StoreQuit
<1>7. CASE DestroyWakeup BY <1>7 DEF DestroyWakeup
<1>8. CASE JoinReturns
  <2>1. main = "join" /\ child[cur] = "ended" /\ UNCHANGED <<child, sem, shared>>
    BY <1>8 DEF JoinReturns, ThreadEnded
  <2>2. CASE cur < NumThreads
    <3>1. main' = "dtor" /\ cur' = cur + 1
      BY <1>8, <2>2 DEF JoinReturns, DestroyNext
    <3>2. \A t \in T : t < cur + 1 => child[t] = "ended"
      BY <2>1
    <3>3. QED BY <2>1, <2>2, <3>1, <3>2
  <2>3. CASE ~(cur < NumThreads)
    <3>1. main' = "destroyed" /\ cur' = cur
      BY <1>8, <2>3 DEF JoinReturns, DestroyNext
    <3>2. \A t \in T : child[t] = "ended"
      BY <2>1, <2>3
    <3>3. QED BY <2>1, <3>1, <3>2
  <2>4. QED BY <2>2, <2>3
<1>9. QED BY <1>1, <1>2, <1>3, <1>4, <1>5, <1>6, <1>7, <1>8 DEF Owner

(* So does each step of a new thread. *)
LEMMA ThreadFuncStep ==
  ASSUME PoolIInv, NEW t \in T, threadFunc(t) PROVE PoolIInv'
<1> USE ThreadAssumption DEF PoolIInv, PoolTypeOK, ChildShape, Starting, Ending, Looping,
            T, shared, Goto
<1>1. CASE SemPost(t)
  <2>1. child[t] = "post" /\ child' = [child EXCEPT ![t] = "construct"]
    BY <1>1 DEF SemPost
  <2>2. main = "sem" /\ cur = t /\ sem = 0
    BY <2>1
  <2>3. /\ sem' = 1
        /\ UNCHANGED <<main, cur, loops, alive, quits, wakeupFds>>
    BY <1>1, <2>2 DEF SemPost
  <2>4. QED BY <2>1, <2>2, <2>3
<1>2. CASE Construct(t) BY <1>2 DEF Construct
<1>3. CASE Publish(t) BY <1>3 DEF Publish
<1>4. CASE EnterThreadLoop(t) BY <1>4 DEF EnterThreadLoop
<1>5. CASE While(t) BY <1>5 DEF While
<1>6. CASE Poll(t) BY <1>6 DEF Poll
<1>7. CASE Unpublish(t) BY <1>7 DEF Unpublish
<1>8. CASE Destruct(t)
  <2>1. /\ child[t] = "destruct" /\ child' = [child EXCEPT ![t] = "ended"]
        /\ alive' = [alive EXCEPT ![t] = FALSE]
        /\ UNCHANGED <<main, cur, sem, loops, quits, wakeupFds>>
    BY <1>8 DEF Destruct
  <2>2. quits[t] /\ main \notin {"start", "sem", "cond", "running"}
    BY <2>1
  <2>3. PoolTypeOK' /\ ChildShape'
    BY <2>1, <2>2
  <2>4. Starting'
    BY <2>1, <2>2
  <2>5. Ending'
    BY <2>1, <2>2
  <2>6. QED BY <2>3, <2>4, <2>5
<1>9. QED BY <1>1, <1>2, <1>3, <1>4, <1>5, <1>6, <1>7, <1>8 DEF threadFunc

(* loop_ never points to a destroyed loop, startLoop's results can be used until
   the destructor runs, quit() stores to a live loop, and the destructor ends with
   every thread ended. *)
THEOREM AlwaysAlive == PoolSpec => []LoopsAlive
<1>1. PoolIInv /\ [PoolNext]_poolVars => PoolIInv'
  <2> SUFFICES ASSUME PoolIInv, [PoolNext]_poolVars PROVE PoolIInv'
    OBVIOUS
  <2>1. CASE UNCHANGED poolVars
    BY <2>1 DEF poolVars, shared, PoolIInv, PoolTypeOK, ChildShape, Starting,
                Ending, Looping
  <2>2. QED BY <2>1, OwnerStep, ThreadFuncStep DEF PoolNext
<1>2. PoolIInv => LoopsAlive
  BY ThreadAssumption DEF PoolIInv, PoolTypeOK, ChildShape, Starting, Ending, Looping,
         LoopsAlive, T
<1>3. QED BY <1>1, <1>2, InitPoolIInv, PTL DEF PoolSpec
=============================================================================

-------------------------- MODULE EventLoopThread --------------------------
(***************************************************************************)
(* The threads of an EventLoopThreadPool.  The pool's owner starts them one  *)
(* after the other: each constructs an EventLoop on its stack, publishes its *)
(* address and loops.  The owner's destructor asks each loop to quit and     *)
(* joins its thread.  Each access to what two threads share (loop_, quit_,   *)
(* the eventfd) is a step.                                                   *)
(*                                                                           *)
(* Nothing but ~EventLoopThread calls quit() on these loops.                 *)
(***************************************************************************)
EXTENDS Integers

CONSTANT NumThreads         \* numThreads_

ASSUME ThreadAssumption == NumThreads \in Nat \ {0}

T == 1..NumThreads

VARIABLES main,     \* where the owner of the pool is
          cur,      \* the EventLoopThread it starts or destroys
          child,    \* where each threadFunc is
          sem,      \* the semaphore of Thread::start
          loops,    \* loop_ # nullptr
          alive,    \* threadFunc's local EventLoop exists
          quits,    \* its quit_
          wakeupFds \* its eventfd is readable

shared == <<loops, alive, quits, wakeupFds>>
poolVars == <<main, cur, child, sem, shared>>

PoolTypeOK ==
  /\ main \in {"start", "sem", "cond", "running", "dtor", "quit", "wakeup", "join",
               "destroyed"}
  /\ cur \in T
  /\ child \in [T -> {"none", "post", "construct", "publish", "enter", "while",
                      "poll", "unpublish", "destruct", "ended"}]
  /\ sem \in 0..1
  /\ {loops, alive, quits, wakeupFds} \subseteq [T -> BOOLEAN]

PoolInit ==
  /\ main = "start" /\ cur = 1
  /\ child = [t \in T |-> "none"]
  /\ sem = 0
  /\ loops = [t \in T |-> FALSE] /\ alive = [t \in T |-> FALSE]
  /\ quits = [t \in T |-> FALSE] /\ wakeupFds = [t \in T |-> FALSE]

-----------------------------------------------------------------------------
(* EventLoopThreadPool::start and EventLoopThread::startLoop *)

Start ==
  /\ main = "start"
  /\ main' = "sem"
  /\ child' = [child EXCEPT ![cur] = "post"]
  /\ UNCHANGED <<cur, sem, shared>>

SemWait ==
  /\ main = "sem" /\ sem > 0
  /\ sem' = sem - 1
  /\ main' = "cond"
  /\ UNCHANGED <<cur, child, shared>>

(* while (loop_ == nullptr) cond_.wait(lock) *)
LoopPublished == loops[cur]

LoopReturned ==
  /\ main = "cond" /\ LoopPublished
  /\ IF cur < NumThreads THEN main' = "start" /\ cur' = cur + 1
                         ELSE main' = "running" /\ cur' = 1
  /\ UNCHANGED <<child, sem, shared>>

-----------------------------------------------------------------------------
(* The destructors, in the order of the vector *)

Destroy ==
  /\ main = "running"
  /\ main' = "dtor"
  /\ UNCHANGED <<cur, child, sem, shared>>

DestroyNext ==
  IF cur < NumThreads THEN main' = "dtor" /\ cur' = cur + 1
                      ELSE main' = "destroyed" /\ UNCHANGED cur

(* if (loop_ != nullptr); a thread that is not joined is detached. *)
DestroyTest ==
  /\ main = "dtor"
  /\ IF loops[cur] THEN main' = "quit" /\ UNCHANGED cur ELSE DestroyNext
  /\ UNCHANGED <<child, sem, shared>>

(* EventLoop::quit() by another thread: the store, then the wakeup. *)
StoreQuitSkip ==                                                  \* mutant
  UNCHANGED quits
StoreQuit == quits' = [quits EXCEPT ![cur] = TRUE]

DestroyQuit ==
  /\ main = "quit"
  /\ StoreQuit
  /\ main' = "wakeup"
  /\ UNCHANGED <<cur, child, sem, loops, alive, wakeupFds>>

DestroyWakeup ==
  /\ main = "wakeup"
  /\ wakeupFds' = [wakeupFds EXCEPT ![cur] = TRUE]
  /\ main' = "join"
  /\ UNCHANGED <<cur, child, sem, loops, alive, quits>>

ThreadEnded == child[cur] = "ended"

JoinReturns ==
  /\ main = "join" /\ ThreadEnded
  /\ DestroyNext
  /\ UNCHANGED <<child, sem, shared>>

-----------------------------------------------------------------------------
(* threadFunc of thread t *)

Goto(t, from, to) == child[t] = from /\ child' = [child EXCEPT ![t] = to]

SemPost(t) ==
  /\ Goto(t, "post", "construct")
  /\ sem' = sem + 1
  /\ UNCHANGED <<main, cur, shared>>

(* EventLoop loop, and callback_ *)
Construct(t) ==
  /\ Goto(t, "construct", "publish")
  /\ alive' = [alive EXCEPT ![t] = TRUE]
  /\ UNCHANGED <<main, cur, sem, loops, quits, wakeupFds>>

PublishMissing(t) ==                                              \* mutant
  /\ Goto(t, "publish", "enter")
  /\ UNCHANGED <<main, cur, sem, shared>>
Publish(t) ==
  /\ Goto(t, "publish", "enter")
  /\ loops' = [loops EXCEPT ![t] = TRUE]
  /\ UNCHANGED <<main, cur, sem, alive, quits, wakeupFds>>

(* loop() begins with quit_ = false. *)
EnterThreadLoop(t) ==
  /\ Goto(t, "enter", "while")
  /\ quits' = [quits EXCEPT ![t] = FALSE]
  /\ UNCHANGED <<main, cur, sem, loops, alive, wakeupFds>>

While(t) ==
  /\ Goto(t, "while", IF quits[t] THEN "unpublish" ELSE "poll")
  /\ UNCHANGED <<main, cur, sem, shared>>

(* epoll_wait returns for the eventfd, for another event or after 10 seconds. *)
Poll(t) ==
  /\ Goto(t, "poll", "while")
  /\ wakeupFds' = [wakeupFds EXCEPT ![t] = FALSE]
  /\ UNCHANGED <<main, cur, sem, loops, alive, quits>>

UnpublishLate(t) ==                                               \* mutant
  /\ Goto(t, "unpublish", "destruct")
  /\ UNCHANGED <<main, cur, sem, shared>>
Unpublish(t) ==
  /\ Goto(t, "unpublish", "destruct")
  /\ loops' = [loops EXCEPT ![t] = FALSE]
  /\ UNCHANGED <<main, cur, sem, alive, quits, wakeupFds>>

(* The end of threadFunc destroys its local EventLoop. *)
Destruct(t) ==
  /\ Goto(t, "destruct", "ended")
  /\ alive' = [alive EXCEPT ![t] = FALSE]
  /\ UNCHANGED <<main, cur, sem, loops, quits, wakeupFds>>

-----------------------------------------------------------------------------
Owner == Start \/ SemWait \/ LoopReturned \/ DestroyTest \/ DestroyQuit
         \/ DestroyWakeup \/ JoinReturns

threadFunc(t) == SemPost(t) \/ Construct(t) \/ Publish(t) \/ EnterThreadLoop(t)
                 \/ While(t) \/ Poll(t) \/ Unpublish(t) \/ Destruct(t)

PoolNext == Owner \/ Destroy \/ \E t \in T : threadFunc(t)

PoolSpec == PoolInit /\ [][PoolNext]_poolVars

(* All threads are scheduled; that the pool is ever destroyed is not assumed. *)
PoolFairSpec ==
  PoolSpec /\ WF_poolVars(Owner) /\ \A t \in T : WF_poolVars(threadFunc(t))

-----------------------------------------------------------------------------
(* loop_ never points to a destroyed EventLoop, the addresses startLoop returned
   can be used until the destructor runs, and when the destructor is over every
   thread has ended, although it reads loop_ without the lock.  quit() stores to a
   loop that lives; its wakeup comes after the loop's end only when that store was
   what ended it. *)
LoopsAlive ==
  /\ PoolTypeOK
  /\ \A t \in T : loops[t] => alive[t]
  /\ main = "running" => \A t \in T : loops[t]
  /\ main = "quit" => alive[cur]
  /\ main = "wakeup" => alive[cur] \/ quits[cur]
  /\ main = "destroyed" => \A t \in T : child[t] = "ended"

(* startLoop of every thread returns.  A destructor that begins when every loop has
   been entered returns, because each loop it asks to quit does. *)
Entered(t) == child[t] \in {"while", "poll", "unpublish", "destruct", "ended"}
PoolStartsAndEnds ==
  /\ main = "start" ~> main = "running"
  /\ (main = "dtor" /\ \A t \in T : Entered(t)) ~> main = "destroyed"

(* The destructor returns: the thread that is asked to quit quits in its next
   round.  It need not: EventLoop::loop stores quit_ = false over a quit() that
   came after startLoop returned and before loop() was entered. *)
DestructorReturns == main = "dtor" ~> main = "destroyed"
=============================================================================

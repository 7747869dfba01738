----------------------------- MODULE EventLoop -----------------------------
(***************************************************************************)
(* One EventLoop: the loop thread that runs EventLoop::loop() and the other  *)
(* threads that call queueInLoop, runInLoop and quit on it.                  *)
(*                                                                           *)
(* The mutex-protected push and the wakeup() that follows it are two steps,  *)
(* and so are the store to quit_ and its wakeup(): every interleaving of     *)
(* these with epoll_wait, the eventfd read and the swap of the queue is a    *)
(* behaviour.  callingPendingFunctors_ is read by the loop thread only       *)
(* (another thread takes the first disjunct), so setting it and swapping the *)
(* queue are one step.                                                       *)
(***************************************************************************)
EXTENDS Integers, Sequences, Functions

CONSTANTS Threads,          \* threads other than the loop's that call it
          Loop,             \* the thread that constructed the EventLoop
          Functors,         \* identities of the callbacks, each given once
          EventfdMax        \* largest value the eventfd's counter can hold

ASSUME LoopAssumption == Loop \notin Threads
ASSUME EventfdAssumption == EventfdMax \in Nat \ {0}

VARIABLES
  pc,                       \* where the loop thread is
  call,                     \* per thread: the rest of a call in progress
  quit,                     \* quit_
  callingPendingFunctors,   \* callingPendingFunctors_
  pendingFunctors,          \* pendingFuntors_
  functors,                 \* what is left of doPendingFunctors' local vector
  wakeupFd,                 \* the counter of the eventfd
  activeChannels,           \* activeChannels_ not handled yet
  posted,                   \* history: callbacks given to the loop
  executed,                 \* history: callbacks started, in order
  early                     \* history: a callback the loop thread queued
                            \* before loop() is still waiting

loopVars  == <<pc, functors, activeChannels, callingPendingFunctors>>
taskVars  == <<pendingFunctors, posted, early>>
vars == <<pc, call, quit, callingPendingFunctors, pendingFunctors, functors,
          wakeupFd, activeChannels, posted, executed, early>>

AllThreads == Threads \cup {Loop}

(* "io" stands for every channel but the wakeup channel. *)
Channels == {"wakeup", "io"}

PCs == {"start", "while", "poll", "events", "handler",
        "functors", "functor", "stopped"}

TypeOK ==
  /\ pc \in PCs
  /\ call \in [AllThreads -> {"idle", "queued", "quitting"}]
  /\ quit \in BOOLEAN
  /\ callingPendingFunctors \in BOOLEAN
  /\ pendingFunctors \in Seq(Functors)
  /\ functors \in Seq(Functors)
  /\ wakeupFd \in 0..EventfdMax
  /\ activeChannels \subseteq Channels
  /\ posted \subseteq Functors
  /\ executed \in Seq(Functors)
  /\ early \in BOOLEAN

Init ==
  /\ pc = "start"
  /\ call = [t \in AllThreads |-> "idle"]
  /\ quit = FALSE
  /\ callingPendingFunctors = FALSE
  /\ pendingFunctors = <<>>
  /\ functors = <<>>
  /\ wakeupFd = 0
  /\ activeChannels = {}
  /\ posted = {}
  /\ executed = <<>>
  /\ early = FALSE

-----------------------------------------------------------------------------
(* Calls on the loop *)

(* The loop thread makes a call before loop(), in a channel's callback or in
   a functor; any other thread at any time. *)
CanCall(t) ==
  /\ call[t] = "idle"
  /\ t = Loop => pc \in {"start", "handler", "functor"}

isInLoopThread(t) == t = Loop

(* wakeup(): a non-blocking write of 1; a full counter refuses it and the error
   is only logged. *)
Wakeup == wakeupFd' = IF wakeupFd < EventfdMax THEN wakeupFd + 1 ELSE wakeupFd

(* The test of queueInLoop. *)
NeedsWakeupOtherThreads(t) == ~isInLoopThread(t)                  \* mutant

NeedsWakeup(t) == ~isInLoopThread(t) \/ callingPendingFunctors

(* queueInLoop, the push under mutex_. *)
QueuePush(t, f) ==
  /\ CanCall(t)
  /\ f \notin posted
  /\ pendingFunctors' = Append(pendingFunctors, f)
  /\ posted' = posted \cup {f}
  /\ call' = [call EXCEPT ![t] = "queued"]
  /\ early' = (early \/ (pc = "start" /\ isInLoopThread(t)))
  /\ UNCHANGED <<loopVars, quit, wakeupFd, executed>>

(* queueInLoop, the test after the push and the wakeup(). *)
QueueWake(t) ==
  /\ call[t] = "queued"
  /\ call' = [call EXCEPT ![t] = "idle"]
  /\ IF NeedsWakeup(t) THEN Wakeup ELSE UNCHANGED wakeupFd
  /\ UNCHANGED <<loopVars, taskVars, quit, executed>>

(* runInLoop by the loop thread; by any other thread it is queueInLoop. *)
RunInLoop(f) ==
  /\ CanCall(Loop)
  /\ f \notin posted
  /\ posted' = posted \cup {f}
  /\ executed' = Append(executed, f)
  /\ UNCHANGED <<loopVars, call, quit, wakeupFd, pendingFunctors, early>>

(* quit(): the store to quit_, and the wakeup() of a thread that is not the
   loop's. *)
QuitStore(t) ==
  /\ CanCall(t)
  /\ quit' = TRUE
  /\ call' = IF isInLoopThread(t) THEN call ELSE [call EXCEPT ![t] = "quitting"]
  /\ UNCHANGED <<loopVars, taskVars, wakeupFd, executed>>

QuitWake(t) ==
  /\ call[t] = "quitting"
  /\ call' = [call EXCEPT ![t] = "idle"]
  /\ Wakeup
  /\ UNCHANGED <<loopVars, taskVars, quit, executed>>

-----------------------------------------------------------------------------
(* The loop thread.  It goes on only when the call it makes itself is over. *)

At(l) == pc = l /\ call[Loop] = "idle"

(* loop() stores FALSE to quit_ before its first test. *)
EnterLoop ==
  /\ At("start")
  /\ quit' = FALSE
  /\ pc' = "while"
  /\ UNCHANGED <<call, functors, activeChannels, callingPendingFunctors,
                 taskVars, wakeupFd, executed>>

TestQuit ==
  /\ At("while")
  /\ pc' = IF quit THEN "stopped" ELSE "poll"
  /\ activeChannels' = {}
  /\ UNCHANGED <<call, quit, functors, callingPendingFunctors, taskVars,
                 wakeupFd, executed>>

(* epoll_wait returns.  The wakeup channel is reported only while the counter
   is positive; it may be left out of a full event list, or out of the empty
   result of an interrupted call. *)
PollReturns(ready) ==
  /\ At("poll")
  /\ activeChannels' = ready
  /\ pc' = "events"
  /\ UNCHANGED <<call, quit, functors, callingPendingFunctors, taskVars,
                 wakeupFd, executed>>

PollSignalled == wakeupFd > 0 /\ \E ready \in SUBSET Channels : PollReturns(ready)

(* An event on another channel, or the timeout kPollTimems. *)
PollOther == wakeupFd = 0 /\ \E ready \in SUBSET {"io"} : PollReturns(ready)

(* EventLoop::handleRead as the wakeup channel's callback. *)
HandleRead ==
  /\ At("events")
  /\ "wakeup" \in activeChannels
  /\ activeChannels' = activeChannels \ {"wakeup"}
  /\ wakeupFd' = 0
  /\ UNCHANGED <<pc, call, quit, functors, callingPendingFunctors, taskVars,
                 executed>>

(* Another channel's handleEvent calls into user code, and returns. *)
HandleIo ==
  /\ At("events")
  /\ "io" \in activeChannels
  /\ activeChannels' = activeChannels \ {"io"}
  /\ pc' = "handler"
  /\ UNCHANGED <<call, quit, functors, callingPendingFunctors, taskVars,
                 wakeupFd, executed>>

ReturnHandler ==
  /\ At("handler")
  /\ pc' = "events"
  /\ UNCHANGED <<call, quit, functors, activeChannels, callingPendingFunctors,
                 taskVars, wakeupFd, executed>>

(* doPendingFunctors: the flag and the swap. *)
CopyPending ==                                                    \* mutant
  /\ At("events")
  /\ activeChannels = {}
  /\ callingPendingFunctors' = TRUE
  /\ functors' = pendingFunctors
  /\ pc' = "functors"
  /\ UNCHANGED <<call, quit, activeChannels, taskVars, wakeupFd, executed>>

SwapPendingIfDrained ==                                           \* mutant
  /\ At("events")
  /\ activeChannels = {}
  /\ \/ /\ wakeupFd > 0
        /\ pc' = "while"
        /\ UNCHANGED <<functors, callingPendingFunctors, pendingFunctors, early>>
     \/ /\ wakeupFd = 0
        /\ callingPendingFunctors' = TRUE
        /\ functors' = pendingFunctors
        /\ pendingFunctors' = <<>>
        /\ early' = FALSE
        /\ pc' = "functors"
  /\ UNCHANGED <<call, quit, activeChannels, posted, wakeupFd, executed>>

SwapPending ==
  /\ At("events")
  /\ activeChannels = {}
  /\ callingPendingFunctors' = TRUE
  /\ functors' = pendingFunctors
  /\ pendingFunctors' = <<>>
  /\ early' = FALSE
  /\ pc' = "functors"
  /\ UNCHANGED <<call, quit, activeChannels, posted, wakeupFd, executed>>

CallFunctor ==
  /\ At("functors")
  /\ functors # <<>>
  /\ executed' = Append(executed, Head(functors))
  /\ functors' = Tail(functors)
  /\ pc' = "functor"
  /\ UNCHANGED <<call, quit, activeChannels, callingPendingFunctors, taskVars,
                 wakeupFd>>

ReturnFunctor ==
  /\ At("functor")
  /\ pc' = "functors"
  /\ UNCHANGED <<call, quit, functors, activeChannels, callingPendingFunctors,
                 taskVars, wakeupFd, executed>>

EndPendingClearsQuit ==                                           \* mutant
  /\ At("functors")
  /\ functors = <<>>
  /\ callingPendingFunctors' = FALSE
  /\ quit' = FALSE
  /\ pc' = "while"
  /\ UNCHANGED <<call, functors, activeChannels, taskVars, wakeupFd, executed>>

EndPending ==
  /\ At("functors")
  /\ functors = <<>>
  /\ callingPendingFunctors' = FALSE
  /\ pc' = "while"
  /\ UNCHANGED <<call, quit, functors, activeChannels, taskVars, wakeupFd,
                 executed>>

-----------------------------------------------------------------------------
LoopStep ==
  \/ EnterLoop \/ TestQuit \/ HandleRead \/ HandleIo \/ ReturnHandler
  \/ SwapPending \/ CallFunctor \/ ReturnFunctor \/ EndPending

Calls ==
  \/ \E t \in AllThreads : QueueWake(t) \/ QuitStore(t) \/ QuitWake(t)
  \/ \E t \in AllThreads, f \in Functors : QueuePush(t, f)
  \/ \E f \in Functors : RunInLoop(f)

Next == LoopStep \/ PollSignalled \/ PollOther \/ Calls

Spec == Init /\ [][Next]_vars

(* The loop thread is scheduled and the callbacks it runs return; a call that
   has begun ends; epoll_wait returns when the eventfd is readable.  Nothing is
   assumed of the 10 s timeout or of other channels: a wakeup that is missed
   must show. *)
Fairness ==
  /\ WF_vars(LoopStep)
  /\ WF_vars(PollSignalled)
  /\ \A t \in AllThreads : WF_vars(QueueWake(t) \/ QuitWake(t))

FairSpec == Spec /\ Fairness

-----------------------------------------------------------------------------
PendingSignalled ==
  (pc \in {"while", "poll"} /\ pendingFunctors # <<>>) =>
     \/ wakeupFd > 0
     \/ \E t \in Threads : call[t] = "queued"
     \/ early

QuitSignalled ==
  (pc = "poll" /\ quit) =>
     wakeupFd > 0 \/ \E t \in Threads : call[t] = "quitting"

(* A loop that is about to block, or is blocked, in epoll_wait while callbacks
   wait or quit_ is set is woken without the timeout: the eventfd is readable,
   or a thread has pushed, or stored to quit_, and not yet written it.  The
   exception is a callback the loop thread queued before it called loop():
   queueInLoop does not wake the loop then. *)
NoLostWakeup == PendingSignalled /\ QuitSignalled

(* The loop is a FIFO executor: swapped and pending callbacks, in that order,
   are the abstract queue. *)
Tasks == INSTANCE TaskQueue WITH queue <- functors \o pendingFunctors,
                                 ran <- executed
ImplementsTaskQueue == Tasks!Spec

(* A callback given to the loop runs unless the loop stops, and not because the
   poll timed out. *)
QueuedRuns ==
  \A f \in Functors :
     (f \in posted) ~> (f \in Range(executed) \/ pc = "stopped" \/ early)

(* quit() called on a running loop, by any thread, ends it. *)
QuitStops == (quit /\ pc # "start") ~> (pc = "stopped")
=============================================================================

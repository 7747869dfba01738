--------------------------- MODULE TcpConnection ---------------------------
(***************************************************************************)
(* The data path of one TcpConnection: send and shutdown by the callbacks    *)
(* that run on its loop and by other threads, the output buffer in front of  *)
(* a kernel buffer that fills up, the channel's events, and closing.         *)
(*                                                                           *)
(* A byte is a pair <<message, position>>, so that reordering, loss and      *)
(* duplication show.  send and shutdown test state_ and act on it later when *)
(* another thread calls them: the test and the push are two steps.  What they *)
(* push is bound to the bare this, so the module also keeps who owns the     *)
(* connection: the server's map, the user threads with a TcpConnectionPtr,   *)
(* and the functors and callbacks that hold one.                             *)
(***************************************************************************)
EXTENDS Integers, Sequences

CONSTANTS Users,            \* threads other than the loop's
          NumMsgs,          \* bound: messages sent in all
          MsgLen,           \* bytes in a message
          SndBuf,           \* room in the kernel's send buffer
          HighWaterMark     \* highWaterMark_

ASSUME SizesAssumption ==
  /\ NumMsgs \in Nat /\ MsgLen \in Nat \ {0}
  /\ SndBuf \in Nat \ {0} /\ HighWaterMark \in Nat \ {0}

VARIABLES
  state,        \* state_
  reading,      \* the channel's interest in EPOLLIN
  writing,      \* and in EPOLLOUT
  registered,   \* the channel is in epoll's interest list
  out,          \* outputBuffer_
  phase,        \* where the loop's thread is in loop()
  revents,      \* events of the channel still to be handled in this iteration
  left,         \* functors left in the batch of doPendingFunctors
  callback,     \* the loop is in user code called by the connection
  pending,      \* functors queued on the loop that are bound to this connection
  call,         \* per user thread, the rest of a call whose test succeeded
  unread,       \* bytes to read
  peer,         \* the remote end
  room,         \* room left in the send buffer
  fin,          \* shutdown(SHUT_WR) was called
  serving,      \* the server was not destructed
  inMap,        \* the server's map holds the connection
  closes,       \* calls of removeConnectionInLoop queued on the base loop
  held,         \* user threads that hold a TcpConnectionPtr
  kept,         \* a functor of the running batch holds one
  sent,         \* history: messages given to send so far
  accepted,     \* history: bytes that sendInLoop took, in order
  wire,         \* history: bytes written to the socket, in order
  hwCalls,      \* history: high-water callbacks since the buffer was last below
                \* the mark
  touched,      \* history: what ran on the connection after its destructor
  lapses        \* history: the ways in which another thread's call outlived
                \* its caller's pointer

chanVars == <<reading, writing, registered>>
ownVars == <<serving, inMap, closes, held, kept, touched, lapses>>
loopVars == <<phase, revents, left>>
userVars == <<call, sent>>
netVars == <<unread, peer>>
dataVars == <<out, room, accepted, wire, hwCalls>>
vars == <<state, chanVars, loopVars, out, callback, pending, userVars, netVars, room, fin,
          ownVars, accepted, wire, hwCalls>>

Msgs == 1..NumMsgs
Bytes == Msgs \X (1..MsgLen)
Data(m) == [i \in 1..MsgLen |-> <<m, i>>]
Bind(op) == [op |-> op, msg |-> 0]
BindSend(m) == [op |-> "sendInLoop", msg |-> m]
Functor ==
  {Bind(op) : op \in {"shutdownInLoop", "writeComplete", "highWaterMark",
                      "connectDestroyed"}} \cup {BindSend(m) : m \in Msgs}
Call ==
  {[op |-> op, msg |-> 0] : op \in {"idle", "shutdown", "shutdownPush"}} \cup
  {[op |-> "send", msg |-> m] : m \in Msgs}

TypeOK ==
  /\ state \in {"kConnected", "kDisconnecting", "kDisconnected"}
  /\ reading \in BOOLEAN /\ writing \in BOOLEAN /\ registered \in BOOLEAN
  /\ out \in Seq(Bytes)
  /\ phase \in {"poll", "events", "handle", "functors"}
  /\ revents \subseteq {"hup", "in", "out"}
  /\ left \in 0..Len(pending)
  /\ callback \in BOOLEAN
  /\ pending \in Seq(Functor)
  /\ call \in [Users -> Call]
  /\ unread \in BOOLEAN
  /\ peer \in {"open", "closed", "reset", "dead"}
  /\ room \in 0..SndBuf
  /\ fin \in BOOLEAN
  /\ serving \in BOOLEAN /\ inMap \in BOOLEAN /\ closes \in Nat
  /\ held \subseteq Users /\ kept \in BOOLEAN
  /\ touched \subseteq {"sendInLoop", "shutdownInLoop", "writeComplete",
                       "highWaterMark", "connectDestroyed", "handleEvent"}
  /\ lapses \subseteq {"released", "revived"}
  /\ sent \in 0..NumMsgs
  /\ accepted \in Seq(Bytes)
  /\ wire \in Seq(Bytes)
  /\ hwCalls \in Nat

Idle == [op |-> "idle", msg |-> 0]

(* connectEstablished has just called the connection callback. *)
Init ==
  /\ state = "kConnected"
  /\ reading = TRUE /\ writing = FALSE /\ registered = TRUE
  /\ out = <<>>
  /\ phase = "functors" /\ revents = {} /\ left = 0
  /\ callback = TRUE
  /\ pending = <<>>
  /\ call = [u \in Users |-> Idle]
  /\ unread = FALSE
  /\ peer = "open"
  /\ room = SndBuf
  /\ fin = FALSE
  /\ serving = TRUE /\ inMap = TRUE /\ closes = 0
  /\ held = Users /\ kept = FALSE
  /\ touched = {} /\ lapses = {}
  /\ sent = 0
  /\ accepted = <<>>
  /\ wire = <<>>
  /\ hwCalls = 0

-----------------------------------------------------------------------------
(* Who owns the connection.  The functors of the connection's own callbacks are
   bound to shared_from_this(), those of send and shutdown to this. *)

KeepsCallbacks(f) == f.op \in {"writeComplete", "highWaterMark"}   \* mutant
Keeps(f) == f.op \in {"writeComplete", "highWaterMark", "connectDestroyed"}

Alive ==
  \/ inMap \/ closes > 0 \/ held # {} \/ kept
  \/ callback \/ phase = "handle"             \* the guard in handleEvent
  \/ \E i \in DOMAIN pending : Keeps(pending[i])

Closed == ~inMap \/ closes > 0

-----------------------------------------------------------------------------
(* The peer and the kernel *)

PeerSends ==
  /\ Alive /\ peer = "open"
  /\ unread' = TRUE
  /\ UNCHANGED <<state, chanVars, loopVars, callback, pending, userVars, peer,
                 dataVars, fin, ownVars>>

(* The peer reads one byte out of the send buffer. *)
PeerReads ==
  /\ Alive /\ peer = "open"
  /\ room < SndBuf
  /\ room' = room + 1
  /\ UNCHANGED <<state, chanVars, loopVars, callback, pending, userVars, netVars,
                 out, accepted, wire, hwCalls, fin, ownVars>>

(* A reset is an error for the first call that sees it ("reset"), after that
   the stream has ended ("dead"). *)
PeerCloses ==
  /\ Alive /\ peer = "open"
  /\ \/ peer' = "closed" /\ UNCHANGED unread
     \/ peer' = "reset" /\ unread' = FALSE
  /\ UNCHANGED <<state, chanVars, loopVars, callback, pending, userVars, dataVars,
                 fin, ownVars>>

(* A write to a socket that was shut down or reset is a fault (EPIPE,
   ECONNRESET).  Otherwise it takes some bytes, up to the room there is, or none
   and asks to try again. *)
Faulty == fin \/ peer \in {"reset", "dead"}
Least(a, b) == IF a < b THEN a ELSE b

-----------------------------------------------------------------------------
(* sendInLoop and shutdownInLoop, on the loop's thread; q is the loop's queue
   of functors without the one that is running. *)

DirectIfRoom == room > 0                                          \* mutant
Direct == ~writing /\ out = <<>>

(* The high-water callback is queued when this append crosses the mark. *)
CrossesWhenAbove(oldLen, remaining) == oldLen + remaining >= HighWaterMark  \* mutant
Crosses(oldLen, remaining) ==
  oldLen + remaining >= HighWaterMark /\ oldLen < HighWaterMark

AppendNoEnable(rest, q) ==                                        \* mutant
  /\ out' = out \o rest
  /\ pending' = q
  /\ UNCHANGED <<writing, registered, hwCalls>>

AppendOutput(rest, q) ==
  LET crosses == Crosses(Len(out), Len(rest))
  IN  /\ out' = out \o rest
      /\ writing' = TRUE
      /\ registered' = (registered \/ ~writing)
      /\ pending' = IF crosses THEN Append(q, Bind("highWaterMark")) ELSE q
      /\ hwCalls' = IF crosses THEN hwCalls + 1 ELSE hwCalls

(* state_ is tested only to log: the data is written or buffered all the same. *)
sendInLoop(data, q) ==
  \/ /\ Direct /\ Faulty                              \* faultError: dropped
     /\ pending' = q
     /\ UNCHANGED <<writing, registered, dataVars>>
  \/ /\ Direct /\ ~Faulty
     /\ accepted' = accepted \o data
     /\ \E n \in 0..Least(Len(data), room) :
          /\ wire' = wire \o SubSeq(data, 1, n)
          /\ room' = room - n
          /\ IF n = Len(data)
             THEN /\ pending' = Append(q, Bind("writeComplete"))
                  /\ UNCHANGED <<out, writing, registered, hwCalls>>
             ELSE AppendOutput(SubSeq(data, n + 1, Len(data)), q)
  \/ /\ ~Direct
     /\ accepted' = accepted \o data
     /\ AppendOutput(data, q)
     /\ UNCHANGED <<room, wire>>

shutdownInLoopAtOnce(isWriting) == fin' = TRUE                    \* mutant
shutdownInLoop(isWriting) == fin' = (fin \/ ~isWriting)

-----------------------------------------------------------------------------
(* User code on the loop's thread *)

CallbackSend ==
  /\ callback
  /\ state = "kConnected"
  /\ sent < NumMsgs
  /\ sent' = sent + 1
  /\ sendInLoop(Data(sent + 1), pending)
  /\ UNCHANGED <<state, reading, loopVars, callback, call, netVars, fin, ownVars>>

CallbackShutdown ==
  /\ callback
  /\ state = "kConnected"
  /\ state' = "kDisconnecting"
  /\ shutdownInLoop(writing)
  /\ UNCHANGED <<chanVars, loopVars, callback, pending, userVars, netVars,
                 dataVars, ownVars>>

CallbackReturns ==
  /\ callback
  /\ callback' = FALSE
  /\ UNCHANGED <<state, chanVars, loopVars, pending, userVars, netVars, dataVars,
                 fin, ownVars>>

-----------------------------------------------------------------------------
(* Another thread: the test of state_, then what follows it *)

UserSendTest(u) ==
  /\ u \in held /\ call[u].op = "idle"
  /\ state = "kConnected"
  /\ sent < NumMsgs
  /\ sent' = sent + 1
  /\ call' = [call EXCEPT ![u] = [op |-> "send", msg |-> sent + 1]]
  /\ UNCHANGED <<state, chanVars, loopVars, callback, pending, netVars, dataVars,
                 fin, ownVars>>

UserSendPush(u) ==
  /\ call[u].op = "send"
  /\ pending' = Append(pending, BindSend(call[u].msg))
  /\ call' = [call EXCEPT ![u] = Idle]
  /\ UNCHANGED <<state, chanVars, loopVars, callback, sent, netVars, dataVars,
                 fin, ownVars>>

UserShutdownTest(u) ==
  /\ u \in held /\ call[u].op = "idle"
  /\ state = "kConnected"
  /\ call' = [call EXCEPT ![u] = [op |-> "shutdown", msg |-> 0]]
  /\ UNCHANGED <<state, chanVars, loopVars, callback, pending, sent, netVars,
                 dataVars, fin, ownVars>>

UserShutdownStore(u) ==
  /\ call[u].op = "shutdown"
  /\ state' = "kDisconnecting"
  /\ call' = [call EXCEPT ![u] = [op |-> "shutdownPush", msg |-> 0]]
  /\ UNCHANGED <<chanVars, loopVars, callback, pending, sent, netVars, dataVars,
                 fin, ownVars>>

UserShutdownPush(u) ==
  /\ call[u].op = "shutdownPush"
  /\ pending' = Append(pending, Bind("shutdownInLoop"))
  /\ call' = [call EXCEPT ![u] = Idle]
  /\ UNCHANGED <<state, chanVars, loopVars, callback, sent, netVars, dataVars,
                 fin, ownVars>>

(* The thread lets go of its TcpConnectionPtr. *)
Release(u) ==
  /\ u \in held /\ call[u].op = "idle"
  /\ held' = held \ {u}
  /\ lapses' = IF \E i \in DOMAIN pending : ~Keeps(pending[i])
               THEN lapses \cup {"released"} ELSE lapses
  /\ UNCHANGED <<state, chanVars, loopVars, callback, pending, userVars, netVars,
                 dataVars, fin, serving, inMap, closes, kept, touched>>

-----------------------------------------------------------------------------
(* The loop's thread: events of the channel, then a batch of functors *)

In(p) == phase = p /\ ~callback

(* Level-triggered readiness of what the channel asked for; a hang-up is
   reported whenever the descriptor is registered at all.  The destructor closes
   the descriptor, which takes it out of the interest list. *)
ReadyEvents == IF ~(registered /\ Alive) THEN {} ELSE
  (IF reading /\ (unread \/ peer # "open") THEN {"in"} ELSE {}) \cup
  (IF writing /\ (room > 0 \/ Faulty) THEN {"out"} ELSE {}) \cup
  (IF peer \in {"reset", "dead"} \/ (fin /\ peer = "closed")
   THEN {"hup"} ELSE {})

Poll ==
  /\ In("poll")
  /\ ReadyEvents # {} \/ pending # <<>>
  /\ revents' = ReadyEvents
  /\ phase' = "events"
  /\ UNCHANGED <<state, chanVars, left, callback, pending, userVars, netVars,
                 dataVars, fin, ownVars>>

(* handleEvent: the channel is a member of the connection. *)
HandleEvent ==
  /\ In("events")
  /\ revents # {}
  /\ \/ /\ Alive
        /\ phase' = "handle"
        /\ UNCHANGED <<revents, touched>>
     \/ /\ ~Alive
        /\ revents' = {}
        /\ touched' = touched \cup {"handleEvent"}
        /\ UNCHANGED phase
  /\ UNCHANGED <<state, chanVars, left, callback, pending, userVars, netVars,
                 dataVars, fin, serving, inMap, closes, held, kept, lapses>>

handleClose ==
  /\ state' = "kDisconnected"
  /\ reading' = FALSE /\ writing' = FALSE /\ registered' = FALSE
  /\ closes' = closes + 1

(* handleEventWithGuard takes the events in the order close, read, write. *)
EventHup ==
  /\ In("handle")
  /\ "hup" \in revents
  /\ revents' = revents \ {"hup"}
  /\ IF "in" \notin revents THEN handleClose
     ELSE UNCHANGED <<state, chanVars, closes>>
  /\ UNCHANGED <<phase, left, callback, pending, userVars, netVars, dataVars, fin,
                 serving, inMap, held, kept, touched, lapses>>

(* getsockopt(SO_ERROR) takes the error off the socket, to log it. *)
handleError == peer' = "dead"

(* handleRead: bytes for the message callback, the end of the stream, or an
   error that is only logged. *)
EventRead ==
  /\ In("handle")
  /\ "hup" \notin revents /\ "in" \in revents
  /\ revents' = revents \ {"in"}
  /\ \/ /\ unread
        /\ unread' = FALSE
        /\ callback' = TRUE
        /\ UNCHANGED <<state, chanVars, closes, peer>>
     \/ /\ ~unread
        /\ handleClose
        /\ UNCHANGED <<callback, netVars>>
     \/ /\ ~unread /\ peer = "reset"
        /\ handleError
        /\ UNCHANGED <<state, chanVars, callback, closes, unread>>
  /\ UNCHANGED <<phase, left, pending, userVars, dataVars, fin,
                 serving, inMap, held, kept, touched, lapses>>

handleWriteWhole(n) ==                                            \* mutant
  /\ n = 1
  /\ IF Len(out) <= room
     THEN /\ wire' = wire \o out
          /\ room' = room - Len(out)
          /\ out' = <<>> /\ hwCalls' = 0
          /\ writing' = FALSE /\ registered' = reading
          /\ fin' = (fin \/ state = "kDisconnecting")
     ELSE UNCHANGED <<wire, room, out, hwCalls, writing, registered, fin>>
  /\ UNCHANGED <<pending, accepted>>

handleWriteKeepsOpen(n) ==                                        \* mutant
  /\ wire' = wire \o SubSeq(out, 1, n)
  /\ room' = room - n
  /\ out' = SubSeq(out, n + 1, Len(out))
  /\ hwCalls' = IF Len(out') < HighWaterMark THEN 0 ELSE hwCalls
  /\ writing' = (out' # <<>>) /\ registered' = (reading \/ writing')
  /\ UNCHANGED <<pending, fin, accepted>>

(* handleWrite: write what there is room for, then retrieve it. *)
handleWrite(n) ==
  /\ wire' = wire \o SubSeq(out, 1, n)
  /\ room' = room - n
  /\ out' = SubSeq(out, n + 1, Len(out))
  /\ hwCalls' = IF Len(out') < HighWaterMark THEN 0 ELSE hwCalls
  /\ IF out' = <<>>
     THEN /\ writing' = FALSE /\ registered' = reading
          /\ pending' = Append(pending, Bind("writeComplete"))
          /\ IF state = "kDisconnecting" THEN shutdownInLoop(FALSE)
             ELSE UNCHANGED fin
     ELSE UNCHANGED <<writing, registered, pending, fin>>
  /\ UNCHANGED accepted

EventWrite ==
  /\ In("handle")
  /\ revents = {"out"}
  /\ revents' = {}
  /\ IF writing /\ ~Faulty /\ room > 0
     THEN \E n \in 1..Least(Len(out), room) : handleWrite(n)
     ELSE UNCHANGED <<writing, registered, pending, dataVars, fin>>
  /\ UNCHANGED <<state, reading, phase, left, callback, userVars, netVars, ownVars>>

Swap ==
  /\ In("events") \/ In("handle")
  /\ revents = {}
  /\ left' = Len(pending)
  /\ phase' = "functors"
  /\ UNCHANGED <<state, chanVars, revents, callback, pending, userVars, netVars,
                 dataVars, fin, ownVars>>

(* A connection that is still up when its server is destructed goes down here.
   channel_->remove() alone leaves events_ as they are. *)
connectDestroyed ==
  /\ registered' = FALSE
  /\ \/ /\ state = "kConnected"
        /\ state' = "kDisconnected"
        /\ reading' = FALSE /\ writing' = FALSE
        /\ callback' = TRUE
     \/ /\ state # "kConnected"
        /\ UNCHANGED <<state, reading, writing, callback>>

RunFunctor ==
  /\ In("functors")
  /\ left > 0 /\ Alive
  /\ left' = left - 1
  /\ LET f == Head(pending) IN
     /\ kept' = (kept \/ Keeps(f))
     /\ \/ /\ f.op = "sendInLoop"
           /\ sendInLoop(Data(f.msg), Tail(pending))
           /\ lapses' = IF ~inMap /\ ~registered /\ registered'
                        THEN lapses \cup {"revived"} ELSE lapses
           /\ UNCHANGED <<state, reading, callback, fin>>
        \/ /\ f.op = "shutdownInLoop"
           /\ pending' = Tail(pending)
           /\ shutdownInLoop(writing)
           /\ UNCHANGED <<state, chanVars, callback, dataVars, lapses>>
        \/ /\ f.op \in {"writeComplete", "highWaterMark"}
           /\ pending' = Tail(pending)
           /\ callback' = TRUE
           /\ UNCHANGED <<state, chanVars, dataVars, fin, lapses>>
        \/ /\ f.op = "connectDestroyed"
           /\ pending' = Tail(pending)
           /\ connectDestroyed
           /\ UNCHANGED <<dataVars, fin, lapses>>
  /\ UNCHANGED <<phase, revents, userVars, netVars, serving, inMap, closes, held,
                 touched>>

(* A functor runs on an object that is gone: what it does is undefined. *)
RunStaleFunctor ==
  /\ In("functors")
  /\ left > 0 /\ ~Alive
  /\ left' = left - 1
  /\ pending' = Tail(pending)
  /\ touched' = touched \cup {Head(pending).op}
  /\ UNCHANGED <<state, chanVars, phase, revents, callback, userVars, netVars,
                 dataVars, fin, serving, inMap, closes, held, kept, lapses>>

EndBatch ==
  /\ In("functors")
  /\ left = 0
  /\ phase' = "poll"
  /\ kept' = FALSE
  /\ UNCHANGED <<state, chanVars, revents, left, callback, pending, userVars,
                 netVars, dataVars, fin, serving, inMap, closes, held, touched,
                 lapses>>

(* removeConnectionInLoop on the base loop erases the connection from the map
   and queues connectDestroyed. *)
ServerRemoves ==
  /\ serving
  /\ closes > 0
  /\ closes' = closes - 1
  /\ inMap' = FALSE
  /\ pending' = Append(pending, Bind("connectDestroyed"))
  /\ UNCHANGED <<state, chanVars, loopVars, callback, userVars, netVars, dataVars,
                 fin, serving, held, kept, touched, lapses>>

(* ~TcpServer, after the base loop has ended: a connection that is still in the
   map is sent connectDestroyed, and what waits on the base loop stays there. *)
ServerDestructs ==
  /\ serving
  /\ serving' = FALSE
  /\ inMap' = FALSE
  /\ pending' = IF inMap THEN Append(pending, Bind("connectDestroyed")) ELSE pending
  /\ UNCHANGED <<state, chanVars, loopVars, callback, userVars, netVars, dataVars,
                 fin, closes, held, kept, touched, lapses>>

-----------------------------------------------------------------------------
LoopStep == Poll \/ HandleEvent \/ EventHup \/ EventRead \/ EventWrite \/ Swap
              \/ RunFunctor \/ RunStaleFunctor \/ EndBatch \/ CallbackReturns

UserStart(u) == UserSendTest(u) \/ UserShutdownTest(u) \/ Release(u)
UserFinish(u) == UserSendPush(u) \/ UserShutdownStore(u) \/ UserShutdownPush(u)

Next ==
  \/ LoopStep \/ ServerRemoves \/ ServerDestructs
  \/ CallbackSend \/ CallbackShutdown
  \/ PeerSends \/ PeerReads \/ PeerCloses
  \/ \E u \in Users : UserStart(u) \/ UserFinish(u)

Spec == Init /\ [][Next]_vars

(* The loop's thread runs and user code returns; a call that has begun ends;
   the base loop answers closeCallback_; an open peer keeps reading. *)
FairSpec ==
  /\ Spec
  /\ WF_vars(LoopStep) /\ WF_vars(ServerRemoves) /\ WF_vars(PeerReads)
  /\ \A u \in Users : WF_vars(UserFinish(u))

-----------------------------------------------------------------------------
(* What was written and what is buffered is, in order and without a gap, what
   sendInLoop took: a direct write never overtakes buffered bytes. *)
StreamIntact == TypeOK /\ wire \o out = accepted

(* While the connection is not closed the channel asks for EPOLLOUT exactly when
   there is something to write: it neither spins nor starves. *)
WritingIffBuffered == ~Closed => (writing <=> out # <<>>)

(* The write side of a connection that is not closed is shut down only after
   every buffered byte was written. *)
FinAfterData == fin /\ ~Closed => out = <<>>

(* Each time the output buffer reaches the high-water mark there is one
   callback, however many appends follow. *)
HighWaterOnce == hwCalls = IF Len(out) >= HighWaterMark THEN 1 ELSE 0

(* Nothing of the connection runs after its destructor except what another
   thread's send or shutdown left behind: a functor bound to this whose caller
   let go of its pointer first, or an event of a channel that such a functor
   registered again after connectDestroyed. *)
BareThisOnly ==
  /\ touched \subseteq {"sendInLoop", "shutdownInLoop", "handleEvent"}
  /\ touched \cap {"sendInLoop", "shutdownInLoop"} # {} => "released" \in lapses
  /\ "handleEvent" \in touched => "revived" \in lapses

(* Bytes sendInLoop took are written unless the connection closes. *)
AcceptedIsWritten ==
  \A m \in Msgs :
     (\E i \in DOMAIN accepted : accepted[i] = <<m, MsgLen>>) ~>
        (Closed \/ \E i \in DOMAIN wire : wire[i] = <<m, MsgLen>>)

(* shutdown() ends in a FIN unless the connection closes first, whether bytes
   are buffered or not and whichever thread called it. *)
ShutdownSendsFin == (state = "kDisconnecting") ~> (fin \/ Closed)
=============================================================================

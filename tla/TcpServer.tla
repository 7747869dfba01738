----------------------------- MODULE TcpServer -----------------------------
(***************************************************************************)
(* The life of connections in a TcpServer: the acceptor on the base loop,    *)
(* the I/O loops connections are dealt to, the callbacks the loops queue on  *)
(* each other, who holds a TcpConnectionPtr, and the server's destructor.    *)
(*                                                                           *)
(* Each loop is the FIFO executor that module EventLoop implements, with the *)
(* batch of doPendingFunctors visible: the local vector keeps the functors   *)
(* it has run, and the connections they hold, until the whole batch is done. *)
(* Bytes are abstracted to "there is something to read" and "there is        *)
(* something left to write"; module TcpConnection has the data path.         *)
(*                                                                           *)
(* Other threads may keep the TcpConnectionPtr of a connection callback and  *)
(* send or shut down through it.  What they queue is bound to the bare this: *)
(* it may run on a connection that is closed, whose channel it then puts back*)
(* into the poller (revived), or on one that is gone (touched).              *)
(***************************************************************************)
EXTENDS Integers, Sequences, Functions

CONSTANTS Conns,            \* connections, each made once by a peer
          Configs           \* triples of what setThreadNum is given, how many
                            \* descriptors are left for connections, and which
                            \* connections' pointers other threads take

ASSUME ConfigsAssumption ==
  /\ Configs \subseteq Nat \X (Nat \ {0}) \X SUBSET Conns
  /\ "none" \notin Conns /\ "acceptor" \notin Conns

VARIABLES
  numThreads,   \* numThreads_ of the thread pool
  maxFds,       \* descriptors for connections, within the process's limit
  shared,       \* connections whose pointer the callback gives to another thread
  peer,         \* per connection, the remote end
  unread,       \* connections with bytes to read
  backlog,      \* the listening socket's queue of established connections
  state,        \* state_
  index,        \* Channel::index_
  events,       \* Channel::events_
  ioLoop,       \* loop_ of the connection
  fd,           \* descriptor, 0 when closed
  channels,     \* per loop, Poller::channels_ from descriptor to connection
  interest,     \* per loop, epoll's interest list from descriptor to the channel
                \* its entry points to
  alive,        \* TcpConnection objects not destructed
  users,        \* connections another thread holds a TcpConnectionPtr of
  call,         \* per connection, that thread's call whose test succeeded
  connections,  \* TcpServer::connections_
  next,         \* EventLoopThreadPool::next_
  phase,        \* per loop, where its thread is in loop()
  active,       \* per loop, activeChannels_ not handled yet
  pending,      \* per loop, pendingFuntors_
  functors,     \* per loop, what doPendingFunctors has left to run
  held,         \* per loop, connections held by the functors it has run
  quit,         \* loops whose quit_ is set
  server,       \* where start() or ~TcpServer is
  joining,      \* the pool's thread that its destructor joins, 0 before the first
  ups, downs,   \* history: per connection, calls of the connection callback
  revived,      \* history: closed connections whose channel a late send has put
                \* into the poller again
  touched       \* history: connections used after their destructor

configVars == <<numThreads, maxFds, shared>>
kernelVars == <<peer, unread, backlog>>
pollVars == <<index, events, channels, interest, revived>>
connVars == <<state, ups, downs, pollVars>>
userVars == <<users, call>>
objVars == <<ioLoop, fd, alive>>
poolVars == <<connections, next>>
loopVars == <<phase, active, functors, held>>
endVars == <<quit, server, joining>>
vars == <<configVars, kernelVars, connVars, objVars, userVars, poolVars, loopVars,
          pending, endVars, touched>>

Base == 0
SubLoops == 1..numThreads
Loops == 0..numThreads
Fds == 1..maxFds
None == "none"
NoChannels == [f \in Fds |-> None]
Acceptor == "acceptor"

(* Functors bound to a TcpConnectionPtr own it; those of send and shutdown are
   bound to this. *)
Owning == {"connectEstablished", "removeConnectionInLoop", "connectDestroyed",
           "writeComplete"}
Bare == {"sendInLoop", "shutdownInLoop"}
Functor == [op : Owning \cup Bare, conn : Conns]
Bind(op, c) == [op |-> op, conn |-> c]

TypeOK ==
  /\ <<numThreads, maxFds, shared>> \in Configs
  /\ peer \in [Conns -> {"away", "open", "reset", "closed"}]
  /\ unread \subseteq Conns
  /\ backlog \in Seq(Conns)
  /\ state \in [Conns -> {None, "kConnecting", "kConnected", "kDisconnecting",
                          "kDisconnected"}]
  /\ index \in [Conns -> {"kNew", "kAdded", "kDeleted"}]
  /\ events \in [Conns -> SUBSET {"in", "out"}]
  /\ ioLoop \in [Conns -> Loops]
  /\ fd \in [Conns -> Fds \cup {0}]
  /\ channels \in [Loops -> [Fds -> Conns \cup {None}]]
  /\ interest \in [Loops -> [Fds -> Conns \cup {None}]]
  /\ alive \subseteq Conns
  /\ users \subseteq shared
  /\ call \in [Conns -> {"idle", "send", "shutdown", "done"}]
  /\ connections \subseteq Conns
  /\ next \in Nat /\ (next = 0 \/ next < numThreads)
  /\ phase \in [Loops -> {"enter", "poll", "events", "functors", "stopped"}]
  /\ active \in [Loops -> SUBSET (Conns \cup {Acceptor})]
  /\ pending \in [Loops -> Seq(Functor)]
  /\ functors \in [Loops -> Seq(Functor)]
  /\ held \in [Loops -> SUBSET Conns]
  /\ quit \subseteq Loops
  /\ server \in {"new", "running", "destroying", "joining", "gone"}
  /\ joining \in 0..numThreads
  /\ ups \in [Conns -> Nat]
  /\ downs \in [Conns -> Nat]
  /\ revived \subseteq Conns
  /\ touched \subseteq Conns

Init ==
  /\ \E config \in Configs :
       numThreads = config[1] /\ maxFds = config[2] /\ shared = config[3]
  /\ peer = [c \in Conns |-> "away"]
  /\ unread = {}
  /\ backlog = <<>>
  /\ state = [c \in Conns |-> None]
  /\ index = [c \in Conns |-> "kNew"]
  /\ events = [c \in Conns |-> {}]
  /\ ioLoop = [c \in Conns |-> Base]
  /\ fd = [c \in Conns |-> 0]
  /\ channels = [l \in Loops |-> NoChannels]
  /\ interest = [l \in Loops |-> NoChannels]
  /\ alive = {}
  /\ users = {}
  /\ call = [c \in Conns |-> "idle"]
  /\ connections = {}
  /\ next = 0
  /\ phase = [l \in Loops |-> "enter"]
  /\ active = [l \in Loops |-> {}]
  /\ pending = [l \in Loops |-> <<>>]
  /\ functors = [l \in Loops |-> <<>>]
  /\ held = [l \in Loops |-> {}]
  /\ quit = {}
  /\ server = "new"
  /\ joining = 0
  /\ ups = [c \in Conns |-> 0]
  /\ downs = [c \in Conns |-> 0]
  /\ revived = {}
  /\ touched = {}

-----------------------------------------------------------------------------
(* TcpServer::start on the thread that will run loop(): the pool's loops exist and
   the acceptor listens.  Module EventLoopThread has the pool's own steps. *)
start ==
  /\ server = "new"
  /\ server' = "running"
  /\ UNCHANGED <<kernelVars, connVars, objVars, userVars, poolVars, loopVars,
                 pending, quit, joining, touched>>

(* start() returns when the loops exist: each enters loop() later, and stores
   quit_ = false then. *)
Enter(l) ==
  /\ server # "new"
  /\ phase[l] = "enter"
  /\ phase' = [phase EXCEPT ![l] = "poll"]
  /\ quit' = quit \ {l}
  /\ UNCHANGED <<kernelVars, connVars, objVars, userVars, poolVars, active, functors,
                 held, pending, server, joining, touched>>

-----------------------------------------------------------------------------
(* Peers, through the kernel *)

PeerConnects(c) ==
  /\ peer[c] = "away"
  /\ server = "running"
  /\ peer' = [peer EXCEPT ![c] = "open"]
  /\ backlog' = Append(backlog, c)
  /\ UNCHANGED <<unread, connVars, objVars, userVars, poolVars, loopVars, pending,
                 endVars, touched>>

PeerSends(c) ==
  /\ peer[c] = "open"
  /\ unread' = unread \cup {c}
  /\ UNCHANGED <<peer, backlog, connVars, objVars, userVars, poolVars, loopVars,
                 pending, endVars, touched>>

(* A FIN leaves unread bytes to be read; a RST throws them away. *)
PeerCloses(c) ==
  /\ peer[c] = "open"
  /\ \/ peer' = [peer EXCEPT ![c] = "closed"] /\ UNCHANGED unread
     \/ peer' = [peer EXCEPT ![c] = "reset"] /\ unread' = unread \ {c}
  /\ UNCHANGED <<backlog, connVars, objVars, userVars, poolVars, loopVars, pending,
                 endVars, touched>>

Gone(c) == peer[c] \in {"closed", "reset"}

(* epoll is level-triggered: a registered channel is reported in every poll
   while there is something to read, or while it asks for EPOLLOUT. *)
Readable(c) == c \in unread \/ Gone(c)
Ready(c) == Readable(c) \/ "out" \in events[c]

-----------------------------------------------------------------------------
(* Descriptors, channels and the poller *)

FreeFds == Fds \ Range(fd)

(* EPollPoller::updateChannel: a channel that is new or deleted is added, another
   is modified, or deleted when it has no events left. *)
updateChannel(c, l, sockfd, isNoneEvent) ==
  LET del == index[c] = "kAdded" /\ isNoneEvent
  IN  /\ index' = [index EXCEPT ![c] = IF del THEN "kDeleted" ELSE "kAdded"]
      /\ channels' = IF index[c] = "kNew"
                     THEN [channels EXCEPT ![l][sockfd] = c] ELSE channels
      /\ interest' = [interest EXCEPT ![l][sockfd] = IF del THEN None ELSE c]

(* Channel's enableReading and the like: events_ change and the poller is told. *)
SetEvents(c, l, sockfd, mask) ==
  /\ events' = [events EXCEPT ![c] = mask]
  /\ updateChannel(c, l, sockfd, mask = {})

(* removeChannel: the channel leaves the map, and the interest list when it is in
   it by its index.  Its events_ stay. *)
Removed(c) == [channels EXCEPT ![ioLoop[c]][fd[c]] = None]
Deleted(c) ==
  IF index[c] = "kAdded" THEN [interest EXCEPT ![ioLoop[c]][fd[c]] = None]
  ELSE interest

removeChannel(c) ==
  /\ index' = [index EXCEPT ![c] = "kNew"]
  /\ channels' = Removed(c)
  /\ interest' = Deleted(c)

-----------------------------------------------------------------------------
(* Who owns a connection: the server's map, other threads, and the functors
   bound to its pointer, the ones already run of an unfinished batch included. *)

FunctorConns(s) == {s[i].conn : i \in {j \in DOMAIN s : s[j].op \in Owning}}

OwnedByMap(cs, us, pend, run, hold) == cs \cup us                 \* mutant

Owned(cs, us, pend, run, hold) ==
  cs \cup us \cup
  UNION {FunctorConns(pend[l]) \cup FunctorConns(run[l]) \cup hold[l] : l \in Loops}

(* Objects whose last owner lets go are destructed; ~Socket closes the descriptor. *)
LetGo(released) ==
  LET gone == released \ Owned(connections', users', pending', functors', held')
  IN  /\ alive' = alive \ gone
      /\ fd' = [c \in Conns |-> IF c \in gone THEN 0 ELSE fd[c]]
      /\ UNCHANGED ioLoop

(* A closed descriptor leaves every interest list. *)
WithoutClosed(lists) ==
  [l \in Loops |-> [f \in Fds |->
     IF f \in Range(fd) \ Range(fd') THEN None ELSE lists[l][f]]]

-----------------------------------------------------------------------------
(* TcpConnection::connectEstablished and connectDestroyed.  The connection
   callback may give the pointer to another thread. *)

connectEstablished(c, l, sockfd) ==
  /\ state' = [state EXCEPT ![c] = "kConnected"]
  /\ SetEvents(c, l, sockfd, {"in"})
  /\ ups' = [ups EXCEPT ![c] = @ + 1]
  /\ users' = users \cup ({c} \cap shared)
  /\ UNCHANGED <<downs, revived>>

connectDestroyedCallsAgain(c) ==                                  \* mutant
  /\ state' = [state EXCEPT ![c] = "kDisconnected"]
  /\ events' = [events EXCEPT ![c] = {}]
  /\ downs' = [downs EXCEPT ![c] = @ + 1]
  /\ removeChannel(c)
  /\ UNCHANGED <<ups, revived>>

(* disableAll, where it is called, deletes the entry that remove() then finds
   deleted. *)
connectDestroyed(c) ==
  /\ IF state[c] = "kConnected"
     THEN /\ state' = [state EXCEPT ![c] = "kDisconnected"]
          /\ events' = [events EXCEPT ![c] = {}]
          /\ downs' = [downs EXCEPT ![c] = @ + 1]
     ELSE UNCHANGED <<state, events, downs>>
  /\ removeChannel(c)
  /\ UNCHANGED <<ups, revived>>

-----------------------------------------------------------------------------
(* Another thread that holds the pointer: send and shutdown test state_, and
   later push what is bound to this.  There is one call for each connection (a bound
   of the model), and none for a loop that is gone. *)

Calling(c, op) ==
  /\ c \in users /\ call[c] = "idle"
  /\ state[c] = "kConnected"
  /\ call' = [call EXCEPT ![c] = op]
  /\ UNCHANGED <<kernelVars, connVars, objVars, users, poolVars, loopVars, pending,
                 endVars, touched>>

Queueing(c) ==
  /\ ioLoop[c] = Base \/ phase[ioLoop[c]] # "stopped"
  /\ call' = [call EXCEPT ![c] = "done"]
  /\ \/ /\ call[c] = "send"
        /\ pending' = [pending EXCEPT ![ioLoop[c]] = Append(@, Bind("sendInLoop", c))]
        /\ UNCHANGED state
     \/ /\ call[c] = "shutdown"
        /\ state' = [state EXCEPT ![c] = "kDisconnecting"]
        /\ pending' = [pending EXCEPT ![ioLoop[c]] =
                         Append(@, Bind("shutdownInLoop", c))]
  /\ UNCHANGED <<kernelVars, ups, downs, pollVars, objVars, users, poolVars, loopVars,
                 endVars, touched>>

(* The thread lets go of its pointer. *)
Release(c) ==
  /\ c \in users /\ call[c] \in {"idle", "done"}
  /\ users' = users \ {c}
  /\ UNCHANGED <<connections, pending, functors, held>>
  /\ LetGo({c})
  /\ interest' = WithoutClosed(interest)
  /\ UNCHANGED <<kernelVars, state, ups, downs, index, events, channels, revived, call,
                 next, phase, active, endVars, touched>>

(* sendInLoop on the loop's thread: state_ is tested only to log.  All is written,
   or a rest is left, for which the channel is told to write. *)
sendInLoop(c, l) ==
  \/ /\ pending' = [pending EXCEPT ![l] = Append(@, Bind("writeComplete", c))]
     /\ UNCHANGED pollVars
  \/ /\ IF "out" \in events[c]
        THEN UNCHANGED pollVars
        ELSE /\ SetEvents(c, l, fd[c], events[c] \cup {"out"})
             /\ revived' = IF index[c] = "kAdded" THEN revived ELSE revived \cup {c}
     /\ UNCHANGED pending

-----------------------------------------------------------------------------
(* One loop *)

(* The listening socket is reported while its backlog is not empty. *)
AcceptReadyEdge == Len(backlog) = 1                               \* mutant
AcceptReady == backlog # <<>>

(* queueInLoop and quit() wake the loop. *)
WokenByFunctors(l) == pending[l] # <<>>                           \* mutant
Woken(l) == pending[l] # <<>> \/ l \in quit

(* epoll_wait returns the channels that the entries of ready descriptors point
   to. *)
ReadyFds == {fd[c] : c \in {d \in alive : Ready(d)}}

Poll(l) ==
  LET ready == ({interest[l][f] : f \in ReadyFds} \ {None}) \cup
               (IF l = Base /\ AcceptReady THEN {Acceptor} ELSE {})
  IN  /\ phase[l] = "poll"
      /\ ready # {} \/ Woken(l)
      /\ active' = [active EXCEPT ![l] = ready]
      /\ phase' = [phase EXCEPT ![l] = "events"]
      /\ UNCHANGED <<kernelVars, connVars, objVars, userVars, poolVars, functors, held,
                     pending, endVars, touched>>

(* EventLoopThreadPool::getNextLoop. *)
getNextLoop == IF numThreads = 0 THEN Base ELSE next + 1
AdvanceNext == next' = IF next + 1 >= numThreads THEN 0 ELSE next + 1

(* TcpConnection's constructor: the connection has its loop, channel and socket. *)
Constructed(c, io, connfd) ==
  /\ fd' = [fd EXCEPT ![c] = connfd]
  /\ ioLoop' = [ioLoop EXCEPT ![c] = io]
  /\ alive' = alive \cup {c}

(* Acceptor::handleRead and TcpServer::newConnection: one accept for each
   event.  The connection is established at once if its loop is this one. *)
AcceptConnection ==
  /\ "acceptor" \in active[Base]
  /\ phase[Base] = "events"
  /\ backlog # <<>>
  /\ FreeFds # {}
  /\ LET c == Head(backlog)
         io == getNextLoop
         connfd == CHOOSE f \in FreeFds : \A g \in FreeFds : f <= g
     IN  /\ backlog' = Tail(backlog)
         /\ Constructed(c, io, connfd)
         /\ connections' = connections \cup {c}
         /\ AdvanceNext
         /\ IF io = Base
            THEN connectEstablished(c, io, connfd) /\ UNCHANGED pending
            ELSE /\ state' = [state EXCEPT ![c] = "kConnecting"]
                 /\ pending' = [pending EXCEPT ![io] =
                                  Append(@, Bind("connectEstablished", c))]
                 /\ UNCHANGED <<pollVars, ups, downs, users>>
  /\ active' = [active EXCEPT ![Base] = @ \ {Acceptor}]
  /\ UNCHANGED <<peer, unread, call, phase, functors, held, endVars, touched>>

(* accept fails with EMFILE; the connection stays in the backlog. *)
AcceptFails ==
  /\ "acceptor" \in active[Base]
  /\ phase[Base] = "events"
  /\ FreeFds = {}
  /\ active' = [active EXCEPT ![Base] = @ \ {Acceptor}]
  /\ UNCHANGED <<kernelVars, connVars, objVars, userVars, poolVars, phase, functors,
                 held, pending, endVars, touched>>

removeConnectionInLoopKeeps(c) ==                                 \* mutant
  /\ pending' = [pending EXCEPT ![ioLoop[c]] =
                   Append(@, Bind("connectDestroyed", c))]
  /\ UNCHANGED connections

removeConnectionInLoop(c) ==
  /\ connections' = connections \ {c}
  /\ pending' = [pending EXCEPT ![ioLoop[c]] =
                   Append(@, Bind("connectDestroyed", c))]

(* TcpServer::removeConnection for a connection closed on loop l: at once on
   the base loop, through its queue from another. *)
removeConnection(l, c) ==
  IF l = Base
  THEN removeConnectionInLoop(c)
  ELSE /\ pending' = [pending EXCEPT ![Base] =
                        Append(@, Bind("removeConnectionInLoop", c))]
       /\ UNCHANGED connections

(* TcpConnection::handleClose. *)
handleCloseKeepsEvents(l, c) ==                                   \* mutant
  /\ state' = [state EXCEPT ![c] = "kDisconnected"]
  /\ downs' = [downs EXCEPT ![c] = @ + 1]
  /\ removeConnection(l, c)
  /\ UNCHANGED <<pollVars, ups>>
handleClose(l, c) ==
  /\ state' = [state EXCEPT ![c] = "kDisconnected"]
  /\ SetEvents(c, l, fd[c], {})
  /\ downs' = [downs EXCEPT ![c] = @ + 1]
  /\ removeConnection(l, c)
  /\ UNCHANGED <<ups, revived>>

(* handleWrite: all of the output is written and the channel is told so, or a
   rest stays. *)
handleWrite(l, c) ==
  \/ UNCHANGED <<pollVars, pending>>
  \/ /\ "out" \in events[c]
     /\ SetEvents(c, l, fd[c], events[c] \ {"out"})
     /\ pending' = [pending EXCEPT ![l] = Append(@, Bind("writeComplete", c))]
     /\ UNCHANGED revived

(* handleEventWithGuard.  Bytes go to the message callback, which may call
   shutdown(); a reset is read as an error once, and only logged; then, as
   after a FIN, read returns 0. *)
HandleRead(l, c) ==
  /\ "in" \in events[c]
  /\ \/ /\ c \in unread
        /\ unread' = unread \ {c}
        /\ \/ UNCHANGED state
           \/ /\ state[c] = "kConnected"
              /\ state' = [state EXCEPT ![c] = "kDisconnecting"]
        /\ handleWrite(l, c)
        /\ UNCHANGED <<peer, ups, downs, connections>>
     \/ /\ c \notin unread
        /\ peer[c] = "reset"
        /\ peer' = [peer EXCEPT ![c] = "closed"]
        /\ handleWrite(l, c)
        /\ UNCHANGED <<unread, state, ups, downs, connections>>
     \/ /\ c \notin unread
        /\ peer[c] = "closed"
        /\ handleClose(l, c)
        /\ UNCHANGED <<peer, unread>>

(* A channel that only writes: a peer that has gone may answer what is written
   with a reset, which is a hang-up without EPOLLIN. *)
HandleHup(l, c) ==
  /\ "in" \notin events[c] /\ Gone(c)
  /\ handleClose(l, c)
  /\ UNCHANGED <<peer, unread>>

HandleWrite(l, c) ==
  /\ "in" \in events[c] => ~Readable(c)
  /\ handleWrite(l, c)
  /\ UNCHANGED <<peer, unread, state, ups, downs, connections>>

HandleEvent(l, c) ==
  /\ phase[l] = "events"
  /\ c \in active[l]
  /\ active' = [active EXCEPT ![l] = @ \ {c}]
  /\ \/ /\ c \in alive
        /\ HandleRead(l, c) \/ HandleHup(l, c) \/ HandleWrite(l, c)
        /\ UNCHANGED touched
     \/ /\ c \notin alive
        /\ touched' = touched \cup {c}
        /\ UNCHANGED <<peer, unread, connVars, connections, pending>>
  /\ UNCHANGED <<backlog, objVars, userVars, next, phase, functors, held, endVars>>

(* doPendingFunctors: the swap, one functor, and the end of the batch, where
   the vector lets go of its connections and loop() tests quit_. *)
Swap(l) ==
  /\ phase[l] = "events"
  /\ active[l] = {}
  /\ functors' = [functors EXCEPT ![l] = pending[l]]
  /\ pending' = [pending EXCEPT ![l] = <<>>]
  /\ phase' = [phase EXCEPT ![l] = "functors"]
  /\ UNCHANGED <<kernelVars, connVars, objVars, userVars, poolVars, active, held,
                 endVars, touched>>

RunFunctor(l) ==
  /\ phase[l] = "functors"
  /\ functors[l] # <<>>
  /\ LET f == Head(functors[l]) IN
     /\ f.conn \in alive
     /\ held' = [held EXCEPT ![l] = @ \cup ({f.conn} \cap FunctorConns(<<f>>))]
     /\ \/ /\ f.op = "connectEstablished"
           /\ connectEstablished(f.conn, l, fd[f.conn])
           /\ UNCHANGED <<pending, connections>>
        \/ /\ f.op = "removeConnectionInLoop"
           /\ removeConnectionInLoop(f.conn)
           /\ UNCHANGED <<connVars, users>>
        \/ /\ f.op = "connectDestroyed"
           /\ connectDestroyed(f.conn)
           /\ UNCHANGED <<pending, connections, users>>
        \/ /\ f.op = "sendInLoop"
           /\ sendInLoop(f.conn, l)
           /\ UNCHANGED <<state, ups, downs, connections, users>>
        \/ /\ f.op \in {"shutdownInLoop", "writeComplete"}
           /\ UNCHANGED <<connVars, pending, connections, users>>
  /\ functors' = [functors EXCEPT ![l] = Tail(@)]
  /\ UNCHANGED <<kernelVars, objVars, call, next, phase, active, endVars, touched>>

(* What is bound to this may find the object gone: what it does then is undefined. *)
RunStaleFunctor(l) ==
  /\ phase[l] = "functors"
  /\ functors[l] # <<>>
  /\ Head(functors[l]).conn \notin alive
  /\ touched' = touched \cup {Head(functors[l]).conn}
  /\ functors' = [functors EXCEPT ![l] = Tail(@)]
  /\ UNCHANGED <<kernelVars, connVars, objVars, userVars, poolVars, phase, active, held,
                 pending, endVars>>

(* The EventLoop on a pool thread's stack goes with loop(): its queue and its
   poller with it.  The base loop is main's and lives on. *)
LoopDestructed(l) ==
  /\ pending' = [pending EXCEPT ![l] = <<>>]
  /\ channels' = [channels EXCEPT ![l] = NoChannels]

EndBatch(l) ==
  /\ phase[l] = "functors"
  /\ functors[l] = <<>>
  /\ held' = [held EXCEPT ![l] = {}]
  /\ phase' = [phase EXCEPT ![l] = IF l \in quit THEN "stopped" ELSE "poll"]
  /\ IF l \in quit \cap SubLoops
     THEN LoopDestructed(l)
     ELSE UNCHANGED <<pending, channels>>
  /\ UNCHANGED <<connections, users, functors>>
  /\ LetGo(held[l] \cup FunctorConns(pending[l]))
  /\ interest' = WithoutClosed(IF phase'[l] = "stopped" /\ l # Base
                               THEN [interest EXCEPT ![l] = NoChannels] ELSE interest)
  /\ UNCHANGED <<kernelVars, state, index, events, ups, downs, revived, call, next,
                 active, endVars, touched>>

-----------------------------------------------------------------------------
(* The end of the server *)

(* quit() on the base loop. *)
QuitBase ==
  /\ server # "new"
  /\ Base \notin quit
  /\ quit' = quit \cup {Base}
  /\ UNCHANGED <<kernelVars, connVars, objVars, userVars, poolVars, loopVars, pending,
                 server, joining, touched>>

(* ~TcpServer on the main thread, after loop() has returned: each connection
   leaves the map and is destroyed on its own loop. *)
BeginDestroy ==
  /\ server = "running"
  /\ phase[Base] = "stopped"
  /\ server' = "destroying"
  /\ UNCHANGED <<kernelVars, connVars, objVars, userVars, poolVars, loopVars, pending,
                 quit, joining, touched>>

DestroyConnection(c) ==
  /\ server = "destroying"
  /\ c \in connections
  /\ connections' = connections \ {c}
  /\ IF ioLoop[c] = Base
     THEN connectDestroyed(c) /\ UNCHANGED pending
     ELSE /\ pending' = [pending EXCEPT ![ioLoop[c]] =
                           Append(@, Bind("connectDestroyed", c))]
          /\ UNCHANGED connVars
  /\ UNCHANGED <<users, functors, held>>
  /\ LetGo({c})
  /\ UNCHANGED <<kernelVars, call, next, phase, active, endVars, touched>>

(* The pool's threads go one after the other: quit(), then join(). *)
JoinNext ==
  /\ server \in {"destroying", "joining"} /\ connections = {}
  /\ joining < numThreads
  /\ joining = 0 \/ phase[joining] = "stopped"
  /\ server' = "joining"
  /\ joining' = joining + 1
  /\ quit' = quit \cup {joining + 1}
  /\ UNCHANGED <<kernelVars, connVars, objVars, userVars, poolVars, loopVars, pending,
                 touched>>

EndDestroy ==
  /\ server \in {"destroying", "joining"} /\ connections = {}
  /\ joining = numThreads
  /\ joining = 0 \/ phase[joining] = "stopped"
  /\ server' = "gone"
  /\ UNCHANGED <<kernelVars, connVars, objVars, userVars, poolVars, loopVars, pending,
                 quit, joining, touched>>

-----------------------------------------------------------------------------
LoopStep(l) ==
  \/ Enter(l) \/ Poll(l) \/ Swap(l) \/ RunFunctor(l) \/ RunStaleFunctor(l) \/ EndBatch(l)
  \/ \E c \in Conns : HandleEvent(l, c)
  \/ l = Base /\ (AcceptConnection \/ AcceptFails)

Destroy == BeginDestroy \/ JoinNext \/ EndDestroy
             \/ \E c \in Conns : DestroyConnection(c)

PeerStep == \E c \in Conns : PeerConnects(c) \/ PeerSends(c) \/ PeerCloses(c)

UserStep == \E c \in Conns :
  Calling(c, "send") \/ Calling(c, "shutdown") \/ Queueing(c) \/ Release(c)

(* Once a destructed connection was used anything may happen: the model ends. *)
Next ==
  /\ touched = {}
  /\ PeerStep \/ UserStep \/ (\E l \in Loops : LoopStep(l)) \/ start \/ QuitBase
       \/ Destroy
  /\ UNCHANGED configVars

Spec == Init /\ [][Next]_vars

(* Every loop's thread is scheduled, and so is the thread in ~TcpServer.  Peers and
   other threads owe nothing. *)
Step(l) == touched = {} /\ l \in Loops /\ LoopStep(l) /\ UNCHANGED configVars
FairSpec ==
  /\ Spec
  /\ \A l \in UNION {0..config[1] : config \in Configs} : WF_vars(Step(l))
  /\ WF_vars(touched = {} /\ Destroy /\ UNCHANGED configVars)

-----------------------------------------------------------------------------
(* No pointer outlives its object: a destructed connection is behind no entry of
   an interest list, named by no functor that is bound to its pointer, and in no
   loop's list of active channels and in no poller's map, although these two hold bare
   Channel pointers.  Only a channel that another thread's late send has put back, after
   connectDestroyed took it out, may stay in these.  And, because handleClose calls
   through a bare TcpServer pointer, no I/O loop runs once the server's destructor is
   over. *)
NoDanglingChannel ==
  /\ \A l \in Loops :
       /\ Range(interest[l]) \ {None} \subseteq alive
       /\ FunctorConns(pending[l]) \cup FunctorConns(functors[l]) \subseteq alive
       /\ (active[l] \cup Range(channels[l])) \ {Acceptor, None} \subseteq alive \cup revived
  /\ server = "gone" =>
       \A l \in SubLoops : phase[l] = "stopped" /\ functors[l] = <<>>

(* Channel::index_ tells what epoll and the poller's map hold, even when a
   descriptor is used again by another loop: an entry of an interest list is that of
   an added channel of this loop and this descriptor, and the other way round.  So
   EPOLL_CTL_ADD never finds the descriptor in the list, for which update() would
   end the process, DEL never misses it, and no event goes to the wrong
   connection.  This holds of channels that a late send has put back as well; of the
   others, only that of an established connection is in a list. *)
PollerConsistent ==
  /\ TypeOK
  /\ \A l \in Loops, f \in Fds :
       LET c == interest[l][f]
       IN  c # None => ioLoop[c] = l /\ fd[c] = f /\ index[c] = "kAdded"
  /\ \A c \in {d \in alive : phase[ioLoop[d]] # "stopped"} :
       /\ index[c] # "kNew" => channels[ioLoop[c]][fd[c]] = c
       /\ index[c] = "kAdded" =>
            /\ interest[ioLoop[c]][fd[c]] = c
            /\ c \in revived \/ state[c] \in {"kConnected", "kDisconnecting"}
       /\ \A d \in alive \ {c} : fd[c] # fd[d]

(* The connection callback runs at most once for the connection coming up and
   then at most once for its going down; while the server runs, an object is
   destructed only after both.  A late send makes an exception: sendInLoop says of a
   closed connection that it gives up writing, but goes on, and enableWriting puts
   the channel back, so that the close may be handled again. *)
UpThenDown ==
  \A c \in Conns :
    /\ ups[c] <= 1
    /\ downs[c] > ups[c] => c \in revived
    /\ (server = "running" /\ state[c] # None /\ c \notin alive) =>
         ups[c] = 1 /\ downs[c] >= 1 /\ fd[c] = 0

(* A peer that goes away has its connection destructed and its descriptor
   closed, through both loops' queues, as soon as no other thread holds its pointer;
   each peer goes away once, so none is left in the end. *)
PeerGone == {c \in alive \ users : Gone(c)}
ClosedIsReclaimed ==
  (PeerGone # {}) ~>
     (PeerGone = {} \/ server # "running" \/ Base \in quit \/ touched # {})

(* The backlog is emptied once descriptors are free, though one event accepts one
   connection. *)
BacklogDrains ==
  (backlog # <<>>) ~>
     (backlog = <<>> \/ Base \in quit \/ touched # {} \/
        \E d \in Conns : fd[d] # 0 /\ (peer[d] = "open" \/ d \in users))

(* ~TcpServer ends, if the I/O loops had all been entered when it began: a quit()
   before that is lost, as module EventLoopThread shows. *)
DestroyEnds ==
  (server = "destroying" /\ \A l \in SubLoops : phase[l] # "enter") ~>
     (server = "gone" \/ touched # {})
=============================================================================

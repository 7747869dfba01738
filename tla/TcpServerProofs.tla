--------------------------- MODULE TcpServerProofs ---------------------------
(* Proofs about TcpServer for any connections, pool size and limit of descriptors. *)
EXTENDS TcpServer, SequenceTheorems, NaturalsInduction, WellFoundedInduction, TLAPS

-----------------------------------------------------------------------------
(* The inductive invariant *)

Est(c) == Bind("connectEstablished", c)
Rem(c) == Bind("removeConnectionInLoop", c)
Des(c) == Bind("connectDestroyed", c)

(* What a loop has still to run. *)
queued == [l \in Loops |-> Range(functors[l]) \cup Range(pending[l])]

(* The EventLoop of a pool thread is destructed when its loop() returns. *)
loopGone == [l \in Loops |-> l # Base /\ phase[l] = "stopped"]

(* A loop has active channels only while it handles events, and functors only while
   it runs them; its poller goes with it. *)
LoopInv ==
  \A l \in Loops :
    /\ phase[l] # "events" => active[l] = {}
    /\ phase[l] # "functors" => functors[l] = <<>>
    /\ loopGone[l] => \A f \in Fds : channels[l][f] = None /\ interest[l][f] = None

(* A connection is accepted once. *)
BacklogInv ==
  /\ \A c \in Conns : peer[c] = "away" => state[c] = None /\ c \notin Range(backlog)
  /\ \A i \in DOMAIN backlog : state[backlog[i]] = None
  /\ \A i, j \in DOMAIN backlog : backlog[i] = backlog[j] => i = j

(* state_ decides how often the callback ran for up.  Unless a late send has put its
   channel back, a connection in epoll's list has not gone down, and reads. *)
Unborn == {None, "kConnecting"}
LifeInv ==
  \A c \in Conns :
    /\ state[c] = None => c \notin alive
    /\ state[c] \in Unborn => index[c] = "kNew" /\ c \notin revived
    /\ ups[c] = IF state[c] \in Unborn THEN 0 ELSE 1
    /\ c \notin revived =>
         /\ downs[c] \in {0, 1}
         /\ state[c] \in Unborn \cup {"kConnected"} => downs[c] = 0
         /\ index[c] = "kAdded" =>
              /\ state[c] \in {"kConnected", "kDisconnecting"}
              /\ downs[c] = 0 /\ "in" \in events[c]

(* Until ~TcpServer only a connection that went down has left the map. *)
MapInv ==
  \A c \in Conns :
    server \in {"new", "running"} /\ state[c] # None /\ downs[c] = 0 => c \in connections

(* The objects not destructed have a descriptor of their own. *)
FdInv ==
  /\ \A c \in Conns : c \in alive <=> fd[c] # 0
  /\ \A c, d \in Conns : fd[c] = fd[d] /\ fd[c] # 0 => c = d

(* What owns a connection owns one that is not destructed, and a functor is on the
   loop where it belongs, at the stage of life it is for. *)
OwnInv ==
  /\ connections \subseteq alive
  /\ \A l \in Loops : held[l] \subseteq alive
  /\ \A l \in Loops : \A f \in queued[l] :
       /\ f.op \in Owning => f.conn \in alive
       /\ f.op = "connectEstablished" => l # Base /\ state[f.conn] = "kConnecting"
       /\ f.op \in Bare => state[f.conn] \notin Unborn
       /\ f.op = "removeConnectionInLoop" => downs[f.conn] # 0
       /\ f.op # "removeConnectionInLoop" => ioLoop[f.conn] = l

(* Another thread calls through a pointer that it got from an established connection's
   callback. *)
UserInv ==
  /\ users \subseteq alive
  /\ \A c \in users : state[c] \notin Unborn
  /\ \A c \in Conns : call[c] \in {"send", "shutdown"} => c \in users

(* Nothing about a connection is queued before its connectEstablished. *)
EstFirst(q) ==
  \A i, j \in DOMAIN q :
    q[i].op = "connectEstablished" /\ j < i => q[j].conn # q[i].conn
OrderInv ==
  \A l \in Loops :
    /\ EstFirst(functors[l]) /\ EstFirst(pending[l])
    /\ \A c \in Conns : \A f \in Range(functors[l]) :
         Est(c) \in Range(pending[l]) => f.conn # c

(* A channel that is in the poller, or will be, has a connection that will be
   removed from it: it is in the map, or connectDestroyed is queued. *)
KeptInv ==
  \A c \in Conns \ revived :
    ~loopGone[ioLoop[c]] /\ (index[c] # "kNew" \/ Est(c) \in queued[ioLoop[c]]) =>
      c \in connections \/ Des(c) \in queued[ioLoop[c]]

(* The poller's map, epoll's list and the active channels agree with the channel;
   but one that was put back may stay in the map when its object is destructed. *)
PollInv ==
  /\ \A l \in Loops, f \in Fds :
       /\ interest[l][f] # None =>
            /\ ioLoop[interest[l][f]] = l /\ fd[interest[l][f]] = f
            /\ index[interest[l][f]] = "kAdded"
       /\ channels[l][f] # None =>
            \/ channels[l][f] \in revived
            \/ /\ ioLoop[channels[l][f]] = l /\ fd[channels[l][f]] = f
               /\ index[channels[l][f]] # "kNew"
  /\ \A c \in alive :
       index[c] # "kNew" /\ ~loopGone[ioLoop[c]] =>
         /\ channels[ioLoop[c]][fd[c]] = c
         /\ index[c] = "kAdded" => interest[ioLoop[c]][fd[c]] = c
  /\ \A l \in Loops : \A c \in active[l] \ {Acceptor} :
       ioLoop[c] = l /\ index[c] = "kAdded"

(* ~TcpServer begins after the base loop and ends after the pool's threads, each of
   which it joins. *)
EndInv ==
  /\ server \in {"destroying", "joining", "gone"} => phase[Base] = "stopped"
  /\ \A l \in SubLoops : l < joining => phase[l] = "stopped"
  /\ server = "gone" => \A l \in SubLoops : phase[l] = "stopped"

IInv == TypeOK /\ LoopInv /\ BacklogInv /\ LifeInv /\ MapInv /\ FdInv /\ OwnInv
          /\ UserInv /\ OrderInv /\ KeptInv /\ PollInv /\ EndInv

-----------------------------------------------------------------------------
(* Descriptors: the least one is the kernel's choice. *)

LEMMA LeastNumber ==
  ASSUME NEW S \in SUBSET Nat, S # {}
  PROVE  \E n \in S : \A m \in S : n <= m
<1> DEFINE R == {ss \in Nat \X Nat : ss[1] < ss[2]}
<1>1. R = OpToRel(<, Nat)
  BY Zenon DEF OpToRel
<1>2. IsWellFoundedOn(R, Nat)
  BY <1>1, NatLessThanWellFounded, Zenon
<1> HIDE DEF R
<1>3. PICK n \in S : \A m \in S : ~(<<m, n>> \in R)
  BY <1>2, WFMin, Zenon
<1>4. ASSUME NEW m \in S PROVE n <= m
  <2>1. m \in Nat /\ n \in Nat
    OBVIOUS
  <2>2. ~(m < n)
    BY <1>3, <2>1 DEF R
  <2>3. QED BY <2>1, <2>2
<1>5. QED BY <1>4

LEMMA FreeFd ==
  ASSUME TypeOK, FreeFds # {}
  PROVE  (CHOOSE f \in FreeFds : \A g \in FreeFds : f <= g) \in FreeFds
<1>1. FreeFds \subseteq Nat
  <2>1. maxFds \in Nat
    BY ConfigsAssumption DEF TypeOK
  <2>2. QED BY <2>1 DEF FreeFds, Fds
<1>2. \E f \in FreeFds : \A g \in FreeFds : f <= g
  BY <1>1, LeastNumber
<1>3. QED BY <1>2

-----------------------------------------------------------------------------
(* Queues of functors *)

LEMMA AppendedQueue ==
  ASSUME NEW q \in Seq(Functor), NEW f \in Functor
  PROVE  /\ Append(q, f) \in Seq(Functor)
         /\ Range(Append(q, f)) = Range(q) \cup {f}
         /\ EstFirst(q) /\ (f.op = "connectEstablished" =>
                              \A g \in Range(q) : g.conn # f.conn)
              => EstFirst(Append(q, f))
<1> DEFINE r == Append(q, f)
<1>1. /\ Len(q) \in Nat /\ DOMAIN q = 1..Len(q) /\ DOMAIN r = 1..(Len(q) + 1)
      /\ \A i \in 1..Len(q) : r[i] = q[i]
      /\ r[Len(q) + 1] = f /\ r \in Seq(Functor)
  BY AppendProperties, LenProperties
<1> HIDE DEF r
<1>2. Range(r) = Range(q) \cup {f}
  BY <1>1 DEF Range
<1>3. ASSUME EstFirst(q), f.op = "connectEstablished" => \A g \in Range(q) : g.conn # f.conn
      PROVE  EstFirst(r)
  <2> SUFFICES ASSUME NEW i \in DOMAIN r, NEW j \in DOMAIN r,
                      r[i].op = "connectEstablished", j < i
               PROVE  r[j].conn # r[i].conn
    BY DEF EstFirst
  <2>1. CASE i \in 1..Len(q)
    BY <1>1, <1>3, <2>1 DEF EstFirst
  <2>2. CASE i = Len(q) + 1
    <3>1. j \in 1..Len(q) /\ r[j] = q[j] /\ r[i] = f
      BY <1>1, <2>2
    <3>2. q[j] \in Range(q)
      BY <1>1, <3>1 DEF Range
    <3>3. QED BY <1>3, <3>1, <3>2
  <2>3. QED BY <1>1, <2>1, <2>2
<1>4. QED BY <1>1, <1>2, <1>3 DEF r

LEMMA RunQueue ==
  ASSUME NEW q \in Seq(Functor), q # <<>>
  PROVE  /\ Head(q) \in Functor /\ Tail(q) \in Seq(Functor)
         /\ Range(q) = {Head(q)} \cup Range(Tail(q))
         /\ EstFirst(q) =>
              /\ EstFirst(Tail(q))
              /\ \A f \in Range(Tail(q)) :
                   f.op = "connectEstablished" => f.conn # Head(q).conn
<1> DEFINE r == Tail(q)
<1>1. /\ Len(q) \in Nat \ {0} /\ DOMAIN q = 1..Len(q) /\ DOMAIN r = 1..(Len(q) - 1)
      /\ \A i \in 1..(Len(q) - 1) : r[i] = q[i + 1]
      /\ Head(q) = q[1] /\ Head(q) \in Functor /\ r \in Seq(Functor)
  BY EmptySeq, HeadTailProperties, LenProperties
<1> HIDE DEF r
<1>2. Range(q) = {q[1]} \cup Range(r)
  <2>1. ASSUME NEW i \in 1..Len(q), i # 1 PROVE q[i] \in Range(r)
    <3>1. i - 1 \in 1..(Len(q) - 1) /\ r[i - 1] = q[i]
      BY <1>1, <2>1
    <3>2. QED BY <1>1, <3>1 DEF Range
  <2>2. ASSUME NEW i \in 1..(Len(q) - 1) PROVE r[i] \in Range(q)
    BY <1>1 DEF Range
  <2>3. q[1] \in Range(q)
    BY <1>1 DEF Range
  <2>4. QED BY <1>1, <2>1, <2>2, <2>3, ZenonT(30) DEF Range
<1>3. ASSUME EstFirst(q) PROVE EstFirst(r)
  <2> SUFFICES ASSUME NEW i \in DOMAIN r, NEW j \in DOMAIN r,
                      r[i].op = "connectEstablished", j < i
               PROVE  r[j].conn # r[i].conn
    BY DEF EstFirst
  <2>1. /\ i + 1 \in DOMAIN q /\ j + 1 \in DOMAIN q /\ j + 1 < i + 1
        /\ r[i] = q[i + 1] /\ r[j] = q[j + 1]
    BY <1>1
  <2>2. QED BY <1>3, <2>1 DEF EstFirst
<1>4. ASSUME EstFirst(q), NEW f \in Range(r), f.op = "connectEstablished"
      PROVE  f.conn # q[1].conn
  <2>1. PICK i \in 1..(Len(q) - 1) : f = q[i + 1]
    BY <1>1 DEF Range
  <2>2. i + 1 \in DOMAIN q /\ 1 \in DOMAIN q /\ 1 < i + 1
    BY <1>1
  <2>3. QED BY <1>4, <2>1, <2>2 DEF EstFirst
<1>5. QED BY <1>1, <1>2, <1>3, <1>4 DEF r

LEMMA EmptyQueue == Range(<<>>) = {} /\ EstFirst(<<>>) /\ <<>> \in Seq(Functor)
BY EmptySeq DEF Range, EstFirst

LEMMA FunctorFields ==
  ASSUME NEW f \in Functor
  PROVE  /\ f.conn \in Conns /\ f.op \in Owning \cup Bare
         /\ f.op = "connectEstablished" => f = Est(f.conn)
         /\ f.op = "connectDestroyed" => f = Des(f.conn)
BY DEF Functor, Est, Des, Bind

LEMMA BoundFunctors ==
  ASSUME NEW c \in Conns
  PROVE  /\ Est(c) \in Functor /\ Est(c).conn = c /\ Est(c).op = "connectEstablished"
         /\ Rem(c) \in Functor /\ Rem(c).conn = c /\ Rem(c).op = "removeConnectionInLoop"
         /\ Des(c) \in Functor /\ Des(c).conn = c /\ Des(c).op = "connectDestroyed"
         /\ \A op \in Owning \cup Bare :
              /\ Bind(op, c) \in Functor /\ Bind(op, c).conn = c /\ Bind(op, c).op = op
              /\ op = "connectDestroyed" \/ Bind(op, c) # Des(c)
              /\ op = "connectEstablished" \/ Bind(op, c) # Est(c)
BY DEF Functor, Est, Rem, Des, Bind, Owning, Bare

LEMMA QueuedFunctors ==
  ASSUME TypeOK, NEW m \in Loops, NEW g \in queued[m]
  PROVE  g \in Functor
<1>1. functors[m] \in Seq(Functor) /\ pending[m] \in Seq(Functor)
  BY DEF TypeOK
<1>2. \A s \in Seq(Functor) : \A x \in Range(s) : x \in Functor
  BY LenProperties, ElementOfSeq DEF Range
<1>3. g \in Range(functors[m]) \cup Range(pending[m])
  BY DEF queued
<1>4. QED BY <1>1, <1>2, <1>3

-----------------------------------------------------------------------------
(* What a step leaves alone *)

LEMMA ConfigFacts ==
  ASSUME TypeOK
  PROVE  /\ numThreads \in Nat /\ maxFds \in Nat /\ Base \in Loops /\ 0 \notin Fds
         /\ Base \notin SubLoops /\ SubLoops \subseteq Loops
         /\ \A l \in Loops : l = Base \/ l \in SubLoops
         /\ None \notin Conns /\ Acceptor \notin Conns /\ shared \subseteq Conns
<1>1. numThreads \in Nat /\ maxFds \in Nat /\ shared \subseteq Conns
  BY ConfigsAssumption DEF TypeOK
<1>2. QED BY <1>1, ConfigsAssumption DEF Base, Loops, SubLoops, Fds, None, Acceptor

LEMMA ConfigKept ==
  ASSUME UNCHANGED configVars
  PROVE  Loops' = Loops /\ SubLoops' = SubLoops /\ Fds' = Fds
BY DEF configVars, Loops, SubLoops, Fds

LEMMA QueuedKept ==
  ASSUME UNCHANGED configVars, UNCHANGED <<pending, functors>>
  PROVE  queued' = queued
BY DEF queued, configVars, Loops, Range

LEMMA GoneKept ==
  ASSUME UNCHANGED configVars,
         \A l \in Loops : phase'[l] = "stopped" <=> phase[l] = "stopped"
  PROVE  loopGone' = loopGone
BY DEF loopGone, configVars, Loops, Base

LEMMA Kept ==
  ASSUME IInv, UNCHANGED configVars
  PROVE  /\ UNCHANGED <<phase, active, functors, channels, interest, loopGone>> => LoopInv'
         /\ UNCHANGED <<peer, backlog, state>> => BacklogInv'
         /\ UNCHANGED <<state, index, events, alive, ups, downs, revived>> => LifeInv'
         /\ UNCHANGED <<state, downs, server, connections>> => MapInv'
         /\ UNCHANGED <<alive, fd>> => FdInv'
         /\ UNCHANGED <<connections, alive, held, queued, ioLoop, state, downs>> => OwnInv'
         /\ UNCHANGED <<users, alive, state, call>> => UserInv'
         /\ UNCHANGED <<functors, pending>> => OrderInv'
         /\ UNCHANGED <<ioLoop, loopGone, index, queued, connections, revived>> => KeptInv'
         /\ UNCHANGED <<interest, channels, ioLoop, fd, index, active, loopGone, alive,
                         revived>> => PollInv'
         /\ UNCHANGED <<server, phase, joining>> => EndInv'
<1>0. Loops' = Loops /\ SubLoops' = SubLoops /\ Fds' = Fds
  BY ConfigKept
<1>1. UNCHANGED <<phase, active, functors, channels, interest, loopGone>> => LoopInv'
  BY <1>0 DEF IInv, LoopInv
<1>2. UNCHANGED <<peer, backlog, state>> => BacklogInv'
  BY DEF IInv, BacklogInv, Range
<1>3. UNCHANGED <<state, index, events, alive, ups, downs, revived>> => LifeInv'
  BY DEF IInv, LifeInv
<1>4. UNCHANGED <<state, downs, server, connections>> => MapInv'
  BY DEF IInv, MapInv
<1>5. UNCHANGED <<alive, fd>> => FdInv'
  BY DEF IInv, FdInv
<1>6. UNCHANGED <<connections, alive, held, queued, ioLoop, state, downs>> => OwnInv'
  BY <1>0 DEF IInv, OwnInv
<1>7. UNCHANGED <<users, alive, state, call>> => UserInv'
  BY DEF IInv, UserInv
<1>8. UNCHANGED <<functors, pending>> => OrderInv'
  BY <1>0 DEF IInv, OrderInv, EstFirst, Range
<1>9. UNCHANGED <<ioLoop, loopGone, index, queued, connections, revived>> => KeptInv'
  BY DEF IInv, KeptInv
<1>10. UNCHANGED <<interest, channels, ioLoop, fd, index, active, loopGone, alive,
                   revived>> => PollInv'
  BY <1>0 DEF IInv, PollInv
<1>11. UNCHANGED <<server, phase, joining>> => EndInv'
  BY <1>0 DEF IInv, EndInv
<1>12. QED BY <1>1, <1>2, <1>3, <1>4, <1>5, <1>6, <1>7, <1>8, <1>9, <1>10, <1>11

-----------------------------------------------------------------------------
(* Steps of peers, and steps of the server that no connection sees *)

LEMMA ServerStep ==
  ASSUME IInv, UNCHANGED configVars,
         start \/ QuitBase \/ BeginDestroy \/ JoinNext \/ EndDestroy
  PROVE  IInv'
<1>0. /\ UNCHANGED <<kernelVars, connVars, objVars, userVars, poolVars, loopVars, pending,
                     touched>>
      /\ TypeOK /\ numThreads \in Nat /\ joining \in 0..numThreads
      /\ SubLoops = 1..numThreads
  BY ConfigFacts DEF IInv, TypeOK, start, QuitBase, BeginDestroy, JoinNext, EndDestroy,
     SubLoops
<1> USE DEF kernelVars, connVars, pollVars, objVars, userVars, poolVars, loopVars
<1>1. /\ quit' \subseteq Loops /\ joining' \in 0..numThreads
      /\ server' \in {"running", "destroying", "joining", "gone", server}
      /\ server' = "running" => server \in {"new", "running"}
  <2>1. quit \subseteq Loops /\ Base \in Loops /\ Loops = 0..numThreads
    BY <1>0, ConfigFacts DEF TypeOK, Loops
  <2>2. CASE start \/ QuitBase \/ BeginDestroy \/ EndDestroy
    BY <1>0, <2>1, <2>2 DEF start, QuitBase, BeginDestroy, EndDestroy
  <2>3. CASE JoinNext
    <3>1. /\ joining < numThreads /\ joining' = joining + 1 /\ server' = "joining"
          /\ quit' = quit \cup {joining + 1}
      BY <2>3 DEF JoinNext
    <3>2. joining + 1 \in 0..numThreads
      BY <1>0, <3>1
    <3>3. QED BY <2>1, <3>1, <3>2
  <2>4. QED BY <2>2, <2>3
<1>2. TypeOK'
  BY <1>0, <1>1 DEF TypeOK, configVars, Loops, SubLoops, Fds
<1>3. queued' = queued /\ loopGone' = loopGone
  BY <1>0, QueuedKept, GoneKept
<1>4. LoopInv' /\ BacklogInv' /\ LifeInv' /\ FdInv' /\ OwnInv' /\ UserInv' /\ OrderInv'
        /\ KeptInv' /\ PollInv'
  BY <1>0, <1>3, Kept
<1>5. MapInv'
  BY <1>0, <1>1 DEF IInv, MapInv
<1>6. EndInv'
  <2>0. SubLoops' = SubLoops /\ phase' = phase
    BY <1>0, ConfigKept
  <2>1. CASE start \/ QuitBase \/ BeginDestroy
    BY <2>0, <2>1 DEF IInv, EndInv, start, QuitBase, BeginDestroy
  <2>2. CASE JoinNext
    BY <1>0, <2>0, <2>2 DEF IInv, EndInv, JoinNext
  <2>3. CASE EndDestroy
    BY <1>0, <2>0, <2>3 DEF IInv, EndInv, EndDestroy
  <2>4. QED BY <2>1, <2>2, <2>3
<1>7. QED BY <1>2, <1>4, <1>5, <1>6 DEF IInv

LEMMA PeerInv ==
  ASSUME IInv, UNCHANGED configVars, PeerStep
  PROVE  IInv'
<1>0. /\ UNCHANGED <<connVars, objVars, userVars, poolVars, loopVars, pending, endVars,
                     touched>>
      /\ unread' \subseteq Conns
  BY DEF IInv, TypeOK, PeerStep, PeerConnects, PeerSends, PeerCloses
<1> USE DEF connVars, pollVars, objVars, userVars, poolVars, loopVars, endVars
<1>1. PICK c \in Conns : PeerConnects(c) \/ PeerSends(c) \/ PeerCloses(c)
  BY DEF PeerStep
<1>2. queued' = queued /\ loopGone' = loopGone
  BY <1>0, QueuedKept, GoneKept
<1>3. LoopInv' /\ LifeInv' /\ MapInv' /\ FdInv' /\ OwnInv' /\ UserInv' /\ OrderInv'
        /\ KeptInv' /\ PollInv' /\ EndInv'
  BY <1>0, <1>2, Kept
<1>4. CASE PeerConnects(c)
  <2>1. /\ peer[c] = "away" /\ peer' = [peer EXCEPT ![c] = "open"]
        /\ backlog' = Append(backlog, c) /\ backlog \in Seq(Conns) /\ state' = state
        /\ peer \in [Conns -> {"away", "open", "reset", "closed"}]
    BY <1>4, <1>0 DEF PeerConnects, IInv, TypeOK
  <2>2. /\ Len(backlog) \in Nat /\ DOMAIN backlog = 1..Len(backlog)
        /\ DOMAIN backlog' = 1..(Len(backlog) + 1) /\ backlog' \in Seq(Conns)
        /\ \A i \in 1..Len(backlog) : backlog'[i] = backlog[i]
        /\ backlog'[Len(backlog) + 1] = c
    BY <2>1, AppendProperties, LenProperties
  <2>3. state[c] = None /\ \A i \in DOMAIN backlog : backlog[i] # c
    BY <2>1 DEF IInv, BacklogInv, Range
  <2>4. BacklogInv'
    <3>1. \A d \in Conns : peer'[d] = "away" => state'[d] = None /\ d \notin Range(backlog')
      BY <2>1, <2>2 DEF IInv, BacklogInv, Range
    <3>2. \A i \in DOMAIN backlog' : state'[backlog'[i]] = None
      BY <2>1, <2>2, <2>3 DEF IInv, BacklogInv
    <3>3. \A i, j \in DOMAIN backlog' : backlog'[i] = backlog'[j] => i = j
      BY <2>1, <2>2, <2>3 DEF IInv, BacklogInv
    <3>4. QED BY <3>1, <3>2, <3>3 DEF BacklogInv
  <2>5. TypeOK'
    BY <1>0, <2>1, <2>2 DEF IInv, TypeOK, configVars, Loops, SubLoops, Fds
  <2>6. QED BY <1>3, <2>4, <2>5 DEF IInv
<1>5. CASE PeerSends(c) \/ PeerCloses(c)
  <2>1. /\ peer[c] = "open" /\ backlog' = backlog
        /\ peer \in [Conns -> {"away", "open", "reset", "closed"}]
        /\ peer' \in {peer, [peer EXCEPT ![c] = "closed"], [peer EXCEPT ![c] = "reset"]}
    BY <1>5 DEF PeerSends, PeerCloses, IInv, TypeOK
  <2>2. /\ peer' \in [Conns -> {"away", "open", "reset", "closed"}]
        /\ \A d \in Conns : peer'[d] = "away" => peer[d] = "away"
    BY <2>1
  <2>3. BacklogInv'
    BY <1>0, <2>1, <2>2 DEF IInv, BacklogInv, Range
  <2>4. TypeOK'
    BY <1>0, <2>1, <2>2 DEF IInv, TypeOK, configVars, Loops, SubLoops, Fds
  <2>5. QED BY <1>3, <2>3, <2>4 DEF IInv
<1>6. QED BY <1>1, <1>4, <1>5

-----------------------------------------------------------------------------
(* Steps of a loop that leave the connections alone *)

(* A channel the poller knows has an object and a descriptor. *)
LEMMA PolledAlive ==
  ASSUME IInv, NEW c \in Conns, index[c] # "kNew", ~loopGone[ioLoop[c]],
         c \notin revived \/ c \in alive
  PROVE  c \in alive /\ fd[c] \in Fds /\ ioLoop[c] \in Loops
<1>1. ioLoop[c] \in Loops /\ fd[c] \in Fds \cup {0}
  BY DEF IInv, TypeOK
<1>2. c \notin revived => c \in connections \/ Des(c) \in queued[ioLoop[c]]
  BY DEF IInv, KeptInv
<1>3. c \in alive
  BY <1>1, <1>2, BoundFunctors DEF IInv, OwnInv, Owning
<1>4. QED BY <1>1, <1>3 DEF IInv, FdInv

LEMMA RunningLoop ==
  ASSUME IInv, NEW l \in Loops, phase[l] # "stopped"
  PROVE  /\ ~loopGone[l] /\ (l \in SubLoops => server # "gone")
         /\ (l = Base => server \in {"new", "running"})
BY DEF IInv, loopGone, EndInv, TypeOK

LEMMA EnterStep ==
  ASSUME IInv, UNCHANGED configVars, NEW l \in Loops, Enter(l)
  PROVE  IInv'
<1>0. /\ phase[l] = "enter" /\ phase' = [phase EXCEPT ![l] = "poll"] /\ quit' = quit \ {l}
      /\ UNCHANGED <<kernelVars, connVars, objVars, userVars, poolVars, active, functors,
                     held, pending, server, joining, touched>>
      /\ TypeOK
  BY DEF Enter, IInv
<1> USE DEF kernelVars, connVars, pollVars, objVars, userVars, poolVars
<1>1. TypeOK'
  BY <1>0 DEF TypeOK, configVars, Loops, SubLoops, Fds
<1>2. queued' = queued /\ loopGone' = loopGone
  <2>1. \A k \in Loops : phase'[k] = "stopped" <=> phase[k] = "stopped"
    BY <1>0 DEF TypeOK
  <2>2. QED BY <1>0, <2>1, QueuedKept, GoneKept
<1>3. BacklogInv' /\ LifeInv' /\ MapInv' /\ FdInv' /\ OwnInv' /\ UserInv' /\ OrderInv'
        /\ KeptInv' /\ PollInv'
  BY <1>0, <1>2, Kept
<1>4. LoopInv'
  BY <1>0, <1>2, ConfigKept, ZenonT(30) DEF IInv, LoopInv, TypeOK
<1>5. EndInv'
  BY <1>0, RunningLoop, ConfigFacts, ConfigKept DEF IInv, EndInv, TypeOK
<1>6. QED BY <1>1, <1>3, <1>4, <1>5 DEF IInv

LEMMA PollStep ==
  ASSUME IInv, UNCHANGED configVars, NEW l \in Loops, Poll(l)
  PROVE  IInv'
<1> DEFINE ready == ({interest[l][f] : f \in ReadyFds} \ {None}) \cup
                    (IF l = Base /\ AcceptReady THEN {Acceptor} ELSE {})
<1>0. /\ phase[l] = "poll" /\ active' = [active EXCEPT ![l] = ready]
      /\ phase' = [phase EXCEPT ![l] = "events"]
      /\ UNCHANGED <<kernelVars, connVars, objVars, userVars, poolVars, functors, held,
                     pending, endVars, touched>>
      /\ TypeOK
  BY DEF Poll, IInv
<1> USE DEF kernelVars, connVars, pollVars, objVars, userVars, poolVars, endVars
<1>1. ASSUME NEW c \in ready, c # Acceptor
      PROVE  c \in Conns /\ ioLoop[c] = l /\ index[c] = "kAdded"
  <2>1. PICK d \in alive : c = interest[l][fd[d]]
    BY <1>1 DEF ReadyFds
  <2>2. d \in Conns /\ fd[d] \in Fds
    BY <1>0 DEF IInv, FdInv, TypeOK
  <2>3. interest[l][fd[d]] \in Conns \cup {None} /\ c # None
    BY <1>0, <1>1, <2>1, <2>2, ConfigFacts DEF TypeOK, None, Acceptor
  <2>4. QED BY <2>1, <2>2, <2>3 DEF IInv, PollInv
<1> HIDE DEF ready
<1>2. ready \subseteq Conns \cup {Acceptor}
  BY <1>1
<1>3. TypeOK'
  BY <1>0, <1>2 DEF TypeOK, configVars, Loops, SubLoops, Fds
<1>4. queued' = queued /\ loopGone' = loopGone
  <2>1. \A k \in Loops : phase'[k] = "stopped" <=> phase[k] = "stopped"
    BY <1>0 DEF TypeOK
  <2>2. QED BY <1>0, <2>1, QueuedKept, GoneKept
<1>5. BacklogInv' /\ LifeInv' /\ MapInv' /\ FdInv' /\ OwnInv' /\ UserInv' /\ OrderInv'
        /\ KeptInv'
  BY <1>0, <1>4, Kept
<1>6. LoopInv'
  BY <1>0, <1>4, ConfigKept, ZenonT(30) DEF IInv, LoopInv, TypeOK
<1>7. PollInv'
  <2>1. \A k \in Loops : \A c \in active'[k] \ {Acceptor} :
          ioLoop[c] = k /\ index[c] = "kAdded"
    BY <1>0, <1>1 DEF IInv, PollInv, TypeOK
  <2>2. QED BY <1>0, <1>4, <2>1, ConfigKept DEF IInv, PollInv
<1>8. EndInv'
  BY <1>0, RunningLoop, ConfigFacts, ConfigKept DEF IInv, EndInv, TypeOK
<1>9. QED BY <1>3, <1>5, <1>6, <1>7, <1>8 DEF IInv

LEMMA AcceptFailsStep ==
  ASSUME IInv, UNCHANGED configVars, AcceptFails
  PROVE  IInv'
<1>0. /\ active' = [active EXCEPT ![Base] = @ \ {Acceptor}] /\ TypeOK /\ Base \in Loops
      /\ UNCHANGED <<kernelVars, connVars, objVars, userVars, poolVars, phase, functors,
                     held, pending, endVars, touched>>
  BY ConfigFacts DEF AcceptFails, IInv
<1> USE DEF kernelVars, connVars, pollVars, objVars, userVars, poolVars, endVars
<1>1. \A l \in Loops : active'[l] \subseteq active[l]
  BY <1>0 DEF TypeOK
<1>2. TypeOK'
  BY <1>0 DEF TypeOK, configVars, Loops, SubLoops, Fds
<1>3. queued' = queued /\ loopGone' = loopGone
  BY <1>0, QueuedKept, GoneKept
<1>4. BacklogInv' /\ LifeInv' /\ MapInv' /\ FdInv' /\ OwnInv' /\ UserInv' /\ OrderInv'
        /\ KeptInv' /\ EndInv'
  BY <1>0, <1>3, Kept
<1>5. LoopInv'
  BY <1>0, <1>1, <1>3, ConfigKept DEF IInv, LoopInv
<1>6. PollInv'
  BY <1>0, <1>1, <1>3, ConfigKept DEF IInv, PollInv
<1>7. QED BY <1>2, <1>4, <1>5, <1>6 DEF IInv

LEMMA SwapStep ==
  ASSUME IInv, UNCHANGED configVars, NEW l \in Loops, Swap(l)
  PROVE  IInv'
<1>0. /\ phase[l] = "events" /\ active[l] = {} /\ TypeOK
      /\ functors' = [functors EXCEPT ![l] = pending[l]]
      /\ pending' = [pending EXCEPT ![l] = <<>>]
      /\ phase' = [phase EXCEPT ![l] = "functors"]
      /\ UNCHANGED <<kernelVars, connVars, objVars, userVars, poolVars, active, held,
                     endVars, touched>>
      /\ functors[l] = <<>>
  BY DEF Swap, IInv, LoopInv
<1> USE DEF kernelVars, connVars, pollVars, objVars, userVars, poolVars, endVars
<1>1. TypeOK'
  BY <1>0, EmptyQueue DEF TypeOK, configVars, Loops, SubLoops, Fds
<1>2. queued' = queued
  <2>1. \A k \in Loops : Range(functors'[k]) \cup Range(pending'[k]) =
                           Range(functors[k]) \cup Range(pending[k])
    BY <1>0, EmptyQueue DEF TypeOK
  <2>2. QED BY <2>1, ConfigKept DEF queued
<1>3. loopGone' = loopGone
  <2>1. \A k \in Loops : phase'[k] = "stopped" <=> phase[k] = "stopped"
    BY <1>0 DEF TypeOK
  <2>2. QED BY <2>1, GoneKept
<1>4. BacklogInv' /\ LifeInv' /\ MapInv' /\ FdInv' /\ OwnInv' /\ UserInv' /\ KeptInv'
        /\ PollInv'
  BY <1>0, <1>2, <1>3, Kept
<1>5. LoopInv'
  BY <1>0, <1>3, ConfigKept, ZenonT(30) DEF IInv, LoopInv, TypeOK
<1>6. OrderInv'
  <2>1. ASSUME NEW k \in Loops
        PROVE  /\ EstFirst(functors'[k]) /\ EstFirst(pending'[k])
               /\ \A c \in Conns : \A f \in Range(functors'[k]) :
                    Est(c) \in Range(pending'[k]) => f.conn # c
    <3>1. CASE k = l
      BY <1>0, <3>1, EmptyQueue DEF IInv, OrderInv, TypeOK
    <3>2. CASE k # l
      <4>1. functors'[k] = functors[k] /\ pending'[k] = pending[k]
        BY <1>0, <3>2 DEF TypeOK
      <4>2. QED BY <4>1 DEF IInv, OrderInv
    <3>3. QED BY <3>1, <3>2
  <2>2. QED BY <2>1, ConfigKept DEF OrderInv
<1>7. EndInv'
  BY <1>0, RunningLoop, ConfigFacts, ConfigKept DEF IInv, EndInv, TypeOK
<1>8. QED BY <1>1, <1>4, <1>5, <1>6, <1>7 DEF IInv

-----------------------------------------------------------------------------
(* The events of a connection *)

(* queueInLoop of a functor that is not a connectEstablished, or the first about
   its connection. *)
LEMMA Pushed ==
  ASSUME IInv, UNCHANGED configVars, NEW k \in Loops, NEW f \in Functor,
         pending' = [pending EXCEPT ![k] = Append(@, f)], functors' = functors,
         f.op = "connectEstablished" => \A g \in queued[k] : g.conn # f.conn
  PROVE  /\ pending' \in [Loops -> Seq(Functor)]
         /\ \A m \in Loops :
              queued'[m] = IF m = k THEN queued[k] \cup {f} ELSE queued[m]
         /\ OrderInv'
<1>1. pending \in [Loops -> Seq(Functor)] /\ functors \in [Loops -> Seq(Functor)]
  BY DEF IInv, TypeOK
<1>2. /\ \A m \in Loops : m # k => pending'[m] = pending[m]
      /\ pending'[k] = Append(pending[k], f)
  BY <1>1
<1>3. /\ pending'[k] \in Seq(Functor)
      /\ Range(pending'[k]) = Range(pending[k]) \cup {f}
  BY <1>1, <1>2, AppendedQueue
<1>4. \A m \in Loops : queued'[m] = IF m = k THEN queued[k] \cup {f} ELSE queued[m]
  <2>1. \A m \in Loops : Range(functors'[m]) \cup Range(pending'[m]) =
          IF m = k THEN Range(functors[k]) \cup Range(pending[k]) \cup {f}
                   ELSE Range(functors[m]) \cup Range(pending[m])
    BY <1>2, <1>3
  <2>2. QED BY <2>1, ConfigKept DEF queued
<1>5. ASSUME NEW m \in Loops
      PROVE  /\ EstFirst(functors'[m]) /\ EstFirst(pending'[m])
             /\ \A c \in Conns : \A g \in Range(functors'[m]) :
                  Est(c) \in Range(pending'[m]) => g.conn # c
  <2>1. CASE m # k
    <3>1. functors'[m] = functors[m] /\ pending'[m] = pending[m]
      BY <1>2, <2>1
    <3>2. QED BY <3>1 DEF IInv, OrderInv
  <2>2. CASE m = k
    <3>1. /\ EstFirst(functors[k]) /\ EstFirst(pending[k])
          /\ \A c \in Conns : \A g \in Range(functors[k]) :
                  Est(c) \in Range(pending[k]) => g.conn # c
      BY DEF IInv, OrderInv
    <3>2. f.op = "connectEstablished" =>
            \A g \in Range(functors[k]) \cup Range(pending[k]) : g.conn # f.conn
      BY DEF queued
    <3>3. EstFirst(pending'[k])
      BY <1>1, <1>2, <3>1, <3>2, AppendedQueue
    <3>4. \A c \in Conns : \A g \in Range(functors[k]) :
            Est(c) \in Range(pending'[k]) => g.conn # c
      BY <1>3, <3>1, <3>2, BoundFunctors
    <3>5. QED BY <2>2, <3>1, <3>3, <3>4
  <2>3. QED BY <2>1, <2>2
<1>6. OrderInv'
  BY <1>5, ConfigKept DEF OrderInv
<1>7. QED BY <1>1, <1>2, <1>3, <1>4, <1>6

(* A connection whose channel is active, and whose object is not destructed. *)
LEMMA ActiveConn ==
  ASSUME IInv, NEW l \in Loops, phase[l] = "events", NEW c \in Conns, c \in active[l],
         c \in alive
  PROVE  /\ ioLoop[c] = l /\ index[c] = "kAdded" /\ ~loopGone[l]
         /\ fd[c] \in Fds /\ state[c] \notin Unborn /\ ups[c] = 1 /\ downs[c] \in Nat
         /\ c \notin revived => /\ state[c] \in {"kConnected", "kDisconnecting"}
                                /\ downs[c] = 0 /\ "in" \in events[c]
         /\ \A i \in DOMAIN backlog : backlog[i] # c
         /\ peer[c] # "away"
<1>1. ioLoop[c] = l /\ index[c] = "kAdded" /\ ~loopGone[l]
  BY RunningLoop, ConfigFacts DEF IInv, PollInv
<1>2. fd[c] \in Fds
  BY <1>1, PolledAlive
<1>3. /\ state[c] \notin Unborn /\ ups[c] = 1 /\ downs[c] \in Nat
      /\ c \notin revived => /\ state[c] \in {"kConnected", "kDisconnecting"}
                             /\ downs[c] = 0 /\ "in" \in events[c]
  BY <1>1 DEF IInv, LifeInv, TypeOK
<1>4. QED BY <1>1, <1>2, <1>3 DEF IInv, BacklogInv, Unborn

(* updateChannel on the connection's own loop: no other connection has its descriptor,
   so no other entry changes. *)
LEMMA Updated ==
  ASSUME IInv, UNCHANGED configVars, NEW l \in Loops, NEW c \in Conns, c \in alive,
         ioLoop[c] = l, ~loopGone[l], NEW mask \in SUBSET {"in", "out"},
         SetEvents(c, l, fd[c], mask),
         UNCHANGED <<alive, fd, ioLoop, loopGone>>, revived \subseteq revived',
         \A m \in Loops : active'[m] \subseteq active[m],
         c \notin active'[l] \/ mask # {}
  PROVE  /\ index' \in [Conns -> {"kNew", "kAdded", "kDeleted"}]
         /\ events' \in [Conns -> SUBSET {"in", "out"}]
         /\ channels' \in [Loops -> [Fds -> Conns \cup {None}]]
         /\ interest' \in [Loops -> [Fds -> Conns \cup {None}]]
         /\ index'[c] = IF index[c] = "kAdded" /\ mask = {} THEN "kDeleted" ELSE "kAdded"
         /\ events'[c] = mask
         /\ \A d \in Conns : d # c => index'[d] = index[d] /\ events'[d] = events[d]
         /\ \A m \in Loops : loopGone[m] =>
              \A g \in Fds : channels'[m][g] = None /\ interest'[m][g] = None
         /\ PollInv'
<1> DEFINE del == index[c] = "kAdded" /\ mask = {}
<1>0. /\ TypeOK /\ None \notin Conns /\ Loops' = Loops /\ Fds' = Fds /\ fd[c] \in Fds
      /\ channels \in [Loops -> [Fds -> Conns \cup {None}]]
      /\ interest \in [Loops -> [Fds -> Conns \cup {None}]]
      /\ index \in [Conns -> {"kNew", "kAdded", "kDeleted"}]
      /\ events \in [Conns -> SUBSET {"in", "out"}] /\ alive \subseteq Conns
  BY ConfigFacts, ConfigKept DEF IInv, TypeOK, FdInv
<1>1. /\ index' = [index EXCEPT ![c] = IF del THEN "kDeleted" ELSE "kAdded"]
      /\ events' = [events EXCEPT ![c] = mask]
      /\ channels' = IF index[c] = "kNew" THEN [channels EXCEPT ![l][fd[c]] = c] ELSE channels
      /\ interest' = [interest EXCEPT ![l][fd[c]] = IF del THEN None ELSE c]
  BY DEF SetEvents, updateChannel
<1>2. /\ index' \in [Conns -> {"kNew", "kAdded", "kDeleted"}]
      /\ events' \in [Conns -> SUBSET {"in", "out"}] /\ events'[c] = mask
      /\ index'[c] = (IF del THEN "kDeleted" ELSE "kAdded")
      /\ \A d \in Conns : d # c => index'[d] = index[d] /\ events'[d] = events[d]
  BY <1>0, <1>1
<1>3. /\ channels' \in [Loops -> [Fds -> Conns \cup {None}]]
      /\ \A m \in Loops, g \in Fds :
           channels'[m][g] = IF index[c] = "kNew" /\ m = l /\ g = fd[c] THEN c
                             ELSE channels[m][g]
  <2>1. CASE index[c] = "kNew"
    BY <1>0, <1>1, <2>1
  <2>2. CASE index[c] # "kNew"
    BY <1>0, <1>1, <2>2
  <2>3. QED BY <2>1, <2>2
<1>4. /\ interest' \in [Loops -> [Fds -> Conns \cup {None}]]
      /\ \A m \in Loops, g \in Fds :
           interest'[m][g] = IF m = l /\ g = fd[c] THEN (IF del THEN None ELSE c)
                             ELSE interest[m][g]
  <2>1. (IF del THEN None ELSE c) \in Conns \cup {None}
    OBVIOUS
  <2>2. QED BY <1>0, <1>1, <2>1
<1> HIDE DEF del
<1>5. \A m \in Loops : loopGone[m] =>
        \A g \in Fds : channels'[m][g] = None /\ interest'[m][g] = None
  BY <1>3, <1>4 DEF IInv, LoopInv
<1>6. ASSUME NEW m \in Loops, NEW g \in Fds, interest'[m][g] # None
      PROVE  /\ ioLoop[interest'[m][g]] = m /\ fd[interest'[m][g]] = g
             /\ index'[interest'[m][g]] = "kAdded"
  <2>1. CASE m = l /\ g = fd[c]
    <3>1. interest'[m][g] = c /\ ~del
      BY <1>4, <1>6, <2>1
    <3>2. QED BY <1>2, <2>1, <3>1
  <2>2. CASE ~(m = l /\ g = fd[c])
    <3>1. interest'[m][g] = interest[m][g] /\ interest[m][g] \in Conns
      BY <1>0, <1>4, <1>6, <2>2
    <3>2. /\ ioLoop[interest[m][g]] = m /\ fd[interest[m][g]] = g
          /\ index[interest[m][g]] = "kAdded"
      BY <1>6, <3>1 DEF IInv, PollInv
    <3>3. interest[m][g] # c
      BY <2>2, <3>2
    <3>4. QED BY <1>2, <3>1, <3>2, <3>3
  <2>3. QED BY <2>1, <2>2
<1>7. ASSUME NEW m \in Loops, NEW g \in Fds, channels'[m][g] # None
      PROVE  \/ channels'[m][g] \in revived'
             \/ /\ ioLoop[channels'[m][g]] = m /\ fd[channels'[m][g]] = g
                /\ index'[channels'[m][g]] # "kNew"
  <2>1. CASE index[c] = "kNew" /\ m = l /\ g = fd[c]
    <3>1. channels'[m][g] = c
      BY <1>3, <2>1
    <3>2. QED BY <1>2, <2>1, <3>1
  <2>2. CASE ~(index[c] = "kNew" /\ m = l /\ g = fd[c])
    <3>1. channels'[m][g] = channels[m][g] /\ channels[m][g] \in Conns
      BY <1>0, <1>3, <1>7, <2>2
    <3>2. \/ channels[m][g] \in revived
          \/ /\ ioLoop[channels[m][g]] = m /\ fd[channels[m][g]] = g
             /\ index[channels[m][g]] # "kNew"
      BY <1>7, <3>1 DEF IInv, PollInv
    <3>3. index[channels[m][g]] # "kNew" => index'[channels[m][g]] # "kNew"
      BY <1>2, <3>1
    <3>4. QED BY <3>1, <3>2, <3>3
  <2>3. QED BY <2>1, <2>2
<1>8. ASSUME NEW d \in alive, index'[d] # "kNew", ~loopGone[ioLoop[d]]
      PROVE  /\ channels'[ioLoop[d]][fd[d]] = d
             /\ index'[d] = "kAdded" => interest'[ioLoop[d]][fd[d]] = d
  <2>1. CASE d = c
    <3>1. index[c] # "kNew" => channels[l][fd[c]] = c
      BY DEF IInv, PollInv
    <3>2. channels'[l][fd[c]] = c
      BY <1>0, <1>3, <3>1
    <3>3. index'[c] = "kAdded" => interest'[l][fd[c]] = c
      BY <1>0, <1>2, <1>4
    <3>4. QED BY <2>1, <3>2, <3>3
  <2>2. CASE d # c
    <3>0. d \in Conns
      BY <1>0
    <3>1. index[d] # "kNew" /\ index'[d] = index[d]
      BY <1>2, <1>8, <2>2, <3>0
    <3>2. fd[d] \in Fds /\ ioLoop[d] \in Loops /\ fd[d] # 0
      BY <1>0, <1>8, <3>0, <3>1, PolledAlive, ConfigFacts
    <3>3. fd[d] # fd[c]
      BY <2>2, <3>0, <3>2 DEF IInv, FdInv
    <3>4. /\ channels[ioLoop[d]][fd[d]] = d
          /\ index[d] = "kAdded" => interest[ioLoop[d]][fd[d]] = d
      BY <1>8, <3>1 DEF IInv, PollInv
    <3>5. /\ channels'[ioLoop[d]][fd[d]] = channels[ioLoop[d]][fd[d]]
          /\ interest'[ioLoop[d]][fd[d]] = interest[ioLoop[d]][fd[d]]
      BY <1>3, <1>4, <3>2, <3>3
    <3>6. QED BY <3>1, <3>4, <3>5
  <2>3. QED BY <2>1, <2>2
<1>9. ASSUME NEW m \in Loops, NEW d \in active'[m] \ {Acceptor}
      PROVE  ioLoop[d] = m /\ index'[d] = "kAdded"
  <2>1. d \in Conns /\ ioLoop[d] = m /\ index[d] = "kAdded"
    BY <1>0 DEF IInv, PollInv, TypeOK
  <2>2. d = c => ~del
    BY <1>9, <2>1 DEF del
  <2>3. QED BY <1>2, <2>1, <2>2
<1>10. PollInv'
  BY <1>0, <1>6, <1>7, <1>8, <1>9 DEF PollInv
<1>11. QED BY <1>2, <1>3, <1>4, <1>5, <1>10 DEF del

(* An event that does not close the connection: its state and its peer may change, and
   its channel when it has no more to write. *)
LEMMA WriteStep ==
  ASSUME IInv, UNCHANGED configVars, NEW l \in Loops, NEW c \in Conns,
         phase[l] = "events", c \in active[l], c \in alive,
         active' = [active EXCEPT ![l] = @ \ {c}], handleWrite(l, c),
         UNCHANGED <<alive, fd, ioLoop, phase, functors>>
  PROVE  /\ index' \in [Conns -> {"kNew", "kAdded", "kDeleted"}]
         /\ events' \in [Conns -> SUBSET {"in", "out"}]
         /\ channels' \in [Loops -> [Fds -> Conns \cup {None}]]
         /\ interest' \in [Loops -> [Fds -> Conns \cup {None}]]
         /\ pending' \in [Loops -> Seq(Functor)] /\ revived' = revived
         /\ \A d \in Conns : d # c => index'[d] = index[d] /\ events'[d] = events[d]
         /\ c \notin revived => "in" \in events'[c]
         /\ \A m \in Loops : loopGone[m] =>
              \A g \in Fds : channels'[m][g] = None /\ interest'[m][g] = None
         /\ \A m \in Loops : /\ queued[m] \subseteq queued'[m]
                             /\ \A g \in queued'[m] : g \in queued[m]
                                  \/ (m = l /\ g = Bind("writeComplete", c))
         /\ OrderInv' /\ PollInv'
<1>0. /\ TypeOK /\ ioLoop[c] = l /\ ~loopGone[l] /\ index[c] = "kAdded"
      /\ c \notin revived => "in" \in events[c]
      /\ loopGone' = loopGone /\ Loops' = Loops
      /\ \A m \in Loops : active'[m] \subseteq active[m]
      /\ c \notin active'[l]
  <2>1. TypeOK /\ active \in [Loops -> SUBSET (Conns \cup {Acceptor})]
    BY DEF IInv, TypeOK
  <2>2. c \notin active'[l] /\ \A m \in Loops : active'[m] \subseteq active[m]
    BY <2>1
  <2>3. loopGone' = loopGone /\ Loops' = Loops
    BY GoneKept, ConfigKept
  <2>4. QED BY <2>1, <2>2, <2>3, ActiveConn
<1>1. CASE UNCHANGED <<pollVars, pending>>
  <2> USE DEF pollVars
  <2>1. queued' = queued /\ OrderInv'
    BY <1>1, QueuedKept, Kept
  <2>2. PollInv'
    BY <1>0, <1>1, ConfigKept DEF IInv, PollInv
  <2>3. QED BY <1>0, <1>1, <2>1, <2>2 DEF IInv, TypeOK, LoopInv
<1>2. CASE /\ SetEvents(c, l, fd[c], events[c] \ {"out"})
           /\ pending' = [pending EXCEPT ![l] = Append(@, Bind("writeComplete", c))]
           /\ revived' = revived
  <2> DEFINE mask == events[c] \ {"out"}
             f == Bind("writeComplete", c)
  <2>1. f \in Functor /\ f.op = "writeComplete"
    BY BoundFunctors DEF Owning
  <2>2. mask \in SUBSET {"in", "out"} /\ (c \notin revived => "in" \in mask)
    BY <1>0 DEF TypeOK
  <2>3. SetEvents(c, l, fd[c], mask)
    BY <1>2
  <2>4. pending' = [pending EXCEPT ![l] = Append(@, f)]
    BY <1>2
  <2> HIDE DEF mask, f
  <2>5. /\ index' \in [Conns -> {"kNew", "kAdded", "kDeleted"}]
        /\ events' \in [Conns -> SUBSET {"in", "out"}]
        /\ channels' \in [Loops -> [Fds -> Conns \cup {None}]]
        /\ interest' \in [Loops -> [Fds -> Conns \cup {None}]]
        /\ index'[c] = IF index[c] = "kAdded" /\ mask = {} THEN "kDeleted" ELSE "kAdded"
        /\ events'[c] = mask
        /\ \A d \in Conns : d # c => index'[d] = index[d] /\ events'[d] = events[d]
        /\ \A m \in Loops : loopGone[m] =>
             \A g \in Fds : channels'[m][g] = None /\ interest'[m][g] = None
        /\ PollInv'
    <3>1. UNCHANGED <<alive, fd, ioLoop, loopGone>> /\ revived \subseteq revived'
      BY <1>0, <1>2
    <3>2. c \in alive /\ ioLoop[c] = l /\ ~loopGone[l] /\ c \notin active'[l]
      BY <1>0
    <3>3. \A m \in Loops : active'[m] \subseteq active[m]
      BY <1>0
    <3>4. QED BY <2>2, <2>3, <3>1, <3>2, <3>3, Updated, Zenon
  <2>6. /\ pending' \in [Loops -> Seq(Functor)]
        /\ \A m \in Loops : queued'[m] = IF m = l THEN queued[l] \cup {f} ELSE queued[m]
        /\ OrderInv'
    BY <2>1, <2>4, Pushed
  <2>7. \A m \in Loops : /\ queued[m] \subseteq queued'[m]
                         /\ \A g \in queued'[m] : g \in queued[m] \/ (m = l /\ g = f)
    BY <2>6
  <2>8. QED BY <1>2, <2>2, <2>5, <2>6, <2>7 DEF f
<1>3. QED BY <1>1, <1>2 DEF handleWrite

LEMMA ReadStep ==
  ASSUME IInv, UNCHANGED configVars, NEW l \in Loops, NEW c \in Conns,
         phase[l] = "events", c \in active[l], c \in alive,
         active' = [active EXCEPT ![l] = @ \ {c}], handleWrite(l, c),
         state' = state \/ (state[c] = "kConnected"
                             /\ state' = [state EXCEPT ![c] = "kDisconnecting"]),
         peer' \in {peer, [peer EXCEPT ![c] = "closed"]}, unread' \subseteq Conns,
         UNCHANGED <<ups, downs, connections, backlog, objVars, userVars, next, phase,
                     functors, held, endVars, touched>>
  PROVE  IInv'
<1> DEFINE f == Bind("writeComplete", c)
<1> USE DEF objVars, userVars, endVars
<1>0. /\ TypeOK /\ Loops' = Loops /\ loopGone' = loopGone
      /\ \A m \in Loops : active'[m] \subseteq active[m]
  <2>1. TypeOK /\ active \in [Loops -> SUBSET (Conns \cup {Acceptor})]
    BY DEF IInv, TypeOK
  <2>2. \A m \in Loops : active'[m] \subseteq active[m]
    BY <2>1
  <2>3. QED BY <2>1, <2>2, GoneKept, ConfigKept
<1>1. /\ index' \in [Conns -> {"kNew", "kAdded", "kDeleted"}]
      /\ events' \in [Conns -> SUBSET {"in", "out"}]
      /\ channels' \in [Loops -> [Fds -> Conns \cup {None}]]
      /\ interest' \in [Loops -> [Fds -> Conns \cup {None}]]
      /\ pending' \in [Loops -> Seq(Functor)] /\ revived' = revived
      /\ \A d \in Conns : d # c => index'[d] = index[d] /\ events'[d] = events[d]
      /\ c \notin revived => "in" \in events'[c]
      /\ \A m \in Loops : loopGone[m] =>
           \A g \in Fds : channels'[m][g] = None /\ interest'[m][g] = None
      /\ \A m \in Loops : /\ queued[m] \subseteq queued'[m]
                          /\ \A g \in queued'[m] : g \in queued[m] \/ (m = l /\ g = f)
      /\ OrderInv' /\ PollInv'
  BY WriteStep
<1>2. /\ ioLoop[c] = l /\ index[c] = "kAdded" /\ state[c] \notin Unborn /\ ups[c] = 1
      /\ c \notin revived => state[c] \in {"kConnected", "kDisconnecting"} /\ downs[c] = 0
      /\ \A i \in DOMAIN backlog : backlog[i] # c
      /\ peer[c] # "away"
  BY ActiveConn
<1>3. /\ f.conn = c /\ f.op = "writeComplete" /\ \A d \in Conns : Est(d) # f
  BY BoundFunctors DEF Owning
<1> HIDE DEF f
<1>4. /\ state' \in [Conns -> {None, "kConnecting", "kConnected", "kDisconnecting",
                               "kDisconnected"}]
      /\ peer' \in [Conns -> {"away", "open", "reset", "closed"}]
      /\ \A d \in Conns : d # c => state'[d] = state[d] /\ peer'[d] = peer[d]
      /\ state'[c] = state[c] \/ (state[c] = "kConnected" /\ state'[c] = "kDisconnecting")
      /\ peer'[c] # "away"
  <2>1. /\ state \in [Conns -> {None, "kConnecting", "kConnected", "kDisconnecting",
                                "kDisconnected"}]
        /\ peer \in [Conns -> {"away", "open", "reset", "closed"}]
    BY <1>0 DEF TypeOK
  <2>2. /\ peer' \in [Conns -> {"away", "open", "reset", "closed"}] /\ peer'[c] # "away"
        /\ \A d \in Conns : d # c => peer'[d] = peer[d]
    BY <1>2, <2>1
  <2>3. /\ state' \in [Conns -> {None, "kConnecting", "kConnected", "kDisconnecting",
                                 "kDisconnected"}]
        /\ \A d \in Conns : d # c => state'[d] = state[d]
        /\ state'[c] = state[c] \/ (state[c] = "kConnected" /\ state'[c] = "kDisconnecting")
    <3>1. CASE state' = state
      BY <2>1, <3>1
    <3>2. CASE state[c] = "kConnected" /\ state' = [state EXCEPT ![c] = "kDisconnecting"]
      BY <2>1, <3>2
    <3>3. QED BY <3>1, <3>2
  <2>4. QED BY <2>2, <2>3
<1>5. TypeOK'
  <2>1. active' \in [Loops -> SUBSET (Conns \cup {Acceptor})]
    BY <1>0 DEF TypeOK
  <2>2. QED BY <1>0, <1>1, <1>4, <2>1 DEF TypeOK, configVars, Loops, SubLoops, Fds
<1>6. MapInv' /\ FdInv' /\ EndInv'
  <2>1. FdInv' /\ EndInv'
    BY Kept
  <2>2. \A d \in Conns : state'[d] # None => state[d] # None
    BY <1>2, <1>4 DEF Unborn
  <2>3. QED BY <2>1, <2>2 DEF IInv, MapInv
<1>7. LoopInv'
  BY <1>0, <1>1, ConfigKept DEF IInv, LoopInv
<1>8. BacklogInv'
  <2>1. \A d \in Conns : peer'[d] = "away" => state'[d] = None /\ d \notin Range(backlog')
    BY <1>4 DEF IInv, BacklogInv
  <2>2. \A i \in DOMAIN backlog : backlog[i] \in Conns /\ backlog[i] # c
    BY <1>0, <1>2, LenProperties, ElementOfSeq DEF TypeOK
  <2>3. QED BY <1>4, <2>1, <2>2 DEF IInv, BacklogInv
<1>9. LifeInv'
  <2> SUFFICES ASSUME NEW d \in Conns
               PROVE  /\ state'[d] = None => d \notin alive
                      /\ state'[d] \in Unborn => index'[d] = "kNew" /\ d \notin revived
                      /\ ups[d] = IF state'[d] \in Unborn THEN 0 ELSE 1
                      /\ d \notin revived =>
                           /\ downs[d] \in {0, 1}
                           /\ state'[d] \in Unborn \cup {"kConnected"} => downs[d] = 0
                           /\ index'[d] = "kAdded" =>
                                /\ state'[d] \in {"kConnected", "kDisconnecting"}
                                /\ downs[d] = 0 /\ "in" \in events'[d]
    BY <1>1 DEF LifeInv, Unborn
  <2>1. CASE d # c
    <3>1. /\ state'[d] = state[d] /\ index'[d] = index[d] /\ events'[d] = events[d]
      BY <1>1, <1>4, <2>1
    <3>2. QED BY <3>1 DEF IInv, LifeInv
  <2>2. CASE d = c
    <3>1. state'[c] \notin Unborn /\ (c \notin revived => state'[c] \in {"kConnected", "kDisconnecting"})
      BY <1>2, <1>4 DEF Unborn, None
    <3>2. QED BY <1>1, <1>2, <2>2, <3>1 DEF Unborn, None
  <2>3. QED BY <2>1, <2>2
<1>10. OwnInv'
  <2>1. ASSUME NEW m \in Loops, NEW g \in queued'[m]
        PROVE  /\ g.op \in Owning => g.conn \in alive
               /\ g.op = "connectEstablished" => m # Base /\ state'[g.conn] = "kConnecting"
               /\ g.op \in Bare => state'[g.conn] \notin Unborn
               /\ g.op = "removeConnectionInLoop" => downs[g.conn] # 0
               /\ g.op # "removeConnectionInLoop" => ioLoop[g.conn] = m
    <3>1. CASE g \in queued[m]
      <4>1. /\ g.op \in Owning => g.conn \in alive
            /\ g.op = "connectEstablished" => m # Base /\ state[g.conn] = "kConnecting"
            /\ g.op \in Bare => state[g.conn] \notin Unborn
            /\ g.op = "removeConnectionInLoop" => downs[g.conn] # 0
            /\ g.op # "removeConnectionInLoop" => ioLoop[g.conn] = m
        BY <3>1 DEF IInv, OwnInv
      <4>2. g.conn \in Conns
        BY <1>0, <3>1, QueuedFunctors, FunctorFields
      <4>3. state'[g.conn] = state[g.conn] \/ (g.conn = c /\ state[c] = "kConnected"
                                                 /\ state'[c] = "kDisconnecting")
        BY <1>4, <4>2
      <4>4. QED BY <4>1, <4>3 DEF Unborn, None
    <3>2. CASE m = l /\ g = f
      BY <1>2, <1>3, <3>2 DEF Bare
    <3>3. QED BY <1>1, <3>1, <3>2
  <2>2. QED BY <1>0, <2>1 DEF IInv, OwnInv, Unborn
<1>11. UserInv'
  <2>1. \A d \in Conns : state[d] \notin Unborn => state'[d] \notin Unborn
    BY <1>2, <1>4 DEF Unborn, None
  <2>2. users \subseteq Conns
    BY <1>0 DEF IInv, UserInv, TypeOK
  <2>3. QED BY <2>1, <2>2 DEF IInv, UserInv, Unborn
<1>12. KeptInv'
  <2> SUFFICES ASSUME NEW d \in Conns \ revived, ~loopGone[ioLoop[d]],
                      index'[d] # "kNew" \/ Est(d) \in queued'[ioLoop[d]]
               PROVE  d \in connections \/ Des(d) \in queued'[ioLoop[d]]
    BY <1>0, <1>1 DEF KeptInv
  <2>1. ioLoop[d] \in Loops
    BY <1>0 DEF TypeOK
  <2>2. index[d] # "kNew" \/ Est(d) \in queued[ioLoop[d]]
    BY <1>1, <1>2, <1>3, <2>1
  <2>3. d \in connections \/ Des(d) \in queued[ioLoop[d]]
    BY <2>2 DEF IInv, KeptInv
  <2>4. QED BY <1>1, <2>1, <2>3
<1>13. QED
  BY <1>1, <1>5, <1>6, <1>7, <1>8, <1>9, <1>10, <1>11, <1>12 DEF IInv

LEMMA CloseStepInv ==
  ASSUME IInv, UNCHANGED configVars, NEW l \in Loops, NEW c \in Conns,
         phase[l] = "events", c \in active[l], c \in alive,
         active' = [active EXCEPT ![l] = @ \ {c}], handleClose(l, c),
         UNCHANGED <<kernelVars, objVars, userVars, next, phase, functors, held, endVars,
                     touched>>
  PROVE  IInv'
<1> USE DEF kernelVars, objVars, userVars, endVars
<1>0. /\ TypeOK /\ Loops' = Loops /\ loopGone' = loopGone
      /\ \A m \in Loops : active'[m] \subseteq active[m]
      /\ c \notin active'[l]
  <2>1. TypeOK /\ active \in [Loops -> SUBSET (Conns \cup {Acceptor})]
    BY DEF IInv, TypeOK
  <2>2. c \notin active'[l] /\ \A m \in Loops : active'[m] \subseteq active[m]
    BY <2>1
  <2>3. QED BY <2>1, <2>2, GoneKept, ConfigKept
<1>1. /\ ioLoop[c] = l /\ index[c] = "kAdded" /\ ~loopGone[l]
      /\ fd[c] \in Fds /\ state[c] \notin Unborn /\ ups[c] = 1 /\ downs[c] \in Nat
      /\ c \notin revived => downs[c] = 0
      /\ \A i \in DOMAIN backlog : backlog[i] # c
      /\ peer[c] # "away"
  BY ActiveConn
<1>2. /\ state' = [state EXCEPT ![c] = "kDisconnected"]
      /\ SetEvents(c, l, fd[c], {})
      /\ downs' = [downs EXCEPT ![c] = @ + 1] /\ ups' = ups /\ revived' = revived
  BY DEF handleClose
<1> DEFINE k == IF l = Base THEN l ELSE Base
           f == IF l = Base THEN Des(c) ELSE Rem(c)
<1>3. /\ pending' = [pending EXCEPT ![k] = Append(@, f)]
      /\ connections' = (IF l = Base THEN connections \ {c} ELSE connections)
  BY <1>1 DEF handleClose, removeConnection, removeConnectionInLoop, Des, Rem
<1>4. /\ k \in Loops /\ f \in Functor /\ f.conn = c /\ f.op \in Owning
      /\ f.op \notin Bare \cup {"connectEstablished"}
      /\ f.op # "removeConnectionInLoop" => ioLoop[c] = k
  BY <1>0, <1>1, ConfigFacts, BoundFunctors DEF Owning, Bare
<1>4a. l = Base => f = Des(c) /\ k = ioLoop[c]
  BY <1>1
<1> HIDE DEF k, f
<1>5. /\ pending' \in [Loops -> Seq(Functor)]
      /\ \A m \in Loops : queued'[m] = IF m = k THEN queued[k] \cup {f} ELSE queued[m]
      /\ OrderInv'
  BY <1>0, <1>3, <1>4, Pushed
<1>6. \A m \in Loops : /\ queued[m] \subseteq queued'[m]
                       /\ \A g \in queued'[m] : g \in queued[m] \/ (m = k /\ g = f)
  BY <1>4, <1>5
<1>6a. f \in queued'[k]
  BY <1>4, <1>5
<1>7. /\ index' \in [Conns -> {"kNew", "kAdded", "kDeleted"}]
      /\ events' \in [Conns -> SUBSET {"in", "out"}]
      /\ channels' \in [Loops -> [Fds -> Conns \cup {None}]]
      /\ interest' \in [Loops -> [Fds -> Conns \cup {None}]]
      /\ index'[c] = "kDeleted"
      /\ \A d \in Conns : d # c => index'[d] = index[d] /\ events'[d] = events[d]
      /\ \A m \in Loops : loopGone[m] =>
           \A g \in Fds : channels'[m][g] = None /\ interest'[m][g] = None
      /\ PollInv'
  <2>1. {} \in SUBSET {"in", "out"} /\ revived \subseteq revived'
    BY <1>2
  <2>2. UNCHANGED <<alive, fd, ioLoop, loopGone>>
    BY <1>0
  <2>3. /\ index' \in [Conns -> {"kNew", "kAdded", "kDeleted"}]
        /\ events' \in [Conns -> SUBSET {"in", "out"}]
        /\ channels' \in [Loops -> [Fds -> Conns \cup {None}]]
        /\ interest' \in [Loops -> [Fds -> Conns \cup {None}]]
        /\ index'[c] = IF index[c] = "kAdded" /\ {} = {} THEN "kDeleted" ELSE "kAdded"
        /\ \A d \in Conns : d # c => index'[d] = index[d] /\ events'[d] = events[d]
        /\ \A m \in Loops : loopGone[m] =>
             \A g \in Fds : channels'[m][g] = None /\ interest'[m][g] = None
        /\ PollInv'
    <3>1. /\ c \in alive /\ ioLoop[c] = l /\ ~loopGone[l] /\ c \notin active'[l]
          /\ SetEvents(c, l, fd[c], {})
      BY <1>0, <1>1, <1>2
    <3>2. \A m \in Loops : active'[m] \subseteq active[m]
      BY <1>0
    <3>3. QED BY <2>1, <2>2, <3>1, <3>2, Updated, ZenonT(30)
  <2>4. QED BY <1>1, <2>3
<1>8. /\ state' \in [Conns -> {None, "kConnecting", "kConnected", "kDisconnecting",
                               "kDisconnected"}]
      /\ downs' \in [Conns -> Nat]
      /\ \A d \in Conns : d # c => state'[d] = state[d] /\ downs'[d] = downs[d]
      /\ state'[c] = "kDisconnected" /\ downs'[c] = downs[c] + 1
  <2>1. /\ state \in [Conns -> {None, "kConnecting", "kConnected", "kDisconnecting",
                                "kDisconnected"}]
        /\ downs \in [Conns -> Nat]
    BY <1>0 DEF TypeOK
  <2>2. QED BY <1>1, <1>2, <2>1
<1>8a. downs'[c] # 0 /\ (c \notin revived => downs'[c] = 1)
  BY <1>1, <1>8
<1>9. TypeOK'
  <2>1. /\ active' \in [Loops -> SUBSET (Conns \cup {Acceptor})]
        /\ connections' \subseteq Conns
    BY <1>0, <1>3 DEF TypeOK
  <2>2. QED BY <1>0, <1>2, <1>5, <1>7, <1>8, <2>1
    DEF TypeOK, configVars, Loops, SubLoops, Fds
<1>10. FdInv' /\ EndInv'
  BY Kept
<1>11. LifeInv'
  <2> SUFFICES ASSUME NEW d \in Conns
               PROVE  /\ state'[d] = None => d \notin alive
                      /\ state'[d] \in Unborn => index'[d] = "kNew" /\ d \notin revived
                      /\ ups[d] = IF state'[d] \in Unborn THEN 0 ELSE 1
                      /\ d \notin revived =>
                           /\ downs'[d] \in {0, 1}
                           /\ state'[d] \in Unborn \cup {"kConnected"} => downs'[d] = 0
                           /\ index'[d] = "kAdded" =>
                                /\ state'[d] \in {"kConnected", "kDisconnecting"}
                                /\ downs'[d] = 0 /\ "in" \in events'[d]
    BY <1>2 DEF LifeInv, Unborn
  <2>1. CASE d # c
    <3>1. /\ state'[d] = state[d] /\ index'[d] = index[d] /\ events'[d] = events[d]
          /\ downs'[d] = downs[d]
      BY <1>7, <1>8, <2>1
    <3>2. QED BY <3>1 DEF IInv, LifeInv
  <2>2. CASE d = c
    BY <1>1, <1>7, <1>8, <1>8a, <2>2 DEF Unborn, None
  <2>3. QED BY <2>1, <2>2
<1>12. MapInv'
  <2>1. \A d \in Conns : state'[d] # None /\ downs'[d] = 0 =>
          d # c /\ state[d] # None /\ downs[d] = 0
    BY <1>8, <1>8a
  <2>2. QED BY <1>3, <2>1 DEF IInv, MapInv
<1>13. BacklogInv'
  <2>1. \A i \in DOMAIN backlog : backlog[i] \in Conns /\ backlog[i] # c
    BY <1>0, <1>1, LenProperties, ElementOfSeq DEF TypeOK
  <2>2. QED BY <1>1, <1>8, <2>1 DEF IInv, BacklogInv
<1>14. OwnInv'
  <2>1. ASSUME NEW m \in Loops, NEW g \in queued'[m]
        PROVE  /\ g.op \in Owning => g.conn \in alive
               /\ g.op = "connectEstablished" => m # Base /\ state'[g.conn] = "kConnecting"
               /\ g.op \in Bare => state'[g.conn] \notin Unborn
               /\ g.op = "removeConnectionInLoop" => downs'[g.conn] # 0
               /\ g.op # "removeConnectionInLoop" => ioLoop[g.conn] = m
    <3>1. CASE g \in queued[m]
      <4>1. /\ g.op \in Owning => g.conn \in alive
            /\ g.op = "connectEstablished" => m # Base /\ state[g.conn] = "kConnecting"
            /\ g.op \in Bare => state[g.conn] \notin Unborn
            /\ g.op = "removeConnectionInLoop" => downs[g.conn] # 0
            /\ g.op # "removeConnectionInLoop" => ioLoop[g.conn] = m
        BY <3>1 DEF IInv, OwnInv
      <4>2. g.conn \in Conns
        BY <1>0, <3>1, QueuedFunctors, FunctorFields
      <4>3. CASE g.conn = c
        BY <1>1, <1>8, <1>8a, <4>1, <4>3 DEF Unborn, None
      <4>4. CASE g.conn # c
        BY <1>8, <4>1, <4>2, <4>4
      <4>5. QED BY <4>3, <4>4
    <3>2. CASE m = k /\ g = f
      BY <1>1, <1>4, <1>8a, <3>2
    <3>3. QED BY <1>6, <3>1, <3>2
  <2>2. connections' \subseteq alive
    BY <1>3 DEF IInv, OwnInv
  <2>3. QED BY <1>0, <2>1, <2>2 DEF IInv, OwnInv, Unborn
<1>15. UserInv'
  <2>1. \A d \in Conns : state[d] \notin Unborn => state'[d] \notin Unborn
    BY <1>8 DEF Unborn, None
  <2>2. users \subseteq Conns
    BY <1>0 DEF IInv, UserInv, TypeOK
  <2>3. QED BY <2>1, <2>2 DEF IInv, UserInv, Unborn
<1>16. KeptInv'
  <2> SUFFICES ASSUME NEW d \in Conns \ revived, ~loopGone[ioLoop[d]],
                      index'[d] # "kNew" \/ Est(d) \in queued'[ioLoop[d]]
               PROVE  d \in connections' \/ Des(d) \in queued'[ioLoop[d]]
    BY <1>0, <1>2 DEF KeptInv
  <2>1. ioLoop[d] \in Loops /\ Est(d).op = "connectEstablished"
    BY <1>0, BoundFunctors DEF TypeOK
  <2>2. index[d] # "kNew" \/ Est(d) \in queued[ioLoop[d]]
    BY <1>1, <1>4, <1>6, <1>7, <2>1
  <2>3. d \in connections \/ Des(d) \in queued[ioLoop[d]]
    BY <2>2 DEF IInv, KeptInv
  <2>4. CASE d = c /\ l = Base
    BY <1>4a, <1>6a, <2>4
  <2>5. CASE ~(d = c /\ l = Base)
    BY <1>3, <1>6, <2>1, <2>3, <2>5
  <2>6. QED BY <2>4, <2>5
<1>17. LoopInv'
  BY <1>0, <1>7, ConfigKept DEF IInv, LoopInv
<1>18. QED
  BY <1>5, <1>7, <1>9, <1>10, <1>11, <1>12, <1>13, <1>14, <1>15, <1>16, <1>17 DEF IInv

(* The event of a channel whose object is gone. *)
LEMMA StaleStep ==
  ASSUME IInv, UNCHANGED configVars, NEW l \in Loops, NEW c \in Conns,
         active' = [active EXCEPT ![l] = @ \ {c}], touched' \subseteq Conns,
         UNCHANGED <<kernelVars, connVars, objVars, userVars, poolVars, phase, functors,
                     held, pending, endVars>>
  PROVE  IInv'
<1> USE DEF kernelVars, connVars, pollVars, objVars, userVars, poolVars, endVars
<1>1. TypeOK /\ \A m \in Loops : active'[m] \subseteq active[m]
  BY DEF IInv, TypeOK
<1>2. TypeOK'
  BY <1>1 DEF TypeOK, configVars, Loops, SubLoops, Fds
<1>3. queued' = queued /\ loopGone' = loopGone
  BY QueuedKept, GoneKept
<1>4. BacklogInv' /\ LifeInv' /\ MapInv' /\ FdInv' /\ OwnInv' /\ UserInv' /\ OrderInv'
        /\ KeptInv' /\ EndInv'
  BY <1>3, Kept
<1>5. LoopInv'
  BY <1>1, <1>3, ConfigKept DEF IInv, LoopInv
<1>6. PollInv'
  BY <1>1, <1>3, ConfigKept DEF IInv, PollInv
<1>7. QED BY <1>2, <1>4, <1>5, <1>6 DEF IInv

LEMMA HandleEventStep ==
  ASSUME IInv, UNCHANGED configVars, NEW l \in Loops, NEW c \in Conns, HandleEvent(l, c)
  PROVE  IInv'
<1>0. /\ phase[l] = "events" /\ c \in active[l]
      /\ active' = [active EXCEPT ![l] = @ \ {c}]
      /\ UNCHANGED <<backlog, objVars, userVars, next, phase, functors, held, endVars>>
      /\ unread \subseteq Conns /\ touched \subseteq Conns
  BY DEF HandleEvent, IInv, TypeOK
<1>1. CASE c \in alive /\ touched' = touched /\ handleClose(l, c) /\ UNCHANGED <<peer, unread>>
  BY <1>0, <1>1, CloseStepInv DEF kernelVars
<1>2. CASE /\ c \in alive /\ touched' = touched /\ handleWrite(l, c)
           /\ state' = state \/ (state[c] = "kConnected"
                                  /\ state' = [state EXCEPT ![c] = "kDisconnecting"])
           /\ peer' \in {peer, [peer EXCEPT ![c] = "closed"]} /\ unread' \subseteq Conns
           /\ UNCHANGED <<ups, downs, connections>>
  BY <1>0, <1>2, ReadStep
<1>3. CASE /\ touched' = touched \cup {c}
           /\ UNCHANGED <<peer, unread, connVars, connections, pending>>
  <2>1. touched' \subseteq Conns
    BY <1>0, <1>3
  <2>2. QED BY <1>0, <1>3, <2>1, StaleStep DEF kernelVars, poolVars
<1>4. CASE c \in alive /\ touched' = touched /\ HandleRead(l, c)
  BY <1>0, <1>1, <1>2, <1>4 DEF HandleRead
<1>5. CASE c \in alive /\ touched' = touched /\ HandleHup(l, c)
  BY <1>1, <1>5 DEF HandleHup
<1>6. CASE c \in alive /\ touched' = touched /\ HandleWrite(l, c)
  BY <1>0, <1>2, <1>6 DEF HandleWrite
<1>7. QED BY <1>3, <1>4, <1>5, <1>6 DEF HandleEvent

-----------------------------------------------------------------------------
(* Other threads *)

LEMMA CallingStep ==
  ASSUME IInv, UNCHANGED configVars, NEW c \in Conns, NEW op \in {"send", "shutdown"},
         Calling(c, op)
  PROVE  IInv'
<1>0. /\ c \in users /\ call' = [call EXCEPT ![c] = op] /\ TypeOK
      /\ UNCHANGED <<kernelVars, connVars, objVars, users, poolVars, loopVars, pending,
                     endVars, touched>>
  BY DEF Calling, IInv
<1> USE DEF kernelVars, connVars, pollVars, objVars, poolVars, loopVars, endVars
<1>1. TypeOK'
  BY <1>0 DEF TypeOK, configVars, Loops, SubLoops, Fds
<1>2. queued' = queued /\ loopGone' = loopGone
  BY <1>0, QueuedKept, GoneKept
<1>3. LoopInv' /\ BacklogInv' /\ LifeInv' /\ MapInv' /\ FdInv' /\ OwnInv' /\ OrderInv'
        /\ KeptInv' /\ PollInv' /\ EndInv'
  BY <1>0, <1>2, Kept
<1>4. UserInv'
  BY <1>0 DEF IInv, UserInv, TypeOK
<1>5. QED BY <1>1, <1>3, <1>4 DEF IInv

LEMMA QueueingStep ==
  ASSUME IInv, UNCHANGED configVars, NEW c \in Conns, Queueing(c)
  PROVE  IInv'
<1> DEFINE op == IF call[c] = "send" THEN "sendInLoop" ELSE "shutdownInLoop"
           f == Bind(op, c)
           l == ioLoop[c]
<1>0. /\ call' = [call EXCEPT ![c] = "done"] /\ call[c] \in {"send", "shutdown"} /\ TypeOK
      /\ pending' = [pending EXCEPT ![l] = Append(@, f)]
      /\ state' \in {state, [state EXCEPT ![c] = "kDisconnecting"]}
      /\ UNCHANGED <<kernelVars, ups, downs, pollVars, objVars, users, poolVars, loopVars,
                     endVars, touched>>
  BY DEF Queueing, IInv
<1> USE DEF kernelVars, pollVars, objVars, poolVars, loopVars, endVars
<1>1. /\ c \in alive /\ state[c] \notin Unborn /\ l \in Loops
      /\ \A i \in DOMAIN backlog : backlog[i] # c
      /\ peer[c] # "away"
  BY <1>0 DEF IInv, UserInv, BacklogInv, TypeOK, Unborn
<1>2. /\ f \in Functor /\ f.conn = c /\ f.op \in Bare
      /\ f.op \notin Owning /\ f.op # "connectEstablished"
      /\ f.op # "removeConnectionInLoop"
      /\ \A d \in Conns : Est(d) # f
  <2>1. op \in Bare /\ op \notin Owning
    BY DEF Owning, Bare
  <2>2. f \in Functor /\ f.conn = c /\ f.op = op
    BY <2>1, BoundFunctors
  <2>3. QED BY <2>1, <2>2, BoundFunctors DEF Owning
<1> HIDE DEF f, op
<1>3. /\ pending' \in [Loops -> Seq(Functor)]
      /\ \A m \in Loops : queued'[m] = IF m = l THEN queued[l] \cup {f} ELSE queued[m]
      /\ OrderInv'
  BY <1>0, <1>1, <1>2, Pushed
<1>4. \A m \in Loops : /\ queued[m] \subseteq queued'[m]
                       /\ \A g \in queued'[m] : g \in queued[m] \/ (m = l /\ g = f)
  BY <1>3
<1>5. /\ state' \in [Conns -> {None, "kConnecting", "kConnected", "kDisconnecting",
                               "kDisconnected"}]
      /\ \A d \in Conns : state'[d] = state[d]
           \/ (d = c /\ state'[d] = "kDisconnecting")
  BY <1>0 DEF TypeOK
<1>6. TypeOK'
  BY <1>0, <1>3, <1>5 DEF TypeOK, configVars, Loops, SubLoops, Fds
<1>7. loopGone' = loopGone /\ Loops' = Loops
  BY <1>0, GoneKept, ConfigKept
<1>8. LoopInv' /\ FdInv' /\ PollInv' /\ EndInv'
  BY <1>0, <1>7, Kept
<1>9. BacklogInv'
  <2>1. \A i \in DOMAIN backlog : backlog[i] \in Conns
    BY <1>0, LenProperties, ElementOfSeq DEF TypeOK
  <2>2. QED BY <1>0, <1>1, <1>5, <2>1 DEF IInv, BacklogInv
<1>10. LifeInv'
  <2> SUFFICES ASSUME NEW d \in Conns
               PROVE  /\ state'[d] = None => d \notin alive
                      /\ state'[d] \in Unborn => index[d] = "kNew" /\ d \notin revived
                      /\ ups[d] = IF state'[d] \in Unborn THEN 0 ELSE 1
                      /\ d \notin revived =>
                           /\ downs[d] \in {0, 1}
                           /\ state'[d] \in Unborn \cup {"kConnected"} => downs[d] = 0
                           /\ index[d] = "kAdded" =>
                                /\ state'[d] \in {"kConnected", "kDisconnecting"}
                                /\ downs[d] = 0 /\ "in" \in events[d]
    BY <1>0 DEF LifeInv, Unborn
  <2>1. CASE state'[d] = state[d]
    BY <2>1 DEF IInv, LifeInv
  <2>2. CASE d = c /\ state'[d] = "kDisconnecting"
    <3>1. "kDisconnecting" \notin Unborn /\ "kDisconnecting" # "kConnected"
      BY DEF Unborn, None
    <3>2. QED BY <1>1, <2>2, <3>1 DEF IInv, LifeInv, None
  <2>3. QED BY <1>5, <2>1, <2>2
<1>11. MapInv'
  <2>1. \A d \in Conns : state'[d] # None => state[d] # None
    BY <1>1, <1>5 DEF Unborn
  <2>2. QED BY <1>0, <2>1 DEF IInv, MapInv
<1>12. OwnInv'
  <2>1. ASSUME NEW m \in Loops, NEW g \in queued'[m]
        PROVE  /\ g.op \in Owning => g.conn \in alive
               /\ g.op = "connectEstablished" => m # Base /\ state'[g.conn] = "kConnecting"
               /\ g.op \in Bare => state'[g.conn] \notin Unborn
               /\ g.op = "removeConnectionInLoop" => downs[g.conn] # 0
               /\ g.op # "removeConnectionInLoop" => ioLoop[g.conn] = m
    <3>1. CASE g \in queued[m]
      <4>1. /\ g.op \in Owning => g.conn \in alive
            /\ g.op = "connectEstablished" => m # Base /\ state[g.conn] = "kConnecting"
            /\ g.op \in Bare => state[g.conn] \notin Unborn
            /\ g.op = "removeConnectionInLoop" => downs[g.conn] # 0
            /\ g.op # "removeConnectionInLoop" => ioLoop[g.conn] = m
        BY <3>1 DEF IInv, OwnInv
      <4>2. g.conn \in Conns
        BY <1>0, <3>1, QueuedFunctors, FunctorFields
      <4>3. state'[g.conn] = state[g.conn] \/ (g.conn = c /\ state'[g.conn] = "kDisconnecting")
        BY <1>5, <4>2
      <4>4. QED BY <1>1, <4>1, <4>3 DEF Unborn, None
    <3>2. CASE m = l /\ g = f
      <4>1. state'[c] \notin Unborn
        BY <1>1, <1>5 DEF Unborn, None
      <4>2. QED BY <1>2, <3>2, <4>1
    <3>3. QED BY <1>4, <3>1, <3>2
  <2>2. QED BY <1>0, <1>7, <2>1 DEF IInv, OwnInv, Unborn
<1>13. UserInv'
  <2>1. \A d \in Conns : state[d] \notin Unborn => state'[d] \notin Unborn
    BY <1>5 DEF Unborn, None
  <2>2. users \subseteq Conns
    BY <1>0 DEF IInv, UserInv, TypeOK
  <2>3. \A d \in Conns : call'[d] \in {"send", "shutdown"} => call[d] \in {"send", "shutdown"}
    BY <1>0 DEF TypeOK
  <2>4. QED BY <1>0, <2>1, <2>2, <2>3 DEF IInv, UserInv, Unborn
<1>14. KeptInv'
  <2> SUFFICES ASSUME NEW d \in Conns \ revived, ~loopGone[ioLoop[d]],
                      index[d] # "kNew" \/ Est(d) \in queued'[ioLoop[d]]
               PROVE  d \in connections \/ Des(d) \in queued'[ioLoop[d]]
    BY <1>0, <1>7 DEF KeptInv
  <2>1. ioLoop[d] \in Loops
    BY <1>0 DEF TypeOK
  <2>2. index[d] # "kNew" \/ Est(d) \in queued[ioLoop[d]]
    BY <1>2, <1>4, <2>1
  <2>3. d \in connections \/ Des(d) \in queued[ioLoop[d]]
    BY <2>2 DEF IInv, KeptInv
  <2>4. QED BY <1>4, <2>1, <2>3
<1>15. QED
  BY <1>3, <1>6, <1>8, <1>9, <1>10, <1>11, <1>12, <1>13, <1>14 DEF IInv

-----------------------------------------------------------------------------
(* Functors *)

(* A functor leaves the batch; it may have queued another, but no connectEstablished. *)
NoneEstablished ==
  \A m \in Loops :
    /\ EstFirst(pending'[m]) /\ Range(pending[m]) \subseteq Range(pending'[m])
    /\ \A g \in Range(pending'[m]) :
         g \in Range(pending[m]) \/ g.op # "connectEstablished"

LEMMA NothingPushed ==
  ASSUME IInv, pending' = pending
  PROVE  pending' \in [Loops -> Seq(Functor)] /\ NoneEstablished
BY DEF IInv, TypeOK, OrderInv, NoneEstablished

LEMMA RunPushed ==
  ASSUME IInv, NEW k \in Loops, NEW f \in Functor, f.op # "connectEstablished",
         pending' = [pending EXCEPT ![k] = Append(@, f)]
  PROVE  /\ pending' \in [Loops -> Seq(Functor)] /\ NoneEstablished
         /\ \A m \in Loops : \A g \in Range(pending'[m]) :
              g \in Range(pending[m]) \/ (m = k /\ g = f)
         /\ f \in Range(pending'[k])
<1>1. pending \in [Loops -> Seq(Functor)]
  BY DEF IInv, TypeOK
<1>2. /\ \A m \in Loops : m # k => pending'[m] = pending[m]
      /\ pending'[k] = Append(pending[k], f) /\ pending[k] \in Seq(Functor)
  BY <1>1
<1>3. \A m \in Loops : EstFirst(pending[m])
  BY DEF IInv, OrderInv
<1>4. /\ pending'[k] \in Seq(Functor) /\ EstFirst(pending'[k])
      /\ Range(pending'[k]) = Range(pending[k]) \cup {f}
  BY <1>2, <1>3, AppendedQueue
<1>5. pending' \in [Loops -> Seq(Functor)]
  BY <1>1, <1>2, <1>4
<1>6. NoneEstablished
  BY <1>2, <1>3, <1>4 DEF NoneEstablished
<1>7. QED BY <1>2, <1>4, <1>5, <1>6

LEMMA Ran ==
  ASSUME IInv, UNCHANGED configVars, NEW l \in Loops, functors[l] # <<>>,
         functors' = [functors EXCEPT ![l] = Tail(@)],
         pending' \in [Loops -> Seq(Functor)], NoneEstablished
  PROVE  /\ Head(functors[l]) \in queued[l]
         /\ functors' \in [Loops -> Seq(Functor)]
         /\ \A m \in Loops : \A g \in queued'[m] :
              g \in queued[m] \/ g \in Range(pending'[m]) \ Range(pending[m])
         /\ \A m \in Loops : \A g \in queued[m] :
              g \in queued'[m] \/ (m = l /\ g = Head(functors[l]))
         /\ \A m \in Loops : Range(pending'[m]) \subseteq queued'[m]
         /\ Est(Head(functors[l]).conn) \notin queued'[l]
         /\ OrderInv'
<1> DEFINE f == Head(functors[l])
<1>1. /\ pending \in [Loops -> Seq(Functor)] /\ functors \in [Loops -> Seq(Functor)]
      /\ Loops' = Loops
  BY ConfigKept DEF IInv, TypeOK
<1>2. /\ \A m \in Loops : m # l => functors'[m] = functors[m]
      /\ functors'[l] = Tail(functors[l]) /\ functors[l] \in Seq(Functor)
  BY <1>1
<1>3. /\ f \in Functor /\ functors'[l] \in Seq(Functor)
      /\ Range(functors[l]) = {f} \cup Range(functors'[l])
      /\ EstFirst(functors[l]) =>
           /\ EstFirst(functors'[l])
           /\ \A g \in Range(functors'[l]) : g.op = "connectEstablished" => g.conn # f.conn
  BY <1>2, RunQueue
<1>4. functors' \in [Loops -> Seq(Functor)]
  BY <1>1, <1>2, <1>3
<1> HIDE DEF f
<1>6. \A m \in Loops : /\ queued[m] = Range(functors[m]) \cup Range(pending[m])
                       /\ queued'[m] = Range(functors'[m]) \cup Range(pending'[m])
  BY <1>1 DEF queued
<1>7. \A m \in Loops : \A g \in Range(functors[m]) :
        g \in Range(functors'[m]) \/ (m = l /\ g = f)
  BY <1>2, <1>3
<1>8. \A m \in Loops : Range(functors'[m]) \subseteq Range(functors[m])
  BY <1>2, <1>3
<1>9. f \in queued[l]
  BY <1>3, <1>6
<1>10. \A m \in Loops : \A g \in queued'[m] :
         g \in queued[m] \/ g \in Range(pending'[m]) \ Range(pending[m])
  BY <1>6, <1>8
<1>11. \A m \in Loops : \A g \in queued[m] : g \in queued'[m] \/ (m = l /\ g = f)
  BY <1>6, <1>7 DEF NoneEstablished
<1>12. \A m \in Loops : Range(pending'[m]) \subseteq queued'[m]
  BY <1>6
<1>13. f.conn \in Conns
  BY <1>3, FunctorFields
<1>14. Est(f.conn).op = "connectEstablished" /\ Est(f.conn).conn = f.conn
  BY <1>13, BoundFunctors
<1>15. Est(f.conn) \notin queued'[l]
  <2>1. EstFirst(functors[l]) /\ f \in Range(functors[l])
    BY <1>3 DEF IInv, OrderInv
  <2>2. Est(f.conn) \notin Range(functors'[l])
    BY <1>3, <1>14, <2>1
  <2>3. Est(f.conn) \notin Range(pending[l])
    BY <1>13, <2>1 DEF IInv, OrderInv
  <2>4. Est(f.conn) \notin Range(pending'[l])
    BY <1>14, <2>3 DEF NoneEstablished
  <2>5. QED BY <1>6, <2>2, <2>4
<1>16. OrderInv'
  <2>1. ASSUME NEW m \in Loops
        PROVE  /\ EstFirst(functors'[m]) /\ EstFirst(pending'[m])
               /\ \A c \in Conns : \A g \in Range(functors'[m]) :
                    Est(c) \in Range(pending'[m]) => g.conn # c
    <3>1. /\ EstFirst(functors[m])
          /\ \A c \in Conns : \A g \in Range(functors[m]) :
                    Est(c) \in Range(pending[m]) => g.conn # c
      BY DEF IInv, OrderInv
    <3>2. EstFirst(functors'[m]) /\ EstFirst(pending'[m])
      BY <1>2, <1>3, <3>1 DEF NoneEstablished
    <3>3. \A c \in Conns : Est(c) \in Range(pending'[m]) => Est(c) \in Range(pending[m])
      BY BoundFunctors DEF NoneEstablished
    <3>4. QED BY <1>8, <3>1, <3>2, <3>3
  <2>2. QED BY <1>1, <2>1 DEF OrderInv
<1>17. QED
  BY <1>4, <1>9, <1>10, <1>11, <1>12, <1>15, <1>16 DEF f

(* A step that only takes entries out of the pollers, and lets go of descriptors
   that no entry left in them is about. *)
LEMMA EntriesGo ==
  ASSUME IInv, UNCHANGED configVars, ioLoop' = ioLoop, revived' = revived,
         alive' \subseteq alive,
         \A m \in Loops, g \in Fds : /\ channels'[m][g] \in {None, channels[m][g]}
                                     /\ interest'[m][g] \in {None, interest[m][g]},
         \A m \in Loops, g \in Fds : interest'[m][g] # None => fd'[interest'[m][g]] = g,
         \A m \in Loops : loopGone[m] => loopGone'[m],
         \A m \in Loops : loopGone'[m] =>
           \A g \in Fds : channels'[m][g] = None /\ interest'[m][g] = None,
         \A d \in Conns : index'[d] = index[d] \/
           /\ index'[d] = "kNew"
           /\ \A m \in Loops, g \in Fds : /\ channels'[m][g] # d \/ d \in revived
                                          /\ interest'[m][g] # d,
         \A d \in Conns :
           index'[d] # "kNew" /\ ~loopGone'[ioLoop[d]] /\ (d \in alive' \/ d \notin revived) =>
             /\ fd'[d] = fd[d]
             /\ channels'[ioLoop[d]][fd[d]] = channels[ioLoop[d]][fd[d]]
             /\ interest'[ioLoop[d]][fd[d]] = interest[ioLoop[d]][fd[d]],
         \A m \in Loops : active'[m] \subseteq active[m],
         \A m \in Loops : \A d \in active'[m] \ {Acceptor} : index'[d] = index[d]
  PROVE  PollInv'
<1>0. Loops' = Loops /\ Fds' = Fds /\ TypeOK
  BY ConfigKept DEF IInv
<1>1. ASSUME NEW m \in Loops, NEW g \in Fds, interest'[m][g] # None
      PROVE  /\ ioLoop[interest'[m][g]] = m /\ fd'[interest'[m][g]] = g
             /\ index'[interest'[m][g]] = "kAdded"
  <2> DEFINE d == interest'[m][g]
  <2>1. d = interest[m][g] /\ d \in Conns
    BY <1>0, <1>1 DEF TypeOK
  <2>2. ioLoop[d] = m /\ index[d] = "kAdded"
    BY <1>1, <2>1 DEF IInv, PollInv
  <2>3. index'[d] = index[d]
    BY <2>1
  <2>4. QED BY <1>1, <2>1, <2>2, <2>3
<1>2. ASSUME NEW m \in Loops, NEW g \in Fds, channels'[m][g] # None
      PROVE  \/ channels'[m][g] \in revived
             \/ /\ ioLoop[channels'[m][g]] = m /\ fd'[channels'[m][g]] = g
                /\ index'[channels'[m][g]] # "kNew"
  <2> DEFINE d == channels'[m][g]
  <2>1. d = channels[m][g] /\ d \in Conns /\ ~loopGone'[m]
    BY <1>0, <1>2 DEF TypeOK
  <2>2. CASE d \in revived
    BY <2>2
  <2>3. CASE d \notin revived
    <3>1. ioLoop[d] = m /\ fd[d] = g /\ index[d] # "kNew"
      BY <1>2, <2>1, <2>3 DEF IInv, PollInv
    <3>2. index'[d] = index[d]
      BY <2>1, <2>3
    <3>3. fd'[d] = fd[d]
      BY <2>1, <2>3, <3>1, <3>2
    <3>4. QED BY <2>1, <3>1, <3>2, <3>3
  <2>4. QED BY <2>2, <2>3
<1>3. ASSUME NEW d \in alive', index'[d] # "kNew", ~loopGone'[ioLoop[d]]
      PROVE  /\ channels'[ioLoop[d]][fd'[d]] = d
             /\ index'[d] = "kAdded" => interest'[ioLoop[d]][fd'[d]] = d
  <2>0. d \in alive /\ d \in Conns
    BY <1>0 DEF TypeOK
  <2>1. ioLoop[d] \in Loops /\ index'[d] = index[d]
    BY <1>0, <1>3, <2>0 DEF TypeOK
  <2>1a. ~loopGone[ioLoop[d]]
    BY <1>3, <2>1
  <2>2. /\ channels[ioLoop[d]][fd[d]] = d
        /\ index[d] = "kAdded" => interest[ioLoop[d]][fd[d]] = d
    BY <1>3, <2>0, <2>1, <2>1a DEF IInv, PollInv
  <2>3. /\ fd'[d] = fd[d]
        /\ channels'[ioLoop[d]][fd[d]] = channels[ioLoop[d]][fd[d]]
        /\ interest'[ioLoop[d]][fd[d]] = interest[ioLoop[d]][fd[d]]
    BY <1>3, <2>0
  <2>4. QED BY <2>1, <2>2, <2>3
<1>4. \A m \in Loops : \A d \in active'[m] \ {Acceptor} :
        ioLoop[d] = m /\ index'[d] = "kAdded"
  BY DEF IInv, PollInv
<1>5. QED BY <1>0, <1>1, <1>2, <1>3, <1>4 DEF PollInv

(* connectDestroyed of an object not destructed yet. *)
LEMMA Destroyed ==
  ASSUME IInv, UNCHANGED configVars, NEW c \in Conns, c \in alive, connectDestroyed(c)
  PROVE  /\ state' \in [Conns -> {None, "kConnecting", "kConnected", "kDisconnecting",
                                  "kDisconnected"}]
         /\ index' \in [Conns -> {"kNew", "kAdded", "kDeleted"}]
         /\ channels' \in [Loops -> [Fds -> Conns \cup {None}]]
         /\ interest' \in [Loops -> [Fds -> Conns \cup {None}]]
         /\ events' \in [Conns -> SUBSET {"in", "out"}]
         /\ downs' \in [Conns -> Nat] /\ ups' = ups /\ revived' = revived
         /\ \A d \in Conns : d # c => state'[d] = state[d] /\ index'[d] = index[d]
                                        /\ downs'[d] = downs[d] /\ events'[d] = events[d]
         /\ index'[c] = "kNew"
         /\ \/ state'[c] = state[c] /\ downs'[c] = downs[c]
            \/ /\ state[c] = "kConnected" /\ state'[c] = "kDisconnected"
               /\ downs'[c] = downs[c] + 1
         /\ \A m \in Loops, g \in Fds :
              /\ channels'[m][g] \in {None, channels[m][g]}
              /\ channels'[m][g] # c \/ c \in revived
              /\ interest'[m][g] \in {None, interest[m][g]} /\ interest'[m][g] # c
              /\ g # fd[c] => channels'[m][g] = channels[m][g]
                                /\ interest'[m][g] = interest[m][g]
<1>0. /\ TypeOK /\ None \notin Conns /\ fd[c] \in Fds /\ ioLoop[c] \in Loops
      /\ channels \in [Loops -> [Fds -> Conns \cup {None}]]
      /\ interest \in [Loops -> [Fds -> Conns \cup {None}]]
  BY ConfigFacts, ZenonT(30) DEF IInv, TypeOK, FdInv
<1>1. /\ index' = [index EXCEPT ![c] = "kNew"]
      /\ channels' = [channels EXCEPT ![ioLoop[c]][fd[c]] = None]
      /\ interest' = (IF index[c] = "kAdded"
                      THEN [interest EXCEPT ![ioLoop[c]][fd[c]] = None] ELSE interest)
      /\ ups' = ups /\ revived' = revived
  BY DEF connectDestroyed, removeChannel, Removed, Deleted
<1>2. /\ channels' \in [Loops -> [Fds -> Conns \cup {None}]]
      /\ \A m \in Loops, g \in Fds :
           channels'[m][g] = IF m = ioLoop[c] /\ g = fd[c] THEN None ELSE channels[m][g]
  BY <1>0, <1>1
<1>3. /\ interest' \in [Loops -> [Fds -> Conns \cup {None}]]
      /\ \A m \in Loops, g \in Fds :
           interest'[m][g] = IF index[c] = "kAdded" /\ m = ioLoop[c] /\ g = fd[c]
                             THEN None ELSE interest[m][g]
  <2>1. CASE index[c] = "kAdded" BY <1>0, <1>1, <2>1
  <2>2. CASE index[c] # "kAdded" BY <1>0, <1>1, <2>2
  <2>3. QED BY <2>1, <2>2
<1>4. ASSUME NEW m \in Loops, NEW g \in Fds
      PROVE  (channels'[m][g] # c \/ c \in revived) /\ interest'[m][g] # c
  <2>1. channels'[m][g] # c \/ c \in revived
    BY <1>0, <1>2, SMTT(30) DEF IInv, PollInv
  <2>2. interest'[m][g] # c
    BY <1>0, <1>3, SMTT(30) DEF IInv, PollInv
  <2>3. QED BY <2>1, <2>2
<1>5. /\ state \in [Conns -> {None, "kConnecting", "kConnected", "kDisconnecting",
                              "kDisconnected"}]
      /\ index \in [Conns -> {"kNew", "kAdded", "kDeleted"}]
      /\ downs \in [Conns -> Nat] /\ events \in [Conns -> SUBSET {"in", "out"}]
  BY <1>0 DEF TypeOK
<1>6. /\ index' \in [Conns -> {"kNew", "kAdded", "kDeleted"}] /\ index'[c] = "kNew"
      /\ \A d \in Conns : d # c => index'[d] = index[d]
  BY <1>1, <1>5
<1>7. CASE state[c] = "kConnected"
  <2>1. /\ state' = [state EXCEPT ![c] = "kDisconnected"]
        /\ downs' = [downs EXCEPT ![c] = @ + 1] /\ events' = [events EXCEPT ![c] = {}]
    BY <1>7 DEF connectDestroyed
  <2>2. /\ state' \in [Conns -> {None, "kConnecting", "kConnected", "kDisconnecting",
                                 "kDisconnected"}]
        /\ downs' \in [Conns -> Nat] /\ events' \in [Conns -> SUBSET {"in", "out"}]
        /\ state'[c] = "kDisconnected" /\ downs'[c] = downs[c] + 1
        /\ \A d \in Conns : d # c => state'[d] = state[d] /\ downs'[d] = downs[d]
                                       /\ events'[d] = events[d]
    BY <1>5, <2>1
  <2>3. QED BY <1>1, <1>2, <1>3, <1>4, <1>6, <1>7, <2>2
<1>8. CASE state[c] # "kConnected"
  <2>1. UNCHANGED <<state, downs, events>>
    BY <1>8 DEF connectDestroyed
  <2>2. QED BY <1>1, <1>2, <1>3, <1>4, <1>5, <1>6, <2>1
<1>9. QED BY <1>7, <1>8

(* What connectDestroyed does to the life of its connection, and to functors. *)
LEMMA DestroyedLife ==
  ASSUME IInv, NEW c \in Conns, c \in alive, index'[c] = "kNew",
         \A d \in Conns : d # c => state'[d] = state[d] /\ index'[d] = index[d]
                                     /\ downs'[d] = downs[d] /\ events'[d] = events[d],
         \/ state'[c] = state[c] /\ downs'[c] = downs[c]
         \/ /\ state[c] = "kConnected" /\ state'[c] = "kDisconnected"
            /\ downs'[c] = downs[c] + 1,
         alive' \subseteq alive,
         UNCHANGED <<ups, revived, peer, backlog>>
  PROVE  /\ LifeInv' /\ BacklogInv'
         /\ UNCHANGED <<server, connections>> => MapInv'
         /\ UNCHANGED <<users, call, alive>> => UserInv'
<1>0. /\ state[c] # None /\ TypeOK /\ downs[c] \in Nat
      /\ users \subseteq Conns /\ \A i \in DOMAIN backlog : backlog[i] \in Conns
  <2>1. TypeOK /\ LifeInv /\ UserInv
    BY DEF IInv
  <2>2. state[c] # None
    BY <2>1 DEF LifeInv
  <2>3. downs[c] \in Nat /\ backlog \in Seq(Conns) /\ users \subseteq Conns
    BY <2>1 DEF TypeOK, UserInv
  <2>4. QED BY <2>1, <2>2, <2>3, LenProperties, ElementOfSeq
<1>1. \A d \in Conns : /\ state[d] = None => state'[d] = None
                       /\ state'[d] = None => state[d] = None
                       /\ state[d] \notin Unborn => state'[d] \notin Unborn
                       /\ downs[d] # 0 => downs'[d] # 0
  BY <1>0 DEF Unborn, None
<1>2. LifeInv'
  <2> SUFFICES ASSUME NEW d \in Conns
               PROVE  /\ state'[d] = None => d \notin alive'
                      /\ state'[d] \in Unborn => index'[d] = "kNew" /\ d \notin revived
                      /\ ups[d] = IF state'[d] \in Unborn THEN 0 ELSE 1
                      /\ d \notin revived =>
                           /\ downs'[d] \in {0, 1}
                           /\ state'[d] \in Unborn \cup {"kConnected"} => downs'[d] = 0
                           /\ index'[d] = "kAdded" =>
                                /\ state'[d] \in {"kConnected", "kDisconnecting"}
                                /\ downs'[d] = 0 /\ "in" \in events'[d]
    BY DEF LifeInv, Unborn
  <2>1. CASE d # c
    <3>1. /\ state'[d] = state[d] /\ index'[d] = index[d] /\ events'[d] = events[d]
          /\ downs'[d] = downs[d] /\ (d \in alive' => d \in alive)
      BY <2>1
    <3>2. QED BY <3>1 DEF IInv, LifeInv
  <2>2. CASE d = c /\ state'[c] = state[c] /\ downs'[c] = downs[c]
    BY <1>0, <2>2 DEF IInv, LifeInv
  <2>3. CASE /\ d = c /\ state[c] = "kConnected" /\ state'[c] = "kDisconnected"
             /\ downs'[c] = downs[c] + 1
    <3>1. ups[c] = 1 /\ (c \notin revived => downs[c] = 0)
      BY <2>3 DEF IInv, LifeInv, Unborn, None
    <3>2. QED BY <2>3, <3>1 DEF Unborn, None
  <2>4. QED BY <2>1, <2>2, <2>3
<1>3. BacklogInv'
  BY <1>0, <1>1 DEF IInv, BacklogInv
<1>4. UNCHANGED <<server, connections>> => MapInv'
  <2>1. \A d \in Conns : downs'[d] = 0 => downs[d] = 0
    BY <1>1
  <2>2. QED BY <1>1, <2>1 DEF IInv, MapInv
<1>5. UNCHANGED <<users, call, alive>> => UserInv'
  BY <1>0, <1>1 DEF IInv, UserInv, Unborn
<1>6. QED BY <1>2, <1>3, <1>4, <1>5

LEMMA DestroyedFunctor ==
  ASSUME IInv, NEW c \in Conns, NEW m \in Loops, NEW g \in queued[m],
         \A d \in Conns : d # c => state'[d] = state[d] /\ downs'[d] = downs[d],
         \/ state'[c] = state[c] /\ downs'[c] = downs[c]
         \/ /\ state[c] = "kConnected" /\ state'[c] = "kDisconnected"
            /\ downs'[c] = downs[c] + 1
  PROVE  /\ g.op \in Owning => g.conn \in alive
         /\ g.op = "connectEstablished" => m # Base /\ state'[g.conn] = "kConnecting"
         /\ g.op \in Bare => state'[g.conn] \notin Unborn
         /\ g.op = "removeConnectionInLoop" => downs'[g.conn] # 0
         /\ g.op # "removeConnectionInLoop" => ioLoop[g.conn] = m
<1>1. /\ g.op \in Owning => g.conn \in alive
      /\ g.op = "connectEstablished" => m # Base /\ state[g.conn] = "kConnecting"
      /\ g.op \in Bare => state[g.conn] \notin Unborn
      /\ g.op = "removeConnectionInLoop" => downs[g.conn] # 0
      /\ g.op # "removeConnectionInLoop" => ioLoop[g.conn] = m
  BY DEF IInv, OwnInv
<1>2. TypeOK
  BY DEF IInv
<1>3. g.conn \in Conns
  BY <1>2, QueuedFunctors, FunctorFields
<1>4. /\ state'[g.conn] = state[g.conn] /\ downs'[g.conn] = downs[g.conn]
      \/ /\ state[g.conn] = "kConnected" /\ state'[g.conn] = "kDisconnected"
         /\ downs'[g.conn] = downs[g.conn] + 1
  BY <1>3
<1>5. downs[g.conn] \in Nat
  BY <1>2, <1>3 DEF TypeOK
<1>6. QED BY <1>1, <1>4, <1>5 DEF Unborn, None

LEMMA RunDestroyed ==
  ASSUME IInv, UNCHANGED configVars, NEW l \in Loops, RunFunctor(l),
         Head(functors[l]).op = "connectDestroyed"
  PROVE  IInv'
<1> DEFINE f == Head(functors[l])
           c == f.conn
<1>0. /\ phase[l] = "functors" /\ functors[l] # <<>> /\ TypeOK /\ c \in alive
      /\ held' = [held EXCEPT ![l] = @ \cup ({c} \cap FunctorConns(<<f>>))]
      /\ connectDestroyed(c) /\ UNCHANGED <<pending, connections, users>>
      /\ functors' = [functors EXCEPT ![l] = Tail(@)]
      /\ UNCHANGED <<kernelVars, objVars, call, next, phase, active, endVars, touched>>
  BY DEF RunFunctor, IInv
<1> USE DEF kernelVars, objVars, endVars
<1>1. f \in Functor
  BY <1>0, RunQueue DEF TypeOK
<1>1a. c \in Conns /\ f = Des(c)
  BY <1>1, FunctorFields
<1>2. /\ f \in queued[l]
      /\ functors' \in [Loops -> Seq(Functor)]
      /\ \A m \in Loops : queued'[m] \subseteq queued[m]
      /\ \A m \in Loops : \A g \in queued[m] : g \in queued'[m] \/ (m = l /\ g = f)
      /\ Est(c) \notin queued'[l]
      /\ OrderInv'
  <2>1. pending' \in [Loops -> Seq(Functor)] /\ NoneEstablished
    BY <1>0, NothingPushed
  <2>2. QED BY <1>0, <2>1, Ran
<1>3. ioLoop[c] = l
  BY <1>2 DEF IInv, OwnInv
<1> HIDE DEF f, c
<1>4. /\ state' \in [Conns -> {None, "kConnecting", "kConnected", "kDisconnecting",
                               "kDisconnected"}]
      /\ index' \in [Conns -> {"kNew", "kAdded", "kDeleted"}]
      /\ channels' \in [Loops -> [Fds -> Conns \cup {None}]]
      /\ interest' \in [Loops -> [Fds -> Conns \cup {None}]]
      /\ events' \in [Conns -> SUBSET {"in", "out"}]
      /\ downs' \in [Conns -> Nat] /\ ups' = ups /\ revived' = revived
      /\ \A d \in Conns : d # c => state'[d] = state[d] /\ index'[d] = index[d]
                                     /\ downs'[d] = downs[d] /\ events'[d] = events[d]
      /\ index'[c] = "kNew"
      /\ \/ state'[c] = state[c] /\ downs'[c] = downs[c]
         \/ /\ state[c] = "kConnected" /\ state'[c] = "kDisconnected"
            /\ downs'[c] = downs[c] + 1
      /\ \A m \in Loops, g \in Fds :
           /\ channels'[m][g] \in {None, channels[m][g]}
           /\ channels'[m][g] # c \/ c \in revived
           /\ interest'[m][g] \in {None, interest[m][g]} /\ interest'[m][g] # c
           /\ g # fd[c] => channels'[m][g] = channels[m][g]
                             /\ interest'[m][g] = interest[m][g]
  BY <1>0, <1>1a, <1>3, Destroyed
<1>5. held' \in [Loops -> SUBSET Conns] /\ \A m \in Loops : held'[m] \subseteq alive
  <2>1. held \in [Loops -> SUBSET Conns] /\ \A m \in Loops : held[m] \subseteq alive
    BY <1>0 DEF TypeOK, IInv, OwnInv
  <2>2. QED BY <1>0, <1>1a, <2>1
<1>5a. TypeOK'
  BY <1>0, <1>2, <1>4, <1>5 DEF TypeOK, configVars, Loops, SubLoops, Fds
<1>6. loopGone' = loopGone /\ Loops' = Loops
  BY <1>0, GoneKept, ConfigKept
<1>7. FdInv' /\ EndInv'
  BY <1>0, Kept
<1>8. LifeInv' /\ MapInv' /\ UserInv' /\ BacklogInv'
  BY <1>0, <1>1a, <1>4, DestroyedLife
<1>11. OwnInv'
  <2>1. ASSUME NEW m \in Loops, NEW g \in queued'[m]
        PROVE  /\ g.op \in Owning => g.conn \in alive
               /\ g.op = "connectEstablished" => m # Base /\ state'[g.conn] = "kConnecting"
               /\ g.op \in Bare => state'[g.conn] \notin Unborn
               /\ g.op = "removeConnectionInLoop" => downs'[g.conn] # 0
               /\ g.op # "removeConnectionInLoop" => ioLoop[g.conn] = m
    <3>0. g \in queued[m]
      BY <1>2
    <3>1. QED BY <1>0, <1>1a, <1>4, <3>0, DestroyedFunctor
  <2>2. QED BY <1>0, <1>5, <1>6, <2>1 DEF IInv, OwnInv, Unborn
<1>12. KeptInv'
  <2> SUFFICES ASSUME NEW d \in Conns \ revived, ~loopGone[ioLoop[d]],
                      index'[d] # "kNew" \/ Est(d) \in queued'[ioLoop[d]]
               PROVE  d \in connections \/ Des(d) \in queued'[ioLoop[d]]
    BY <1>0, <1>4, <1>6 DEF KeptInv
  <2>1. ioLoop[d] \in Loops
    BY <1>0 DEF TypeOK
  <2>2. d # c
    BY <1>2, <1>3, <1>4
  <2>3. index[d] # "kNew" \/ Est(d) \in queued[ioLoop[d]]
    BY <1>2, <1>4, <2>1, <2>2
  <2>4. d \in connections \/ Des(d) \in queued[ioLoop[d]]
    BY <2>3 DEF IInv, KeptInv
  <2>5. Des(d) # f
    BY <1>1a, <2>2, BoundFunctors
  <2>6. QED BY <1>2, <2>1, <2>4, <2>5
<1>13. \A m \in Loops : loopGone[m] =>
         \A g \in Fds : channels'[m][g] = None /\ interest'[m][g] = None
  <2>1. SUFFICES ASSUME NEW m \in Loops, loopGone[m], NEW g \in Fds
                 PROVE  channels'[m][g] = None /\ interest'[m][g] = None
    OBVIOUS
  <2>2. channels[m][g] = None /\ interest[m][g] = None
    BY <2>1 DEF IInv, LoopInv
  <2>3. QED BY <1>4, <2>2
<1>14. LoopInv'
  <2>1. \A m \in Loops : phase[m] # "functors" => functors'[m] = <<>>
    BY <1>0 DEF IInv, LoopInv, TypeOK
  <2>2. QED BY <1>0, <1>6, <1>13, <2>1, ConfigKept DEF IInv, LoopInv
<1>15. PollInv'
  <2>1. ASSUME NEW d \in Conns, index'[d] # "kNew", ~loopGone[ioLoop[d]],
               d \in alive \/ d \notin revived
        PROVE  /\ channels'[ioLoop[d]][fd[d]] = channels[ioLoop[d]][fd[d]]
               /\ interest'[ioLoop[d]][fd[d]] = interest[ioLoop[d]][fd[d]]
    <3>1. d # c /\ index[d] # "kNew"
      BY <1>4, <2>1
    <3>2. fd[d] \in Fds /\ ioLoop[d] \in Loops /\ fd[d] # 0
      BY <1>0, <2>1, <3>1, PolledAlive, ConfigFacts
    <3>3. fd[d] # fd[c]
      BY <1>1a, <3>1, <3>2 DEF IInv, FdInv
    <3>4. QED BY <1>4, <3>2, <3>3
  <2>2. \A m \in Loops : \A d \in active[m] \ {Acceptor} : index'[d] = index[d]
    <3>1. SUFFICES ASSUME NEW m \in Loops, NEW d \in active[m] \ {Acceptor}
                   PROVE  d \in Conns /\ d # c
      BY <1>4
    <3>2. d \in Conns /\ phase[m] = "events" /\ ioLoop[d] = m
      BY <1>0 DEF IInv, LoopInv, PollInv, TypeOK
    <3>3. QED BY <1>0, <1>3, <3>2
  <2>3. \A m \in Loops, g \in Fds : interest'[m][g] # None => fd[interest'[m][g]] = g
    <3>1. SUFFICES ASSUME NEW m \in Loops, NEW g \in Fds, interest'[m][g] # None
                   PROVE  fd[interest'[m][g]] = g
      OBVIOUS
    <3>2. interest'[m][g] = interest[m][g]
      BY <1>4, <3>1
    <3>3. QED BY <3>1, <3>2 DEF IInv, PollInv
  <2>4. QED BY <1>0, <1>4, <1>6, <1>13, <2>1, <2>2, <2>3, EntriesGo
<1>16. QED
  BY <1>2, <1>5a, <1>7, <1>8, <1>11, <1>12, <1>14, <1>15 DEF IInv

LEMMA RunRemove ==
  ASSUME IInv, UNCHANGED configVars, NEW l \in Loops, RunFunctor(l),
         Head(functors[l]).op = "removeConnectionInLoop"
  PROVE  IInv'
<1> DEFINE f == Head(functors[l])
           c == f.conn
<1>0. /\ phase[l] = "functors" /\ functors[l] # <<>> /\ TypeOK /\ c \in alive
      /\ held' = [held EXCEPT ![l] = @ \cup ({c} \cap FunctorConns(<<f>>))]
      /\ connections' = connections \ {c}
      /\ pending' = [pending EXCEPT ![ioLoop[c]] = Append(@, Des(c))]
      /\ functors' = [functors EXCEPT ![l] = Tail(@)]
      /\ UNCHANGED <<kernelVars, connVars, objVars, userVars, next, phase, active, endVars,
                     touched>>
  BY DEF RunFunctor, IInv, removeConnectionInLoop, Des, userVars
<1> USE DEF kernelVars, objVars, userVars, endVars, connVars, pollVars
<1>1. f \in Functor
  BY <1>0, RunQueue DEF TypeOK
<1>2. c \in Conns /\ ioLoop[c] \in Loops
  BY <1>0, <1>1, FunctorFields, SMTT(30) DEF TypeOK
<1>7. /\ Des(c) \in Functor /\ Des(c).op = "connectDestroyed" /\ Des(c).conn = c
      /\ \A d \in Conns : Est(d) # Des(c) /\ Des(d) # f
  BY <1>2, BoundFunctors
<1>3. /\ pending' \in [Loops -> Seq(Functor)] /\ NoneEstablished
      /\ \A m \in Loops : \A g \in Range(pending'[m]) :
           g \in Range(pending[m]) \/ (m = ioLoop[c] /\ g = Des(c))
      /\ Des(c) \in Range(pending'[ioLoop[c]])
  BY <1>0, <1>2, <1>7, RunPushed, ZenonT(30)
<1>4. /\ f \in queued[l] /\ functors' \in [Loops -> Seq(Functor)]
      /\ \A m \in Loops : \A g \in queued'[m] :
           g \in queued[m] \/ g \in Range(pending'[m]) \ Range(pending[m])
      /\ \A m \in Loops : \A g \in queued[m] : g \in queued'[m] \/ (m = l /\ g = f)
      /\ \A m \in Loops : Range(pending'[m]) \subseteq queued'[m]
      /\ OrderInv'
  BY <1>0, <1>3, Ran
<1>5. /\ \A m \in Loops : \A g \in queued'[m] :
           g \in queued[m] \/ (m = ioLoop[c] /\ g = Des(c))
      /\ Des(c) \in queued'[ioLoop[c]]
  BY <1>2, <1>3, <1>4
<1>6. downs[c] # 0
  BY <1>4 DEF IInv, OwnInv
<1> HIDE DEF f, c
<1>8. held' \in [Loops -> SUBSET Conns] /\ \A m \in Loops : held'[m] \subseteq alive
  <2>1. held \in [Loops -> SUBSET Conns] /\ \A m \in Loops : held[m] \subseteq alive
    BY <1>0 DEF TypeOK, IInv, OwnInv
  <2>2. QED BY <1>0, <1>2, <2>1
<1>8a. TypeOK'
  <2>1. connections' \subseteq Conns
    BY <1>0 DEF TypeOK
  <2>2. QED BY <1>0, <1>3, <1>4, <1>8, <2>1 DEF TypeOK, configVars, Loops, SubLoops, Fds
<1>9. loopGone' = loopGone /\ Loops' = Loops
  BY <1>0, GoneKept, ConfigKept
<1>10. BacklogInv' /\ LifeInv' /\ FdInv' /\ UserInv' /\ PollInv' /\ EndInv'
  BY <1>0, <1>9, Kept
<1>11. MapInv'
  BY <1>0, <1>6 DEF IInv, MapInv
<1>12. LoopInv'
  <2>1. \A m \in Loops : phase[m] # "functors" => functors'[m] = <<>>
    BY <1>0 DEF IInv, LoopInv, TypeOK
  <2>2. QED BY <1>0, <1>9, <2>1, ConfigKept DEF IInv, LoopInv
<1>13. OwnInv'
  <2>1. ASSUME NEW m \in Loops, NEW g \in queued'[m]
        PROVE  /\ g.op \in Owning => g.conn \in alive
               /\ g.op = "connectEstablished" => m # Base /\ state[g.conn] = "kConnecting"
               /\ g.op \in Bare => state[g.conn] \notin Unborn
               /\ g.op = "removeConnectionInLoop" => downs[g.conn] # 0
               /\ g.op # "removeConnectionInLoop" => ioLoop[g.conn] = m
    <3>1. CASE g \in queued[m]
      BY <3>1 DEF IInv, OwnInv
    <3>2. CASE m = ioLoop[c] /\ g = Des(c)
      BY <1>0, <1>7, <3>2 DEF Bare
    <3>3. QED BY <1>5, <3>1, <3>2
  <2>2. connections' \subseteq alive
    BY <1>0 DEF IInv, OwnInv
  <2>3. QED BY <1>0, <1>8, <1>9, <2>1, <2>2 DEF OwnInv, Unborn
<1>14. KeptInv'
  <2> SUFFICES ASSUME NEW d \in Conns \ revived, ~loopGone[ioLoop[d]],
                      index[d] # "kNew" \/ Est(d) \in queued'[ioLoop[d]]
               PROVE  d \in connections' \/ Des(d) \in queued'[ioLoop[d]]
    BY <1>0, <1>9 DEF KeptInv
  <2>1. ioLoop[d] \in Loops
    BY <1>0 DEF TypeOK
  <2>2. CASE d = c
    BY <1>5, <2>2
  <2>3. CASE d # c
    <3>1. index[d] # "kNew" \/ Est(d) \in queued[ioLoop[d]]
      BY <1>5, <1>7, <2>1
    <3>2. d \in connections \/ Des(d) \in queued[ioLoop[d]]
      BY <3>1 DEF IInv, KeptInv
    <3>3. QED BY <1>0, <1>4, <1>7, <2>1, <2>3, <3>2
  <2>4. QED BY <2>2, <2>3
<1>15. QED
  BY <1>4, <1>8a, <1>10, <1>11, <1>12, <1>13, <1>14, SMTT(30) DEF IInv

(* A new channel enters the poller of its loop under a descriptor of its own. *)
LEMMA Entered ==
  ASSUME IInv, UNCHANGED configVars, NEW c \in Conns, NEW l \in Loops, ~loopGone[l],
         NEW sockfd \in Fds, index[c] = "kNew",
         \A d \in Conns : d # c => fd[d] # sockfd,
         fd'[c] = sockfd /\ ioLoop'[c] = l,
         \A d \in Conns : d # c => fd'[d] = fd[d] /\ ioLoop'[d] = ioLoop[d],
         NEW none, updateChannel(c, l, sockfd, none), loopGone' = loopGone,
         c \notin revived, revived' = revived, alive' \subseteq alive \cup {c},
         \A m \in Loops : active'[m] \subseteq active[m]
  PROVE  /\ index' \in [Conns -> {"kNew", "kAdded", "kDeleted"}]
         /\ channels' \in [Loops -> [Fds -> Conns \cup {None}]]
         /\ interest' \in [Loops -> [Fds -> Conns \cup {None}]]
         /\ index'[c] = "kAdded" /\ \A d \in Conns : d # c => index'[d] = index[d]
         /\ \A m \in Loops : loopGone[m] =>
              \A g \in Fds : channels'[m][g] = None /\ interest'[m][g] = None
         /\ PollInv'
<1>0. /\ TypeOK /\ None \notin Conns /\ Loops' = Loops /\ Fds' = Fds
      /\ channels \in [Loops -> [Fds -> Conns \cup {None}]]
      /\ interest \in [Loops -> [Fds -> Conns \cup {None}]]
      /\ index \in [Conns -> {"kNew", "kAdded", "kDeleted"}]
  BY ConfigFacts, ConfigKept DEF IInv, TypeOK
<1>1. /\ index' = [index EXCEPT ![c] = "kAdded"]
      /\ channels' = [channels EXCEPT ![l][sockfd] = c]
      /\ interest' = [interest EXCEPT ![l][sockfd] = c]
  BY DEF updateChannel
<1>2. /\ index' \in [Conns -> {"kNew", "kAdded", "kDeleted"}]
      /\ index'[c] = "kAdded" /\ \A d \in Conns : d # c => index'[d] = index[d]
  BY <1>0, <1>1
<1>3. /\ channels' \in [Loops -> [Fds -> Conns \cup {None}]]
      /\ \A m \in Loops, g \in Fds :
           channels'[m][g] = IF m = l /\ g = sockfd THEN c ELSE channels[m][g]
  BY <1>0, <1>1
<1>4. /\ interest' \in [Loops -> [Fds -> Conns \cup {None}]]
      /\ \A m \in Loops, g \in Fds :
           interest'[m][g] = IF m = l /\ g = sockfd THEN c ELSE interest[m][g]
  BY <1>0, <1>1
<1>5. \A m \in Loops : loopGone[m] =>
        \A g \in Fds : channels'[m][g] = None /\ interest'[m][g] = None
  BY <1>3, <1>4 DEF IInv, LoopInv
<1>6. ASSUME NEW m \in Loops, NEW g \in Fds, interest'[m][g] # None
      PROVE  /\ ioLoop'[interest'[m][g]] = m /\ fd'[interest'[m][g]] = g
             /\ index'[interest'[m][g]] = "kAdded"
  <2>1. CASE m = l /\ g = sockfd
    BY <1>2, <1>4, <2>1
  <2>2. CASE ~(m = l /\ g = sockfd)
    <3>1. interest'[m][g] = interest[m][g] /\ interest[m][g] \in Conns
      BY <1>0, <1>4, <1>6, <2>2
    <3>2. interest[m][g] # c
      BY <1>6, <3>1 DEF IInv, PollInv
    <3>3. QED BY <1>2, <1>6, <3>1, <3>2 DEF IInv, PollInv
  <2>3. QED BY <2>1, <2>2
<1>7. ASSUME NEW m \in Loops, NEW g \in Fds, channels'[m][g] # None
      PROVE  \/ channels'[m][g] \in revived
             \/ /\ ioLoop'[channels'[m][g]] = m /\ fd'[channels'[m][g]] = g
                /\ index'[channels'[m][g]] # "kNew"
  <2>1. CASE m = l /\ g = sockfd
    BY <1>2, <1>3, <2>1
  <2>2. CASE ~(m = l /\ g = sockfd)
    <3>1. channels'[m][g] = channels[m][g] /\ channels[m][g] \in Conns
      BY <1>0, <1>3, <1>7, <2>2
    <3>2. channels[m][g] # c
      BY <1>7, <3>1 DEF IInv, PollInv
    <3>3. \/ channels[m][g] \in revived
          \/ /\ ioLoop[channels[m][g]] = m /\ fd[channels[m][g]] = g
             /\ index[channels[m][g]] # "kNew"
      BY <1>7, <3>1 DEF IInv, PollInv
    <3>4. QED BY <1>2, <3>1, <3>2, <3>3
  <2>3. QED BY <2>1, <2>2
<1>8. ASSUME NEW d \in alive', index'[d] # "kNew", ~loopGone'[ioLoop'[d]]
      PROVE  /\ channels'[ioLoop'[d]][fd'[d]] = d
             /\ index'[d] = "kAdded" => interest'[ioLoop'[d]][fd'[d]] = d
  <2>1. CASE d = c
    BY <1>3, <1>4, <2>1
  <2>2. CASE d # c
    <3>0. d \in alive /\ d \in Conns
      BY <1>0, <2>2 DEF TypeOK
    <3>1. index[d] # "kNew" /\ ~loopGone[ioLoop[d]] /\ index'[d] = index[d]
      BY <1>2, <1>8, <2>2, <3>0
    <3>2. fd[d] \in Fds /\ ioLoop[d] \in Loops
      BY <3>0, <3>1, PolledAlive
    <3>3. /\ channels[ioLoop[d]][fd[d]] = d
          /\ index[d] = "kAdded" => interest[ioLoop[d]][fd[d]] = d
      BY <3>0, <3>1 DEF IInv, PollInv
    <3>4. ioLoop'[d] = ioLoop[d] /\ fd'[d] = fd[d] /\ fd[d] # sockfd
      BY <2>2, <3>0
    <3>5. QED BY <1>3, <1>4, <3>1, <3>2, <3>3, <3>4
  <2>3. QED BY <2>1, <2>2
<1>9. ASSUME NEW m \in Loops, NEW d \in active'[m] \ {Acceptor}
      PROVE  ioLoop'[d] = m /\ index'[d] = "kAdded"
  <2>1. d \in Conns /\ ioLoop[d] = m /\ index[d] = "kAdded"
    BY <1>0 DEF IInv, PollInv, TypeOK
  <2>2. QED BY <1>2, <2>1
<1>10. PollInv'
  BY <1>0, <1>6, <1>7, <1>8, <1>9 DEF PollInv
<1>11. QED BY <1>2, <1>3, <1>4, <1>5, <1>10

LEMMA RunEstablish ==
  ASSUME IInv, UNCHANGED configVars, NEW l \in Loops, RunFunctor(l),
         Head(functors[l]).op = "connectEstablished"
  PROVE  IInv'
<1> DEFINE f == Head(functors[l])
           c == f.conn
<1>0. /\ phase[l] = "functors" /\ functors[l] # <<>> /\ TypeOK /\ c \in alive
      /\ held' = [held EXCEPT ![l] = @ \cup ({c} \cap FunctorConns(<<f>>))]
      /\ connectEstablished(c, l, fd[c])
      /\ UNCHANGED <<pending, connections>>
      /\ functors' = [functors EXCEPT ![l] = Tail(@)]
      /\ UNCHANGED <<kernelVars, objVars, call, next, phase, active, endVars, touched>>
  BY DEF RunFunctor, IInv
<1>0a. /\ state' = [state EXCEPT ![c] = "kConnected"]
       /\ events' = [events EXCEPT ![c] = {"in"}]
       /\ updateChannel(c, l, fd[c], {"in"} = {})
       /\ ups' = [ups EXCEPT ![c] = @ + 1]
       /\ users' = users \cup ({c} \cap shared)
       /\ UNCHANGED <<downs, revived>>
  BY <1>0 DEF connectEstablished, SetEvents
<1> USE DEF kernelVars, objVars, endVars
<1>1. f \in Functor
  BY <1>0, RunQueue DEF TypeOK
<1>2. c \in Conns /\ f = Est(c)
  BY <1>1, FunctorFields
<1>3. pending' \in [Loops -> Seq(Functor)] /\ NoneEstablished
  BY <1>0, NothingPushed
<1>4. /\ f \in queued[l] /\ functors' \in [Loops -> Seq(Functor)]
      /\ \A m \in Loops : queued'[m] \subseteq queued[m]
      /\ \A m \in Loops : \A g \in queued[m] : g \in queued'[m] \/ (m = l /\ g = f)
      /\ Est(c) \notin queued'[l]
      /\ OrderInv'
  BY <1>0, <1>3, Ran
<1>5. /\ ioLoop[c] = l /\ state[c] = "kConnecting" /\ ~loopGone[l] /\ c \notin revived
      /\ index[c] = "kNew" /\ ups[c] = 0 /\ downs[c] = 0
      /\ fd[c] \in Fds /\ \A d \in Conns : d # c => fd[d] # fd[c]
  <2>1. ioLoop[c] = l /\ state[c] = "kConnecting" /\ ~loopGone[l]
    BY <1>0, <1>4, RunningLoop DEF IInv, OwnInv
  <2>2. index[c] = "kNew" /\ ups[c] = 0 /\ c \notin revived
    BY <1>2, <2>1 DEF IInv, LifeInv, Unborn
  <2>3. downs[c] = 0
    BY <1>2, <2>1, <2>2 DEF IInv, LifeInv, Unborn
  <2>4. fd[c] # 0 /\ fd[c] \in Fds
    BY <1>0, <1>2, <2>1 DEF IInv, FdInv, TypeOK
  <2>5. QED BY <1>2, <2>1, <2>2, <2>3, <2>4 DEF IInv, FdInv
<1> HIDE DEF f, c
<1>6. loopGone' = loopGone /\ Loops' = Loops
  BY <1>0, GoneKept, ConfigKept
<1>7. /\ index' \in [Conns -> {"kNew", "kAdded", "kDeleted"}]
      /\ channels' \in [Loops -> [Fds -> Conns \cup {None}]]
      /\ interest' \in [Loops -> [Fds -> Conns \cup {None}]]
      /\ index'[c] = "kAdded" /\ \A d \in Conns : d # c => index'[d] = index[d]
      /\ \A m \in Loops : loopGone[m] =>
           \A g \in Fds : channels'[m][g] = None /\ interest'[m][g] = None
      /\ PollInv'
  BY <1>0, <1>0a, <1>2, <1>5, <1>6, Entered
<1>8. /\ state' \in [Conns -> {None, "kConnecting", "kConnected", "kDisconnecting",
                               "kDisconnected"}]
      /\ events' \in [Conns -> SUBSET {"in", "out"}] /\ events'[c] = {"in"}
      /\ ups' \in [Conns -> Nat] /\ state'[c] = "kConnected" /\ ups'[c] = 1
      /\ \A d \in Conns : d # c => state'[d] = state[d] /\ ups'[d] = ups[d]
                                     /\ events'[d] = events[d]
  <2>1. /\ state \in [Conns -> {None, "kConnecting", "kConnected", "kDisconnecting",
                                "kDisconnected"}]
        /\ events \in [Conns -> SUBSET {"in", "out"}] /\ ups \in [Conns -> Nat]
    BY <1>0 DEF TypeOK
  <2>2. QED BY <1>0a, <1>2, <1>5, <2>1
<1>9. held' \in [Loops -> SUBSET Conns] /\ \A m \in Loops : held'[m] \subseteq alive
  <2>1. held \in [Loops -> SUBSET Conns] /\ \A m \in Loops : held[m] \subseteq alive
    BY <1>0 DEF TypeOK, IInv, OwnInv
  <2>2. QED BY <1>0, <1>2, <2>1
<1>9a. TypeOK'
  <2>1. users' \subseteq shared
    BY <1>0, <1>0a DEF TypeOK
  <2>2. QED BY <1>0, <1>0a, <1>3, <1>4, <1>7, <1>8, <1>9, <2>1
    DEF TypeOK, configVars, Loops, SubLoops, Fds
<1>10. FdInv' /\ EndInv'
  BY <1>0, Kept
<1>11. LifeInv'
  <2> SUFFICES ASSUME NEW d \in Conns
               PROVE  /\ state'[d] = None => d \notin alive
                      /\ state'[d] \in Unborn => index'[d] = "kNew" /\ d \notin revived
                      /\ ups'[d] = IF state'[d] \in Unborn THEN 0 ELSE 1
                      /\ d \notin revived =>
                           /\ downs[d] \in {0, 1}
                           /\ state'[d] \in Unborn \cup {"kConnected"} => downs[d] = 0
                           /\ index'[d] = "kAdded" =>
                                /\ state'[d] \in {"kConnected", "kDisconnecting"}
                                /\ downs[d] = 0 /\ "in" \in events'[d]
    BY <1>0, <1>0a DEF LifeInv, Unborn
  <2>1. CASE d # c
    <3>1. /\ state'[d] = state[d] /\ index'[d] = index[d] /\ events'[d] = events[d]
          /\ ups'[d] = ups[d]
      BY <1>7, <1>8, <2>1
    <3>2. QED BY <3>1 DEF IInv, LifeInv
  <2>2. CASE d = c
    BY <1>5, <1>8, <2>2 DEF Unborn, None
  <2>3. QED BY <2>1, <2>2
<1>12. MapInv'
  <2>1. \A d \in Conns : state'[d] # None => state[d] # None
    BY <1>5, <1>8 DEF None
  <2>2. QED BY <1>0, <1>0a, <2>1 DEF IInv, MapInv
<1>13. BacklogInv'
  <2>1. \A d \in Conns : state[d] = None => state'[d] = None
    BY <1>5, <1>8 DEF None
  <2>2. \A i \in DOMAIN backlog : backlog[i] \in Conns
    BY <1>0, LenProperties, ElementOfSeq DEF TypeOK
  <2>3. QED BY <1>0, <2>1, <2>2 DEF IInv, BacklogInv
<1>14. OwnInv'
  <2>1. ASSUME NEW m \in Loops, NEW g \in queued'[m]
        PROVE  /\ g.op \in Owning => g.conn \in alive
               /\ g.op = "connectEstablished" => m # Base /\ state'[g.conn] = "kConnecting"
               /\ g.op \in Bare => state'[g.conn] \notin Unborn
               /\ g.op = "removeConnectionInLoop" => downs[g.conn] # 0
               /\ g.op # "removeConnectionInLoop" => ioLoop[g.conn] = m
    <3>0. g \in queued[m]
      BY <1>4
    <3>1. g \in Functor
      BY <1>0, <3>0, QueuedFunctors
    <3>2. g.conn \in Conns /\ (g.op = "connectEstablished" => g = Est(g.conn))
      BY <3>1, FunctorFields
    <3>3. /\ g.op \in Owning => g.conn \in alive
          /\ g.op = "connectEstablished" => m # Base /\ state[g.conn] = "kConnecting"
          /\ g.op \in Bare => state[g.conn] \notin Unborn
          /\ g.op = "removeConnectionInLoop" => downs[g.conn] # 0
          /\ g.op # "removeConnectionInLoop" => ioLoop[g.conn] = m
      BY <3>0 DEF IInv, OwnInv
    <3>4. g.conn = c => g.op \notin {"connectEstablished"} \cup Bare
      <4>1. g.conn = c /\ g.op = "connectEstablished" => m = l /\ g = Est(c)
        BY <1>5, <3>2, <3>3
      <4>2. QED BY <1>4, <1>5, <3>3, <4>1 DEF Unborn
    <3>5. QED BY <1>8, <3>2, <3>3, <3>4 DEF Unborn
  <2>2. QED BY <1>0, <1>0a, <1>6, <1>9, <2>1 DEF IInv, OwnInv, Unborn
<1>14a. UserInv'
  <2>1. \A d \in Conns : state[d] \notin Unborn => state'[d] \notin Unborn
    BY <1>8 DEF Unborn, None
  <2>2. users \subseteq Conns /\ c \in alive /\ state'[c] \notin Unborn
    BY <1>0, <1>8 DEF IInv, UserInv, TypeOK, Unborn, None
  <2>3. QED BY <1>0, <1>0a, <2>1, <2>2 DEF IInv, UserInv, Unborn
<1>15. KeptInv'
  <2> SUFFICES ASSUME NEW d \in Conns \ revived, ~loopGone[ioLoop[d]],
                      index'[d] # "kNew" \/ Est(d) \in queued'[ioLoop[d]]
               PROVE  d \in connections \/ Des(d) \in queued'[ioLoop[d]]
    BY <1>0, <1>0a, <1>6 DEF KeptInv
  <2>1. ioLoop[d] \in Loops /\ Des(d) # f
    BY <1>0, <1>2, BoundFunctors, ZenonT(30) DEF TypeOK
  <2>2. index[d] # "kNew" \/ Est(d) \in queued[ioLoop[d]]
    BY <1>2, <1>4, <1>5, <1>7, <2>1
  <2>3. d \in connections \/ Des(d) \in queued[ioLoop[d]]
    BY <2>2 DEF IInv, KeptInv
  <2>4. QED BY <1>4, <2>1, <2>3
<1>16. LoopInv'
  <2>1. \A m \in Loops : phase[m] # "functors" => functors'[m] = <<>>
    BY <1>0 DEF IInv, LoopInv, TypeOK
  <2>2. QED BY <1>0, <1>6, <1>7, <2>1, ConfigKept DEF IInv, LoopInv
<1>17. QED
  BY <1>4, <1>7, <1>9a, <1>10, <1>11, <1>12, <1>13, <1>14, <1>14a, <1>15, <1>16 DEF IInv

(* A late sendInLoop may put the channel of a closed connection back: it is then
   counted among the revived ones. *)
LEMMA SendEntries ==
  ASSUME IInv, UNCHANGED configVars, NEW l \in Loops, NEW c \in Conns, c \in alive,
         ioLoop[c] = l, ~loopGone[l], sendInLoop(c, l),
         UNCHANGED <<alive, fd, ioLoop, loopGone, active>>
  PROVE  /\ index' \in [Conns -> {"kNew", "kAdded", "kDeleted"}]
         /\ events' \in [Conns -> SUBSET {"in", "out"}]
         /\ channels' \in [Loops -> [Fds -> Conns \cup {None}]]
         /\ interest' \in [Loops -> [Fds -> Conns \cup {None}]]
         /\ revived \subseteq revived' /\ revived' \subseteq revived \cup {c}
         /\ \A d \in Conns : d \notin revived' \/ d # c =>
              index'[d] = index[d] /\ events[d] \subseteq events'[d]
         /\ \A m \in Loops : loopGone[m] =>
              \A g \in Fds : channels'[m][g] = None /\ interest'[m][g] = None
         /\ PollInv'
<1>0. TypeOK
  BY DEF IInv
<1>1. CASE UNCHANGED pollVars
  <2> USE DEF pollVars
  <2>1. PollInv'
    BY <1>1, Kept
  <2>2. QED BY <1>0, <1>1, <2>1 DEF IInv, TypeOK, LoopInv
<1>2. CASE /\ SetEvents(c, l, fd[c], events[c] \cup {"out"})
           /\ revived' = IF index[c] = "kAdded" THEN revived ELSE revived \cup {c}
  <2> DEFINE mask == events[c] \cup {"out"}
  <2>1. mask \in SUBSET {"in", "out"} /\ mask # {} /\ events[c] \subseteq mask
    BY <1>0 DEF TypeOK
  <2>2. SetEvents(c, l, fd[c], mask)
    BY <1>2
  <2>3. revived \subseteq revived' /\ revived' \subseteq revived \cup {c}
    BY <1>2
  <2> HIDE DEF mask
  <2>4. /\ index' \in [Conns -> {"kNew", "kAdded", "kDeleted"}]
        /\ events' \in [Conns -> SUBSET {"in", "out"}]
        /\ channels' \in [Loops -> [Fds -> Conns \cup {None}]]
        /\ interest' \in [Loops -> [Fds -> Conns \cup {None}]]
        /\ index'[c] = IF index[c] = "kAdded" /\ mask = {} THEN "kDeleted" ELSE "kAdded"
        /\ events'[c] = mask
        /\ \A d \in Conns : d # c => index'[d] = index[d] /\ events'[d] = events[d]
        /\ \A m \in Loops : loopGone[m] =>
             \A g \in Fds : channels'[m][g] = None /\ interest'[m][g] = None
        /\ PollInv'
    BY <2>1, <2>2, <2>3, Updated
  <2>5. c \notin revived' => index'[c] = index[c]
    BY <1>2, <2>1, <2>4
  <2>6. \A d \in Conns : d \notin revived' \/ d # c =>
          index'[d] = index[d] /\ events[d] \subseteq events'[d]
    BY <2>1, <2>4, <2>5
  <2>7. QED BY <2>3, <2>4, <2>6
<1>3. QED BY <1>1, <1>2 DEF sendInLoop, pollVars

LEMMA RunSend ==
  ASSUME IInv, UNCHANGED configVars, NEW l \in Loops, RunFunctor(l),
         Head(functors[l]).op = "sendInLoop"
  PROVE  IInv'
<1> DEFINE f == Head(functors[l])
           c == f.conn
           w == Bind("writeComplete", c)
<1>0. /\ phase[l] = "functors" /\ functors[l] # <<>> /\ TypeOK /\ c \in alive
      /\ held' = [held EXCEPT ![l] = @ \cup ({c} \cap FunctorConns(<<f>>))]
      /\ sendInLoop(c, l)
      /\ UNCHANGED <<state, ups, downs, connections, users>>
      /\ functors' = [functors EXCEPT ![l] = Tail(@)]
      /\ UNCHANGED <<kernelVars, objVars, call, next, phase, active, endVars, touched>>
  BY DEF RunFunctor, IInv
<1> USE DEF kernelVars, objVars, endVars
<1>1. f \in Functor
  BY <1>0, RunQueue DEF TypeOK
<1>2. c \in Conns
  BY <1>1, FunctorFields
<1>3. /\ w \in Functor /\ w.op = "writeComplete" /\ w.conn = c
      /\ w.op # "connectEstablished" /\ w.op # "removeConnectionInLoop" /\ w.op \notin Bare
      /\ \A d \in Conns : Est(d) # w
  BY <1>2, BoundFunctors DEF Owning, Bare
<1> HIDE DEF w
<1>4. pending' = pending \/ pending' = [pending EXCEPT ![l] = Append(@, w)]
  BY <1>0 DEF sendInLoop, w
<1>5. /\ pending' \in [Loops -> Seq(Functor)] /\ NoneEstablished
      /\ \A m \in Loops : \A g \in Range(pending'[m]) :
           g \in Range(pending[m]) \/ (m = l /\ g = w)
  BY <1>3, <1>4, NothingPushed, RunPushed
<1>6. /\ f \in queued[l] /\ functors' \in [Loops -> Seq(Functor)]
      /\ \A m \in Loops : \A g \in queued'[m] :
           g \in queued[m] \/ g \in Range(pending'[m]) \ Range(pending[m])
      /\ \A m \in Loops : \A g \in queued[m] : g \in queued'[m] \/ (m = l /\ g = f)
      /\ OrderInv'
  BY <1>0, <1>5, Ran
<1>7. \A m \in Loops : \A g \in queued'[m] : g \in queued[m] \/ (m = l /\ g = w)
  BY <1>5, <1>6
<1>8. ioLoop[c] = l /\ state[c] \notin Unborn /\ ~loopGone[l]
  <2>1. f.op \in Bare /\ f.op # "removeConnectionInLoop"
    BY DEF Bare
  <2>2. QED BY <1>0, <1>6, <2>1, RunningLoop DEF IInv, OwnInv
<1>9. \A d \in Conns : Des(d) # f
  BY BoundFunctors
<1> HIDE DEF f, c
<1>10. loopGone' = loopGone /\ Loops' = Loops
  BY <1>0, GoneKept, ConfigKept
<1>11. /\ index' \in [Conns -> {"kNew", "kAdded", "kDeleted"}]
       /\ events' \in [Conns -> SUBSET {"in", "out"}]
       /\ channels' \in [Loops -> [Fds -> Conns \cup {None}]]
       /\ interest' \in [Loops -> [Fds -> Conns \cup {None}]]
       /\ revived \subseteq revived' /\ revived' \subseteq revived \cup {c}
       /\ \A d \in Conns : d \notin revived' \/ d # c =>
            index'[d] = index[d] /\ events[d] \subseteq events'[d]
       /\ \A m \in Loops : loopGone[m] =>
            \A g \in Fds : channels'[m][g] = None /\ interest'[m][g] = None
       /\ PollInv'
  BY <1>0, <1>2, <1>8, <1>10, SendEntries
<1>12. held' \in [Loops -> SUBSET Conns] /\ \A m \in Loops : held'[m] \subseteq alive
  <2>1. held \in [Loops -> SUBSET Conns] /\ \A m \in Loops : held[m] \subseteq alive
    BY <1>0 DEF TypeOK, IInv, OwnInv
  <2>2. QED BY <1>0, <1>2, <2>1
<1>13. TypeOK'
  <2>1. revived' \subseteq Conns
    BY <1>0, <1>2, <1>11 DEF TypeOK
  <2>2. QED BY <1>0, <1>5, <1>6, <1>11, <1>12, <2>1
    DEF TypeOK, configVars, Loops, SubLoops, Fds
<1>14. BacklogInv' /\ MapInv' /\ FdInv' /\ UserInv' /\ EndInv'
  BY <1>0, <1>10, Kept
<1>15. LifeInv'
  <2> SUFFICES ASSUME NEW d \in Conns
               PROVE  /\ state[d] = None => d \notin alive
                      /\ state[d] \in Unborn => index'[d] = "kNew" /\ d \notin revived'
                      /\ ups[d] = IF state[d] \in Unborn THEN 0 ELSE 1
                      /\ d \notin revived' =>
                           /\ downs[d] \in {0, 1}
                           /\ state[d] \in Unborn \cup {"kConnected"} => downs[d] = 0
                           /\ index'[d] = "kAdded" =>
                                /\ state[d] \in {"kConnected", "kDisconnecting"}
                                /\ downs[d] = 0 /\ "in" \in events'[d]
    BY <1>0 DEF LifeInv, Unborn
  <2>1. /\ state[d] = None => d \notin alive
        /\ state[d] \in Unborn => index[d] = "kNew" /\ d \notin revived
        /\ ups[d] = IF state[d] \in Unborn THEN 0 ELSE 1
        /\ d \notin revived =>
             /\ downs[d] \in {0, 1}
             /\ state[d] \in Unborn \cup {"kConnected"} => downs[d] = 0
             /\ index[d] = "kAdded" =>
                  /\ state[d] \in {"kConnected", "kDisconnecting"}
                  /\ downs[d] = 0 /\ "in" \in events[d]
    BY DEF IInv, LifeInv
  <2>2. /\ d \notin revived' => /\ d \notin revived /\ index'[d] = index[d]
                                /\ events[d] \subseteq events'[d]
        /\ state[d] \in Unborn => d # c /\ (d \in revived' => d \in revived)
    BY <1>8, <1>11
  <2>3. d # c => index'[d] = index[d]
    BY <1>11
  <2>4. state[d] \in Unborn => index'[d] = "kNew" /\ d \notin revived'
    BY <2>1, <2>2, <2>3
  <2>5. QED BY <2>1, <2>2, <2>4
<1>16. OwnInv'
  <2>1. ASSUME NEW m \in Loops, NEW g \in queued'[m]
        PROVE  /\ g.op \in Owning => g.conn \in alive
               /\ g.op = "connectEstablished" => m # Base /\ state[g.conn] = "kConnecting"
               /\ g.op \in Bare => state[g.conn] \notin Unborn
               /\ g.op = "removeConnectionInLoop" => downs[g.conn] # 0
               /\ g.op # "removeConnectionInLoop" => ioLoop[g.conn] = m
    <3>1. CASE g \in queued[m]
      BY <3>1 DEF IInv, OwnInv
    <3>2. CASE m = l /\ g = w
      BY <1>0, <1>3, <1>8, <3>2
    <3>3. QED BY <1>7, <3>1, <3>2
  <2>2. QED BY <1>0, <1>10, <1>12, <2>1 DEF IInv, OwnInv, Unborn
<1>17. KeptInv'
  <2> SUFFICES ASSUME NEW d \in Conns \ revived', ~loopGone[ioLoop[d]],
                      index'[d] # "kNew" \/ Est(d) \in queued'[ioLoop[d]]
               PROVE  d \in connections \/ Des(d) \in queued'[ioLoop[d]]
    BY <1>0, <1>10 DEF KeptInv
  <2>1. ioLoop[d] \in Loops /\ d \notin revived /\ index'[d] = index[d]
    BY <1>0, <1>11 DEF TypeOK
  <2>2. index[d] # "kNew" \/ Est(d) \in queued[ioLoop[d]]
    BY <1>3, <1>7, <2>1
  <2>3. d \in connections \/ Des(d) \in queued[ioLoop[d]]
    BY <2>1, <2>2 DEF IInv, KeptInv
  <2>4. QED BY <1>6, <1>9, <2>1, <2>3
<1>18. LoopInv'
  <2>1. \A m \in Loops : phase[m] # "functors" => functors'[m] = <<>>
    BY <1>0 DEF IInv, LoopInv, TypeOK
  <2>2. QED BY <1>0, <1>10, <1>11, <2>1, ConfigKept DEF IInv, LoopInv
<1>19. QED
  BY <1>6, <1>11, <1>13, <1>14, <1>15, <1>16, <1>17, <1>18 DEF IInv

(* A functor that leaves the poller and the queues as they are, or finds its connection
   gone. *)
LEMMA RunOther ==
  ASSUME IInv, UNCHANGED configVars, NEW l \in Loops,
         phase[l] = "functors", functors[l] # <<>>,
         Head(functors[l]).op \in Bare \cup {"writeComplete"},
         held' \in [Loops -> SUBSET Conns], \A m \in Loops : held'[m] \subseteq alive,
         functors' = [functors EXCEPT ![l] = Tail(@)], touched' \subseteq Conns,
         UNCHANGED <<kernelVars, connVars, objVars, userVars, poolVars, phase, active,
                     pending, endVars>>
  PROVE  IInv'
<1> USE DEF kernelVars, objVars, endVars, userVars, poolVars, connVars, pollVars
<1> DEFINE f == Head(functors[l])
<1>1. TypeOK /\ Loops' = Loops /\ loopGone' = loopGone
  BY GoneKept, ConfigKept DEF IInv
<1>2. /\ functors' \in [Loops -> Seq(Functor)]
      /\ \A m \in Loops : queued'[m] \subseteq queued[m]
      /\ \A m \in Loops : \A g \in queued[m] : g \in queued'[m] \/ (m = l /\ g = f)
      /\ OrderInv'
  <2>1. pending' \in [Loops -> Seq(Functor)] /\ NoneEstablished
    BY NothingPushed
  <2>2. QED BY <2>1, Ran
<1>3. \A d \in Conns : Des(d) # f
  <2>1. "connectDestroyed" \notin Bare \cup {"writeComplete"}
    BY DEF Bare
  <2>2. QED BY <2>1, BoundFunctors
<1> HIDE DEF f
<1>4. TypeOK'
  BY <1>1, <1>2 DEF TypeOK, configVars, Loops, SubLoops, Fds
<1>5. BacklogInv' /\ LifeInv' /\ MapInv' /\ FdInv' /\ UserInv' /\ PollInv' /\ EndInv'
  BY <1>1, Kept
<1>6. OwnInv'
  BY <1>1, <1>2 DEF IInv, OwnInv, Unborn
<1>7. KeptInv'
  <2> SUFFICES ASSUME NEW d \in Conns \ revived, ~loopGone[ioLoop[d]],
                      index[d] # "kNew" \/ Est(d) \in queued'[ioLoop[d]]
               PROVE  d \in connections \/ Des(d) \in queued'[ioLoop[d]]
    BY <1>1 DEF KeptInv
  <2>1. ioLoop[d] \in Loops
    BY <1>1 DEF TypeOK
  <2>2. d \in connections \/ Des(d) \in queued[ioLoop[d]]
    BY <1>2, <2>1 DEF IInv, KeptInv
  <2>3. QED BY <1>2, <1>3, <2>1, <2>2
<1>8. LoopInv'
  <2>1. \A m \in Loops : phase[m] # "functors" => functors'[m] = <<>>
    BY <1>1 DEF IInv, LoopInv, TypeOK
  <2>2. QED BY <1>1, <2>1, ConfigKept DEF IInv, LoopInv
<1>9. QED
  BY <1>2, <1>4, <1>5, <1>6, <1>7, <1>8 DEF IInv

LEMMA RunNothing ==
  ASSUME IInv, UNCHANGED configVars, NEW l \in Loops, RunFunctor(l),
         Head(functors[l]).op \in {"shutdownInLoop", "writeComplete"}
  PROVE  IInv'
<1> DEFINE f == Head(functors[l])
<1>1. /\ phase[l] = "functors" /\ functors[l] # <<>> /\ TypeOK /\ f.conn \in alive
      /\ held' = [held EXCEPT ![l] = @ \cup ({f.conn} \cap FunctorConns(<<f>>))]
      /\ functors' = [functors EXCEPT ![l] = Tail(@)] /\ touched' = touched
      /\ UNCHANGED <<kernelVars, connVars, objVars, userVars, poolVars, phase, active,
                     pending, endVars>>
  BY DEF RunFunctor, IInv, userVars, poolVars
<1>2. f.op \in Bare \cup {"writeComplete"}
  BY DEF Bare
<1>3. f.conn \in Conns /\ touched \subseteq Conns
  BY <1>1 DEF TypeOK
<1> HIDE DEF f
<1>4. held' \in [Loops -> SUBSET Conns] /\ \A m \in Loops : held'[m] \subseteq alive
  <2>1. held \in [Loops -> SUBSET Conns] /\ \A m \in Loops : held[m] \subseteq alive
    BY <1>1 DEF TypeOK, IInv, OwnInv
  <2>2. QED BY <1>1, <1>3, <2>1
<1>5. QED BY <1>1, <1>2, <1>3, <1>4, RunOther DEF f

LEMMA RunStaleStep ==
  ASSUME IInv, UNCHANGED configVars, NEW l \in Loops, RunStaleFunctor(l)
  PROVE  IInv'
<1> DEFINE f == Head(functors[l])
<1>1. /\ phase[l] = "functors" /\ functors[l] # <<>> /\ TypeOK /\ f.conn \notin alive
      /\ touched' = touched \cup {f.conn} /\ held' = held
      /\ functors' = [functors EXCEPT ![l] = Tail(@)]
      /\ UNCHANGED <<kernelVars, connVars, objVars, userVars, poolVars, phase, active,
                     pending, endVars>>
  BY DEF RunStaleFunctor, IInv
<1>2. f \in Functor
  BY <1>1, RunQueue DEF TypeOK
<1>3. f \in queued[l]
  <2>1. pending' \in [Loops -> Seq(Functor)] /\ NoneEstablished
    BY <1>1, NothingPushed
  <2>2. QED BY <1>1, <2>1, Ran
<1>4. f.op \notin Owning /\ f.op \in Owning \cup Bare /\ f.conn \in Conns
  BY <1>1, <1>2, <1>3, FunctorFields DEF IInv, OwnInv
<1>5. /\ touched' \subseteq Conns /\ held' \in [Loops -> SUBSET Conns]
      /\ \A m \in Loops : held'[m] \subseteq alive
  BY <1>1, <1>4, SMTT(30) DEF TypeOK, IInv, OwnInv
<1>6. QED BY <1>1, <1>4, <1>5, RunOther

LEMMA RunStep ==
  ASSUME IInv, UNCHANGED configVars, NEW l \in Loops, RunFunctor(l)
  PROVE  IInv'
<1>1. Head(functors[l]).op \in {"connectEstablished", "removeConnectionInLoop",
                                "connectDestroyed", "sendInLoop", "shutdownInLoop",
                                "writeComplete"}
  BY DEF RunFunctor
<1>2. QED BY <1>1, RunEstablish, RunRemove, RunDestroyed, RunSend, RunNothing

-----------------------------------------------------------------------------
(* Connections without an owner go *)

(* What a step leaves an owner stays, with its descriptor. *)
LEMMA Dropped ==
  ASSUME IInv, UNCHANGED configVars, NEW released, LetGo(released),
         connections' \subseteq alive, users' \subseteq alive,
         \A m \in Loops : held'[m] \subseteq alive,
         \A m \in Loops : \A g \in queued'[m] : g.op \in Owning => g.conn \in alive
  PROVE  /\ alive' \subseteq alive /\ fd' \in [Conns -> Fds \cup {0}] /\ ioLoop' = ioLoop
         /\ connections' \subseteq alive' /\ users' \subseteq alive'
         /\ \A m \in Loops : held'[m] \subseteq alive'
         /\ \A m \in Loops : \A g \in queued'[m] : g.op \in Owning => g.conn \in alive'
         /\ \A d \in Conns : d \in alive' \/ d \notin released => fd'[d] = fd[d]
         /\ \A d \in Conns : fd'[d] \in {0, fd[d]}
         /\ FdInv'
<1> DEFINE owned == Owned(connections', users', pending', functors', held')
           gone == released \ owned
<1>1. /\ alive' = alive \ gone /\ ioLoop' = ioLoop
      /\ fd' = [d \in Conns |-> IF d \in gone THEN 0 ELSE fd[d]]
  BY DEF LetGo
<1>2. /\ connections' \subseteq owned /\ users' \subseteq owned
      /\ \A m \in Loops : held'[m] \subseteq owned
      /\ \A m \in Loops : FunctorConns(pending'[m]) \subseteq owned
                            /\ FunctorConns(functors'[m]) \subseteq owned
  BY DEF Owned
<1>3. \A m \in Loops : \A g \in queued'[m] : g.op \in Owning => g.conn \in owned
  <2>1. SUFFICES ASSUME NEW m \in Loops, NEW g \in queued'[m], g.op \in Owning
                 PROVE  g.conn \in owned
    OBVIOUS
  <2>2. g \in Range(functors'[m]) \/ g \in Range(pending'[m])
    BY ConfigKept DEF queued
  <2>3. g.conn \in FunctorConns(pending'[m]) \/ g.conn \in FunctorConns(functors'[m])
    BY <2>1, <2>2 DEF Range, FunctorConns
  <2>4. QED BY <1>2, <2>3
<1>4. fd \in [Conns -> Fds \cup {0}] /\ alive \subseteq Conns
  BY DEF IInv, TypeOK
<1>5. /\ gone \subseteq released /\ connections' \cap gone = {} /\ users' \cap gone = {}
      /\ \A m \in Loops : held'[m] \cap gone = {}
      /\ \A m \in Loops : \A g \in queued'[m] : g.op \in Owning => g.conn \notin gone
  BY <1>2, <1>3
<1> HIDE DEF owned, gone
<1>6. /\ fd' \in [Conns -> Fds \cup {0}]
      /\ \A d \in Conns : fd'[d] = IF d \in gone THEN 0 ELSE fd[d]
  BY <1>1, <1>4
<1>7. FdInv'
  <2>1. /\ \A d \in Conns : d \in alive <=> fd[d] # 0
        /\ \A d, e \in Conns : fd[d] = fd[e] /\ fd[d] # 0 => d = e
    BY DEF IInv, FdInv
  <2>2. \A d \in Conns : d \in alive' <=> fd'[d] # 0
    BY <1>1, <1>6, <2>1
  <2>3. \A d, e \in Conns : fd'[d] = fd'[e] /\ fd'[d] # 0 => d = e
    BY <1>6, <2>1
  <2>4. QED BY <2>2, <2>3 DEF FdInv
<1>8. \A m \in Loops : held'[m] \subseteq alive'
  BY <1>1, <1>5
<1>9. \A m \in Loops : \A g \in queued'[m] : g.op \in Owning => g.conn \in alive'
  BY <1>1, <1>5
<1>10. QED BY <1>1, <1>5, <1>6, <1>7, <1>8, <1>9

(* Entries of closed descriptors go; what is left is about open ones. *)
LEMMA Cleared ==
  ASSUME IInv, UNCHANGED configVars, NEW lists \in [Loops -> [Fds -> Conns \cup {None}]],
         \A m \in Loops, g \in Fds : lists[m][g] \in {None, interest[m][g]},
         interest' = WithoutClosed(lists), fd' \in [Conns -> Fds \cup {0}],
         \A d \in Conns : fd'[d] \in {0, fd[d]}
  PROVE  /\ interest' \in [Loops -> [Fds -> Conns \cup {None}]]
         /\ \A m \in Loops, g \in Fds : interest'[m][g] \in {None, lists[m][g]}
         /\ \A m \in Loops, g \in Fds : interest'[m][g] # None => fd'[interest'[m][g]] = g
         /\ \A m \in Loops, d \in Conns :
              fd'[d] = fd[d] /\ fd[d] \in Fds => interest'[m][fd[d]] = lists[m][fd[d]]
<1>1. \A m \in Loops, g \in Fds :
        interest'[m][g] = IF g \in Range(fd) \ Range(fd') THEN None ELSE lists[m][g]
  BY DEF WithoutClosed
<1>2. interest' \in [Loops -> [Fds -> Conns \cup {None}]]
  BY DEF WithoutClosed
<1>3. /\ fd \in [Conns -> Fds \cup {0}]
      /\ interest \in [Loops -> [Fds -> Conns \cup {None}]]
      /\ 0 \notin Fds /\ None \notin Conns
  BY ConfigFacts DEF IInv, TypeOK
<1>4. ASSUME NEW m \in Loops, NEW g \in Fds, interest'[m][g] # None
      PROVE  fd'[interest'[m][g]] = g
  <2>1. /\ interest'[m][g] = interest[m][g] /\ interest[m][g] \in Conns
        /\ g \notin Range(fd) \ Range(fd')
    BY <1>1, <1>3, <1>4
  <2>2. fd[interest[m][g]] = g
    BY <1>4, <2>1 DEF IInv, PollInv
  <2>3. g \in Range(fd')
    BY <1>3, <2>1, <2>2 DEF Range
  <2>4. PICK e \in Conns : fd'[e] = g
    BY <2>3 DEF Range
  <2>5. fd[e] = g /\ g # 0
    BY <1>3, <2>4
  <2>6. e = interest[m][g]
    BY <2>1, <2>2, <2>5 DEF IInv, FdInv
  <2>7. QED BY <2>1, <2>4, <2>6
<1>5. ASSUME NEW m \in Loops, NEW d \in Conns, fd'[d] = fd[d], fd[d] \in Fds
      PROVE  interest'[m][fd[d]] = lists[m][fd[d]]
  <2>1. fd[d] \in Range(fd')
    BY <1>5 DEF Range
  <2>2. QED BY <1>1, <1>5, <2>1
<1>6. QED BY <1>1, <1>2, <1>4, <1>5

LEMMA EndBatchStep ==
  ASSUME IInv, UNCHANGED configVars, NEW l \in Loops, EndBatch(l)
  PROVE  IInv'
<1> DEFINE p == IF l \in quit THEN "stopped" ELSE "poll"
           lists == IF phase'[l] = "stopped" /\ l # Base
                    THEN [interest EXCEPT ![l] = NoChannels] ELSE interest
<1>0. /\ phase[l] = "functors" /\ functors[l] = <<>> /\ TypeOK
      /\ held' = [held EXCEPT ![l] = {}] /\ phase' = [phase EXCEPT ![l] = p]
      /\ UNCHANGED <<connections, users, functors>>
      /\ LetGo(held[l] \cup FunctorConns(pending[l]))
      /\ interest' = WithoutClosed(lists)
      /\ UNCHANGED <<kernelVars, state, index, events, ups, downs, revived, call, next, active,
                     endVars, touched>>
      /\ Loops' = Loops /\ Fds' = Fds /\ SubLoops' = SubLoops
  BY ConfigKept DEF EndBatch, IInv
<1> USE DEF kernelVars, endVars
<1>1. /\ phase \in [Loops -> {"enter", "poll", "events", "functors", "stopped"}]
      /\ held \in [Loops -> SUBSET Conns] /\ quit \subseteq Loops
      /\ pending \in [Loops -> Seq(Functor)] /\ functors \in [Loops -> Seq(Functor)]
      /\ channels \in [Loops -> [Fds -> Conns \cup {None}]]
      /\ interest \in [Loops -> [Fds -> Conns \cup {None}]]
  BY <1>0 DEF TypeOK
<1>2. /\ p \in {"poll", "stopped"} /\ phase'[l] = p
      /\ phase' \in [Loops -> {"enter", "poll", "events", "functors", "stopped"}]
      /\ \A m \in Loops : m # l => phase'[m] = phase[m]
  BY <1>0, <1>1
<1>3. /\ held' \in [Loops -> SUBSET Conns]
      /\ \A m \in Loops : held'[m] \subseteq held[m]
  BY <1>0, <1>1
<1>4. \A m \in Loops : loopGone'[m] <=> loopGone[m] \/ (m = l /\ l \in quit \cap SubLoops)
  <2>1. \A m \in Loops : loopGone'[m] <=> m # Base /\ phase'[m] = "stopped"
    BY <1>0 DEF loopGone
  <2>2. \A m \in Loops : loopGone[m] <=> m # Base /\ phase[m] = "stopped"
    BY DEF loopGone
  <2>3. l # Base <=> l \in SubLoops
    BY <1>0, ConfigFacts
  <2>4. QED BY <1>0, <1>2, <2>1, <2>2, <2>3
<1> HIDE DEF p
<1>5. /\ pending' \in [Loops -> Seq(Functor)]
      /\ channels' \in [Loops -> [Fds -> Conns \cup {None}]]
      /\ \A m \in Loops : pending'[m] = pending[m] \/ pending'[m] = <<>>
      /\ \A m \in Loops : (m = l /\ l \in quit \cap SubLoops) \/ pending'[m] = pending[m]
      /\ \A m \in Loops, g \in Fds : channels'[m][g] =
           IF m = l /\ l \in quit \cap SubLoops THEN None ELSE channels[m][g]
  <2>1. CASE l \in quit \cap SubLoops
    <3>1. /\ pending' = [pending EXCEPT ![l] = <<>>]
          /\ channels' = [channels EXCEPT ![l] = NoChannels]
      BY <2>1 DEF EndBatch, LoopDestructed
    <3>2. NoChannels \in [Fds -> Conns \cup {None}] /\ \A g \in Fds : NoChannels[g] = None
      BY DEF NoChannels
    <3>3. QED BY <1>1, <2>1, <3>1, <3>2, EmptyQueue
  <2>2. CASE l \notin quit \cap SubLoops
    BY <1>1, <2>2 DEF EndBatch
  <2>3. QED BY <2>1, <2>2
<1>6. \A m \in Loops : /\ queued'[m] \subseteq queued[m]
                       /\ loopGone'[m] \/ queued'[m] = queued[m]
  <2>1. \A m \in Loops : /\ queued[m] = Range(functors[m]) \cup Range(pending[m])
                         /\ queued'[m] = Range(functors[m]) \cup Range(pending'[m])
    BY <1>0 DEF queued
  <2>2. \A m \in Loops : queued'[m] \subseteq queued[m]
    BY <1>5, <2>1, EmptyQueue
  <2>3. ASSUME NEW m \in Loops, ~loopGone'[m] PROVE queued'[m] = queued[m]
    <3>1. ~(m = l /\ l \in quit \cap SubLoops)
      BY <1>4, <2>3, Zenon
    <3>2. pending'[m] = pending[m]
      BY <1>5, <3>1, Zenon
    <3>3. QED BY <2>1, <3>2
  <2>4. QED BY <2>2, <2>3, Zenon
<1>7. /\ alive' \subseteq alive /\ fd' \in [Conns -> Fds \cup {0}] /\ ioLoop' = ioLoop
      /\ connections' \subseteq alive' /\ users' \subseteq alive'
      /\ \A m \in Loops : held'[m] \subseteq alive'
      /\ \A m \in Loops : \A g \in queued'[m] : g.op \in Owning => g.conn \in alive'
      /\ \A d \in Conns : d \in alive' => fd'[d] = fd[d]
      /\ \A d \in Conns : fd'[d] \in {0, fd[d]}
      /\ FdInv'
  <2>1. /\ connections' \subseteq alive /\ users' \subseteq alive
        /\ \A m \in Loops : held'[m] \subseteq alive
    BY <1>0, <1>3 DEF IInv, OwnInv, UserInv
  <2>2. \A m \in Loops : \A g \in queued'[m] : g.op \in Owning => g.conn \in alive
    BY <1>6 DEF IInv, OwnInv
  <2>3. QED BY <1>0, <2>1, <2>2, Dropped
<1>8. /\ lists \in [Loops -> [Fds -> Conns \cup {None}]]
      /\ \A m \in Loops, g \in Fds : lists[m][g] =
           IF m = l /\ l \in quit \cap SubLoops THEN None ELSE interest[m][g]
  <2>1. NoChannels \in [Fds -> Conns \cup {None}] /\ \A g \in Fds : NoChannels[g] = None
    BY DEF NoChannels
  <2>2. (phase'[l] = "stopped" /\ l # Base) <=> l \in quit \cap SubLoops
    <3>1. l # Base <=> l \in SubLoops
      BY <1>0, ConfigFacts
    <3>2. QED BY <1>2, <3>1 DEF p
  <2>3. CASE l \in quit \cap SubLoops
    <3>1. lists = [interest EXCEPT ![l] = NoChannels]
      BY <2>2, <2>3
    <3>2. QED BY <1>1, <2>1, <2>3, <3>1
  <2>4. CASE l \notin quit \cap SubLoops
    <3>1. lists = interest
      BY <2>2, <2>4
    <3>2. QED BY <1>1, <2>4, <3>1
  <2>5. QED BY <2>3, <2>4
<1> HIDE DEF lists
<1>9. /\ interest' \in [Loops -> [Fds -> Conns \cup {None}]]
      /\ \A m \in Loops, g \in Fds : interest'[m][g] \in {None, lists[m][g]}
      /\ \A m \in Loops, g \in Fds : interest'[m][g] # None => fd'[interest'[m][g]] = g
      /\ \A m \in Loops, d \in Conns :
           fd'[d] = fd[d] /\ fd[d] \in Fds => interest'[m][fd[d]] = lists[m][fd[d]]
  <2>1. \A m \in Loops, g \in Fds : lists[m][g] \in {None, interest[m][g]}
    BY <1>8
  <2>2. QED BY <1>0, <1>7, <1>8, <2>1, Cleared
<1>10. TypeOK'
  BY <1>0, <1>2, <1>3, <1>5, <1>7, <1>9 DEF TypeOK, configVars, Loops, SubLoops, Fds
<1>11. BacklogInv' /\ MapInv'
  BY <1>0, Kept
<1>12. LifeInv'
  BY <1>0, <1>7 DEF IInv, LifeInv
<1>12a. UserInv'
  BY <1>0, <1>7 DEF IInv, UserInv
<1>13. OwnInv'
  BY <1>0, <1>6, <1>7 DEF IInv, OwnInv
<1>14. OrderInv'
  <2>1. \A m \in Loops : EstFirst(pending'[m]) /\ Range(pending'[m]) \subseteq Range(pending[m])
    BY <1>5, EmptyQueue DEF IInv, OrderInv
  <2>2. QED BY <1>0, <2>1 DEF IInv, OrderInv
<1>15. ASSUME NEW d \in Conns \ revived, ~loopGone'[ioLoop[d]],
              index[d] # "kNew" \/ Est(d) \in queued'[ioLoop[d]]
       PROVE  d \in connections \/ Des(d) \in queued'[ioLoop[d]]
  <2>1. /\ ioLoop[d] \in Loops /\ ~loopGone[ioLoop[d]]
        /\ queued'[ioLoop[d]] = queued[ioLoop[d]]
    BY <1>0, <1>4, <1>6, <1>15 DEF TypeOK
  <2>2. QED BY <1>15, <2>1 DEF IInv, KeptInv
<1>16. KeptInv'
  BY <1>0, <1>7, <1>15 DEF KeptInv
<1>17. \A m \in Loops : loopGone'[m] =>
         \A g \in Fds : channels'[m][g] = None /\ interest'[m][g] = None
  <2>1. SUFFICES ASSUME NEW m \in Loops, loopGone'[m], NEW g \in Fds
                 PROVE  channels'[m][g] = None /\ interest'[m][g] = None
    BY Zenon
  <2>2. CASE m = l /\ l \in quit \cap SubLoops
    BY <1>5, <1>8, <1>9, <2>2
  <2>3. CASE loopGone[m]
    <3>1. channels[m][g] = None /\ interest[m][g] = None
      BY <2>3, Zenon DEF IInv, LoopInv
    <3>2. QED BY <1>5, <1>8, <1>9, <3>1
  <2>4. QED BY <1>4, <2>1, <2>2, <2>3, Zenon
<1>18. LoopInv'
  <2>1. \A m \in Loops : /\ phase'[m] # "events" => active[m] = {}
                         /\ phase'[m] # "functors" => functors[m] = <<>>
    BY <1>0, <1>2 DEF IInv, LoopInv
  <2>2. QED BY <1>0, <1>17, <2>1 DEF LoopInv
<1>19. PollInv'
  <2>1. ASSUME NEW d \in Conns, index[d] # "kNew", ~loopGone'[ioLoop[d]],
               d \in alive' \/ d \notin revived
        PROVE  /\ fd'[d] = fd[d]
               /\ channels'[ioLoop[d]][fd[d]] = channels[ioLoop[d]][fd[d]]
               /\ interest'[ioLoop[d]][fd[d]] = interest[ioLoop[d]][fd[d]]
    <3>1. ioLoop[d] \in Loops
      BY <1>0 DEF TypeOK
    <3>2. ~loopGone[ioLoop[d]] /\ ~(ioLoop[d] = l /\ l \in quit \cap SubLoops)
      BY <1>4, <2>1, <3>1
    <3>3. fd[d] \in Fds
      BY <1>7, <2>1, <3>2, PolledAlive
    <3>4. d \in alive'
      BY <1>0, <1>7, <1>15, <2>1, <3>1, BoundFunctors DEF Owning
    <3>5. fd'[d] = fd[d]
      BY <1>7, <3>4
    <3>6. QED BY <1>5, <1>8, <1>9, <3>1, <3>2, <3>3, <3>5
  <2>2. \A m \in Loops, g \in Fds : /\ channels'[m][g] \in {None, channels[m][g]}
                                    /\ interest'[m][g] \in {None, interest[m][g]}
    BY <1>5, <1>8, <1>9
  <2>3. \A m \in Loops : loopGone[m] => loopGone'[m]
    BY <1>4
  <2>4. /\ revived' = revived /\ index' = index /\ active' = active
        /\ alive' \subseteq alive /\ ioLoop' = ioLoop
    BY <1>0, <1>7
  <2>5. \A m \in Loops, g \in Fds : interest'[m][g] # None => fd'[interest'[m][g]] = g
    BY <1>9
  <2>6. QED BY <1>17, <2>1, <2>2, <2>3, <2>4, <2>5, EntriesGo
<1>20. EndInv'
  <2>1. l = Base => server \in {"new", "running"}
    BY <1>0, RunningLoop
  <2>2. l \in SubLoops => server # "gone"
    BY <1>0, RunningLoop
  <2>3. l = Base \/ l \in SubLoops
    BY <1>0, ConfigFacts
  <2>4. Base \in Loops /\ SubLoops \subseteq Loops /\ Base \notin SubLoops
    BY <1>0, ConfigFacts
  <2>5. QED BY <1>0, <1>2, <2>1, <2>2, <2>3, <2>4 DEF IInv, EndInv
<1>21. QED
  BY <1>7, <1>10, <1>11, <1>12, <1>12a, <1>13, <1>14, <1>16, <1>18, <1>19,
     <1>20 DEF IInv

LEMMA DestroyConnectionStep ==
  ASSUME IInv, UNCHANGED configVars, NEW c \in Conns, DestroyConnection(c)
  PROVE  IInv'
<1>0. /\ server = "destroying" /\ c \in connections /\ TypeOK
      /\ connections' = connections \ {c}
      /\ UNCHANGED <<users, functors, held>> /\ LetGo({c})
      /\ UNCHANGED <<kernelVars, call, next, phase, active, endVars, touched>>
      /\ Loops' = Loops /\ Fds' = Fds /\ SubLoops' = SubLoops
  BY ConfigKept DEF DestroyConnection, IInv
<1> USE DEF kernelVars, endVars
<1>1. /\ c \in alive /\ ioLoop[c] \in Loops /\ Base \in Loops
      /\ phase[Base] = "stopped" /\ active[Base] = {}
  BY <1>0, ConfigFacts DEF IInv, OwnInv, EndInv, LoopInv, TypeOK
<1>2. loopGone' = loopGone
  BY <1>0, GoneKept
<1>3. MapInv' /\ EndInv'
  BY <1>0, Kept DEF MapInv
<1>4. /\ connections' \subseteq alive /\ users' \subseteq alive
      /\ \A m \in Loops : held'[m] \subseteq alive
  BY <1>0 DEF IInv, OwnInv, UserInv
<1>5. CASE ioLoop[c] = Base
  <2>0. connectDestroyed(c) /\ pending' = pending
    BY <1>5 DEF DestroyConnection
  <2>1. /\ state' \in [Conns -> {None, "kConnecting", "kConnected", "kDisconnecting",
                                 "kDisconnected"}]
        /\ index' \in [Conns -> {"kNew", "kAdded", "kDeleted"}]
        /\ channels' \in [Loops -> [Fds -> Conns \cup {None}]]
        /\ interest' \in [Loops -> [Fds -> Conns \cup {None}]]
        /\ events' \in [Conns -> SUBSET {"in", "out"}]
        /\ downs' \in [Conns -> Nat] /\ ups' = ups /\ revived' = revived
        /\ \A d \in Conns : d # c => state'[d] = state[d] /\ index'[d] = index[d]
                                       /\ downs'[d] = downs[d] /\ events'[d] = events[d]
        /\ index'[c] = "kNew"
        /\ \/ state'[c] = state[c] /\ downs'[c] = downs[c]
           \/ /\ state[c] = "kConnected" /\ state'[c] = "kDisconnected"
              /\ downs'[c] = downs[c] + 1
        /\ \A m \in Loops, g \in Fds :
             /\ channels'[m][g] \in {None, channels[m][g]}
             /\ channels'[m][g] # c \/ c \in revived
             /\ interest'[m][g] \in {None, interest[m][g]} /\ interest'[m][g] # c
             /\ g # fd[c] => channels'[m][g] = channels[m][g]
                               /\ interest'[m][g] = interest[m][g]
    BY <1>1, <2>0, Destroyed
  <2>2. queued' = queued /\ OrderInv'
    BY <1>0, <2>0, QueuedKept, Kept
  <2>3. /\ alive' \subseteq alive /\ fd' \in [Conns -> Fds \cup {0}] /\ ioLoop' = ioLoop
        /\ connections' \subseteq alive' /\ users' \subseteq alive'
        /\ \A m \in Loops : held'[m] \subseteq alive'
        /\ \A m \in Loops : \A g \in queued'[m] : g.op \in Owning => g.conn \in alive'
        /\ \A d \in Conns : d \in alive' \/ d # c => fd'[d] = fd[d]
        /\ FdInv'
    <3>1. \A m \in Loops : \A g \in queued'[m] : g.op \in Owning => g.conn \in alive
      BY <2>2 DEF IInv, OwnInv
    <3>2. \A d \in Conns : d \notin {c} <=> d # c
      OBVIOUS
    <3>3. QED BY <1>0, <1>4, <3>1, <3>2, Dropped
  <2>4. TypeOK'
    <3>1. connections' \subseteq Conns
      BY <1>0 DEF TypeOK
    <3>2. QED BY <1>0, <2>0, <2>1, <2>3, <3>1 DEF TypeOK, configVars, Loops, SubLoops, Fds
  <2>5. LifeInv' /\ BacklogInv'
    BY <1>0, <1>1, <2>1, <2>3, DestroyedLife
  <2>6. UserInv'
    <3>1. \A d \in Conns : state[d] \notin Unborn => state'[d] \notin Unborn
      BY <2>1 DEF Unborn, None
    <3>2. users \subseteq Conns
      BY <1>0 DEF IInv, UserInv, TypeOK
    <3>3. QED BY <1>0, <2>3, <3>1, <3>2 DEF IInv, UserInv, Unborn
  <2>7. OwnInv'
    <3>1. ASSUME NEW m \in Loops, NEW g \in queued[m]
          PROVE  /\ g.op = "connectEstablished" => m # Base /\ state'[g.conn] = "kConnecting"
                 /\ g.op \in Bare => state'[g.conn] \notin Unborn
                 /\ g.op = "removeConnectionInLoop" => downs'[g.conn] # 0
                 /\ g.op # "removeConnectionInLoop" => ioLoop[g.conn] = m
      BY <1>0, <2>1, DestroyedFunctor
    <3>2. QED BY <1>0, <2>2, <2>3, <3>1 DEF OwnInv, Unborn
  <2>8. ASSUME NEW d \in Conns \ revived, ~loopGone[ioLoop[d]],
               index'[d] # "kNew" \/ Est(d) \in queued[ioLoop[d]]
        PROVE  d \in connections' \/ Des(d) \in queued[ioLoop[d]]
    <3>1. Est(c) \notin queued[Base]
      BY <1>1, BoundFunctors DEF IInv, OwnInv
    <3>2. d # c
      BY <1>5, <2>1, <2>8, <3>1
    <3>3. d \in connections \/ Des(d) \in queued[ioLoop[d]]
      BY <2>1, <2>8, <3>2 DEF IInv, KeptInv
    <3>4. QED BY <1>0, <3>2, <3>3
  <2>9. KeptInv'
    <3>1. queued' = queued /\ loopGone' = loopGone /\ ioLoop' = ioLoop
            /\ revived' = revived
      BY <1>2, <2>1, <2>2, <2>3
    <3>2. QED BY <2>8, <3>1 DEF KeptInv
  <2>10. \A m \in Loops : loopGone[m] =>
           \A g \in Fds : channels'[m][g] = None /\ interest'[m][g] = None
    <3>1. SUFFICES ASSUME NEW m \in Loops, loopGone[m], NEW g \in Fds
                   PROVE  channels'[m][g] = None /\ interest'[m][g] = None
      OBVIOUS
    <3>2. channels[m][g] = None /\ interest[m][g] = None
      BY <3>1 DEF IInv, LoopInv
    <3>3. QED BY <2>1, <3>2
  <2>11. LoopInv'
    BY <1>0, <1>2, <2>10 DEF IInv, LoopInv
  <2>12. PollInv'
    <3>1. ASSUME NEW d \in Conns, index'[d] # "kNew", ~loopGone[ioLoop[d]],
                 d \in alive' \/ d \notin revived
          PROVE  /\ fd'[d] = fd[d]
                 /\ channels'[ioLoop[d]][fd[d]] = channels[ioLoop[d]][fd[d]]
                 /\ interest'[ioLoop[d]][fd[d]] = interest[ioLoop[d]][fd[d]]
      <4>1. d # c /\ index[d] # "kNew"
        BY <2>1, <3>1
      <4>2. fd[d] \in Fds /\ ioLoop[d] \in Loops /\ fd[d] # 0
        BY <1>0, <2>3, <3>1, <4>1, PolledAlive, ConfigFacts
      <4>3. fd[d] # fd[c]
        BY <4>1, <4>2 DEF IInv, FdInv
      <4>4. fd'[d] = fd[d]
        BY <2>3, <4>1
      <4>5. QED BY <2>1, <4>2, <4>3, <4>4
    <3>2. \A m \in Loops : \A d \in active[m] \ {Acceptor} : index'[d] = index[d]
      <4>1. SUFFICES ASSUME NEW m \in Loops, NEW d \in active[m] \ {Acceptor}
                     PROVE  d \in Conns /\ d # c
        BY <2>1
      <4>2. d \in Conns /\ ioLoop[d] = m
        BY <1>0 DEF IInv, PollInv, TypeOK
      <4>3. QED BY <1>1, <1>5, <4>2
    <3>3. \A m \in Loops, g \in Fds : interest'[m][g] # None => fd'[interest'[m][g]] = g
      <4>1. SUFFICES ASSUME NEW m \in Loops, NEW g \in Fds, interest'[m][g] # None
                     PROVE  fd'[interest'[m][g]] = g
        OBVIOUS
      <4>2. interest'[m][g] = interest[m][g] /\ interest'[m][g] # c
        BY <2>1, <4>1
      <4>3. interest[m][g] \in Conns /\ fd[interest[m][g]] = g
        BY <1>0, <4>1, <4>2 DEF IInv, PollInv, TypeOK
      <4>4. QED BY <2>3, <4>2, <4>3
    <3>4. QED BY <1>0, <1>2, <2>1, <2>3, <2>10, <3>1, <3>2, <3>3, EntriesGo
  <2>13. QED
    BY <1>3, <2>2, <2>3, <2>4, <2>5, <2>6, <2>7, <2>9, <2>11, <2>12 DEF IInv
<1>6. CASE ioLoop[c] # Base
  <2>0. /\ pending' = [pending EXCEPT ![ioLoop[c]] = Append(@, Des(c))]
        /\ UNCHANGED connVars
        /\ Des(c) \in Functor /\ Des(c).op = "connectDestroyed" /\ Des(c).conn = c
    BY <1>6, BoundFunctors DEF DestroyConnection, Des
  <2> USE DEF connVars, pollVars
  <2>1. /\ pending' \in [Loops -> Seq(Functor)]
        /\ \A m \in Loops : queued'[m] =
             IF m = ioLoop[c] THEN queued[ioLoop[c]] \cup {Des(c)} ELSE queued[m]
        /\ OrderInv'
    BY <1>0, <1>1, <2>0, Pushed
  <2>2. \A m \in Loops : /\ queued[m] \subseteq queued'[m]
                         /\ \A g \in queued'[m] : g \in queued[m] \/ (m = ioLoop[c] /\ g = Des(c))
    BY <2>1
  <2>3. Des(c) \in queued'[ioLoop[c]]
    BY <1>1, <2>1
  <2>4. /\ alive' \subseteq alive /\ fd' \in [Conns -> Fds \cup {0}] /\ ioLoop' = ioLoop
        /\ connections' \subseteq alive' /\ users' \subseteq alive'
        /\ \A m \in Loops : held'[m] \subseteq alive'
        /\ \A m \in Loops : \A g \in queued'[m] : g.op \in Owning => g.conn \in alive'
        /\ \A d \in Conns : fd'[d] = fd[d]
        /\ FdInv'
    <3>1. \A m \in Loops : \A g \in queued'[m] : g.op \in Owning => g.conn \in alive
      BY <1>1, <2>0, <2>2 DEF IInv, OwnInv
    <3>2. /\ alive' \subseteq alive /\ fd' \in [Conns -> Fds \cup {0}] /\ ioLoop' = ioLoop
          /\ connections' \subseteq alive' /\ users' \subseteq alive'
          /\ \A m \in Loops : held'[m] \subseteq alive'
          /\ \A m \in Loops : \A g \in queued'[m] : g.op \in Owning => g.conn \in alive'
          /\ \A d \in Conns : d \in alive' \/ d \notin {c} => fd'[d] = fd[d]
          /\ FdInv'
      BY <1>0, <1>4, <3>1, Dropped
    <3>3. c \in alive'
      BY <1>1, <2>0, <2>3, <3>2 DEF Owning
    <3>4. QED BY <3>2, <3>3
  <2>5. TypeOK'
    <3>1. connections' \subseteq Conns
      BY <1>0 DEF TypeOK
    <3>2. QED BY <1>0, <2>0, <2>1, <2>4, <3>1 DEF TypeOK, configVars, Loops, SubLoops, Fds
  <2>6. BacklogInv' /\ LoopInv'
    BY <1>0, <1>2, <2>0, Kept
  <2>7. LifeInv' /\ UserInv'
    BY <1>0, <2>0, <2>4 DEF IInv, LifeInv, UserInv
  <2>8. OwnInv'
    <3>1. ASSUME NEW m \in Loops, NEW g \in queued'[m]
          PROVE  /\ g.op = "connectEstablished" => m # Base /\ state[g.conn] = "kConnecting"
                 /\ g.op \in Bare => state[g.conn] \notin Unborn
                 /\ g.op = "removeConnectionInLoop" => downs[g.conn] # 0
                 /\ g.op # "removeConnectionInLoop" => ioLoop[g.conn] = m
      <4>1. CASE g \in queued[m]
        BY <4>1 DEF IInv, OwnInv
      <4>2. CASE m = ioLoop[c] /\ g = Des(c)
        BY <2>0, <4>2 DEF Bare
      <4>3. QED BY <2>2, <4>1, <4>2
    <3>2. QED BY <1>0, <2>0, <2>4, <3>1 DEF OwnInv, Unborn
  <2>9. ASSUME NEW d \in Conns \ revived, ~loopGone[ioLoop[d]],
               index[d] # "kNew" \/ Est(d) \in queued'[ioLoop[d]]
        PROVE  d \in connections' \/ Des(d) \in queued'[ioLoop[d]]
    <3>1. ioLoop[d] \in Loops /\ Est(d) # Des(c)
      BY <1>0, <2>0, BoundFunctors DEF TypeOK
    <3>2. d \in connections \/ Des(d) \in queued[ioLoop[d]]
      BY <2>2, <2>9, <3>1 DEF IInv, KeptInv
    <3>3. QED BY <1>0, <2>2, <2>3, <3>1, <3>2
  <2>10. KeptInv'
    BY <1>2, <2>0, <2>4, <2>9 DEF KeptInv
  <2>11. PollInv'
    <3>1. \A m \in Loops, g \in Fds : interest[m][g] # None => fd'[interest[m][g]] = g
      <4>1. SUFFICES ASSUME NEW m \in Loops, NEW g \in Fds, interest[m][g] # None
                     PROVE  fd'[interest[m][g]] = g
        BY <2>0
      <4>2. interest[m][g] \in Conns /\ fd[interest[m][g]] = g
        BY <1>0, <4>1 DEF IInv, PollInv, TypeOK
      <4>3. QED BY <2>4, <4>2
    <3>2. \A m \in Loops : loopGone[m] =>
            \A g \in Fds : channels[m][g] = None /\ interest[m][g] = None
      BY DEF IInv, LoopInv
    <3>3. QED BY <1>0, <1>2, <2>0, <2>4, <3>1, <3>2, EntriesGo
  <2>12. QED
    BY <1>3, <2>1, <2>4, <2>5, <2>6, <2>7, <2>8, <2>10, <2>11 DEF IInv
<1>7. QED BY <1>5, <1>6

LEMMA ReleaseStep ==
  ASSUME IInv, UNCHANGED configVars, NEW c \in Conns, Release(c)
  PROVE  IInv'
<1>0. /\ c \in users /\ call[c] \in {"idle", "done"} /\ TypeOK
      /\ users' = users \ {c} /\ UNCHANGED <<connections, pending, functors, held>>
      /\ LetGo({c}) /\ interest' = WithoutClosed(interest)
      /\ UNCHANGED <<kernelVars, state, ups, downs, index, events, channels, revived, call,
                     next, phase, active, endVars, touched>>
      /\ Loops' = Loops /\ Fds' = Fds /\ SubLoops' = SubLoops
  BY ConfigKept DEF Release, IInv
<1> USE DEF kernelVars, endVars
<1>1. queued' = queued /\ loopGone' = loopGone
  BY <1>0, QueuedKept, GoneKept
<1>2. /\ alive' \subseteq alive /\ fd' \in [Conns -> Fds \cup {0}] /\ ioLoop' = ioLoop
      /\ connections' \subseteq alive' /\ users' \subseteq alive'
      /\ \A m \in Loops : held'[m] \subseteq alive'
      /\ \A m \in Loops : \A g \in queued'[m] : g.op \in Owning => g.conn \in alive'
      /\ \A d \in Conns : d \in alive' => fd'[d] = fd[d]
      /\ \A d \in Conns : fd'[d] \in {0, fd[d]}
      /\ FdInv'
  <2>1. /\ connections' \subseteq alive /\ users' \subseteq alive
        /\ \A m \in Loops : held'[m] \subseteq alive
        /\ \A m \in Loops : \A g \in queued'[m] : g.op \in Owning => g.conn \in alive
    BY <1>0, <1>1 DEF IInv, OwnInv, UserInv
  <2>2. QED BY <1>0, <2>1, Dropped
<1>3. /\ interest' \in [Loops -> [Fds -> Conns \cup {None}]]
      /\ \A m \in Loops, g \in Fds : interest'[m][g] \in {None, interest[m][g]}
      /\ \A m \in Loops, g \in Fds : interest'[m][g] # None => fd'[interest'[m][g]] = g
      /\ \A m \in Loops, d \in Conns :
           fd'[d] = fd[d] /\ fd[d] \in Fds => interest'[m][fd[d]] = interest[m][fd[d]]
  <2>1. interest \in [Loops -> [Fds -> Conns \cup {None}]]
    BY <1>0 DEF TypeOK
  <2>2. QED BY <1>0, <1>2, <2>1, Cleared
<1>4. TypeOK'
  <2>1. users' \subseteq shared /\ alive' \subseteq Conns
    BY <1>0, <1>2 DEF TypeOK
  <2>2. QED BY <1>0, <1>2, <1>3, <2>1 DEF TypeOK, configVars, Loops, SubLoops, Fds
<1>5. BacklogInv' /\ MapInv' /\ OrderInv' /\ EndInv' /\ KeptInv'
  BY <1>0, <1>1, <1>2, Kept
<1>6. LifeInv' /\ OwnInv' /\ UserInv'
  BY <1>0, <1>1, <1>2 DEF IInv, LifeInv, OwnInv, UserInv
<1>7. \A m \in Loops : loopGone[m] =>
        \A g \in Fds : channels[m][g] = None /\ interest'[m][g] = None
  BY <1>3 DEF IInv, LoopInv
<1>8. LoopInv'
  BY <1>0, <1>1, <1>7 DEF IInv, LoopInv
<1>9. PollInv'
  <2>1. ASSUME NEW d \in Conns, index[d] # "kNew", ~loopGone[ioLoop[d]],
               d \in alive' \/ d \notin revived
        PROVE  /\ fd'[d] = fd[d]
               /\ interest'[ioLoop[d]][fd[d]] = interest[ioLoop[d]][fd[d]]
    <3>1. fd[d] \in Fds /\ ioLoop[d] \in Loops
      BY <1>2, <2>1, PolledAlive
    <3>2. d \notin revived => d \in connections \/ Des(d) \in queued[ioLoop[d]]
      BY <2>1 DEF IInv, KeptInv
    <3>3. d \in alive'
      BY <1>0, <1>1, <1>2, <2>1, <3>1, <3>2, BoundFunctors DEF Owning
    <3>4. QED BY <1>2, <1>3, <3>1, <3>3
  <2>2. QED BY <1>0, <1>1, <1>2, <1>3, <1>7, <2>1, EntriesGo
<1>10. QED
  BY <1>2, <1>4, <1>5, <1>6, <1>8, <1>9 DEF IInv

-----------------------------------------------------------------------------
(* A new connection *)

LEMMA AcceptStep ==
  ASSUME IInv, UNCHANGED configVars, AcceptConnection
  PROVE  IInv'
<1> DEFINE c == Head(backlog)
           io == getNextLoop
           connfd == CHOOSE f \in FreeFds : \A g \in FreeFds : f <= g
<1>0. /\ TypeOK /\ phase[Base] = "events" /\ backlog # <<>> /\ FreeFds # {}
      /\ backlog' = Tail(backlog) /\ Constructed(c, io, connfd)
      /\ connections' = connections \cup {c} /\ AdvanceNext
      /\ active' = [active EXCEPT ![Base] = @ \ {Acceptor}]
      /\ UNCHANGED <<peer, unread, call, phase, functors, held, endVars, touched>>
  BY DEF AcceptConnection, IInv
<1>1. /\ io = Base => connectEstablished(c, io, connfd) /\ pending' = pending
      /\ io # Base => /\ state' = [state EXCEPT ![c] = "kConnecting"]
                      /\ pending' = [pending EXCEPT ![io] = Append(@, Est(c))]
                      /\ UNCHANGED <<pollVars, ups, downs, users>>
  BY DEF AcceptConnection, Est
<1> USE DEF endVars, pollVars
<1>2. connfd \in FreeFds
  BY <1>0, FreeFd
<1>3. /\ io \in Loops /\ next' \in Nat /\ (next' = 0 \/ next' < numThreads)
      /\ Base \in Loops /\ None \notin Conns /\ Acceptor \notin Conns
      /\ Loops' = Loops /\ Fds' = Fds /\ SubLoops' = SubLoops
  <2>1. numThreads \in Nat /\ next \in Nat /\ (next = 0 \/ next < numThreads)
    BY <1>0, ConfigFacts DEF TypeOK
  <2>2. io \in Loops
    BY <2>1 DEF getNextLoop, Loops, Base
  <2>3. next' \in Nat /\ (next' = 0 \/ next' < numThreads)
    BY <1>0, <2>1 DEF AdvanceNext
  <2>4. QED BY <1>0, <2>2, <2>3, ConfigFacts, ConfigKept
<1>4. /\ Len(backlog) \in Nat \ {0} /\ DOMAIN backlog = 1..Len(backlog)
      /\ c = backlog[1] /\ c \in Conns /\ backlog' \in Seq(Conns)
      /\ DOMAIN backlog' = 1..(Len(backlog) - 1)
      /\ \A i \in 1..(Len(backlog) - 1) : backlog'[i] = backlog[i + 1]
      /\ \A i \in 1..Len(backlog) : backlog[i] \in Conns
  <2>1. backlog \in Seq(Conns)
    BY <1>0 DEF TypeOK
  <2>2. QED BY <1>0, <2>1, EmptySeq, HeadTailProperties, LenProperties, ElementOfSeq
<1> HIDE DEF c, io, connfd
<1>5. state[c] = None /\ peer[c] # "away"
  <2>1. 1 \in DOMAIN backlog
    BY <1>4
  <2>2. c \in Range(backlog)
    BY <1>4, <2>1 DEF Range
  <2>3. QED BY <1>4, <2>1, <2>2 DEF IInv, BacklogInv
<1>6. /\ index[c] = "kNew" /\ c \notin alive /\ ups[c] = 0 /\ downs[c] = 0 /\ fd[c] = 0
      /\ c \notin revived /\ c \notin users
      /\ \A m \in Loops : c \notin held[m] /\ \A g \in queued[m] : g.conn # c
  <2>1. /\ index[c] = "kNew" /\ c \notin alive /\ ups[c] = 0 /\ downs[c] = 0
        /\ c \notin revived /\ state[c] \in Unborn
    BY <1>4, <1>5 DEF IInv, LifeInv, Unborn
  <2>2. fd[c] = 0 /\ c \notin users /\ \A m \in Loops : c \notin held[m]
    BY <1>4, <2>1 DEF IInv, FdInv, OwnInv, UserInv
  <2>3. ASSUME NEW m \in Loops, NEW g \in queued[m] PROVE g.conn # c
    <3>1. /\ g.op \in Owning \cup Bare
          /\ g.op \in Owning => g.conn \in alive
          /\ g.op \in Bare => state[g.conn] \notin Unborn
      BY <1>0, QueuedFunctors, FunctorFields DEF IInv, OwnInv
    <3>2. QED BY <2>1, <3>1
  <2>4. QED BY <2>1, <2>2, <2>3
<1>7. connfd \in Fds /\ connfd # 0 /\ \A d \in Conns : fd[d] # connfd
  <2>1. fd \in [Conns -> Fds \cup {0}]
    BY <1>0 DEF TypeOK
  <2>2. QED BY <1>0, <1>2, <2>1, ConfigFacts DEF FreeFds, Range
<1>8. /\ fd' \in [Conns -> Fds \cup {0}] /\ fd'[c] = connfd
      /\ ioLoop' \in [Conns -> Loops] /\ ioLoop'[c] = io
      /\ \A d \in Conns : d # c => fd'[d] = fd[d] /\ ioLoop'[d] = ioLoop[d]
      /\ alive' = alive \cup {c}
  BY <1>0, <1>3, <1>4, <1>7, SMTT(30) DEF Constructed, TypeOK
<1>9. loopGone' = loopGone /\ ~loopGone[Base]
  BY <1>0, <1>3, GoneKept, RunningLoop
<1>10. \A m \in Loops : active'[m] \subseteq active[m]
  BY <1>0 DEF TypeOK
<1>11. /\ pending' \in [Loops -> Seq(Functor)] /\ OrderInv'
       /\ \A m \in Loops : queued[m] \subseteq queued'[m]
       /\ \A m \in Loops : \A g \in queued'[m] :
            g \in queued[m] \/ (m = io /\ io # Base /\ g = Est(c))
  <2>1. CASE io = Base
    <3>1. UNCHANGED <<pending, functors>> /\ pending \in [Loops -> Seq(Functor)]
      BY <1>0, <1>1, <2>1 DEF TypeOK
    <3>2. queued' = queued /\ OrderInv'
      BY <3>1, QueuedKept, Kept
    <3>3. QED BY <3>1, <3>2
  <2>2. CASE io # Base
    <3>1. Est(c) \in Functor /\ Est(c).conn = c
      BY <1>4, BoundFunctors
    <3>2. /\ pending' \in [Loops -> Seq(Functor)] /\ OrderInv'
          /\ \A m \in Loops :
               queued'[m] = IF m = io THEN queued[io] \cup {Est(c)} ELSE queued[m]
      <4>1. pending' = [pending EXCEPT ![io] = Append(@, Est(c))] /\ functors' = functors
        BY <1>0, <1>1, <2>2
      <4>2. \A g \in queued[io] : g.conn # Est(c).conn
        BY <1>3, <1>6, <3>1
      <4>3. QED BY <1>3, <3>1, <4>1, <4>2, Pushed
    <3>3. QED BY <2>2, <3>2
  <2>3. QED BY <2>1, <2>2
<1>12. /\ state' \in [Conns -> {None, "kConnecting", "kConnected", "kDisconnecting",
                                "kDisconnected"}]
       /\ state'[c] = IF io = Base THEN "kConnected" ELSE "kConnecting"
       /\ ups' \in [Conns -> Nat] /\ ups'[c] = IF io = Base THEN 1 ELSE 0
       /\ events' \in [Conns -> SUBSET {"in", "out"}] /\ (io = Base => events'[c] = {"in"})
       /\ users' \subseteq users \cup ({c} \cap shared) /\ (io # Base => users' = users)
       /\ users \subseteq users' /\ downs' = downs /\ revived' = revived
       /\ \A d \in Conns : d # c => /\ state'[d] = state[d] /\ ups'[d] = ups[d]
                                     /\ events'[d] = events[d]
  <2>1. /\ state \in [Conns -> {None, "kConnecting", "kConnected", "kDisconnecting",
                                "kDisconnected"}]
        /\ ups \in [Conns -> Nat] /\ events \in [Conns -> SUBSET {"in", "out"}]
    BY <1>0 DEF TypeOK
  <2>2. CASE io = Base
    <3>1. /\ state' = [state EXCEPT ![c] = "kConnected"]
          /\ events' = [events EXCEPT ![c] = {"in"}]
          /\ ups' = [ups EXCEPT ![c] = @ + 1]
          /\ users' = users \cup ({c} \cap shared)
          /\ UNCHANGED <<downs, revived>>
      BY <1>1, <2>2 DEF connectEstablished, SetEvents
    <3>2. /\ state' \in [Conns -> {None, "kConnecting", "kConnected", "kDisconnecting",
                                   "kDisconnected"}]
          /\ state'[c] = "kConnected" /\ ups'[c] = 1 /\ ups' \in [Conns -> Nat]
          /\ events' \in [Conns -> SUBSET {"in", "out"}] /\ events'[c] = {"in"}
          /\ \A d \in Conns : d # c => /\ state'[d] = state[d] /\ ups'[d] = ups[d]
                                        /\ events'[d] = events[d]
      BY <1>4, <1>6, <2>1, <3>1
    <3>3. QED BY <2>2, <3>1, <3>2
  <2>3. CASE io # Base
    BY <1>1, <1>4, <1>6, <2>1, <2>3
  <2>4. QED BY <2>2, <2>3
<1>13. /\ index' \in [Conns -> {"kNew", "kAdded", "kDeleted"}]
       /\ channels' \in [Loops -> [Fds -> Conns \cup {None}]]
       /\ interest' \in [Loops -> [Fds -> Conns \cup {None}]]
       /\ index'[c] = IF io = Base THEN "kAdded" ELSE "kNew"
       /\ \A d \in Conns : d # c => index'[d] = index[d]
       /\ \A m \in Loops : loopGone[m] =>
            \A g \in Fds : channels'[m][g] = None /\ interest'[m][g] = None
       /\ PollInv'
  <2>1. CASE io = Base
    <3>1. updateChannel(c, io, connfd, {"in"} = {})
      BY <1>1, <2>1 DEF connectEstablished, SetEvents
    <3>2. ~loopGone[io]
      BY <1>9, <2>1
    <3>3. \A d \in Conns : d # c => fd[d] # connfd
      BY <1>7
    <3>4. /\ index' \in [Conns -> {"kNew", "kAdded", "kDeleted"}]
          /\ channels' \in [Loops -> [Fds -> Conns \cup {None}]]
          /\ interest' \in [Loops -> [Fds -> Conns \cup {None}]]
          /\ index'[c] = "kAdded" /\ \A d \in Conns : d # c => index'[d] = index[d]
          /\ \A m \in Loops : loopGone[m] =>
               \A g \in Fds : channels'[m][g] = None /\ interest'[m][g] = None
          /\ PollInv'
      <4>1. c \notin revived /\ revived' = revived /\ alive' \subseteq alive \cup {c}
        BY <1>6, <1>8, <1>12
      <4>2. fd'[c] = connfd /\ ioLoop'[c] = io /\ index[c] = "kNew" /\ connfd \in Fds
        BY <1>6, <1>7, <1>8
      <4>3. \A d \in Conns : d # c => fd'[d] = fd[d] /\ ioLoop'[d] = ioLoop[d]
        BY <1>8
      <4>4. QED
        BY <1>3, <1>4, <1>9, <1>10, <3>1, <3>2, <3>3, <4>1, <4>2, <4>3, Entered
    <3>5. QED BY <2>1, <3>4
  <2>2. CASE io # Base
    <3>0. UNCHANGED <<index, channels, interest>>
      BY <1>1, <2>2
    <3>1. /\ index \in [Conns -> {"kNew", "kAdded", "kDeleted"}]
          /\ channels \in [Loops -> [Fds -> Conns \cup {None}]]
          /\ interest \in [Loops -> [Fds -> Conns \cup {None}]]
      BY <1>0 DEF TypeOK
    <3>2. \A m \in Loops : loopGone[m] =>
            \A g \in Fds : channels[m][g] = None /\ interest[m][g] = None
      BY DEF IInv, LoopInv
    <3>3. ASSUME NEW m \in Loops, NEW g \in Fds, interest[m][g] # None
          PROVE  /\ ioLoop'[interest[m][g]] = m /\ fd'[interest[m][g]] = g
                 /\ index[interest[m][g]] = "kAdded"
      <4>1. interest[m][g] \in Conns /\ interest[m][g] # c
        BY <1>6, <3>1, <3>3 DEF IInv, PollInv
      <4>2. QED BY <1>8, <3>3, <4>1 DEF IInv, PollInv
    <3>4. ASSUME NEW m \in Loops, NEW g \in Fds, channels[m][g] # None
          PROVE  \/ channels[m][g] \in revived
                 \/ /\ ioLoop'[channels[m][g]] = m /\ fd'[channels[m][g]] = g
                    /\ index[channels[m][g]] # "kNew"
      <4>1. channels[m][g] \in Conns /\ channels[m][g] # c
        BY <1>6, <3>1, <3>4 DEF IInv, PollInv
      <4>2. QED BY <1>8, <3>4, <4>1 DEF IInv, PollInv
    <3>5. ASSUME NEW d \in alive', index[d] # "kNew", ~loopGone[ioLoop'[d]]
          PROVE  /\ channels[ioLoop'[d]][fd'[d]] = d
                 /\ index[d] = "kAdded" => interest[ioLoop'[d]][fd'[d]] = d
      <4>1. d # c /\ d \in alive /\ d \in Conns
        BY <1>0, <1>6, <1>8, <3>5 DEF TypeOK
      <4>2. fd'[d] = fd[d] /\ ioLoop'[d] = ioLoop[d]
        BY <1>8, <4>1
      <4>3. QED BY <3>5, <4>1, <4>2 DEF IInv, PollInv
    <3>6. ASSUME NEW m \in Loops, NEW d \in active'[m] \ {Acceptor}
          PROVE  ioLoop'[d] = m /\ index[d] = "kAdded"
      <4>1. d \in Conns /\ ioLoop[d] = m /\ index[d] = "kAdded"
        BY <1>0, <1>10, SMTT(30) DEF IInv, PollInv, TypeOK
      <4>2. QED BY <1>6, <1>8, <4>1
    <3>7. PollInv'
      BY <1>3, <1>9, <1>12, <3>0, <3>3, <3>4, <3>5, <3>6 DEF PollInv
    <3>8. QED BY <1>6, <2>2, <3>0, <3>1, <3>2, <3>7
  <2>3. QED BY <2>1, <2>2
<1>14. TypeOK'
  <2>1. /\ active' \in [Loops -> SUBSET (Conns \cup {Acceptor})]
        /\ connections' \subseteq Conns /\ alive' \subseteq Conns
        /\ users' \subseteq shared /\ revived' \subseteq Conns
    <3>1. /\ active \in [Loops -> SUBSET (Conns \cup {Acceptor})]
          /\ connections \subseteq Conns /\ alive \subseteq Conns
          /\ users \subseteq shared /\ revived \subseteq Conns
      BY <1>0 DEF TypeOK
    <3>2. alive' \subseteq Conns
      BY <1>4, <1>8, <3>1
    <3>3. users' \subseteq shared /\ revived' \subseteq Conns
      BY <1>12, <3>1
    <3>4. connections' \subseteq Conns
      BY <1>0, <1>4, <3>1
    <3>5. active' \in [Loops -> SUBSET (Conns \cup {Acceptor})]
      BY <1>0, <3>1
    <3>6. QED BY <3>2, <3>3, <3>4, <3>5
  <2>2. QED BY <1>0, <1>3, <1>4, <1>8, <1>11, <1>12, <1>13, <2>1
    DEF TypeOK, configVars, Loops, SubLoops, Fds
<1>15. EndInv'
  BY <1>0, Kept
<1>16. LoopInv'
  BY <1>0, <1>3, <1>9, <1>10, <1>13 DEF IInv, LoopInv
<1>17. BacklogInv'
  <2>1. \A i \in 1..(Len(backlog) - 1) :
          i + 1 \in DOMAIN backlog /\ backlog'[i] = backlog[i + 1] /\ backlog[i + 1] # c
    <3>1. \A i \in 1..(Len(backlog) - 1) :
            i + 1 \in DOMAIN backlog /\ 1 \in DOMAIN backlog /\ i + 1 # 1
      BY <1>4
    <3>2. QED BY <1>4, <3>1 DEF IInv, BacklogInv
  <2>2. \A d \in Conns : peer'[d] = "away" => state'[d] = None /\ d \notin Range(backlog')
    <3>1. SUFFICES ASSUME NEW d \in Conns, peer[d] = "away"
                   PROVE  state'[d] = None /\ d \notin Range(backlog')
      BY <1>0
    <3>2. state[d] = None /\ d # c /\ \A i \in DOMAIN backlog : backlog[i] # d
      BY <1>5, <3>1 DEF IInv, BacklogInv, Range
    <3>3. d \notin Range(backlog')
      BY <1>4, <2>1, <3>2 DEF Range
    <3>4. QED BY <1>12, <3>2, <3>3
  <2>3. \A i \in DOMAIN backlog' : state'[backlog'[i]] = None
    <3>1. SUFFICES ASSUME NEW i \in 1..(Len(backlog) - 1) PROVE state'[backlog'[i]] = None
      BY <1>4
    <3>2. state[backlog[i + 1]] = None /\ backlog[i + 1] \in Conns
      BY <1>4, <2>1 DEF IInv, BacklogInv
    <3>3. QED BY <1>12, <2>1, <3>2
  <2>4. \A i, j \in DOMAIN backlog' : backlog'[i] = backlog'[j] => i = j
    <3>1. SUFFICES ASSUME NEW i \in 1..(Len(backlog) - 1), NEW j \in 1..(Len(backlog) - 1),
                          backlog[i + 1] = backlog[j + 1]
                   PROVE  i = j
      BY <1>4
    <3>2. i + 1 = j + 1
      BY <2>1, <3>1 DEF IInv, BacklogInv
    <3>3. QED BY <1>4, <3>2
  <2>5. QED BY <2>2, <2>3, <2>4 DEF BacklogInv
<1>18. LifeInv'
  <2> SUFFICES ASSUME NEW d \in Conns
               PROVE  /\ state'[d] = None => d \notin alive'
                      /\ state'[d] \in Unborn => index'[d] = "kNew" /\ d \notin revived
                      /\ ups'[d] = IF state'[d] \in Unborn THEN 0 ELSE 1
                      /\ d \notin revived =>
                           /\ downs[d] \in {0, 1}
                           /\ state'[d] \in Unborn \cup {"kConnected"} => downs[d] = 0
                           /\ index'[d] = "kAdded" =>
                                /\ state'[d] \in {"kConnected", "kDisconnecting"}
                                /\ downs[d] = 0 /\ "in" \in events'[d]
    BY <1>12 DEF LifeInv, Unborn
  <2>1. CASE d # c
    <3>1. /\ state'[d] = state[d] /\ ups'[d] = ups[d] /\ index'[d] = index[d]
          /\ events'[d] = events[d] /\ (d \in alive' <=> d \in alive)
      BY <1>8, <1>12, <1>13, <2>1
    <3>2. QED BY <3>1 DEF IInv, LifeInv
  <2>2. CASE d = c /\ io = Base
    <3>1. /\ state'[c] = "kConnected" /\ ups'[c] = 1 /\ index'[c] = "kAdded"
          /\ downs[c] = 0 /\ "in" \in events'[c]
      BY <1>6, <1>12, <1>13, <2>2
    <3>2. QED BY <2>2, <3>1 DEF None, Unborn
  <2>3. CASE d = c /\ io # Base
    <3>1. /\ state'[c] = "kConnecting" /\ ups'[c] = 0 /\ index'[c] = "kNew"
          /\ downs[c] = 0 /\ c \notin revived
      BY <1>6, <1>12, <1>13, <2>3
    <3>2. QED BY <2>3, <3>1 DEF None, Unborn
  <2>4. QED BY <2>1, <2>2, <2>3
<1>19. MapInv'
  BY <1>0, <1>12 DEF IInv, MapInv
<1>20. FdInv'
  BY <1>4, <1>7, <1>8 DEF IInv, FdInv
<1>21. OwnInv'
  <2>1. ASSUME NEW m \in Loops, NEW g \in queued'[m]
        PROVE  /\ g.op \in Owning => g.conn \in alive'
               /\ g.op = "connectEstablished" => m # Base /\ state'[g.conn] = "kConnecting"
               /\ g.op \in Bare => state'[g.conn] \notin Unborn
               /\ g.op = "removeConnectionInLoop" => downs[g.conn] # 0
               /\ g.op # "removeConnectionInLoop" => ioLoop'[g.conn] = m
    <3>1. CASE g \in queued[m]
      <4>1. g.conn \in Conns /\ g.conn # c
        BY <1>0, <1>6, <3>1, QueuedFunctors, FunctorFields
      <4>2. state'[g.conn] = state[g.conn] /\ ioLoop'[g.conn] = ioLoop[g.conn]
        BY <1>8, <1>12, <4>1
      <4>3. QED BY <1>8, <3>1, <4>2 DEF IInv, OwnInv
    <3>2. CASE m = io /\ io # Base /\ g = Est(c)
      <4>1. g.conn = c /\ g.op = "connectEstablished"
        BY <1>4, <3>2, BoundFunctors
      <4>2. QED BY <1>8, <1>12, <3>2, <4>1 DEF Bare
    <3>3. QED BY <1>11, <3>1, <3>2
  <2>2. connections' \subseteq alive' /\ \A m \in Loops : held'[m] \subseteq alive'
    BY <1>0, <1>8 DEF IInv, OwnInv
  <2>3. QED BY <1>3, <1>12, <2>1, <2>2 DEF OwnInv, Unborn
<1>21a. UserInv'
  <2>1. \A d \in Conns : d # c /\ d \in users' => d \in users
    BY <1>12
  <2>2. users \subseteq Conns
    BY <1>0 DEF IInv, UserInv, TypeOK
  <2>3. users' \subseteq alive'
    BY <1>8, <1>12 DEF IInv, UserInv
  <2>4. \A d \in users' : state'[d] \notin Unborn
    <3>1. SUFFICES ASSUME NEW d \in users' PROVE state'[d] \notin Unborn
      OBVIOUS
    <3>2. CASE d = c
      <4>1. io = Base
        BY <1>6, <1>12, <3>1, <3>2
      <4>2. QED BY <1>12, <3>2, <4>1 DEF Unborn, None
    <3>3. CASE d # c
      <4>1. d \in users /\ d \in Conns
        BY <1>12, <2>2, <3>1, <3>3
      <4>2. QED BY <1>12, <3>3, <4>1 DEF IInv, UserInv
    <3>4. QED BY <3>2, <3>3
  <2>5. QED BY <1>0, <1>12, <2>3, <2>4 DEF IInv, UserInv, Unborn
<1>22. KeptInv'
  <2> SUFFICES ASSUME NEW d \in Conns \ revived, ~loopGone[ioLoop'[d]],
                      index'[d] # "kNew" \/ Est(d) \in queued'[ioLoop'[d]]
               PROVE  d \in connections' \/ Des(d) \in queued'[ioLoop'[d]]
    BY <1>9, <1>12 DEF KeptInv
  <2>1. CASE d = c
    BY <1>0, <2>1
  <2>2. CASE d # c
    <3>0. Est(d) # Est(c)
      BY <1>4, <2>2, BoundFunctors
    <3>1. /\ ioLoop'[d] = ioLoop[d] /\ ioLoop[d] \in Loops /\ index'[d] = index[d]
          /\ Est(d) # Est(c)
      <4>1. ioLoop[d] \in Loops
        BY <1>0 DEF TypeOK
      <4>2. QED BY <1>8, <1>13, <2>2, <3>0, <4>1
    <3>2. index[d] # "kNew" \/ Est(d) \in queued[ioLoop[d]]
      BY <1>11, <3>1
    <3>3. d \in connections \/ Des(d) \in queued[ioLoop[d]]
      BY <3>1, <3>2 DEF IInv, KeptInv
    <3>4. QED BY <1>0, <1>11, <3>1, <3>3
  <2>3. QED BY <2>1, <2>2
<1>23. QED
  BY <1>11, <1>13, <1>14, <1>15, <1>16, <1>17, <1>18, <1>19, <1>20, <1>21,
     <1>21a, <1>22 DEF IInv

-----------------------------------------------------------------------------
(* The theorems *)

LEMMA InitInv == Init => IInv
<1> SUFFICES ASSUME Init PROVE IInv
  OBVIOUS
<1>0. /\ <<numThreads, maxFds, shared>> \in Configs /\ numThreads \in Nat /\ maxFds \in Nat
  <2>1. PICK config \in Configs :
          numThreads = config[1] /\ maxFds = config[2] /\ shared = config[3]
    BY DEF Init
  <2>2. config \in Nat \X (Nat \ {0}) \X SUBSET Conns
    BY ConfigsAssumption
  <2>3. config = <<config[1], config[2], config[3]>>
    BY <2>2
  <2>4. QED BY <2>1, <2>2, <2>3
<1>1. TypeOK
  BY <1>0, EmptyQueue, EmptySeq DEF Init, TypeOK, Loops, Base, NoChannels
<1>2. queued = [l \in Loops |-> {}] /\ loopGone = [l \in Loops |-> FALSE]
  BY EmptyQueue DEF Init, queued, loopGone
<1>3. LoopInv
  BY <1>2 DEF Init, LoopInv
<1>4. BacklogInv
  BY EmptyQueue, EmptySeq DEF Init, BacklogInv
<1>5. LifeInv /\ MapInv /\ FdInv /\ UserInv
  BY DEF Init, LifeInv, MapInv, FdInv, UserInv, Unborn, None
<1>6. OwnInv
  BY <1>2 DEF Init, OwnInv
<1>7. OrderInv
  BY EmptyQueue DEF Init, OrderInv
<1>8. KeptInv
  <2>1. \A c \in Conns : index[c] = "kNew" /\ ioLoop[c] \in Loops
    BY <1>1 DEF Init, TypeOK
  <2>2. \A c \in Conns : Est(c) \notin queued[ioLoop[c]]
    BY <1>2, <2>1
  <2>3. QED BY <2>1, <2>2 DEF KeptInv
<1>9. PollInv
  BY DEF Init, PollInv, NoChannels
<1>10. EndInv
  BY <1>0 DEF Init, EndInv, SubLoops
<1>11. QED
  BY <1>1, <1>3, <1>4, <1>5, <1>6, <1>7, <1>8, <1>9, <1>10 DEF IInv

LEMMA StepInv == IInv /\ [Next]_vars => IInv'
<1> SUFFICES ASSUME IInv, [Next]_vars PROVE IInv'
  OBVIOUS
<1>1. CASE UNCHANGED vars
  <2> USE DEF configVars, kernelVars, connVars, pollVars, objVars, userVars, poolVars,
              loopVars, endVars
  <2>1. UNCHANGED configVars /\ UNCHANGED <<pending, functors, phase>>
    BY <1>1 DEF vars
  <2>2. queued' = queued /\ loopGone' = loopGone
    BY <2>1, QueuedKept, GoneKept
  <2>3. TypeOK'
    BY <1>1 DEF IInv, TypeOK, vars, Loops, SubLoops, Fds
  <2>4. QED BY <1>1, <2>1, <2>2, <2>3, Kept DEF IInv, vars
<1>2. CASE Next
  <2>1. UNCHANGED configVars
    BY <1>2 DEF Next
  <2>2. CASE PeerStep
    BY <2>1, <2>2, PeerInv
  <2>3. CASE start \/ QuitBase \/ Destroy
    BY <2>1, <2>3, ServerStep, DestroyConnectionStep DEF Destroy
  <2>4. ASSUME NEW l \in Loops, LoopStep(l) PROVE IInv'
    BY <2>1, <2>4, EnterStep, PollStep, HandleEventStep, SwapStep, RunStep, RunStaleStep,
       EndBatchStep, AcceptStep, AcceptFailsStep DEF LoopStep
  <2>5. CASE UserStep
    BY <2>1, <2>5, CallingStep, QueueingStep, ReleaseStep DEF UserStep
  <2>6. QED BY <1>2, <2>2, <2>3, <2>4, <2>5 DEF Next
<1>3. QED BY <1>1, <1>2

LEMMA Inductive == Spec => []IInv
BY InitInv, StepInv, PTL DEF Spec

(* For any number of loops, connections, descriptors and threads that keep a pointer: an
   entry of epoll's list and a queued functor bound to a TcpConnectionPtr name an object
   that is not destructed, and so do activeChannels_ and channels_ unless another thread's
   late send has put the channel back; no I/O loop calls into a TcpServer that is gone. *)
THEOREM NoneDangles == Spec => []NoDanglingChannel
<1>1. IInv => NoDanglingChannel
  <2> SUFFICES ASSUME IInv PROVE NoDanglingChannel
    OBVIOUS
  <2>0. TypeOK /\ None \notin Conns /\ Acceptor \notin Conns /\ 0 \notin Fds
    BY ConfigFacts DEF IInv
  <2>1. ASSUME NEW l \in Loops, NEW c \in active[l] \ {Acceptor, None}
        PROVE  c \in alive \cup revived
    <3>1. c \in Conns /\ phase[l] = "events"
      BY <2>0 DEF IInv, LoopInv, TypeOK
    <3>2. ioLoop[c] = l /\ index[c] = "kAdded" /\ ~loopGone[l]
      BY <3>1, RunningLoop DEF IInv, PollInv
    <3>3. QED BY <3>1, <3>2, PolledAlive
  <2>2. ASSUME NEW l \in Loops, NEW c \in Range(channels[l]) \ {None}
        PROVE  c \in alive \cup revived
    <3>1. channels[l] \in [Fds -> Conns \cup {None}]
      BY <2>0 DEF TypeOK
    <3>2. PICK f \in Fds : c = channels[l][f]
      BY <3>1 DEF Range
    <3>3. c \in Conns /\ (c \in revived \/ fd[c] = f)
      BY <3>1, <3>2 DEF IInv, PollInv
    <3>4. QED BY <2>0, <3>3 DEF IInv, FdInv
  <2>3. ASSUME NEW l \in Loops, NEW c \in Range(interest[l]) \ {None} PROVE c \in alive
    <3>1. interest[l] \in [Fds -> Conns \cup {None}]
      BY <2>0 DEF TypeOK
    <3>2. PICK f \in Fds : c = interest[l][f]
      BY <3>1 DEF Range
    <3>3. c \in Conns /\ fd[c] = f
      BY <3>1, <3>2 DEF IInv, PollInv
    <3>4. QED BY <2>0, <3>3 DEF IInv, FdInv
  <2>4. ASSUME NEW l \in Loops
        PROVE  FunctorConns(pending[l]) \cup FunctorConns(functors[l]) \subseteq alive
    <3>1. \A g \in Range(functors[l]) \cup Range(pending[l]) :
            g.op \in Owning => g.conn \in alive
      BY DEF IInv, OwnInv, queued
    <3>2. QED BY <3>1 DEF FunctorConns, Range
  <2>5. server = "gone" => \A l \in SubLoops : phase[l] = "stopped" /\ functors[l] = <<>>
    BY <2>0, ConfigFacts DEF IInv, EndInv, LoopInv
  <2>6. QED BY <2>1, <2>2, <2>3, <2>4, <2>5 DEF NoDanglingChannel
<1>2. QED BY <1>1, Inductive, PTL

(* For any number of loops, connections, descriptors and threads that keep a pointer:
   index_ tells what epoll and channels_ hold, though a descriptor is used again as soon
   as it is closed and though a late send puts channels back, so that EPOLL_CTL_ADD, MOD
   and DEL never fail and no event reaches a wrong connection. *)
THEOREM IndexTellsPoller == Spec => []PollerConsistent
<1>1. IInv => PollerConsistent
  <2> SUFFICES ASSUME IInv PROVE PollerConsistent
    OBVIOUS
  <2>0. TypeOK
    BY DEF IInv
  <2>1. \A l \in Loops, f \in Fds :
          interest[l][f] # None =>
            /\ ioLoop[interest[l][f]] = l /\ fd[interest[l][f]] = f
            /\ index[interest[l][f]] = "kAdded"
    BY DEF IInv, PollInv
  <2>2. ASSUME NEW c \in {d \in alive : phase[ioLoop[d]] # "stopped"}
        PROVE  /\ index[c] # "kNew" => channels[ioLoop[c]][fd[c]] = c
               /\ index[c] = "kAdded" =>
                    /\ interest[ioLoop[c]][fd[c]] = c
                    /\ c \in revived \/ state[c] \in {"kConnected", "kDisconnecting"}
               /\ \A d \in alive \ {c} : fd[c] # fd[d]
    <3>1. c \in Conns /\ c \in alive /\ alive \subseteq Conns /\ ioLoop[c] \in Loops
      BY <2>0 DEF TypeOK
    <3>2. ~loopGone[ioLoop[c]]
      BY <3>1, RunningLoop
    <3>3. QED BY <3>1, <3>2 DEF IInv, PollInv, LifeInv, FdInv
  <2>3. QED BY <2>0, <2>1, <2>2 DEF PollerConsistent
<1>2. QED BY <1>1, Inductive, PTL

(* For any number of loops, connections, descriptors and threads that keep a pointer: the
   connection callback runs at most once for up; at most once for down, unless a late send
   has put the channel back; and while the server runs no object goes before both. *)
THEOREM CallbacksInOrder == Spec => []UpThenDown
<1>1. IInv => UpThenDown
  <2> SUFFICES ASSUME IInv, NEW c \in Conns
               PROVE  /\ ups[c] <= 1
                      /\ downs[c] > ups[c] => c \in revived
                      /\ (server = "running" /\ state[c] # None /\ c \notin alive) =>
                           ups[c] = 1 /\ downs[c] >= 1 /\ fd[c] = 0
    BY DEF UpThenDown
  <2>1. ups[c] <= 1 /\ (downs[c] > ups[c] => c \in revived)
    BY DEF IInv, LifeInv, Unborn, None
  <2>2. ASSUME server = "running", state[c] # None, c \notin alive
        PROVE  ups[c] = 1 /\ downs[c] >= 1 /\ fd[c] = 0
    <3>1. c \notin connections /\ fd[c] = 0
      BY <2>2 DEF IInv, OwnInv, FdInv
    <3>2. downs[c] # 0 /\ downs[c] \in Nat
      BY <2>2, <3>1 DEF IInv, MapInv, TypeOK
    <3>3. state[c] \notin Unborn
      BY <3>2 DEF IInv, LifeInv
    <3>4. QED BY <3>1, <3>2, <3>3 DEF IInv, LifeInv
  <2>3. QED BY <2>1, <2>2
<1>2. QED BY <1>1, Inductive, PTL
=============================================================================

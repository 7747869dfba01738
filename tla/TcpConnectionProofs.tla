------------------------ MODULE TcpConnectionProofs ------------------------
(* Proofs about TcpConnection for any user threads, number and length of messages,
   send buffer and high-water mark. *)
EXTENDS TcpConnection, SequenceTheorems, TLAPS

-----------------------------------------------------------------------------
(* The inductive invariant *)

(* A thread inside send or shutdown has its TcpConnectionPtr. *)
CallersHold == \A u \in Users : call[u].op # "idle" => u \in held

(* A functor bound to this has a caller that still holds its pointer, or one that
   let go of it too early. *)
Bare(q) == \E i \in DOMAIN q : ~Keeps(q[i])
BareHasHolder == Bare(pending) => held # {} \/ "released" \in lapses

(* A registered channel will be removed, and a connection that is up will go down:
   the server still has it, or connectDestroyed is queued. *)
Destroys(q) == \E i \in DOMAIN q : q[i].op = "connectDestroyed"
WillBeRemoved ==
  state = "kConnected" \/ (registered /\ "revived" \notin lapses) =>
    inMap \/ Destroys(pending)

(* connectDestroyed is queued by what took the connection out of the map. *)
ErasedFirst == Destroys(pending) => ~inMap

(* Events are of a registered channel until a handler closes it. *)
EventsOfRegistered ==
  revents # {} =>
    /\ phase \in {"events", "handle"}
    /\ writing \/ phase = "events" => registered

DataInv == StreamIntact /\ HighWaterOnce
CloseInv == WritingIffBuffered /\ FinAfterData
OwnerInv == CallersHold /\ BareHasHolder /\ WillBeRemoved /\ ErasedFirst
              /\ EventsOfRegistered /\ BareThisOnly
IInv == DataInv /\ CloseInv /\ OwnerInv

-----------------------------------------------------------------------------
(* Sequences, messages and functors *)

LEMMA Regroup ==
  \A s, t, u \in Seq(Bytes) : (s \o t) \o u = s \o (t \o u)
BY SMTT(30)

LEMMA SplitBytes ==
  ASSUME NEW s \in Seq(Bytes), NEW n \in 0..Len(s)
  PROVE  /\ SubSeq(s, 1, n) \in Seq(Bytes)
         /\ SubSeq(s, n + 1, Len(s)) \in Seq(Bytes)
         /\ Len(SubSeq(s, n + 1, Len(s))) = Len(s) - n
         /\ SubSeq(s, 1, n) \o SubSeq(s, n + 1, Len(s)) = s
<1>1. Len(s) \in Nat /\ \A i \in 1..Len(s) : s[i] \in Bytes
  BY LenProperties
<1>2. /\ SubSeq(s, 1, n) \in Seq(Bytes) /\ SubSeq(s, n + 1, Len(s)) \in Seq(Bytes)
      /\ Len(SubSeq(s, n + 1, Len(s))) = Len(s) - n
  BY <1>1, SubSeqProperties
<1>3. SubSeq(s, 1, n) \o SubSeq(s, n + 1, Len(s)) = SubSeq(s, 1, Len(s))
  <2>1. 1 \in 1..(Len(s) + 1) /\ n \in (1 - 1)..Len(s) /\ Len(s) \in n..Len(s)
    BY <1>1
  <2>2. QED BY <2>1, ConcatAdjacentSubSeq, Zenon
<1>4. SubSeq(s, 1, Len(s)) = s
  BY SubSeqFull, Zenon
<1>5. QED BY <1>2, <1>3, <1>4

LEMMA DataResult ==
  ASSUME NEW m \in Msgs
  PROVE  Data(m) \in Seq(Bytes) /\ Len(Data(m)) = MsgLen /\ Data(m) # <<>>
<1>1. \A i \in 1..MsgLen : <<m, i>> \in Bytes
  BY DEF Bytes
<1>2. Data(m) \in [1..MsgLen -> Bytes]
  BY <1>1 DEF Data
<1>3. Data(m) \in Seq(Bytes) /\ Len(Data(m)) = MsgLen
  BY <1>2, SizesAssumption
<1>4. QED BY <1>3, EmptySeq, SizesAssumption

LEMMA FunctorFields ==
  ASSUME NEW f \in Functor
  PROVE  /\ f.op \in {"sendInLoop", "shutdownInLoop", "writeComplete",
                      "highWaterMark", "connectDestroyed"}
         /\ f.op = "sendInLoop" => f.msg \in Msgs
BY DEF Functor, Bind, BindSend

LEMMA BoundFunctors ==
  /\ Bind("shutdownInLoop") \in Functor /\ Bind("writeComplete") \in Functor
  /\ Bind("highWaterMark") \in Functor /\ Bind("connectDestroyed") \in Functor
  /\ \A m \in Msgs : BindSend(m) \in Functor
BY DEF Functor

LEMMA CallFields ==
  ASSUME NEW c \in Call
  PROVE  /\ c.op \in {"idle", "send", "shutdown", "shutdownPush"}
         /\ c.op = "send" => c.msg \in Msgs
BY DEF Call

-----------------------------------------------------------------------------
(* sendInLoop *)

(* What is buffered goes behind what is there, and the mark is crossed once. *)
LEMMA AppendResult ==
  ASSUME TypeOK, HighWaterOnce, NEW rest \in Seq(Bytes), rest # <<>>, NEW q,
         AppendOutput(rest, q)
  PROVE  /\ out' = out \o rest /\ out' \in Seq(Bytes) /\ out' # <<>>
         /\ writing' = TRUE /\ registered' = (registered \/ ~writing)
         /\ pending' = q \/ pending' = Append(q, Bind("highWaterMark"))
         /\ HighWaterOnce' /\ hwCalls' \in Nat
<1>1. /\ out \in Seq(Bytes) /\ Len(out) \in Nat /\ Len(rest) \in Nat \ {0}
      /\ hwCalls \in Nat /\ HighWaterMark \in Nat
  BY EmptySeq, SizesAssumption, LenProperties DEF TypeOK
<1>2. out' = out \o rest
  BY DEF AppendOutput
<1>3. out' \in Seq(Bytes) /\ Len(out') = Len(out) + Len(rest)
  BY <1>1, <1>2, ConcatProperties
<1>4. out' # <<>>
  BY <1>1, <1>3, EmptySeq
<1>5. HighWaterOnce' /\ hwCalls' \in Nat
  BY <1>1, <1>3 DEF AppendOutput, Crosses, HighWaterOnce
<1>6. QED BY <1>2, <1>3, <1>4, <1>5 DEF AppendOutput

(* What sendInLoop leaves, whichever way the bytes go. *)
LEMMA SendResult ==
  ASSUME DataInv, NEW data \in Seq(Bytes), data # <<>>, NEW q, sendInLoop(data, q)
  PROVE  /\ out' \in Seq(Bytes) /\ wire' \in Seq(Bytes) /\ accepted' \in Seq(Bytes)
         /\ room' \in 0..SndBuf /\ writing' \in BOOLEAN /\ registered' \in BOOLEAN
         /\ hwCalls' \in Nat /\ HighWaterOnce'
         /\ wire' \o out' = accepted'
         /\ pending' \in {q, Append(q, Bind("writeComplete")),
                          Append(q, Bind("highWaterMark"))}
         /\ (writing <=> out # <<>>) => (writing' <=> out' # <<>>)
         /\ fin /\ out = <<>> /\ ~writing => out' = <<>>
         /\ writing' /\ (writing => registered) => registered'
         /\ registered => registered'
<1>0. /\ out \in Seq(Bytes) /\ wire \in Seq(Bytes) /\ accepted \in Seq(Bytes)
      /\ room \in 0..SndBuf /\ writing \in BOOLEAN /\ registered \in BOOLEAN
      /\ hwCalls \in Nat /\ HighWaterOnce /\ TypeOK
      /\ wire \o out = accepted
      /\ Len(data) \in Nat \ {0} /\ SndBuf \in Nat
  BY EmptySeq, SizesAssumption DEF DataInv, StreamIntact, TypeOK
<1>1. CASE Direct /\ Faulty /\ pending' = q /\ UNCHANGED <<writing, registered, dataVars>>
  BY <1>0, <1>1 DEF dataVars, HighWaterOnce
<1>2. CASE /\ Direct /\ ~Faulty
           /\ accepted' = accepted \o data
           /\ \E n \in 0..Least(Len(data), room) :
                /\ wire' = wire \o SubSeq(data, 1, n)
                /\ room' = room - n
                /\ IF n = Len(data)
                   THEN /\ pending' = Append(q, Bind("writeComplete"))
                        /\ UNCHANGED <<out, writing, registered, hwCalls>>
                   ELSE AppendOutput(SubSeq(data, n + 1, Len(data)), q)
  <2>1. PICK n \in 0..Least(Len(data), room) :
           /\ wire' = wire \o SubSeq(data, 1, n)
           /\ room' = room - n
           /\ IF n = Len(data)
              THEN /\ pending' = Append(q, Bind("writeComplete"))
                   /\ UNCHANGED <<out, writing, registered, hwCalls>>
              ELSE AppendOutput(SubSeq(data, n + 1, Len(data)), q)
    BY <1>2
  <2>2. n \in 0..Len(data) /\ n \in 0..room /\ room' \in 0..SndBuf
    BY <1>0, <2>1 DEF Least
  <2>3. out = <<>> /\ writing = FALSE /\ ~fin /\ wire = accepted
    BY <1>0, <1>2, ConcatEmptySeq DEF Direct, Faulty
  <2> DEFINE head == SubSeq(data, 1, n)
             tail == SubSeq(data, n + 1, Len(data))
  <2>4. /\ head \in Seq(Bytes) /\ tail \in Seq(Bytes)
        /\ Len(tail) = Len(data) - n
        /\ head \o tail = data
    BY <2>2, SplitBytes, Zenon
  <2> HIDE DEF head, tail
  <2>6. /\ wire' \in Seq(Bytes) /\ accepted' \in Seq(Bytes)
        /\ wire' \o tail = accepted'
    <3>1. wire' = wire \o head
      BY <2>1 DEF head
    <3>2. wire' \in Seq(Bytes) /\ accepted' \in Seq(Bytes)
      BY <1>0, <1>2, <2>4, <3>1, ConcatProperties
    <3>3. (wire \o head) \o tail = wire \o (head \o tail)
      <4>1. wire \in Seq(Bytes) /\ head \in Seq(Bytes) /\ tail \in Seq(Bytes)
        BY <1>0, <2>4
      <4>2. QED BY <4>1, Regroup, ZenonT(30)
    <3>4. QED BY <1>2, <2>3, <2>4, <3>1, <3>2, <3>3
  <2>7. CASE n = Len(data)
    <3>1. /\ pending' = Append(q, Bind("writeComplete"))
          /\ UNCHANGED <<out, writing, registered, hwCalls>>
      BY <2>1, <2>7
    <3>2. Len(tail) = 0
      BY <1>0, <2>4, <2>7
    <3>3. tail = <<>>
      BY <2>4, <3>2, EmptySeq
    <3>4. QED BY <1>0, <2>2, <2>3, <2>6, <3>1, <3>3 DEF HighWaterOnce
  <2>8. CASE n # Len(data)
    <3>1. AppendOutput(tail, q)
      BY <2>1, <2>8 DEF tail
    <3>2. tail # <<>>
      <4>1. Len(tail) # 0
        BY <1>0, <2>2, <2>4, <2>8
      <4>2. QED BY <4>1, EmptySeq
    <3>3. /\ out' = out \o tail /\ out' \in Seq(Bytes) /\ out' # <<>>
          /\ writing' = TRUE /\ registered' = (registered \/ ~writing)
          /\ pending' = q \/ pending' = Append(q, Bind("highWaterMark"))
          /\ HighWaterOnce' /\ hwCalls' \in Nat
      BY <1>0, <2>4, <3>1, <3>2, AppendResult
    <3>4. out' = tail
      BY <2>3, <2>4, <3>3, ConcatEmptySeq
    <3>5. QED BY <1>0, <2>2, <2>3, <2>6, <3>3, <3>4
  <2>9. QED BY <2>7, <2>8
<1>3. CASE /\ ~Direct /\ accepted' = accepted \o data /\ AppendOutput(data, q)
           /\ UNCHANGED <<room, wire>>
  <2>1. /\ out' = out \o data /\ out' \in Seq(Bytes) /\ out' # <<>>
        /\ writing' = TRUE /\ registered' = (registered \/ ~writing)
        /\ pending' = q \/ pending' = Append(q, Bind("highWaterMark"))
        /\ HighWaterOnce' /\ hwCalls' \in Nat
    BY <1>0, <1>3, AppendResult
  <2>2. accepted' \in Seq(Bytes)
    BY <1>0, <1>3, ConcatProperties
  <2>3. wire' \o out' = accepted'
    <3>1. (wire \o out) \o data = wire \o (out \o data)
      BY <1>0, Regroup, ZenonT(40)
    <3>2. QED BY <1>0, <1>3, <2>1, <3>1
  <2>4. ~(out = <<>> /\ ~writing)
    BY <1>3 DEF Direct
  <2>5. QED BY <1>0, <1>3, <2>1, <2>2, <2>3, <2>4
<1>4. QED BY <1>1, <1>2, <1>3 DEF sendInLoop

(* handleWrite moves bytes from the front of the buffer to the socket. *)
LEMMA WriteResult ==
  ASSUME DataInv, NEW n \in 1..Least(Len(out), room), handleWrite(n)
  PROVE  /\ out' \in Seq(Bytes) /\ wire' \in Seq(Bytes) /\ room' \in 0..SndBuf
         /\ wire' \o out' = accepted' /\ accepted' = accepted
         /\ hwCalls' \in Nat /\ HighWaterOnce'
<1>0. /\ out \in Seq(Bytes) /\ wire \in Seq(Bytes) /\ room \in 0..SndBuf
      /\ hwCalls \in Nat /\ SndBuf \in Nat /\ Len(out) \in Nat
      /\ HighWaterMark \in Nat /\ wire \o out = accepted
  BY SizesAssumption, LenProperties DEF DataInv, StreamIntact, TypeOK
<1>1. n \in 0..Len(out) /\ n \in 0..room
  BY <1>0 DEF Least
<1> DEFINE head == SubSeq(out, 1, n)
           tail == SubSeq(out, n + 1, Len(out))
<1>2. /\ head \in Seq(Bytes) /\ tail \in Seq(Bytes) /\ head \o tail = out
      /\ Len(tail) = Len(out) - n
  BY <1>0, <1>1, SplitBytes, Zenon
<1>3. /\ out' = tail /\ wire' = wire \o head /\ room' = room - n
      /\ hwCalls' = (IF Len(out') < HighWaterMark THEN 0 ELSE hwCalls)
      /\ accepted' = accepted
  BY DEF handleWrite
<1> HIDE DEF head, tail
<1>4. wire' \in Seq(Bytes) /\ room' \in 0..SndBuf
  BY <1>0, <1>1, <1>2, <1>3, ConcatProperties
<1>5. wire' \o out' = accepted'
  <2>1. wire \in Seq(Bytes) /\ head \in Seq(Bytes) /\ tail \in Seq(Bytes)
    BY <1>0, <1>2
  <2>2. (wire \o head) \o tail = wire \o (head \o tail)
    BY <2>1, Regroup, Zenon
  <2>3. QED BY <1>0, <1>2, <1>3, <2>2
<1>6. HighWaterOnce' /\ hwCalls' \in Nat
  BY <1>0, <1>1, <1>2, <1>3 DEF DataInv, HighWaterOnce
<1>7. QED BY <1>2, <1>3, <1>4, <1>5, <1>6

-----------------------------------------------------------------------------
(* Every step keeps the bytes in order and the types. *)

LEMMA RunHead ==
  ASSUME TypeOK, left > 0
  PROVE  /\ Head(pending) \in Functor /\ Tail(pending) \in Seq(Functor)
         /\ Len(Tail(pending)) = Len(pending) - 1 /\ Len(pending) \in Nat
         /\ left - 1 \in 0..Len(Tail(pending)) /\ pending # <<>>
<1>1. pending \in Seq(Functor) /\ left \in 0..Len(pending) /\ Len(pending) \in Nat
  BY LenProperties DEF TypeOK
<1>2. pending # <<>>
  BY <1>1, EmptySeq
<1>3. QED BY <1>1, <1>2, HeadTailProperties

LEMMA AtHead ==
  ASSUME TypeOK, left > 0, Head(pending).op = "connectDestroyed"
  PROVE  Destroys(pending)
<1>1. pending \in Seq(Functor) /\ pending # <<>>
  BY RunHead DEF TypeOK
<1>2. Head(pending) = pending[1] /\ 1 \in DOMAIN pending
  BY <1>1, EmptySeq, HeadTailProperties, LenProperties
<1>3. QED BY <1>2 DEF Destroys

(* The queue of the loop after an append. *)
LEMMA Appended ==
  ASSUME NEW q \in Seq(Functor), NEW f \in Functor
  PROVE  Append(q, f) \in Seq(Functor) /\ Len(Append(q, f)) = Len(q) + 1
           /\ Len(q) \in Nat
BY AppendProperties, LenProperties

LEMMA QueueKept ==
  ASSUME NEW q \in Seq(Functor), NEW k \in 0..Len(q), NEW r,
         r \in {q, Append(q, Bind("writeComplete")), Append(q, Bind("highWaterMark"))}
  PROVE  r \in Seq(Functor) /\ k \in 0..Len(r)
<1>1. Bind("writeComplete") \in Functor /\ Bind("highWaterMark") \in Functor
  BY BoundFunctors
<1>2. CASE r = q
  BY <1>2
<1>3. CASE r = Append(q, Bind("writeComplete"))
  BY <1>1, <1>3, Appended
<1>4. CASE r = Append(q, Bind("highWaterMark"))
  BY <1>1, <1>4, Appended
<1>5. QED BY <1>2, <1>3, <1>4

(* A step that leaves the bytes alone has only types to keep. *)
LEMMA DataKept ==
  ASSUME DataInv, TypeOK', UNCHANGED dataVars
  PROVE  DataInv'
BY DEF DataInv, StreamIntact, HighWaterOnce, dataVars

LEMMA UserDataStep ==
  ASSUME DataInv, NEW u \in Users, UserStart(u) \/ UserFinish(u)
  PROVE  DataInv'
<1>0. TypeOK
  BY DEF DataInv, StreamIntact
<1> SUFFICES TypeOK' /\ UNCHANGED dataVars
  BY DataKept
<1> USE DEF TypeOK, dataVars, chanVars, loopVars, netVars, ownVars, userVars
<1>1. CASE UserSendTest(u)
  <2>1. sent + 1 \in Msgs
    BY <1>0, <1>1, SizesAssumption DEF UserSendTest, Msgs
  <2>2. call' \in [Users -> Call] /\ sent' \in 0..NumMsgs
    BY <1>0, <1>1, <2>1 DEF UserSendTest, Call, Msgs
  <2>3. QED BY <1>0, <1>1, <2>2 DEF UserSendTest
<1>2. CASE UserShutdownTest(u)
  BY <1>0, <1>2 DEF UserShutdownTest, Call
<1>3. CASE Release(u)
  BY <1>0, <1>3 DEF Release
<1>4. CASE UserSendPush(u)
  <2>1. BindSend(call[u].msg) \in Functor
    BY <1>0, <1>4, CallFields, BoundFunctors DEF UserSendPush
  <2>2. pending' \in Seq(Functor) /\ left \in 0..Len(pending')
    BY <1>0, <1>4, <2>1, Appended DEF UserSendPush
  <2>3. call' \in [Users -> Call]
    BY <1>0, <1>4 DEF UserSendPush, Call, Idle
  <2>4. QED BY <1>0, <1>4, <2>2, <2>3 DEF UserSendPush
<1>5. CASE UserShutdownStore(u)
  BY <1>0, <1>5 DEF UserShutdownStore, Call
<1>6. CASE UserShutdownPush(u)
  <2>2. pending' \in Seq(Functor) /\ left \in 0..Len(pending')
    BY <1>0, <1>6, BoundFunctors, Appended DEF UserShutdownPush
  <2>3. call' \in [Users -> Call]
    BY <1>0, <1>6 DEF UserShutdownPush, Call, Idle
  <2>4. QED BY <1>0, <1>6, <2>2, <2>3 DEF UserShutdownPush
<1>7. QED BY <1>1, <1>2, <1>3, <1>4, <1>5, <1>6 DEF UserStart, UserFinish

LEMMA SendDataStep ==
  ASSUME DataInv, CallbackSend
  PROVE  DataInv'
<1>1. sent + 1 \in Msgs /\ sent' \in 0..NumMsgs
  BY SizesAssumption DEF CallbackSend, Msgs, DataInv, StreamIntact, TypeOK
<1>2. Data(sent + 1) \in Seq(Bytes) /\ Data(sent + 1) # <<>>
  BY <1>1, DataResult
<1>3. sendInLoop(Data(sent + 1), pending)
  BY DEF CallbackSend
<1>4. /\ out' \in Seq(Bytes) /\ wire' \in Seq(Bytes) /\ accepted' \in Seq(Bytes)
      /\ room' \in 0..SndBuf /\ writing' \in BOOLEAN /\ registered' \in BOOLEAN
      /\ hwCalls' \in Nat /\ HighWaterOnce'
      /\ wire' \o out' = accepted'
      /\ pending' \in {pending, Append(pending, Bind("writeComplete")),
                       Append(pending, Bind("highWaterMark"))}
  BY <1>2, <1>3, SendResult
<1>5. pending' \in Seq(Functor) /\ left \in 0..Len(pending')
  <2>1. pending \in Seq(Functor) /\ left \in 0..Len(pending)
    BY DEF DataInv, StreamIntact, TypeOK
  <2>2. QED BY <1>4, <2>1, QueueKept
<1>6. QED BY <1>1, <1>4, <1>5, ZenonT(40)
  DEF CallbackSend, DataInv, StreamIntact, TypeOK, loopVars, netVars, ownVars

LEMMA RunDataStep ==
  ASSUME DataInv, RunFunctor
  PROVE  DataInv'
<1> DEFINE f == Head(pending)
<1>0. TypeOK /\ left > 0 /\ left' = left - 1 /\ kept' = (kept \/ Keeps(f))
      /\ UNCHANGED <<phase, revents, userVars, netVars, serving, inMap, closes, held,
                     touched>>
  BY DEF RunFunctor, DataInv, StreamIntact
<1>1. /\ f \in Functor /\ Tail(pending) \in Seq(Functor)
      /\ Len(Tail(pending)) \in Nat /\ left - 1 \in 0..Len(Tail(pending))
      /\ kept' \in BOOLEAN
  BY <1>0, RunHead DEF TypeOK
<1>2. CASE /\ f.op = "sendInLoop"
           /\ sendInLoop(Data(f.msg), Tail(pending))
           /\ lapses' = IF ~inMap /\ ~registered /\ registered'
                        THEN lapses \cup {"revived"} ELSE lapses
           /\ UNCHANGED <<state, reading, callback, fin>>
  <2>1. Data(f.msg) \in Seq(Bytes) /\ Data(f.msg) # <<>>
    BY <1>1, <1>2, FunctorFields, DataResult
  <2>2. /\ out' \in Seq(Bytes) /\ wire' \in Seq(Bytes) /\ accepted' \in Seq(Bytes)
        /\ room' \in 0..SndBuf /\ writing' \in BOOLEAN /\ registered' \in BOOLEAN
        /\ hwCalls' \in Nat /\ HighWaterOnce'
        /\ wire' \o out' = accepted'
        /\ pending' \in {Tail(pending), Append(Tail(pending), Bind("writeComplete")),
                         Append(Tail(pending), Bind("highWaterMark"))}
    BY <1>2, <2>1, SendResult
  <2>3. pending' \in Seq(Functor) /\ left' \in 0..Len(pending')
    BY <1>0, <1>1, <2>2, QueueKept
  <2>4. lapses' \subseteq {"released", "revived"}
    BY <1>0, <1>2 DEF TypeOK
  <2>5. QED BY <1>0, <1>1, <1>2, <2>2, <2>3, <2>4, SMTT(30)
    DEF DataInv, StreamIntact, TypeOK, userVars, netVars
<1>3. CASE /\ f.op # "sendInLoop" /\ pending' = Tail(pending)
           /\ UNCHANGED <<dataVars, lapses>>
           /\ state' \in {state, "kDisconnected"}
           /\ reading' \in BOOLEAN /\ writing' \in BOOLEAN /\ registered' \in BOOLEAN
           /\ callback' \in BOOLEAN /\ fin' \in BOOLEAN
  BY <1>0, <1>1, <1>3, SMTT(30)
  DEF DataInv, StreamIntact, HighWaterOnce, TypeOK, userVars, netVars, dataVars
<1>4. QED
  BY <1>0, <1>2, <1>3
  DEF RunFunctor, shutdownInLoop, connectDestroyed, chanVars, TypeOK

(* The steps of a batch that run nothing move the queue and the phase only. *)
LEMMA TypesByBatch ==
  ASSUME TypeOK, pending' \in Seq(Functor), left' \in 0..Len(pending'),
         phase' \in {"poll", "events", "handle", "functors"}, kept' \in BOOLEAN,
         touched' \subseteq {"sendInLoop", "shutdownInLoop", "writeComplete",
                            "highWaterMark", "connectDestroyed", "handleEvent"},
         UNCHANGED <<state, chanVars, revents, callback, userVars, netVars, dataVars, fin,
                     serving, inMap, closes, held, lapses>>
  PROVE  TypeOK'
<1>1. /\ state' \in {"kConnected", "kDisconnecting", "kDisconnected"}
      /\ reading' \in BOOLEAN /\ writing' \in BOOLEAN /\ registered' \in BOOLEAN
      /\ out' \in Seq(Bytes) /\ revents' \subseteq {"hup", "in", "out"}
      /\ callback' \in BOOLEAN /\ call' \in [Users -> Call] /\ unread' \in BOOLEAN
      /\ peer' \in {"open", "closed", "reset", "dead"} /\ room' \in 0..SndBuf
  BY DEF TypeOK, dataVars, chanVars, netVars, userVars
<1>2. /\ fin' \in BOOLEAN /\ serving' \in BOOLEAN /\ inMap' \in BOOLEAN
      /\ closes' \in Nat /\ held' \subseteq Users
      /\ lapses' \subseteq {"released", "revived"} /\ sent' \in 0..NumMsgs
      /\ accepted' \in Seq(Bytes) /\ wire' \in Seq(Bytes) /\ hwCalls' \in Nat
  BY DEF TypeOK, dataVars, userVars
<1>3. QED BY <1>1, <1>2, Zenon DEF TypeOK

LEMMA LoopDataStep ==
  ASSUME DataInv, LoopStep
  PROVE  DataInv'
<1>0. TypeOK
  BY DEF DataInv, StreamIntact
<1> USE <1>0 DEF TypeOK, dataVars, chanVars, loopVars, netVars, ownVars, userVars
<1>1. CASE Poll
  <2>1. TypeOK' /\ UNCHANGED dataVars
    BY <1>1 DEF Poll, ReadyEvents
  <2>2. QED BY <2>1, DataKept
<1>2. CASE HandleEvent
  <2>1. /\ phase' \in {"events", "handle"} /\ revents' \in {revents, {}}
        /\ touched' \in {touched, touched \cup {"handleEvent"}}
        /\ UNCHANGED <<state, chanVars, left, callback, pending, userVars, netVars,
                       dataVars, fin, serving, inMap, closes, held, kept, lapses>>
    <3>1. CASE Alive
      BY <1>2, <3>1 DEF HandleEvent
    <3>2. CASE ~Alive
      BY <1>2, <3>2 DEF HandleEvent, In
    <3>3. QED BY <3>1, <3>2
  <2>2. TypeOK' /\ UNCHANGED dataVars
    BY <2>1
  <2>3. QED BY <2>2, DataKept
<1>3. CASE EventHup
  <2>1. /\ state' \in {state, "kDisconnected"} /\ closes' \in {closes, closes + 1}
        /\ reading' \in BOOLEAN /\ writing' \in BOOLEAN /\ registered' \in BOOLEAN
        /\ revents' = revents \ {"hup"}
        /\ UNCHANGED <<phase, left, callback, pending, userVars, netVars, dataVars, fin,
                       serving, inMap, held, kept, touched, lapses>>
    BY <1>3 DEF EventHup, handleClose
  <2>2. TypeOK' /\ UNCHANGED dataVars
    BY <2>1
  <2>3. QED BY <2>2, DataKept
<1>4. CASE EventRead
  <2>1. /\ state' \in {state, "kDisconnected"} /\ closes' \in {closes, closes + 1}
        /\ reading' \in BOOLEAN /\ writing' \in BOOLEAN /\ registered' \in BOOLEAN
        /\ revents' = revents \ {"in"} /\ callback' \in BOOLEAN
        /\ unread' \in BOOLEAN /\ peer' \in {peer, "dead"}
        /\ UNCHANGED <<phase, left, pending, userVars, dataVars, fin,
                       serving, inMap, held, kept, touched, lapses>>
    BY <1>4 DEF EventRead, handleClose, handleError
  <2>2. TypeOK' /\ UNCHANGED dataVars
    BY <2>1
  <2>3. QED BY <2>2, DataKept
<1>5. CASE EventWrite
  <2>1. /\ revents' = {}
        /\ UNCHANGED <<state, reading, phase, left, callback, userVars, netVars, ownVars>>
    BY <1>5 DEF EventWrite
  <2>2. CASE UNCHANGED <<writing, registered, pending, dataVars, fin>>
    <3>1. TypeOK'
      BY <2>1, <2>2
    <3>2. QED BY <2>2, <3>1, DataKept
  <2>3. ASSUME NEW n \in 1..Least(Len(out), room), handleWrite(n)
        PROVE  DataInv'
    <3>1. /\ out' \in Seq(Bytes) /\ wire' \in Seq(Bytes) /\ room' \in 0..SndBuf
          /\ wire' \o out' = accepted' /\ accepted' = accepted
          /\ hwCalls' \in Nat /\ HighWaterOnce'
      BY <2>3, WriteResult
    <3>2. /\ writing' \in BOOLEAN /\ registered' \in BOOLEAN /\ fin' \in BOOLEAN
          /\ pending' \in {pending, Append(pending, Bind("writeComplete"))}
      BY <2>3 DEF handleWrite, shutdownInLoop
    <3>3. pending' \in Seq(Functor) /\ left \in 0..Len(pending')
      BY <3>2, QueueKept
    <3>4. TypeOK'
      BY <2>1, <3>1, <3>2, <3>3
    <3>5. QED BY <3>1, <3>4 DEF DataInv, StreamIntact
  <2>4. QED BY <1>5, <2>2, <2>3 DEF EventWrite
<1>6. CASE Swap
  <2>1. left' \in 0..Len(pending')
    BY <1>6, LenProperties DEF Swap
  <2>2. TypeOK' /\ UNCHANGED dataVars
    BY <1>6, <2>1 DEF Swap
  <2>3. QED BY <2>2, DataKept
<1>7. CASE RunFunctor BY <1>7, RunDataStep
<1>8. CASE RunStaleFunctor
  <2>1. left > 0 /\ left' = left - 1 /\ pending' = Tail(pending)
        /\ touched' = touched \cup {Head(pending).op}
    BY <1>8 DEF RunStaleFunctor
  <2>2. /\ pending' \in Seq(Functor) /\ left' \in 0..Len(pending')
        /\ Head(pending) \in Functor
    BY <2>1, RunHead
  <2>3. touched' \subseteq {"sendInLoop", "shutdownInLoop", "writeComplete",
                           "highWaterMark", "connectDestroyed", "handleEvent"}
    BY <2>1, <2>2, FunctorFields
  <2>4. /\ UNCHANGED <<state, chanVars, phase, revents, callback, userVars, netVars,
                       dataVars, fin, serving, inMap, closes, held, kept, lapses>>
        /\ left' \in 0..Len(pending')
    BY <1>8, <2>2 DEF RunStaleFunctor
  <2>5. TypeOK'
    BY <2>2, <2>3, <2>4, TypesByBatch
  <2>6. QED BY <2>4, <2>5, DataKept
<1>9. CASE EndBatch
  <2>1. /\ phase' = "poll" /\ kept' = FALSE
        /\ UNCHANGED <<state, chanVars, revents, left, callback, pending, userVars,
                       netVars, dataVars, fin, serving, inMap, closes, held, touched,
                       lapses>>
    BY <1>9 DEF EndBatch
  <2>2. TypeOK'
    BY <2>1, TypesByBatch
  <2>3. QED BY <2>1, <2>2, DataKept
<1>10. CASE CallbackReturns
  <2>1. /\ callback' \in BOOLEAN
        /\ UNCHANGED <<state, chanVars, loopVars, pending, userVars, netVars, dataVars,
                       fin, ownVars>>
    BY <1>10 DEF CallbackReturns
  <2>2. TypeOK' /\ UNCHANGED dataVars
    BY <2>1
  <2>3. QED BY <2>2, DataKept
<1>11. QED
  BY <1>1, <1>2, <1>3, <1>4, <1>5, <1>6, <1>7, <1>8, <1>9, <1>10 DEF LoopStep

LEMMA DataStep == DataInv /\ [Next]_vars => DataInv'
<1> SUFFICES ASSUME DataInv, [Next]_vars PROVE DataInv'
  OBVIOUS
<1>0. TypeOK
  BY DEF DataInv, StreamIntact
<1>1. CASE ServerRemoves
  <2>1. pending' \in Seq(Functor) /\ left \in 0..Len(pending')
    BY <1>1, BoundFunctors, Appended DEF ServerRemoves, DataInv, StreamIntact, TypeOK
  <2>2. /\ inMap' \in BOOLEAN /\ closes' \in Nat
        /\ UNCHANGED <<state, chanVars, loopVars, callback, userVars, netVars, dataVars,
                       fin, serving, held, kept, touched, lapses>>
    <3>1. /\ closes > 0 /\ closes' = closes - 1 /\ inMap' = FALSE
          /\ UNCHANGED <<state, chanVars, loopVars, callback, userVars, netVars, dataVars,
                         fin, serving, held, kept, touched, lapses>>
      BY <1>1 DEF ServerRemoves
    <3>2. closes \in Nat
      BY <1>0 DEF TypeOK
    <3>3. closes' \in Nat
      BY <3>1, <3>2
    <3>4. QED BY <3>1, <3>3
  <2>3. TypeOK'
    BY <1>0, <2>1, <2>2 DEF TypeOK, dataVars, chanVars, loopVars, netVars, userVars
  <2>4. QED BY <2>2, <2>3, DataKept
<1>6. CASE ServerDestructs
  <2>1. pending' \in Seq(Functor) /\ left \in 0..Len(pending')
    BY <1>6, BoundFunctors, Appended DEF ServerDestructs, DataInv, StreamIntact, TypeOK
  <2>2. /\ serving' \in BOOLEAN /\ inMap' \in BOOLEAN
        /\ UNCHANGED <<state, chanVars, loopVars, callback, userVars, netVars, dataVars,
                       fin, closes, held, kept, touched, lapses>>
    BY <1>6 DEF ServerDestructs
  <2>3. TypeOK'
    BY <1>0, <2>1, <2>2 DEF TypeOK, dataVars, chanVars, loopVars, netVars, userVars
  <2>4. QED BY <2>2, <2>3, DataKept
<1>2. CASE PeerReads
  <2>1. /\ room' \in 0..SndBuf
        /\ UNCHANGED <<state, chanVars, loopVars, callback, pending, userVars, netVars,
                       out, accepted, wire, hwCalls, fin, ownVars>>
    BY <1>0, <1>2, SizesAssumption DEF PeerReads, TypeOK
  <2>2. QED BY <2>1, SMTT(30) DEF DataInv, StreamIntact, HighWaterOnce, TypeOK, chanVars,
      loopVars, netVars, ownVars, userVars
<1>4. CASE CallbackShutdown \/ PeerSends \/ PeerCloses
  <2>1. /\ state' \in {state, "kDisconnecting"} /\ fin' \in BOOLEAN
        /\ unread' \in BOOLEAN /\ peer' \in {peer, "closed", "reset"}
        /\ UNCHANGED <<chanVars, loopVars, callback, pending, userVars, dataVars, ownVars>>
    BY <1>0, <1>4
    DEF CallbackShutdown, PeerSends, PeerCloses, shutdownInLoop, TypeOK, netVars
  <2>2. TypeOK'
    BY <1>0, <2>1 DEF TypeOK, dataVars, chanVars, loopVars, ownVars, userVars
  <2>3. QED BY <2>1, <2>2, DataKept
<1>3. CASE UNCHANGED vars
  BY <1>3, SMTT(30) DEF vars, DataInv, StreamIntact, HighWaterOnce, TypeOK, chanVars,
      loopVars, netVars, ownVars, userVars
<1>5. QED
  BY <1>1, <1>2, <1>3, <1>4, <1>6, LoopDataStep, SendDataStep, UserDataStep DEF Next

-----------------------------------------------------------------------------
(* Every step keeps the write side consistent while the connection is open. *)

LEMMA CloseKept ==
  ASSUME CloseInv, UNCHANGED <<inMap, closes, writing, out, fin>>
  PROVE  CloseInv'
BY DEF CloseInv, WritingIffBuffered, FinAfterData, Closed

LEMMA CloseByHandler ==
  ASSUME TypeOK, handleClose
  PROVE  CloseInv'
<1>1. closes \in Nat /\ closes' = closes + 1
  BY DEF TypeOK, handleClose
<1>2. closes' > 0
  BY <1>1
<1>3. QED
  BY <1>1, <1>2 DEF CloseInv, WritingIffBuffered, FinAfterData, Closed

LEMMA CloseBySend ==
  ASSUME DataInv, CloseInv, NEW data \in Seq(Bytes), data # <<>>, NEW q,
         sendInLoop(data, q), UNCHANGED <<fin, inMap, closes>>
  PROVE  CloseInv'
<1>1. /\ (writing <=> out # <<>>) => (writing' <=> out' # <<>>)
      /\ fin /\ out = <<>> /\ ~writing => out' = <<>>
  BY SendResult
<1>2. QED
  BY <1>1 DEF CloseInv, WritingIffBuffered, FinAfterData, Closed

LEMMA CloseByShutdown ==
  ASSUME CloseInv, shutdownInLoop(writing), UNCHANGED <<inMap, closes, writing, out>>
  PROVE  CloseInv'
<1>1. fin' = (fin \/ ~writing)
  BY DEF shutdownInLoop
<1>2. WritingIffBuffered'
  BY DEF CloseInv, WritingIffBuffered, Closed
<1>3. FinAfterData'
  BY <1>1 DEF CloseInv, WritingIffBuffered, FinAfterData, Closed
<1>4. QED BY <1>2, <1>3 DEF CloseInv

LEMMA CloseByWrite ==
  ASSUME CloseInv, EventWrite
  PROVE  CloseInv'
<1>1. UNCHANGED <<inMap, closes>>
  BY DEF EventWrite, ownVars
<1>2. CASE UNCHANGED <<writing, registered, pending, dataVars, fin>>
  BY <1>1, <1>2, CloseKept DEF dataVars
<1>3. ASSUME NEW n \in 1..Least(Len(out), room), handleWrite(n), writing, ~Faulty
      PROVE  CloseInv'
  <2>1. ~fin
    BY <1>3 DEF Faulty
  <2>2. CASE out' = <<>>
    <3>1. writing' = FALSE
      BY <1>3, <2>2 DEF handleWrite
    <3>2. QED BY <1>1, <2>2, <3>1
      DEF CloseInv, WritingIffBuffered, FinAfterData, Closed
  <2>3. CASE out' # <<>>
    <3>1. UNCHANGED <<writing, fin>>
      BY <1>3, <2>3 DEF handleWrite
    <3>2. QED BY <1>1, <1>3, <2>1, <2>3, <3>1
      DEF CloseInv, WritingIffBuffered, FinAfterData, Closed
  <2>4. QED BY <2>2, <2>3
<1>4. QED BY <1>2, <1>3 DEF EventWrite

LEMMA CloseByFunctor ==
  ASSUME DataInv, CloseInv, OwnerInv, RunFunctor
  PROVE  CloseInv'
<1> DEFINE f == Head(pending)
<1>0. TypeOK /\ left > 0 /\ UNCHANGED <<inMap, closes>>
  BY DEF RunFunctor, DataInv, StreamIntact
<1>1. f \in Functor
  BY <1>0, RunHead
<1>2. CASE f.op = "sendInLoop" /\ sendInLoop(Data(f.msg), Tail(pending)) /\ UNCHANGED fin
  <2>1. Data(f.msg) \in Seq(Bytes) /\ Data(f.msg) # <<>>
    BY <1>1, <1>2, FunctorFields, DataResult
  <2>2. QED BY <1>0, <1>2, <2>1, CloseBySend
<1>3. CASE shutdownInLoop(writing) /\ UNCHANGED <<writing, out>>
  BY <1>0, <1>3, CloseByShutdown
<1>4. CASE UNCHANGED <<writing, out, fin>>
  BY <1>0, <1>4, CloseKept
<1>5. CASE f.op = "connectDestroyed" /\ connectDestroyed /\ UNCHANGED <<out, fin>>
  <2>1. CASE state = "kConnected"
    <3>1. ~inMap
      BY <1>0, <1>5, <2>1, AtHead DEF OwnerInv, ErasedFirst
    <3>2. QED BY <1>0, <3>1 DEF CloseInv, WritingIffBuffered, FinAfterData, Closed
  <2>2. CASE state # "kConnected"
    <3>1. UNCHANGED writing
      BY <1>5, <2>2 DEF connectDestroyed
    <3>2. QED BY <1>0, <1>5, <3>1, CloseKept
  <2>3. QED BY <2>1, <2>2
<1>6. QED
  BY <1>2, <1>3, <1>4, <1>5 DEF RunFunctor, chanVars, dataVars

LEMMA CloseStep == DataInv /\ CloseInv /\ OwnerInv /\ [Next]_vars => CloseInv'
<1> SUFFICES ASSUME DataInv, CloseInv, OwnerInv, [Next]_vars PROVE CloseInv'
  OBVIOUS
<1>0. TypeOK
  BY DEF DataInv, StreamIntact
<1>1. CASE Poll \/ HandleEvent \/ Swap \/ RunStaleFunctor \/ EndBatch \/ CallbackReturns
             \/ PeerSends \/ PeerReads \/ PeerCloses \/ UNCHANGED vars
  <2>1. UNCHANGED <<inMap, closes, writing, out, fin>>
    BY <1>1 DEF Poll, HandleEvent, Swap, RunStaleFunctor, EndBatch, CallbackReturns,
      PeerSends, PeerReads, PeerCloses, vars, ownVars, chanVars, dataVars
  <2>2. QED BY <2>1, CloseKept
<1>2. CASE EventHup
  <2>1. UNCHANGED <<inMap, out, fin>> /\ (handleClose \/ UNCHANGED <<writing, closes>>)
    BY <1>2 DEF EventHup, chanVars, dataVars
  <2>2. QED BY <1>0, <2>1, CloseByHandler, CloseKept
<1>3. CASE EventRead
  <2>1. UNCHANGED <<inMap, out, fin>> /\ (handleClose \/ UNCHANGED <<writing, closes>>)
    BY <1>3 DEF EventRead, chanVars, dataVars
  <2>2. QED BY <1>0, <2>1, CloseByHandler, CloseKept
<1>4. CASE EventWrite BY <1>4, CloseByWrite
<1>5. CASE RunFunctor BY <1>5, CloseByFunctor
<1>6. CASE ServerRemoves \/ ServerDestructs
  <2>1. inMap' = FALSE
    BY <1>6 DEF ServerRemoves, ServerDestructs
  <2>2. QED BY <2>1
    DEF CloseInv, WritingIffBuffered, FinAfterData, Closed
<1>7. CASE CallbackSend
  <2>1. sent + 1 \in Msgs
    BY <1>0, <1>7, SizesAssumption DEF CallbackSend, Msgs, TypeOK
  <2>2. Data(sent + 1) \in Seq(Bytes) /\ Data(sent + 1) # <<>>
    BY <2>1, DataResult
  <2>3. sendInLoop(Data(sent + 1), pending) /\ UNCHANGED <<fin, inMap, closes>>
    BY <1>7 DEF CallbackSend, ownVars
  <2>4. QED BY <2>2, <2>3, CloseBySend
<1>8. CASE CallbackShutdown
  <2>1. shutdownInLoop(writing) /\ UNCHANGED <<inMap, closes, writing, out>>
    BY <1>8 DEF CallbackShutdown, chanVars, dataVars, ownVars
  <2>2. QED BY <2>1, CloseByShutdown
<1>9. ASSUME NEW u \in Users, UserStart(u) \/ UserFinish(u) PROVE CloseInv'
  <2>1. UNCHANGED <<inMap, closes, writing, out, fin>>
    BY <1>9 DEF UserStart, UserFinish, UserSendTest, UserShutdownTest, Release,
      UserSendPush, UserShutdownStore, UserShutdownPush, chanVars, dataVars, ownVars
  <2>2. QED BY <2>1, CloseKept
<1>10. QED
  BY <1>1, <1>2, <1>3, <1>4, <1>5, <1>6, <1>7, <1>8, <1>9 DEF Next, LoopStep

-----------------------------------------------------------------------------
(* Every step keeps an owner for what still runs on the connection. *)

LEMMA AfterAppend ==
  ASSUME NEW q \in Seq(Functor), NEW f \in Functor
  PROVE  /\ Bare(Append(q, f)) => Bare(q) \/ ~Keeps(f)
         /\ Destroys(Append(q, f)) <=> Destroys(q) \/ f.op = "connectDestroyed"
<1> DEFINE r == Append(q, f)
<1>1. /\ Len(q) \in Nat /\ DOMAIN q = 1..Len(q) /\ DOMAIN r = 1..(Len(q) + 1)
      /\ \A i \in 1..Len(q) : r[i] = q[i]
      /\ r[Len(q) + 1] = f
  BY AppendProperties, LenProperties
<1> HIDE DEF r
<1>2. Bare(r) => Bare(q) \/ ~Keeps(f)
  BY <1>1 DEF Bare
<1>3. Destroys(q) => Destroys(r)
  BY <1>1 DEF Destroys
<1>4. f.op = "connectDestroyed" => Destroys(r)
  BY <1>1 DEF Destroys
<1>5. Destroys(r) => Destroys(q) \/ f.op = "connectDestroyed"
  BY <1>1 DEF Destroys
<1>6. QED BY <1>2, <1>3, <1>4, <1>5 DEF r

LEMMA AfterTail ==
  ASSUME NEW q \in Seq(Functor), q # <<>>
  PROVE  /\ Bare(Tail(q)) => Bare(q)
         /\ Destroys(q) <=> Head(q).op = "connectDestroyed" \/ Destroys(Tail(q))
         /\ ~Keeps(Head(q)) => Bare(q)
<1> DEFINE r == Tail(q)
<1>1. /\ Len(q) \in Nat \ {0} /\ DOMAIN q = 1..Len(q) /\ DOMAIN r = 1..(Len(q) - 1)
      /\ \A i \in 1..(Len(q) - 1) : r[i] = q[i + 1]
      /\ Head(q) = q[1]
  BY EmptySeq, HeadTailProperties, LenProperties
<1> HIDE DEF r
<1>2. Bare(r) => Bare(q)
  BY <1>1 DEF Bare
<1>3. ASSUME Destroys(q), q[1].op # "connectDestroyed" PROVE Destroys(r)
  <2>1. PICK i \in 1..Len(q) : q[i].op = "connectDestroyed"
    BY <1>1, <1>3 DEF Destroys
  <2>2. i - 1 \in 1..(Len(q) - 1) /\ (i - 1) + 1 = i
    BY <1>1, <1>3, <2>1
  <2>3. r[i - 1].op = "connectDestroyed"
    BY <1>1, <2>1, <2>2
  <2>4. QED BY <1>1, <2>2, <2>3 DEF Destroys
<1>4. ~Keeps(Head(q)) => Bare(q)
  BY <1>1 DEF Bare
<1>5. Head(q).op = "connectDestroyed" \/ Destroys(r) => Destroys(q)
  BY <1>1, SMTT(30) DEF Destroys
<1>6. QED BY <1>1, <1>2, <1>3, <1>4, <1>5 DEF r

(* The functors that sendInLoop queues hold the connection. *)
LEMMA AfterSend ==
  ASSUME NEW q \in Seq(Functor), NEW r,
         r \in {q, Append(q, Bind("writeComplete")), Append(q, Bind("highWaterMark"))}
  PROVE  (Bare(r) => Bare(q)) /\ (Destroys(q) <=> Destroys(r))
<1>1. /\ Bind("writeComplete") \in Functor /\ Bind("highWaterMark") \in Functor
      /\ Keeps(Bind("writeComplete")) /\ Keeps(Bind("highWaterMark"))
      /\ Bind("writeComplete").op # "connectDestroyed"
      /\ Bind("highWaterMark").op # "connectDestroyed"
  BY BoundFunctors DEF Keeps, Bind
<1>2. CASE r = q BY <1>2
<1>3. CASE r = Append(q, Bind("writeComplete"))
  BY <1>1, <1>3, AfterAppend
<1>4. CASE r = Append(q, Bind("highWaterMark"))
  BY <1>1, <1>4, AfterAppend
<1>5. QED BY <1>2, <1>3, <1>4

(* A destroyed connection has no owner, so no queued functor holds it. *)
LEMMA NoOwner ==
  ASSUME TypeOK, ~Alive
  PROVE  /\ ~inMap /\ held = {} /\ ~Destroys(pending)
         /\ \A i \in DOMAIN pending : ~Keeps(pending[i])
BY DEF TypeOK, Alive, Destroys, Keeps

(* A step that moves no functor and no pointer. *)
ownerVars == <<state, call, held, lapses, touched, pending, registered, writing, inMap,
               revents, phase>>

LEMMA OwnerKept ==
  ASSUME OwnerInv, UNCHANGED ownerVars
  PROVE  OwnerInv'
BY DEF OwnerInv, CallersHold, BareHasHolder, WillBeRemoved, ErasedFirst, EventsOfRegistered,
       BareThisOnly, Bare, Destroys, Keeps, ownerVars

LEMMA OwnerByUser ==
  ASSUME TypeOK, OwnerInv, NEW u \in Users, UserStart(u) \/ UserFinish(u)
  PROVE  OwnerInv'
<1>0. /\ UNCHANGED <<registered, writing, inMap, revents, phase, touched>>
      /\ call \in [Users -> Call] /\ pending \in Seq(Functor)
      /\ state' \in {state, "kDisconnecting"}
  BY DEF TypeOK, UserStart, UserFinish, UserSendTest, UserShutdownTest, Release,
    UserSendPush, UserShutdownStore, UserShutdownPush, chanVars, loopVars, ownVars
<1>1. EventsOfRegistered'
  BY <1>0 DEF OwnerInv, EventsOfRegistered
<1>2. CASE UserSendTest(u) \/ UserShutdownTest(u) \/ UserShutdownStore(u)
  <2>1. UNCHANGED <<held, pending, lapses>> /\ u \in held
    BY <1>2 DEF UserSendTest, UserShutdownTest, UserShutdownStore, ownVars, OwnerInv,
      CallersHold
  <2>2. \A v \in Users : v # u => call'[v] = call[v]
    BY <1>0, <1>2 DEF UserSendTest, UserShutdownTest, UserShutdownStore
  <2>3. CallersHold'
    BY <2>1, <2>2 DEF OwnerInv, CallersHold
  <2>4. QED BY <1>0, <1>1, <2>1, <2>3
    DEF OwnerInv, BareHasHolder, WillBeRemoved, ErasedFirst, BareThisOnly, Bare, Destroys,
        Keeps
<1>3. CASE UserSendPush(u) \/ UserShutdownPush(u)
  <2>1. /\ UNCHANGED <<held, lapses>> /\ u \in held
        /\ call' = [call EXCEPT ![u] = Idle]
    BY <1>3 DEF UserSendPush, UserShutdownPush, ownVars, OwnerInv, CallersHold
  <2>2. CallersHold' /\ BareHasHolder'
    BY <1>0, <2>1 DEF OwnerInv, CallersHold, BareHasHolder, Idle
  <2>3. PICK f \in Functor : pending' = Append(pending, f) /\ f.op # "connectDestroyed"
    <3>1. CASE UserSendPush(u)
      <4>1. call[u].msg \in Msgs
        BY <1>0, <3>1, CallFields DEF UserSendPush
      <4>2. QED BY <3>1, <4>1, BoundFunctors DEF UserSendPush, BindSend
    <3>2. CASE UserShutdownPush(u)
      BY <3>2, BoundFunctors DEF UserShutdownPush, Bind
    <3>3. QED BY <1>3, <3>1, <3>2
  <2>4. Destroys(pending) <=> Destroys(pending')
    BY <1>0, <2>3, AfterAppend
  <2>5. WillBeRemoved' /\ ErasedFirst'
    BY <1>0, <2>1, <2>4 DEF OwnerInv, WillBeRemoved, ErasedFirst, Destroys
  <2>6. QED BY <1>0, <1>1, <2>1, <2>2, <2>5 DEF OwnerInv, BareThisOnly
<1>4. CASE Release(u)
  <2>1. /\ call[u].op = "idle" /\ held' = held \ {u}
        /\ lapses' = (IF Bare(pending) THEN lapses \cup {"released"} ELSE lapses)
        /\ UNCHANGED <<call, pending>>
    BY <1>4 DEF Release, Bare, userVars
  <2>2. CallersHold'
    BY <2>1 DEF OwnerInv, CallersHold
  <2>3. /\ lapses \subseteq lapses' /\ ("revived" \in lapses' => "revived" \in lapses)
        /\ (Bare(pending') <=> Bare(pending)) /\ (Destroys(pending') <=> Destroys(pending))
    BY <2>1 DEF Bare, Destroys, Keeps
  <2>4. BareHasHolder' /\ WillBeRemoved' /\ ErasedFirst'
    BY <1>0, <2>1, <2>3 DEF OwnerInv, BareHasHolder, WillBeRemoved, ErasedFirst
  <2>5. BareThisOnly'
    BY <1>0, <2>3 DEF OwnerInv, BareThisOnly
  <2>6. QED BY <1>1, <2>2, <2>4, <2>5 DEF OwnerInv
<1>5. QED BY <1>2, <1>3, <1>4 DEF UserStart, UserFinish

(* The events of a poll, and of a channel whose handler is about to run. *)
LEMMA OwnerByEvents ==
  ASSUME TypeOK, OwnerInv, Poll \/ HandleEvent
  PROVE  OwnerInv'
<1>0. UNCHANGED <<state, call, held, lapses, pending, registered, writing, inMap>>
  BY DEF Poll, HandleEvent, userVars, ownVars, chanVars
<1>1. CallersHold' /\ BareHasHolder' /\ WillBeRemoved' /\ ErasedFirst'
  BY <1>0 DEF OwnerInv, CallersHold, BareHasHolder, WillBeRemoved, ErasedFirst, Bare,
    Destroys, Keeps
<1>2. CASE Poll
  <2>1. phase' = "events" /\ revents' = ReadyEvents /\ touched' = touched
    BY <1>2 DEF Poll, ownVars
  <2>2. ReadyEvents # {} => registered
    BY DEF ReadyEvents
  <2>3. QED BY <1>0, <1>1, <2>1, <2>2 DEF OwnerInv, EventsOfRegistered, BareThisOnly
<1>3. CASE HandleEvent
  <2>1. revents # {} /\ phase = "events" /\ registered
    BY <1>3 DEF HandleEvent, In, OwnerInv, EventsOfRegistered
  <2>2. CASE Alive
    <3>1. phase' = "handle" /\ UNCHANGED <<revents, touched>>
      BY <1>3, <2>2 DEF HandleEvent
    <3>2. QED BY <1>0, <1>1, <2>1, <3>1 DEF OwnerInv, EventsOfRegistered, BareThisOnly
  <2>3. CASE ~Alive
    <3>1. revents' = {} /\ touched' = touched \cup {"handleEvent"}
      BY <1>3, <2>3 DEF HandleEvent
    <3>2. "revived" \in lapses
      BY <2>1, <2>3, NoOwner DEF OwnerInv, WillBeRemoved
    <3>3. BareThisOnly'
      BY <1>0, <3>1, <3>2 DEF OwnerInv, BareThisOnly
    <3>4. EventsOfRegistered'
      BY <3>1 DEF EventsOfRegistered
    <3>5. QED BY <1>1, <3>3, <3>4 DEF OwnerInv
  <2>4. QED BY <2>2, <2>3
<1>4. QED BY <1>2, <1>3

(* Handling the events: the channel may leave the poller, never enter it. *)
LEMMA OwnerByHandlers ==
  ASSUME TypeOK, OwnerInv, EventHup \/ EventRead \/ EventWrite
  PROVE  OwnerInv'
<1>0. /\ UNCHANGED <<call, held, lapses, inMap, touched>>
      /\ phase' = "handle" /\ phase = "handle" /\ revents # {}
      /\ pending \in Seq(Functor) /\ state' \in {state, "kDisconnected"}
  BY DEF EventHup, EventRead, EventWrite, handleClose, In, userVars, ownVars, TypeOK
<1>1. CallersHold' /\ BareThisOnly'
  BY <1>0 DEF OwnerInv, CallersHold, BareThisOnly
<1>2. /\ (Bare(pending') => Bare(pending)) /\ (Destroys(pending) <=> Destroys(pending'))
      /\ registered' => registered
      /\ revents' # {} /\ writing' => registered'
  <2>1. CASE EventHup \/ EventRead
    <3>1. pending' = pending
      BY <2>1 DEF EventHup, EventRead
    <3>2. \/ registered' = FALSE /\ writing' = FALSE
          \/ UNCHANGED <<registered, writing>>
      BY <2>1 DEF EventHup, EventRead, handleClose, chanVars
    <3>3. writing => registered
      BY <1>0 DEF OwnerInv, EventsOfRegistered
    <3>4. QED BY <3>1, <3>2, <3>3 DEF Bare, Destroys, Keeps
  <2>2. CASE EventWrite
    <3>1. revents' = {}
      BY <2>2 DEF EventWrite
    <3>2. CASE UNCHANGED <<registered, pending>>
      BY <3>1, <3>2 DEF Bare, Destroys, Keeps
    <3>3. ASSUME writing, NEW n \in 1..Least(Len(out), room), handleWrite(n)
          PROVE  /\ (Bare(pending') => Bare(pending))
                 /\ (Destroys(pending) <=> Destroys(pending'))
                 /\ registered' => registered
      <4>1. registered
        BY <1>0, <3>3 DEF OwnerInv, EventsOfRegistered
      <4>2. pending' \in {pending, Append(pending, Bind("writeComplete"))}
        BY <3>3 DEF handleWrite
      <4>3. QED BY <1>0, <4>1, <4>2, AfterSend
    <3>4. QED BY <2>2, <3>1, <3>2, <3>3 DEF EventWrite
  <2>3. QED BY <2>1, <2>2
<1>3. BareHasHolder' /\ WillBeRemoved' /\ ErasedFirst'
  BY <1>0, <1>2 DEF OwnerInv, BareHasHolder, WillBeRemoved, ErasedFirst
<1>4. EventsOfRegistered'
  BY <1>0, <1>2 DEF EventsOfRegistered
<1>5. QED BY <1>1, <1>3, <1>4 DEF OwnerInv

LEMMA OwnerByFunctor ==
  ASSUME DataInv, OwnerInv, RunFunctor
  PROVE  OwnerInv'
<1> DEFINE f == Head(pending)
<1>0. /\ TypeOK /\ left > 0 /\ phase = "functors"
      /\ UNCHANGED <<phase, revents, call, inMap, held, touched>>
  BY DEF RunFunctor, In, userVars, DataInv, StreamIntact
<1>1. /\ f \in Functor /\ Tail(pending) \in Seq(Functor)
      /\ pending \in Seq(Functor) /\ pending # <<>>
  BY <1>0, RunHead DEF TypeOK
<1>2. CallersHold'
  BY <1>0 DEF OwnerInv, CallersHold
<1>3. EventsOfRegistered'
  BY <1>0 DEF OwnerInv, EventsOfRegistered
<1>4. CASE /\ f.op = "sendInLoop"
           /\ sendInLoop(Data(f.msg), Tail(pending))
           /\ lapses' = IF ~inMap /\ ~registered /\ registered'
                        THEN lapses \cup {"revived"} ELSE lapses
           /\ state' = state
  <2>1. Data(f.msg) \in Seq(Bytes) /\ Data(f.msg) # <<>>
    BY <1>1, <1>4, FunctorFields, DataResult
  <2>2. pending' \in {Tail(pending), Append(Tail(pending), Bind("writeComplete")),
                      Append(Tail(pending), Bind("highWaterMark"))}
    BY <1>4, <2>1, SendResult
  <2>3. (Bare(pending') => Bare(pending)) /\ (Destroys(pending) <=> Destroys(pending'))
    BY <1>1, <1>4, <2>2, AfterSend, AfterTail, ZenonT(30)
  <2>4. lapses \subseteq lapses' /\ ("released" \in lapses' => "released" \in lapses)
    BY <1>4
  <2>5. BareHasHolder'
    BY <1>0, <2>3, <2>4 DEF OwnerInv, BareHasHolder
  <2>6. WillBeRemoved' /\ ErasedFirst'
    BY <1>0, <1>4, <2>3 DEF OwnerInv, WillBeRemoved, ErasedFirst
  <2>7. BareThisOnly'
    BY <1>0, <2>4 DEF OwnerInv, BareThisOnly
  <2>8. QED BY <1>2, <1>3, <2>5, <2>6, <2>7 DEF OwnerInv
<1>5. CASE /\ f.op # "sendInLoop" /\ pending' = Tail(pending) /\ lapses' = lapses
           /\ \/ UNCHANGED <<state, registered>> /\ f.op # "connectDestroyed"
              \/ registered' = FALSE /\ state' # "kConnected"
  <2>1. /\ Bare(pending') => Bare(pending)
        /\ Destroys(pending) <=> f.op = "connectDestroyed" \/ Destroys(pending')
    BY <1>1, <1>5, AfterTail
  <2>2. BareHasHolder' /\ WillBeRemoved' /\ ErasedFirst' /\ BareThisOnly'
    BY <1>0, <1>5, <2>1
    DEF OwnerInv, BareHasHolder, WillBeRemoved, ErasedFirst, BareThisOnly
  <2>3. QED BY <1>2, <1>3, <2>2 DEF OwnerInv
<1>6. QED
  BY <1>4, <1>5 DEF RunFunctor, connectDestroyed, chanVars

LEMMA OwnerByStale ==
  ASSUME TypeOK, OwnerInv, RunStaleFunctor
  PROVE  OwnerInv'
<1>0. /\ left > 0 /\ ~Alive /\ phase = "functors"
      /\ UNCHANGED <<state, phase, revents, call, held, lapses, registered, writing, inMap>>
      /\ pending' = Tail(pending) /\ touched' = touched \cup {Head(pending).op}
  BY DEF RunStaleFunctor, In, userVars, chanVars
<1>1. Head(pending) \in Functor /\ pending \in Seq(Functor) /\ pending # <<>>
  BY <1>0, RunHead DEF TypeOK
<1>2. ~inMap /\ held = {} /\ ~Destroys(pending) /\ ~Keeps(Head(pending))
  <2>1. Head(pending) = pending[1] /\ 1 \in DOMAIN pending
    BY <1>1, EmptySeq, HeadTailProperties, LenProperties
  <2>2. QED BY <1>0, <2>1, NoOwner
<1>3. Bare(pending) /\ (Bare(pending') => Bare(pending))
  BY <1>0, <1>1, <1>2, AfterTail
<1>4. Head(pending).op \in {"sendInLoop", "shutdownInLoop"}
  BY <1>1, <1>2, FunctorFields DEF Keeps
<1>5. "released" \in lapses
  BY <1>2, <1>3 DEF OwnerInv, BareHasHolder
<1>6. BareThisOnly'
  BY <1>0, <1>4, <1>5 DEF OwnerInv, BareThisOnly
<1>7. CallersHold' /\ EventsOfRegistered' /\ BareHasHolder'
  BY <1>0, <1>5 DEF OwnerInv, CallersHold, EventsOfRegistered, BareHasHolder
<1>8. WillBeRemoved' /\ ErasedFirst'
  BY <1>0, <1>2 DEF OwnerInv, WillBeRemoved, ErasedFirst
<1>9. QED BY <1>6, <1>7, <1>8 DEF OwnerInv

(* A callback may call send: it does so on a connection that the server has. *)
LEMMA OwnerByCallback ==
  ASSUME DataInv, CloseInv, OwnerInv, CallbackSend
  PROVE  OwnerInv'
<1>0. /\ TypeOK /\ state = "kConnected" /\ sendInLoop(Data(sent + 1), pending)
      /\ UNCHANGED <<state, phase, revents, call, held, lapses, inMap, touched>>
  BY DEF CallbackSend, DataInv, StreamIntact, loopVars, ownVars
<1>1. sent + 1 \in Msgs
  BY SizesAssumption DEF CallbackSend, Msgs, DataInv, StreamIntact, TypeOK
<1>2. Data(sent + 1) \in Seq(Bytes) /\ Data(sent + 1) # <<>>
  BY <1>1, DataResult
<1>3. /\ pending' \in {pending, Append(pending, Bind("writeComplete")),
                       Append(pending, Bind("highWaterMark"))}
      /\ writing' /\ (writing => registered) => registered'
      /\ registered => registered'
  BY <1>0, <1>2, SendResult
<1>4. (Bare(pending') => Bare(pending)) /\ (Destroys(pending) <=> Destroys(pending'))
  <2>1. pending \in Seq(Functor)
    BY <1>0 DEF TypeOK
  <2>2. QED BY <1>3, <2>1, AfterSend
<1>5. inMap \/ Destroys(pending)
  BY <1>0 DEF OwnerInv, WillBeRemoved
<1>6. CallersHold' /\ BareHasHolder' /\ BareThisOnly'
  BY <1>0, <1>4 DEF OwnerInv, CallersHold, BareHasHolder, BareThisOnly
<1>7. WillBeRemoved' /\ ErasedFirst'
  BY <1>0, <1>4, <1>5 DEF OwnerInv, WillBeRemoved, ErasedFirst
<1>8. EventsOfRegistered'
  BY <1>0, <1>3 DEF OwnerInv, EventsOfRegistered
<1>9. QED BY <1>6, <1>7, <1>8 DEF OwnerInv

LEMMA OwnerByServer ==
  ASSUME TypeOK, OwnerInv, ServerRemoves \/ ServerDestructs
  PROVE  OwnerInv'
<1>0. /\ UNCHANGED <<phase, revents, call, held, lapses, touched, registered, writing>>
      /\ inMap' = FALSE /\ pending \in Seq(Functor)
      /\ \/ pending' = Append(pending, Bind("connectDestroyed"))
         \/ pending' = pending /\ UNCHANGED <<state, inMap>>
  BY DEF ServerRemoves, ServerDestructs, loopVars, userVars, chanVars, TypeOK
<1>1. Bind("connectDestroyed") \in Functor /\ Bind("connectDestroyed").op = "connectDestroyed"
        /\ Keeps(Bind("connectDestroyed"))
  BY BoundFunctors DEF Bind, Keeps
<1>2. (Bare(pending') => Bare(pending))
        /\ \/ Destroys(pending')
           \/ pending' = pending /\ UNCHANGED <<state, inMap>>
  BY <1>0, <1>1, AfterAppend
<1>3. CallersHold' /\ BareHasHolder' /\ BareThisOnly'
  BY <1>0, <1>2 DEF OwnerInv, CallersHold, BareHasHolder, BareThisOnly
<1>4. WillBeRemoved'
  BY <1>0, <1>2 DEF OwnerInv, WillBeRemoved, Destroys
<1>5. EventsOfRegistered' /\ ErasedFirst'
  BY <1>0 DEF OwnerInv, EventsOfRegistered, ErasedFirst
<1>6. QED BY <1>3, <1>4, <1>5 DEF OwnerInv

LEMMA OwnerStep == DataInv /\ CloseInv /\ OwnerInv /\ [Next]_vars => OwnerInv'
<1> SUFFICES ASSUME DataInv, CloseInv, OwnerInv, [Next]_vars PROVE OwnerInv'
  OBVIOUS
<1>0. TypeOK
  BY DEF DataInv, StreamIntact
<1>4. CASE CallbackShutdown
  <2>1. /\ UNCHANGED <<revents, call, held, lapses, touched, registered, writing, inMap,
                       pending, phase>>
        /\ state' = "kDisconnecting"
    BY <1>4 DEF CallbackShutdown, ownVars, chanVars, loopVars, userVars
  <2>2. QED BY <2>1 DEF OwnerInv, CallersHold, BareHasHolder, WillBeRemoved, ErasedFirst,
      EventsOfRegistered, BareThisOnly, Bare, Destroys, Keeps
<1>1. CASE CallbackReturns \/ PeerSends \/ PeerReads \/ PeerCloses
             \/ UNCHANGED vars
  <2>1. UNCHANGED ownerVars
    BY <1>1 DEF CallbackReturns, PeerSends, PeerReads, PeerCloses, vars,
      ownerVars, ownVars, chanVars, loopVars, userVars
  <2>2. QED BY <2>1, OwnerKept
<1>2. CASE Swap \/ EndBatch
  <2>1. /\ UNCHANGED <<state, revents, call, held, lapses, touched, registered, writing,
                       inMap, pending>>
        /\ revents = {}
    BY <1>2 DEF Swap, EndBatch, In, userVars, ownVars, chanVars, OwnerInv,
      EventsOfRegistered
  <2>2. QED BY <2>1 DEF OwnerInv, CallersHold, BareHasHolder, WillBeRemoved, ErasedFirst,
      EventsOfRegistered, BareThisOnly, Bare, Destroys, Keeps
<1>3. QED
  BY <1>0, <1>1, <1>2, <1>4, OwnerByUser, OwnerByEvents, OwnerByHandlers, OwnerByFunctor,
     OwnerByStale, OwnerByCallback, OwnerByServer DEF Next, LoopStep

-----------------------------------------------------------------------------
(* The results *)

LEMMA InitIInv == Init => IInv
<1> SUFFICES ASSUME Init PROVE IInv
  OBVIOUS
<1> USE DEF Init
<1>1. TypeOK
  <2>1. call \in [Users -> Call]
    BY DEF Call, Idle
  <2>2. /\ pending \in Seq(Functor) /\ left \in 0..Len(pending) /\ out \in Seq(Bytes)
        /\ accepted \in Seq(Bytes) /\ wire \in Seq(Bytes)
    BY EmptySeq
  <2>3. room \in 0..SndBuf /\ sent \in 0..NumMsgs
    BY SizesAssumption
  <2>4. QED BY <2>1, <2>2, <2>3 DEF TypeOK
<1>2. DataInv
  BY <1>1, SizesAssumption, EmptySeq, ConcatEmptySeq DEF DataInv, StreamIntact, HighWaterOnce
<1>3. CloseInv
  BY DEF CloseInv, WritingIffBuffered, FinAfterData, Closed
<1>4. OwnerInv
  BY EmptySeq, LenProperties
  DEF OwnerInv, CallersHold, BareHasHolder, WillBeRemoved, ErasedFirst, EventsOfRegistered,
      BareThisOnly, Bare, Destroys, Idle
<1>5. QED BY <1>2, <1>3, <1>4 DEF IInv

LEMMA Inductive == Spec => []IInv
<1>1. IInv /\ [Next]_vars => IInv'
  BY DataStep, CloseStep, OwnerStep DEF IInv
<1>2. QED BY <1>1, InitIInv, PTL DEF Spec

(* Nothing that sendInLoop took is lost, doubled or overtaken on its way to the
   socket, and every variable keeps its type. *)
THEOREM StreamKept == Spec => []StreamIntact
<1>1. IInv => StreamIntact
  BY DEF IInv, DataInv
<1>2. QED BY <1>1, Inductive, PTL

(* An open connection waits for EPOLLOUT exactly while bytes are buffered. *)
THEOREM NeitherSpinsNorStarves == Spec => []WritingIffBuffered
<1>1. IInv => WritingIffBuffered
  BY DEF IInv, CloseInv
<1>2. QED BY <1>1, Inductive, PTL

(* shutdown() never cuts off bytes that were buffered before it. *)
THEOREM ShutdownWaitsForData == Spec => []FinAfterData
<1>1. IInv => FinAfterData
  BY DEF IInv, CloseInv
<1>2. QED BY <1>1, Inductive, PTL

(* The high-water callback is queued once for each time the mark is reached. *)
THEOREM OneHighWaterCall == Spec => []HighWaterOnce
<1>1. IInv => HighWaterOnce
  BY DEF IInv, DataInv
<1>2. QED BY <1>1, Inductive, PTL

(* The destructor is overtaken only by what send and shutdown bind to the bare this. *)
THEOREM OnlyBareThisDangles == Spec => []BareThisOnly
<1>1. IInv => BareThisOnly
  BY DEF IInv, OwnerInv
<1>2. QED BY <1>1, Inductive, PTL
=============================================================================
